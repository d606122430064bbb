----------------------------- MODULE MCCompiler -----------------------------
(***************************************************************************)
(* The compiler's parts that keep state, one at a time: every small        *)
(* expression and every small function, compiled and run; every small      *)
(* program for the symbol stacks; headers of up to MaxLines lines that are *)
(* included twice with something between.                                  *)
(*                                                                         *)
(* For the first two a state is a stack of trees, as a parser would build  *)
(* them: a step pushes a leaf or puts the trees on top under a new node.   *)
(* The properties compile what is there and compare a run of the code with *)
(* the meaning.  The variables x, y and p are at -1, -2 and -3 of the      *)
(* frame; p points to x.                                                   *)
(***************************************************************************)
EXTENDS Statements

CONSTANTS Parts,       \* the parts to explore
          MaxExprNodes, MaxStmtNodes, MaxLoops, MaxSteps, FrameSize,
          Names, Objects, Labels, MaxSyms, MaxScope,
          INCLUDE_STACK_SIZE, IFDEF_STACK_SIZE, MaxLines,
          Edges        \* whether an #include of a header may end a block

VARIABLES kind, trees, size,
          cc, scopes, fns, emitted, phase, env, ref,
          files, open, ifdef, defs, cached, flags, out, status

treeVars == <<trees, size>>
scopeVars == <<cc, scopes, fns, emitted, phase, env, ref>>
includeVars == <<files, open, ifdef, defs, cached, flags, out, status>>
vars == <<kind, treeVars, scopeVars, includeVars>>

-----------------------------------------------------------------------------
Line(d, a) == [d |-> d, a |-> a, file |-> "h"]
Include(a, e) == [d |-> "include", a |-> a, edge |-> e]

HeaderLines ==
    {Line("ifndef", "G"), Line("if", "H"), Line("else", "none"), Line("elif", "G"), Line("endif", "none"),
     Line("define", "G"), Line("undef", "G"), Line("text", "t"), Line("blank", "none"), Line("once", "none")}
    \cup {Include(a, e) : a \in {"g", "h"}, e \in Edges}

Balance(s) == Cardinality({k \in DOMAIN s : s[k].d \in {"ifdef", "ifndef", "if"}})
              - Cardinality({k \in DOMAIN s : s[k].d = "endif"})

\* Headers that are worth reading: few that end in the middle of a group.
Headers == {s \in UNION {[1 .. n -> HeaderLines] : n \in 0 .. MaxLines} :
               Balance(s) = 0 \/ Len(s) <= 2}

Between == {<<>>, <<Line("define", "G")>>, <<Line("undef", "G")>>, <<Line("define", "H")>>}

Twice ==
    {[main |-> <<Include("h", FALSE)>> \o b \o <<Include("h", FALSE)>>, h |-> s,
      g |-> <<Line("text", "u")>>] : s \in Headers, b \in Between}

Z == INSTANCE Scopes
I == INSTANCE Includes WITH Programs <- Twice, Main <- "main"

-----------------------------------------------------------------------------

X == [k |-> "var", c |-> -1]
Y == [k |-> "var", c |-> -2]
P == [k |-> "var", c |-> -3]
Star == [k |-> "deref", a |-> P]
Num(c) == [k |-> "const", c |-> c]
Op(op, a, b) == [k |-> "op", op |-> op, a |-> a, b |-> b]
Fun(args) == [k |-> "call", f |-> 1, es |-> args]
PostInc(a) == [k |-> "inc", a |-> a, post |-> TRUE, c |-> 1]
PreDec(a) == [k |-> "inc", a |-> a, post |-> FALSE, c |-> -1]
Assign(a, b) == [k |-> "assign", a |-> a, b |-> b]
Statement(e) == [k |-> "expr", e |-> e]
Empty == [k |-> "none"]

\* A comparison that both sides of an operator cannot disturb: no side
\* writes what the other one uses.
Variables == {-1, -2, -3}
Operands(e) ==
    CASE e.k \in {"var", "const"} -> {}
      [] e.k \in {"call", "and", "or"} -> Range(e.es)
      [] e.k = "cond" -> {e.c, e.a, e.b}
      [] e.k = "elvis" -> {e.c, e.b}
      [] e.k \in {"op", "assign", "opassign", "comma"} -> {e.a, e.b}
      [] OTHER -> {e.a}
RECURSIVE Uses(_), Writes(_)
Uses(e) == CASE e.k = "var" -> {e.c} [] e.k = "deref" -> Variables
             [] OTHER -> UNION {Uses(s) : s \in Operands(e)}
Writes(e) == UNION {Writes(s) : s \in Operands(e)}
               \cup IF e.k \notin {"inc", "assign", "opassign"} THEN {}
                    ELSE IF e.a.k = "var" THEN {e.a.c} ELSE Variables
Unordered(a, b) == Writes(a) \cap (Uses(b) \cup Writes(b)) = {} /\ Writes(b) \cap Uses(a) = {}
Lvalue(e) == e.k \in {"var", "deref"}

-----------------------------------------------------------------------------
NoScopes == cc = 0 /\ scopes = 0 /\ fns = 0 /\ emitted = 0 /\ phase = 0 /\ env = 0 /\ ref = 0
NoIncludes == /\ files = 0 /\ open = 0 /\ ifdef = 0 /\ defs = 0
              /\ cached = 0 /\ flags = 0 /\ out = 0 /\ status = 0

Init ==
    /\ kind \in Parts /\ trees = <<>> /\ size = 0
    /\ \/ kind \in {"expression", "function"} /\ NoScopes /\ NoIncludes
       \/ kind = "scopes" /\ Z!Init /\ NoIncludes
       \/ kind = "includes" /\ I!Init /\ NoScopes

Nth(i) == trees[Len(trees) - i]
Push1(t) == trees' = Append(trees, t)
Under1(n, t) == trees' = Append(SubSeq(trees, 1, Len(trees) - n), t)
Have(n) == Len(trees) >= n
Same == UNCHANGED <<kind, scopeVars, includeVars>>
Grow(max) == size < max /\ size' = size + 1 /\ Same

ExprLeaf ==
    /\ kind = "expression" /\ Len(trees) < 3 /\ Grow(MaxExprNodes)
    /\ \E e \in {X, Y, Num(0), Num(2), Num(3), Star, Fun(<<X>>), Op("lt", X, Y), PostInc(X),
                 Assign(Y, Num(2))} : Push1(e)

ExprUnary ==
    /\ kind = "expression" /\ Have(1) /\ Grow(MaxExprNodes)
    /\ \/ Under1(1, [k |-> "not", a |-> Nth(0)])
       \/ Under1(1, [k |-> "neg", a |-> Nth(0)])
       \/ Under1(1, Fun(<<Nth(0)>>))
       \/ Lvalue(Nth(0)) /\ \E e \in {PostInc(Nth(0)), PreDec(Nth(0)),
                                      [k |-> "deref", a |-> [k |-> "addr", a |-> Nth(0)]]} : Under1(1, e)

ExprBinary ==
    /\ kind = "expression" /\ Have(2) /\ UNCHANGED size /\ Same
    /\ LET a == Nth(1)
           b == Nth(0)
       IN  \/ \E op \in {"+", "-", "*", "lt", "eq", "ge"} : Unordered(a, b) /\ Under1(2, Op(op, a, b))
           \/ Unordered(a, b) /\ Under1(2, Fun(<<a, b>>))
           \/ \E k \in {"and", "or"} : Under1(2, [k |-> k, es |-> <<a, b>>])
           \/ Under1(2, [k |-> "comma", a |-> a, b |-> b])
           \/ Under1(2, [k |-> "elvis", c |-> a, b |-> b])
           \/ /\ Lvalue(a) /\ Writes(b) = {}
              /\ \E e \in {Assign(a, b), [k |-> "opassign", op |-> "+", a |-> a, b |-> b]} : Under1(2, e)

ExprTernary ==
    /\ kind = "expression" /\ Have(3) /\ UNCHANGED size /\ Same
    /\ \/ \E k \in {"and", "or"} : Under1(3, [k |-> k, es |-> <<Nth(2), Nth(1), Nth(0)>>])
       \/ Under1(3, [k |-> "cond", c |-> Nth(2), a |-> Nth(1), b |-> Nth(0)])

-----------------------------------------------------------------------------
Less == Op("lt", X, Num(2))
Both == [k |-> "and", es |-> <<Y, Less>>]
Add == Statement(Assign(Y, Op("+", X, Y)))
Return(e) == [k |-> "return", e |-> e]
For(i, c, n, a) == [k |-> "for", i |-> i, c |-> c, n |-> n, a |-> a]
Labelled(s) == {[k |-> "label", a |-> s], [k |-> "default", a |-> s]}
                 \cup {[k |-> "case", v1 |-> v[1], v2 |-> v[2], a |-> s] : v \in {<<0, 0>>, <<1, 2>>}}

StmtLeaf ==
    /\ kind = "function" /\ Len(trees) < 3 /\ Grow(MaxStmtNodes)
    /\ \E s \in {Statement(PostInc(X)), Add, Return(Op("-", X, Num(3))), Return(Empty), [k |-> "break"], [k |-> "continue"],
                 [k |-> "goto"]} \cup Labelled(Add) : Push1(s)

StmtUnary ==
    /\ kind = "function" /\ Have(1) /\ Grow(MaxStmtNodes)
    /\ LET a == Nth(0) IN
       \/ \E c \in {Num(0), Both} : Under1(1, [k |-> "if", c |-> c, a |-> a, b |-> Empty])
       \/ \E c \in {Num(1), Less} : Under1(1, [k |-> "while", c |-> c, a |-> a])
       \/ \E c \in {Num(0), Less} : Under1(1, [k |-> "do", c |-> c, a |-> a])
       \/ \E f \in {For(Y, Both, PostInc(X), a), For(Empty, Less, Empty, a),
                     For(Assign(Y, Num(2)), Empty, PostInc(X), a), For(Empty, Empty, Empty, a)} : Under1(1, f)
       \/ Under1(1, [k |-> "switch", c |-> X, a |-> a])
       \/ \E s \in Labelled(a) : Under1(1, s)

StmtBinary ==
    /\ kind = "function" /\ Have(2) /\ UNCHANGED size /\ Same
    /\ \/ \E c \in {Num(0), Num(1), Less} : Under1(2, [k |-> "if", c |-> c, a |-> Nth(1), b |-> Nth(0)])
       \/ Under1(2, [k |-> "{}", ss |-> <<Nth(1), Nth(0)>>])

Next == \/ ExprLeaf \/ ExprUnary \/ ExprBinary \/ ExprTernary
        \/ StmtLeaf \/ StmtUnary \/ StmtBinary
        \/ kind = "scopes" /\ Z!Next /\ UNCHANGED <<kind, treeVars, includeVars>>
        \/ kind = "includes" /\ I!Next /\ UNCHANGED <<kind, treeVars, scopeVars>>

Spec == Init /\ [][Next]_vars

-----------------------------------------------------------------------------
\* The functions that the compiler takes: breaks and cases are where they may
\* be, cases do not overlap, there is one label if there is any goto.
Within(s) == IF s.k = "switch" THEN {s.a} ELSE SubStatements(s)
Loops == {"while", "do", "for"}
RECURSIVE CaseList(_), Count(_, _), Placed(_, _, _, _), EndsInReturn(_), Leaves(_), ReturnLost(_, _)
Children(s) == CASE s.k = "{}" -> s.ss [] s.k = "if" -> <<s.a, s.b>>
                 [] Within(s) = {} -> <<>> [] OTHER -> <<s.a>>
CaseList(s) ==
    (IF s.k = "case" THEN <<s>> ELSE <<>>)
      \o (IF s.k = "switch" THEN <<>> ELSE FlattenSeq([i \in DOMAIN Children(s) |-> CaseList(Children(s)[i])]))
Count(s, k) == (IF s.k = k THEN 1 ELSE 0)
                 + FoldLeft(LAMBDA n, t : n + Count(t, k), 0, Children(s))
Placed(s, loop, brk, sw) ==
    /\ s.k = "break" => brk
    /\ s.k = "continue" => loop
    /\ s.k \in {"case", "default"} => sw
    /\ s.k = "switch" =>
          /\ Count(s.a, "default") <= 1
          /\ LET cs == CaseList(s.a)
             IN  \A i, j \in DOMAIN cs : i < j => cs[i].v2 < cs[j].v1 \/ cs[j].v2 < cs[i].v1
    /\ \A t \in Within(s) : Placed(t, loop \/ s.k \in Loops, brk \/ s.k \in Loops \cup {"switch"},
                                  sw \/ s.k = "switch")
Accepted(ss) ==
    LET s == [k |-> "{}", ss |-> ss] IN
    /\ Placed(s, FALSE, FALSE, FALSE)
    /\ Count(s, "label") <= 1 /\ (Count(s, "goto") > 0 => Count(s, "label") = 1)

\* The last statement of the function is a while or a switch that ends in a
\* return without braces around it; or, in main(), an `if' that does and that
\* may also be passed: the value is then overwritten by main's default.
Through == {"if", "while", "switch", "case", "default", "label"}
LastPart(s) == IF s.k = "if" /\ s.b # Empty THEN s.b ELSE s.a
EndsInReturn(s) == s.k = "return" \/ (s.k \in Through /\ EndsInReturn(LastPart(s)))
Leaves(s) ==
    CASE s.k = "return" -> TRUE
      [] s.k = "{}" -> Leaves(Last(s.ss))
      [] s.k = "if" -> Leaves(s.a) /\ Leaves(s.b)
      [] s.k \in {"case", "default", "label"} -> Leaves(s.a)
      [] OTHER -> FALSE
ReturnLost(s, func) ==
    /\ s.k \in Through
    /\ \/ ReturnLost(LastPart(s), func)
       \/ s.k \in {"while", "switch"} /\ EndsInReturn(s.a)
       \/ s.k = "if" /\ func = "main" /\ EndsInReturn(s) /\ ~Leaves(s)

Memory(x, y) == [l \in -FrameSize .. -1 |-> CASE l = -1 -> x [] l = -2 -> y [] l = -3 -> -1 [] OTHER -> Junk]
Ran(g, m) == Run(g.code, 1, [r \in Registers |-> Junk], m, MaxSteps)
SameVariables(m, n) == \A l \in Variables : m[l] = n[l]

ExpressionAgrees(e) ==
    LET g == Gv(Expr(Generator(-3, "int"), e), RcR(Iret)) IN
    /\ Len(g.vs) = 1 /\ g.n = 0
    /\ \A x \in {0, 2}, y \in 0 .. 1 :
          LET want == Meaning(e, Memory(x, y))
              got == Ran(g, Memory(x, y))
          IN  got.ok /\ got.ret = want.v /\ SameVariables(got.mem, want.m)

Functions == {"void", "int", "main"}
FunctionAgrees(ss, func) ==
    LET g == GenFunction(ss, -3, func) IN
    /\ g.vs = <<>> /\ g.n = 0
    /\ \A x \in 0 .. 2, y \in 0 .. 1 :
          LET want == Execute([k |-> "{}", ss |-> ss], Go(Memory(x, y), MaxLoops))
              got == Ran(g, Memory(x, y))
          IN  want.o # "stuck" =>
                /\ got.ok /\ SameVariables(got.mem, want.m)
                /\ want.o = "return" /\ func # "void" => got.ret = want.v
                /\ want.o = "run" /\ func = "main" => got.ret = 0

\* The code of an expression leaves its value in the result register and the
\* variables as the expression means, however few registers there are: values
\* that are spilled (save_reg), comparisons that became jumps (gvtst) and
\* temporaries that are used again (vstack_temp_local) are not mixed up.
ExpressionsAgree ==
    [][kind = "expression" /\ Len(trees') = 1 => ExpressionAgrees(trees'[1])]_vars

\* A function that block() compiled does what its statements mean: no jump
\* of a break, continue, goto, case or return is lost or goes elsewhere, and
\* code that can be reached is never left out (nocode_wanted).
FunctionsAgree ==
    [][kind = "function" /\ Accepted(trees') =>
          \A func \in Functions : ReturnLost(Last(trees'), func) \/ FunctionAgrees(trees', func)]_vars

\* "jump unless last stmt in top-level block": a return leaves the function.
ReturnsLeave ==
    [][kind = "function" /\ Accepted(trees') =>
          \A func \in {"void", "int"} : FunctionAgrees(trees', func)]_vars

\* A return that ends main() gives main's result, not the default that
\* check_func_return() puts at the closing brace.
MainReturns ==
    [][kind = "function" /\ Accepted(trees') =>
          ReturnLost(Last(trees'), "int") \/ FunctionAgrees(trees', "main")]_vars

\* An identifier means what the innermost scope that declares it says,
\* through shadowing, "extern" in blocks, implicit functions, assembler names
\* and statement expressions (sym_find(), external_sym(), sym_pop()).
LookupIsInnermost == kind = "scopes" => Z!LookupIsInnermost

\* A program is refused exactly for a conflicting or second definition, a
\* label that is placed twice or never (sym_push(), patch_type(), label_pop()).
OnlyConflictsRefused == kind = "scopes" => Z!OnlyConflictsRefused

\* A recorded inline function gets its code once if it is needed, however its
\* users come after it, and not otherwise (gen_inline_functions()).
InlineEmittedOnce == kind = "scopes" => Z!InlineEmittedOnce

\* Passing over a file that is included again, for its guard or for #pragma
\* once, leaves the text that is read as it is written ("no need to parse
\* the include", preprocess()).
SkippedFilesAddNothing == kind = "includes" => I!SkippedFilesAddNothing

\* The #endif that ends an included file counts as the end of its guard only
\* if it "was after a #ifdef at start of file" (next_nomacro1()).
FirstLine(s) == SelectSeq(s, LAMBDA l : l.d # "blank")[1]
GuardsAreFirst ==
    kind = "includes" =>
       \A e \in cached : e.ifndef # I!None =>
          FirstLine(files[e.name]).d = "ifndef" /\ FirstLine(files[e.name]).a = e.ifndef
=============================================================================
