------------------------------ MODULE CodeGen ------------------------------
(***************************************************************************)
(* The one-pass code generator: the value stack (compiler/vstack.c), the   *)
(* register allocator (compiler/registers.c), expressions (expr.c and      *)
(* tccgen.c), constant folding (optimise.c) and the RISC-V instructions    *)
(* for them (risc/riscv64-gen.c).  Statements are in module Statements.    *)
(*                                                                         *)
(* Every operator takes the state of the generator and returns the next    *)
(* one; what the C function returns is in `val'.  A value is a word, and   *)
(* so is an instruction.  Types other than int and int *, structures, and  *)
(* values that take two registers are left out.                            *)
(***************************************************************************)
EXTENDS Integers, Sequences, SequencesExt, FiniteSets, FiniteSetsExt

CONSTANTS
    NB_REGS,                        \* integer registers that get_reg() may use
    MAX_TEMP_LOCAL_VARIABLE_NUMBER,
    ImmBound                        \* immediates are -ImmBound .. ImmBound - 1

ASSUME CodeGenAssumption ==
    /\ NB_REGS \in Nat \ {0, 1} /\ MAX_TEMP_LOCAL_VARIABLE_NUMBER \in Nat
    /\ ImmBound \in Nat \ {0, 1}

Registers == 0 .. NB_REGS - 1
RcInt == Registers
RcR(r) == {r}
Iret == 0      \* REG_IRET
ZeroReg == -1  \* x0

\* An SValue: where it is (k, r, c), whether that is an address to read it
\* from (lv), and the comparison or the jumps it stands for.
SV(k, r, lv, c) == [k |-> k, r |-> r, lv |-> lv, c |-> c, op |-> "none",
                    a |-> ZeroReg, b |-> ZeroReg, jt |-> 0, jf |-> 0]
Const(c) == SV("const", ZeroReg, FALSE, c)
Reg(r) == SV("reg", r, FALSE, 0)
Local(c) == SV("local", ZeroReg, TRUE, c)

\* cmp_op, and what `^ 1' makes of it
Constants == {"false", "true"}
Not(op) == CASE op = "false" -> "true" [] op = "true" -> "false"
             [] op = "eq" -> "ne" [] op = "ne" -> "eq"
             [] op = "lt" -> "ge" [] op = "ge" -> "lt"
             [] op = "gt" -> "le" [] op = "le" -> "gt"
IsCond(op) == op \in {"eq", "ne", "lt", "ge", "gt", "le"}
Truth(b) == IF b THEN "true" ELSE "false"

Apply(op, x, y) ==
    LET Bit(b) == IF b THEN 1 ELSE 0 IN
    CASE op = "+" -> x + y [] op = "-" -> x - y [] op = "*" -> x * y
      [] op = "shl" -> x * 2^y
      [] op = "eq" -> Bit(x = y) [] op = "ne" -> Bit(x # y)
      [] op = "lt" -> Bit(x < y) [] op = "ge" -> Bit(x >= y)
      [] op = "gt" -> Bit(x > y) [] op = "le" -> Bit(x <= y)

\* The generator at the start of a function whose variables take the frame
\* down to `loc'.  n and off are the parts of nocode_wanted: the number of
\* surrounding expressions that are not evaluated, and the bit that is set
\* after an unconditional jump.  func: what is known of the function from its
\* type and its name, "void", "int" or "main".
Generator(loc, func) ==
    [func |-> func, code |-> <<>>, vs |-> <<>>, loc |-> loc, temps |-> <<>>, n |-> 0, off |-> FALSE, val |-> 0,
     rsym |-> 0, bsym |-> 0, csym |-> 0, cases |-> <<>>, def |-> 0,
     label |-> [r |-> "none", jnext |-> 0]]

NoCode(g) == g.n > 0 \/ g.off
Ind(g) == Len(g.code) + 1
O(g, i) == IF NoCode(g) THEN g ELSE [g EXCEPT !.code = Append(@, i)]
Val(g, x) == [g EXCEPT !.val = x]

-----------------------------------------------------------------------------
\* Jumps.  A jump whose target is not known holds the place of the next one
\* of its list, 0 at the end.
Gjmp(g, t) ==
    IF NoCode(g) THEN Val(g, t)
    ELSE Val(O(g, [i |-> "j", to |-> t]), Ind(g))
CodeOff(g) == [g EXCEPT !.off = TRUE]
GjmpAcs(g, t) == CodeOff(Gjmp(g, t))
GjmpAddr(g, a) == O(g, [i |-> "j", to |-> a])
GjmpAddrAcs(g, a) == CodeOff(GjmpAddr(g, a))

RECURSIVE GsymAddr(_, _, _)
GsymAddr(g, t, a) ==
    IF t = 0 THEN g
    ELSE GsymAddr([g EXCEPT !.code[t].to = a], g.code[t].to, a)

\* Mutant: code stays off after a label that is jumped to.
Gsym_StaysOff(g, t) == GsymAddr(g, t, Ind(g))

\* A label that was used: code is wanted again.
Gsym(g, t) == IF t = 0 THEN g ELSE [GsymAddr(g, t, Ind(g)) EXCEPT !.off = FALSE]

Gind(g) == [Val(g, Ind(g)) EXCEPT !.off = FALSE]

\* gjmp_append(): list n with t behind it
RECURSIVE ListEnd(_, _)
ListEnd(g, n) == IF g.code[n].to = 0 THEN n ELSE ListEnd(g, g.code[n].to)
GjmpAppend(g, n, t) ==
    IF n = 0 THEN Val(g, t) ELSE Val([g EXCEPT !.code[ListEnd(g, n)].to = t], n)

\* gjmp_cond(): a branch over the jump
GjmpCond(g, op, t) ==
    LET v == Last(g.vs) IN
    Gjmp(O(g, [i |-> "skip", op |-> Not(op), a |-> v.a, b |-> v.b]), t)

-----------------------------------------------------------------------------
\* The value stack.
VTop(g) == Last(g.vs)
SetTop(g, v) == [g EXCEPT !.vs[Len(g.vs)] = v]
Under(g) == g.vs[Len(g.vs) - 1]
SetUnder(g, v) == [g EXCEPT !.vs[Len(g.vs) - 1] = v]
Push(g, v) == [g EXCEPT !.vs = Append(@, v)]
Vdup(g) == Push(g, VTop(g))
Drop(g) == [g EXCEPT !.vs = Front(@)]
VstackSwap(g) == [g EXCEPT !.vs = SubSeq(@, 1, Len(@) - 2) \o <<@[Len(@)], @[Len(@) - 1]>>]
VstackRotateBottom(g, n) ==
    [g EXCEPT !.vs = SubSeq(@, 1, Len(@) - n) \o SubSeq(@, Len(@) - n + 2, Len(@))
                       \o <<@[Len(@) - n + 1]>>]
VstackRotateTop(g, n) ==
    [g EXCEPT !.vs = SubSeq(@, 1, Len(@) - n) \o <<Last(@)>>
                       \o SubSeq(@, Len(@) - n + 1, Len(@) - 1)]

Holds(v, r) == v.k = "reg" /\ v.r = r
TempLocalIsFree(g, l) == \A i \in DOMAIN g.vs : ~(g.vs[i].k \in {"local", "llocal"} /\ g.vs[i].c = l)

\* Mutant: a slot is taken again while a value is in it.
VstackTempLocal_Any(g) ==
    IF g.temps = <<>> THEN [Val(g, g.loc - 1) EXCEPT !.loc = @ - 1, !.temps = <<g.loc - 1>>]
    ELSE Val(g, g.temps[1])

VstackTempLocal(g) ==
    LET free == {i \in DOMAIN g.temps : TempLocalIsFree(g, g.temps[i])}
        l == g.loc - 1
    IN  IF free # {} THEN Val(g, g.temps[Min(free)])
        ELSE [Val(g, l) EXCEPT !.loc = l,
                               !.temps = IF Len(@) < MAX_TEMP_LOCAL_VARIABLE_NUMBER
                                         THEN Append(@, l) ELSE @]

\* save_reg_upstack(): every entry that uses r, up to vtop - n, is in memory.
SaveRegUpstack(g, r, n) ==
    LET low == SubSeq(g.vs, 1, Len(g.vs) - n)
        t == VstackTempLocal(g)
        Saved(v) == [v EXCEPT !.k = IF v.lv THEN "llocal" ELSE "local", !.r = ZeroReg,
                              !.lv = TRUE, !.c = t.val]
        saved == FoldLeft(LAMBDA s, v : Append(s, IF Holds(v, r) THEN Saved(v) ELSE v), <<>>, low)
    IN  IF r = ZeroReg \/ NoCode(g) \/ \A i \in DOMAIN low : ~Holds(low[i], r) THEN g
        ELSE [O(t, [i |-> "st", k |-> "local", c |-> t.val, b |-> ZeroReg, a |-> r])
                EXCEPT !.vs = saved \o SubSeq(@, Len(@) - n + 1, Len(@))]
SaveReg(g, r) == SaveRegUpstack(g, r, 0)
SaveRegs(g, n) == FoldLeft(LAMBDA h, i : SaveReg(h, h.vs[i].r), g,
                           [i \in 1 .. Len(g.vs) - n |-> i])

\* get_reg(): a free one, or the first one from the bottom of the stack.
GetReg(g, rc) ==
    LET free == {r \in rc : NoCode(g) \/ \A i \in DOMAIN g.vs : ~Holds(g.vs[i], r)}
        users == {i \in DOMAIN g.vs : g.vs[i].k = "reg" /\ g.vs[i].r \in rc}
        r == g.vs[Min(users)].r
    IN  IF free # {} THEN Val(g, Min(free)) ELSE Val(SaveReg(g, r), r)

\* load() and store() of the RISC-V generator
Load(g, r, v) ==
    LET Ld(h, k, c, b) == O(h, [i |-> "ld", k |-> k, c |-> c, b |-> b, d |-> r])
        Li(h, c) == O(h, [i |-> "li", c |-> c, d |-> r])
    IN  CASE v.lv /\ v.k = "llocal" -> Ld(Ld(g, "local", v.c, ZeroReg), "reg", 0, r)
          [] v.lv /\ v.k # "llocal" -> Ld(g, v.k, v.c, v.r)
          [] ~v.lv /\ v.k = "const" -> Li(g, v.c)
          [] ~v.lv /\ v.k = "local" -> O(g, [i |-> "addr", c |-> v.c, d |-> r])
          [] ~v.lv /\ v.k = "reg" -> O(g, [i |-> "mv", a |-> v.r, d |-> r])
          [] v.k = "cmp" -> O(g, [i |-> "op", op |-> VTop(g).op, a |-> VTop(g).a,
                                  b |-> VTop(g).b, d |-> r])
          [] v.k = "jmp" ->
                LET g1 == Li(g, IF v.op = "true" THEN 1 ELSE 0)
                    g2 == Gsym(GjmpAddr(g1, Ind(g1) + 2), v.c)
                IN  Li(g2, IF v.op = "true" THEN 0 ELSE 1)

Store(g, r, v) == O(g, [i |-> "st", k |-> v.k, c |-> v.c, b |-> v.r, a |-> r])

-----------------------------------------------------------------------------
RECURSIVE Gv(_, _), VcheckCmp(_), Vset(_, _), Gvtst(_, _, _), GvtstSet(_, _, _), GenOp(_, _),
          GenOpic(_, _), GenOpil(_, _)

\* vcheck_cmp(): a comparison is never left below the top of the stack.
VcheckCmp(g) ==
    IF g.vs # <<>> /\ ~NoCode(g) /\ VTop(g).k = "cmp" THEN Gv(g, RcInt) ELSE g

Vset(g, v) == Push(VcheckCmp(g), v)
Vpushi(g, c) == Vset(g, Const(c))
Vswap(g) == VstackSwap(VcheckCmp(g))
Vrotb(g, n) == VstackRotateBottom(VcheckCmp(g), n)
Vrott(g, n) == VstackRotateTop(VcheckCmp(g), n)
Vpop(g) ==
    Drop(IF VTop(g).k = "cmp" THEN Gsym(Gsym(g, VTop(g).jt), VTop(g).jf) ELSE g)

VsetCmp(g, op, a, b) ==
    SetTop(g, [VTop(g) EXCEPT !.k = "cmp", !.r = ZeroReg, !.lv = FALSE, !.op = op,
                              !.a = a, !.b = b, !.jt = 0, !.jf = 0])

\* vset_VT_JMP(): a comparison with jumps is one of `mov 0' and `mov 1'.
VsetJmp(g) ==
    LET v == VTop(g)
        inv == v.op = "true"
        t == Gvtst(g, inv, 0)
    IN  CASE v.jt # 0 \/ v.jf # 0 -> Vset(t, [SV("jmp", ZeroReg, FALSE, t.val) EXCEPT !.op = Truth(inv)])
          [] v.jt = 0 /\ v.jf = 0 /\ v.op \in Constants ->
                SetTop(g, Const(IF v.op = "true" THEN 1 ELSE 0))
          [] OTHER -> g

\* gv(): the top of the stack in a register of class rc
Gv(g, rc) ==
    LET v == VTop(g)
        g1 == GetReg(g, rc)
        r == g1.val
        g2 == IF VTop(g1).k = "cmp" THEN VsetJmp(g1) ELSE g1
        g3 == Load(g2, r, VTop(g2))
    IN  IF v.k = "reg" /\ ~v.lv /\ v.r \in rc THEN Val(g, v.r)
        ELSE Val(SetTop(g3, Reg(r)), r)

\* gv2(): the two on top in registers, and both of them
Gv2(g, rc1, rc2) ==
    LET a == Gv(Vswap(Gv(Vswap(g), rc1)), rc2)
        b == Vswap(Gv(Vswap(Gv(g, rc2)), rc1))
        Lost(v) == v.k # "reg"
    IN  IF VTop(g).k # "cmp"
        THEN IF Lost(Under(a)) THEN Vswap(Gv(Vswap(a), rc1)) ELSE a
        ELSE IF Lost(VTop(b)) THEN Gv(b, rc2) ELSE b

GvDup(g) ==
    LET g1 == GetReg(Gv(g, RcInt), RcInt)
        g2 == Vdup(g1)
    IN  SetTop(Load(g2, g1.val, VTop(g2)), Reg(g1.val))

\* gvtst_set(), gvtst(): jump to list t if the value is true (false for inv)
GvtstSet(g, inv, t) ==
    LET g1 == IF VTop(g).k = "cmp" THEN g ELSE GenOp(Vpushi(g, 0), "ne")
        g2 == IF VTop(g1).k = "cmp" THEN g1
              ELSE VsetCmp(g1, Truth(VTop(g1).c # 0), ZeroReg, ZeroReg)
        v == VTop(g2)
        l == GjmpAppend(g2, IF inv THEN v.jf ELSE v.jt, t)
    IN  SetTop(l, IF inv THEN [v EXCEPT !.jf = l.val] ELSE [v EXCEPT !.jt = l.val])

Gvtst(g, inv, t0) ==
    LET g1 == GvtstSet(g, inv, t0)
        v == VTop(g1)
        t == IF inv THEN v.jf ELSE v.jt
        u == IF inv THEN v.jt ELSE v.jf
        g2 == CASE v.op \notin Constants -> GjmpCond(g1, IF inv THEN Not(v.op) ELSE v.op, t)
                [] v.op \in Constants /\ v.op # Truth(inv) -> GjmpAcs(g1, t)
                [] OTHER -> Val(g1, t)
    IN  Val(Drop(Gsym(g2, u)), g2.val)

GenTestZero(g, op) ==
    LET v == VTop(g) IN
    IF v.k # "cmp" THEN GenOp(Vpushi(g, 0), op)
    ELSE IF op # "eq" THEN g
    ELSE SetTop(g, [v EXCEPT !.jt = v.jf, !.jf = v.jt, !.op = Not(v.op)])

-----------------------------------------------------------------------------
\* gen_op() for two ints: comparisons are made values first.
GenOp(g, op) ==
    LET g1 == GenOpic(Vswap(Vswap(g)), op)
    IN  IF VTop(g1).lv THEN Gv(g1, RcInt) ELSE g1

IsConst(v) == v.k = "const" /\ ~v.lv

\* gen_opic(): constants are computed; operations that change nothing, or
\* that give a constant, are left out; a multiplication by 2^n is a shift.
Exponents(c) == {n \in 1 .. 30 : 2^n = c}
GenOpic(g, op) ==
    LET c1 == IsConst(Under(g))
        c2 == IsConst(VTop(g))
        swap == c1 /\ ~c2 /\ op \in {"+", "*", "eq", "ne"}
        h == IF swap THEN Vswap(g) ELSE g
        k2 == c2 \/ swap
        l2 == VTop(h).c
        x == Under(h)
    IN  CASE c1 /\ c2 -> SetTop(Drop(g), Const(Apply(op, Under(g).c, VTop(g).c)))
          [] k2 /\ ~(c1 /\ c2) /\ l2 = 0 /\ op = "*" -> Drop(Vswap(h))
          [] k2 /\ ~(c1 /\ c2) /\ ((l2 = 1 /\ op = "*") \/ (l2 = 0 /\ op \in {"+", "-"})) -> Drop(h)
          [] k2 /\ ~(c1 /\ c2) /\ l2 # 0 /\ op \in {"+", "-"} /\ x.k = "local" /\ ~x.lv ->
                LET d == Drop(h) IN SetTop(d, [VTop(d) EXCEPT !.c = @ + (IF op = "-" THEN -l2 ELSE l2)])
          [] k2 /\ ~(c1 /\ c2) /\ op = "*" /\ Exponents(l2) # {} ->
                GenOpil(SetTop(h, Const(Min(Exponents(l2)))), "shl")
          [] OTHER -> GenOpil(h, op)

\* gen_opil() of the RISC-V generator.  A comparison leaves its registers in
\* cmp_r; nothing marks them as used.  The operand beside a small constant is
\* put in a register, and one is taken for the result, before it turns out
\* that the operation has no form with an immediate.
GenOpil(g, op) ==
    LET v == VTop(g)
        small == IsConst(v) /\ -ImmBound <= v.c /\ v.c < ImmBound
        \* the operand that is not the constant, in a, and a register d
        g1 == Gv(Vswap(g), RcInt)
        a == g1.val
        g2 == GetReg(Drop(g1), RcInt)
        d == g2.val
        h == IF small THEN Vswap(Push(g2, VTop(g1))) ELSE g
        \* do_cop
        Cop(f, c) ==
            LET k == O(h, [i |-> "opi", op |-> f, a |-> a, c |-> c, d |-> d]) IN
            IF IsCond(op) THEN VsetCmp(Drop(k), "ne", d, ZeroReg)
            ELSE SetTop(Drop(k), Reg(d))
        less == GenOpil(h, Not(op))
        minus == GenOpil(h, "-")
        \* both in registers
        r2 == Gv2(h, RcInt, RcInt)
        ra == Under(r2).r
        rb == VTop(r2).r
        r3 == GetReg(Drop(Drop(r2)), RcInt)
        r4 == Push(r3, Reg(r3.val))
    IN  CASE small /\ op = "-" /\ v.c > -ImmBound -> Cop("+", -v.c)
          [] small /\ op = "le" /\ v.c < ImmBound - 1 -> Cop("lt", v.c + 1)
          [] small /\ op \in {"+", "lt", "shl"} -> Cop(op, v.c)
          [] small /\ op \in {"ge", "gt"} ->
                SetTop(less, [VTop(less) EXCEPT !.op = Not(@)])
          [] small /\ op \in {"eq", "ne"} ->
                IF v.c = 0 THEN VsetCmp(Drop(h), op, a, ZeroReg)
                ELSE VsetCmp(minus, op, VTop(minus).r, ZeroReg)
          [] OTHER ->
                IF IsCond(op) THEN VsetCmp(r4, op, ra, rb)
                ELSE O(r4, [i |-> "op", op |-> op, a |-> ra, b |-> rb, d |-> r3.val])

-----------------------------------------------------------------------------
\* vstore(): the top of the stack to the lvalue below it, of which the value
\* is left.  An address that was spilled is read again.
Vstore(g) ==
    LET g1 == Gv(g, RcInt)
        g2 == GetReg(g1, RcInt)
        r == g2.val
        g3 == IF Under(g1).k # "llocal" THEN g1
              ELSE SetUnder(Load(g2, r, Local(Under(g2).c)),
                            [Under(g2) EXCEPT !.k = "reg", !.r = r, !.c = 0])
    IN  Drop(Vswap(Store(g3, VTop(g3).r, Under(g3))))

\* gaddrof(), indir()
Gaddrof(g) ==
    LET v == VTop(g) IN
    SetTop(g, IF v.k = "llocal" THEN [v EXCEPT !.k = "local"] ELSE [v EXCEPT !.lv = FALSE])
Indir(g) ==
    LET h == IF VTop(g).lv THEN Gv(g, RcInt) ELSE g
    IN  SetTop(h, [VTop(h) EXCEPT !.lv = TRUE])

Inc(g, post, c) ==
    LET g1 == Vdup(g)
        g2 == IF post THEN Vrotb(Vrotb(GvDup(g1), 3), 3) ELSE g1
        g3 == Vstore(GenOp(Vpushi(g2, c), "+"))
    IN  IF post THEN Vpop(g3) ELSE g3

MoveReg(g, r, s) == IF r = s THEN g ELSE Load(SaveReg(g, r), r, Reg(s))

\* gfunc_call() for n arguments that fit in registers: the last one first,
\* and all that is left on the stack is saved.
RECURSIVE PlaceArgs(_, _, _)
PlaceArgs(g, n, i) ==
    IF i = n THEN g
    ELSE PlaceArgs(Vrott(Gv(Vrotb(g, i + 1), RcR(n - 1 - i)), i + 1), n, i + 1)
GfuncCall(g, n) ==
    LET g1 == SaveRegs(Vrotb(PlaceArgs(g, n, 0), n + 1), n + 1)
        g2 == O(g1, [i |-> "call", n |-> n, f |-> VTop(g1).c])
    IN  [g2 EXCEPT !.vs = SubSeq(@, 1, Len(@) - n - 1)]

\* condition_3way(): what is known of the condition on top of the stack
Condition3way(g) ==
    LET v == VTop(g) IN
    IF IsConst(v) THEN (IF v.c # 0 THEN 1 ELSE 0) ELSE -1
IsCondBool(v) == (IsConst(v) /\ v.c \in {0, 1}) \/ v.k = "cmp"

RECURSIVE Expr(_, _), LandOr(_, _, _, _, _, _)

\* expr_landor(): operand i is on the stack.  `sat': an operand has decided
\* the result, and the others are not evaluated.
LandOr(g, e, i, t, cc, sat) ==
    LET and == e.k = "and"
        one == IF and THEN 1 ELSE 0
        c == IF sat THEN one ELSE Condition3way(g)
        decides == c >= 0 /\ c # one
        g1 == CASE c < 0 -> SaveRegs(g, 1)
                [] decides -> [g EXCEPT !.n = @ + 1]
                [] OTHER -> g
        cc1 == cc /\ c >= 0
        sat1 == sat \/ decides
        g2 == IF c < 0 THEN Gvtst(g1, and, t) ELSE Val(Vpop(g1), t)
        fin == Gsym(Vpushi(Vpop(g1), IF and # sat1 THEN 1 ELSE 0), t)
    IN  CASE i < Len(e.es) -> LandOr(Expr([g2 EXCEPT !.val = 0], e.es[i + 1]), e, i + 1, g2.val,
                                     cc1, sat1)
          [] i = Len(e.es) /\ (cc1 \/ sat1) -> [fin EXCEPT !.n = IF sat1 THEN @ - 1 ELSE @]
          [] OTHER -> GvtstSet(g1, and, t)

\* expr_cond(): e.c ? e.a : e.b; the condition is on the stack.  gnu: e.c ?: e.b
ExprCond(g, e) ==
    LET c == Condition3way(g)
        gnu == e.k = "elvis"
        g1 == CASE ~gnu /\ c < 0 -> Gvtst(SaveRegs(g, 1), TRUE, 0)
                [] ~gnu /\ c >= 0 -> Val(Vpop(g), 0)
                [] gnu /\ c < 0 -> Gvtst(GvDup(SaveRegs(g, 1)), FALSE, 0)
                [] OTHER -> Val(g, 0)
        tt == g1.val
        g2 == [g1 EXCEPT !.n = IF c = 0 THEN @ + 1 ELSE @]
        g3 == IF gnu THEN g2 ELSE Expr(g2, e.a)
        t1 == Gvtst(g3, FALSE, 0)
        g4 == IF c < 0 /\ VTop(g3).k = "cmp"
              THEN Gv(GvtstSet(Vpushi(t1, 0), FALSE, t1.val), RcInt) ELSE g3
        sv == VTop(g4)
        g5 == Drop(g4)
        j == Gjmp(g5, 0)
        u == CASE gnu -> tt [] ~gnu /\ c < 0 -> j.val [] OTHER -> 0
        g6 == IF ~gnu /\ c < 0 THEN Gsym(j, tt) ELSE g5
        g7 == [g6 EXCEPT !.n = g1.n + (IF c = 1 THEN 1 ELSE 0), !.off = g1.off]
        g8 == Expr(g7, e.b)
        \* two conditions
        b1 == Gvtst(g8, FALSE, 0)
        b2 == Gjmp(b1, 0)
        b3 == GvtstSet(Push(Gsym(b2, u), sv), FALSE, b1.val)
        b4 == GvtstSet(b3, TRUE, b2.val)
        \* two values
        r2 == Gv(g8, RcInt)
        k == Gjmp(r2, 0)
        g9 == IF c < 0 THEN k ELSE g8
        g10 == [Gsym(g9, u) EXCEPT !.n = g1.n, !.off = g1.off]
        g11 == IF c # 0 THEN SetTop(g10, sv) ELSE g10
        r1 == Gv(g11, RcInt)
        m == MoveReg(r1, r2.val, r1.val)
    IN  CASE c < 0 /\ IsCondBool(VTop(g8)) /\ IsCondBool(sv) ->
                [b4 EXCEPT !.n = g1.n, !.off = g1.off]
          [] c < 0 /\ ~(IsCondBool(VTop(g8)) /\ IsCondBool(sv)) ->
                Gsym(SetTop(m, Reg(r2.val)), k.val)
          [] OTHER -> g11

\* An expression as the parser gives it: unary() and what follows the first
\* operand, expr_infix(), expr_eq() and gexpr().
ExprName(g, e) == Vset(g, Local(e.c))
ExprNegate(g, e) == GenOp(Vswap(Vpushi(Expr(g, e.a), 0)), "-")
ExprCall(g, e) ==
    Vset(GfuncCall(FoldLeft(Expr, Vset(g, Const(e.f)), e.es), Len(e.es)), Reg(Iret))
ExprInfix(g, e) == GenOp(Expr(Expr(g, e.a), e.b), e.op)
ExprEq(g, e) ==
    LET a == Expr(g, e.a) IN
    Vstore(IF e.k = "assign" THEN Expr(a, e.b) ELSE GenOp(Expr(Vdup(a), e.b), e.op))
Gexpr(g, e) == Expr(Vpop(Expr(g, e.a)), e.b)

Expr(g, e) ==
    CASE e.k = "const" -> Vpushi(g, e.c)
      [] e.k = "var" -> ExprName(g, e)
      [] e.k = "deref" -> Indir(Expr(g, e.a))
      [] e.k = "addr" -> Gaddrof(Expr(g, e.a))
      [] e.k = "not" -> GenTestZero(Expr(g, e.a), "eq")
      [] e.k = "neg" -> ExprNegate(g, e)
      [] e.k = "inc" -> Inc(Expr(g, e.a), e.post, e.c)
      [] e.k = "call" -> ExprCall(g, e)
      [] e.k = "op" -> ExprInfix(g, e)
      [] e.k \in {"and", "or"} -> LandOr(Expr(g, e.es[1]), e, 1, 0, TRUE, FALSE)
      [] e.k \in {"cond", "elvis"} -> ExprCond(Expr(g, e.c), e)
      [] e.k \in {"assign", "opassign"} -> ExprEq(g, e)
      [] e.k = "comma" -> Gexpr(g, e)

-----------------------------------------------------------------------------
\* The machine.  A call leaves nothing in the registers but its result.
Junk == 77
Callee(args) == FoldLeft(LAMBDA s, x : 3 * s + x, 1, args)
Frame(l) == l   \* the address of a place in the frame

RECURSIVE Run(_, _, _, _, _)
Run(code, pc, regs, mem, fuel) ==
    LET i == code[pc]
        R(r) == IF r = ZeroReg THEN 0 ELSE regs[r]
        Set(d, x) == [regs EXCEPT ![d] = x]
        Next1(rs, m) == Run(code, pc + 1, rs, m, fuel - 1)
        At == CASE i.k = "local" -> Frame(i.c) [] i.k = "reg" -> R(i.b) [] OTHER -> i.c
    IN  CASE fuel = 0 -> [ok |-> FALSE, ret |-> 0, mem |-> mem]
          [] fuel > 0 /\ pc > Len(code) -> [ok |-> TRUE, ret |-> regs[Iret], mem |-> mem]
          [] fuel > 0 /\ pc <= Len(code) ->
             CASE i.i = "li" -> Next1(Set(i.d, i.c), mem)
               [] i.i = "addr" -> Next1(Set(i.d, Frame(i.c)), mem)
               [] i.i = "mv" -> Next1(Set(i.d, R(i.a)), mem)
               [] i.i = "op" -> Next1(Set(i.d, Apply(i.op, R(i.a), R(i.b))), mem)
               [] i.i = "opi" -> Next1(Set(i.d, Apply(i.op, R(i.a), i.c)), mem)
               [] i.i = "ld" -> Next1(Set(i.d, IF At \in DOMAIN mem THEN mem[At] ELSE Junk), mem)
               [] i.i = "st" -> Next1(regs, IF At \in DOMAIN mem THEN [mem EXCEPT ![At] = R(i.a)]
                                            ELSE mem)
               [] i.i = "call" ->
                     Next1([r \in Registers |->
                               IF r = Iret THEN Callee([k \in 1 .. i.n |-> regs[k - 1]]) ELSE Junk],
                           mem)
               [] i.i = "skip" -> IF Apply(i.op, R(i.a), R(i.b)) = 1
                                  THEN Run(code, pc + 2, regs, mem, fuel - 1)
                                  ELSE Next1(regs, mem)
               [] i.i = "j" -> Run(code, i.to, regs, mem, fuel - 1)

-----------------------------------------------------------------------------
\* What an expression means, with left to right where C says so.
RECURSIVE Meaning(_, _)
Meaning(e, m) ==
    LET V(x, mem) == [v |-> x, m |-> mem]
        a == Meaning(e.a, m)
        b == Meaning(e.b, a.m)
        Lv(x, mem) == IF x.k = "var" THEN V(x.c, mem) ELSE Meaning(x.a, mem)   \* its address
        place == Lv(e.a, m)
        Set(mem, l, x) == [mem EXCEPT ![l] = x]
        First == Meaning(e.es[1], m)
        Rest == Meaning([e EXCEPT !.es = Tail(@)], First.m)
        args == FoldLeft(LAMBDA s, x : LET r == Meaning(x, s.m)
                                       IN  [v |-> Append(s.v, r.v), m |-> r.m], V(<<>>, m), e.es)
        cond == Meaning(e.c, m)
    IN  CASE e.k = "const" -> V(e.c, m)
          [] e.k = "var" -> V(m[e.c], m)
          [] e.k = "deref" -> V(a.m[a.v], a.m)
          [] e.k = "addr" -> place
          [] e.k = "not" -> V(IF a.v = 0 THEN 1 ELSE 0, a.m)
          [] e.k = "neg" -> V(-a.v, a.m)
          [] e.k = "inc" -> LET old == place.m[place.v]
                            IN  V(IF e.post THEN old ELSE old + e.c,
                                  Set(place.m, place.v, old + e.c))
          [] e.k = "call" -> V(Callee(args.v), args.m)
          [] e.k = "op" -> V(Apply(e.op, a.v, b.v), b.m)
          [] e.k \in {"and", "or"} ->
                IF (First.v # 0) # (e.k = "and") \/ Len(e.es) = 1
                THEN V(IF First.v # 0 THEN 1 ELSE 0, First.m) ELSE Rest
          [] e.k = "cond" -> IF cond.v # 0 THEN Meaning(e.a, cond.m) ELSE Meaning(e.b, cond.m)
          [] e.k = "elvis" -> IF cond.v # 0 THEN cond ELSE Meaning(e.b, cond.m)
          [] e.k = "assign" -> LET x == Meaning(e.b, place.m) IN V(x.v, Set(x.m, place.v, x.v))
          [] e.k = "opassign" ->
                LET x == Meaning(e.b, place.m)
                    y == Apply(e.op, x.m[place.v], x.v)
                IN  V(y, Set(x.m, place.v, y))
          [] e.k = "comma" -> b
=============================================================================
