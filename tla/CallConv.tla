------------------------------- MODULE CallConv -------------------------------
(***************************************************************************)
(* Calls on riscv64: where gfunc_call() puts each byte of an argument and  *)
(* where gfunc_prolog() and va_arg look for it, how a structure comes back *)
(* (gfunc_sret, gfunc_return, arch_transfer_ret_regs), and the frame that  *)
(* the prologue and gfunc_epilog() build and take down.                    *)
(*                                                                         *)
(* A type is a tree: a scalar, a structure of fields at offsets, a union   *)
(* or an array of a count.  A byte is <<"v", i, o>>, byte o of argument i, *)
(* <<"p", i, o>>, of a pointer to a copy of it, or Ext.                    *)
(***************************************************************************)
EXTENDS Integers, Sequences, FiniteSets, SequencesExt, FiniteSetsExt

CONSTANTS
    \* Argument registers of each kind; 8 in the code.
    ArgRegs

XLEN == 8
Ext == <<"x", 0, 0>>
AlignUp(n, a) == ((n + a - 1) \div a) * a

\* The low 12 bits of an immediate are signed.
Low(n) == ((n + 2048) % 4096) - 2048

Scalar(n, fl) == [k |-> "scalar", size |-> n, align |-> n, fl |-> fl]
LongDouble == Scalar(16, TRUE)
Field(ofs, t) == [ofs |-> ofs, t |-> t]
Struct(fs, size, align) == [k |-> "struct", size |-> size, align |-> align, fs |-> fs]
Array(c, t) == [k |-> "array", size |-> c * t.size, align |-> t.align, c |-> c, t |-> t]

-----------------------------------------------------------------------------
\* rc: how many registers (-1: none will do), of which class, and the part of
\* the value that goes into each.
Part(ofs, n) == [ofs |-> ofs, n |-> n]
NoParts == [n |-> 0, class |-> <<"int", "int">>, part |-> <<Part(0, 0), Part(0, 0)>>]
Memory(rc) == [rc EXCEPT !.n = -1]
Take(rc, class, ofs, n) ==
    [rc EXCEPT !.n = @ + 1, !.class[rc.n + 1] = class, !.part[rc.n + 1] = Part(ofs, n)]

RECURSIVE RegPassRec(_, _, _)
RegPassRec(t, rc, ofs) ==
    CASE t.k = "union" -> Memory(rc)
      [] t.k = "struct" -> FoldLeft(LAMBDA r, f : RegPassRec(f.t, r, ofs + f.ofs), rc, t.fs)
      [] t.k = "array" /\ t.c > 2 -> Memory(rc)
      [] t.k = "array" ->
            LET r == RegPassRec(t.t, rc, ofs) IN
            CASE r.n > 2 \/ (r.n = 2 /\ t.c > 1) -> Memory(r)
              [] t.c = 2 /\ r.n = 1 /\ r.class[1] = "float" -> Take(r, "float", ofs + t.t.size, t.t.size)
              \* rc[++rc[0]] with rc[0] = -1 writes the count itself
              [] t.c = 2 /\ r.n = -1 /\ r.class[1] = "float" ->
                    [r EXCEPT !.n = 2, !.part[2] = Part(ofs + t.t.size, t.t.size)]
              [] t.c = 2 -> Memory(r)
              [] OTHER -> r
      [] rc.n \in {2, -1} \/ t = LongDouble -> Memory(rc)
      [] rc.n = 0 \/ rc.class[1] = "float" \/ t.fl -> Take(rc, IF t.fl THEN "float" ELSE "int", ofs, t.size)
      [] OTHER -> Memory(rc)

PartSize(n) == CASE n <= 1 -> 1 [] n <= 2 -> 2 [] n <= 4 -> 4 [] OTHER -> 8
RegPass(t, named) ==
    LET rc == RegPassRec(t, NoParts, 0) IN
    IF rc.n > 0 /\ named THEN rc
    ELSE [NoParts EXCEPT !.n = (t.size + 7) \div 8,
                         !.part = <<Part(0, PartSize(t.size)), Part(8, PartSize(t.size - 8))>>]

-----------------------------------------------------------------------------
\* The caller.  ir and fr count the registers taken; ofs is where the next
\* argument goes in the stack.  adj and temp are counted before that, and are
\* the room that is made for the arguments and for the copies above them;
\* skips says that a word was left free for an argument's alignment, which adj
\* does not count.
ByRef(t) == t.size > 2 * XLEN
NoRegister(rc, ir, fr) ==
    \/ rc.class[1] = "int" /\ ir >= ArgRegs
    \/ rc.class[1] = "float" /\ fr >= ArgRegs
    \/ rc.n = 2 /\ rc.class = <<"float", "float">> /\ fr >= ArgRegs - 1
    \/ rc.n = 2 /\ rc.class[1] # rc.class[2] /\ (fr >= ArgRegs \/ ir >= ArgRegs)

\* The bytes of argument i that a load of a part brings into a register.
Loaded(i, t, part) ==
    [o \in 0 .. 7 |-> IF ByRef(t) THEN <<"p", i, o>>
                      ELSE IF o < part.n /\ part.ofs + o < t.size THEN <<"v", i, part.ofs + o>> ELSE Ext]
\* The same of a store of the whole argument into the stack.
StoreAt(stack, ofs, i, t) ==
    [b \in DOMAIN stack |->
        IF b \notin ofs .. ofs + (IF ByRef(t) THEN 8 ELSE t.size) - 1 THEN stack[b]
        ELSE <<IF ByRef(t) THEN "p" ELSE "v", i, b - ofs>>]

PutRegister(c, class, i, t, part) ==
    IF class = "int" THEN [c EXCEPT !.ireg[c.ir] = Loaded(i, t, part), !.ir = @ + 1]
    ELSE [c EXCEPT !.freg[c.fr] = Loaded(i, t, part), !.fr = @ + 1]

\* One vararg in the stack sends the others there too.
AfterStack(c, named) == IF named THEN c ELSE [c EXCEPT !.ir = ArgRegs, !.fr = ArgRegs]

\* A vararg of 16 bytes' alignment starts at an even register.
Prepared(c, t, named) ==
    [c EXCEPT !.ir = IF ~named /\ t.align = 2 * XLEN /\ ~ByRef(t) THEN AlignUp(@, 2) ELSE @,
              !.temp = IF ByRef(t) THEN AlignUp(@, Max({t.align, XLEN})) + t.size ELSE @]

PassArg(before, i, t, named) ==
    LET c == Prepared(before, t, named)
        rc == RegPass(t, named)
        size == IF ByRef(t) THEN 8 ELSE t.size
        align == IF ByRef(t) THEN XLEN ELSE Max({t.align, XLEN})
        at == AlignUp(c.ofs, align)
        one == PutRegister(c, rc.class[1], i, t, rc.part[1])
    IN  IF NoRegister(rc, c.ir, c.fr)
        THEN AfterStack([c EXCEPT !.stack = StoreAt(@, at, i, t), !.ofs = at + size,
                                  !.adj = @ + AlignUp(size, align), !.skips = @ \/ at # AlignUp(c.ofs, XLEN)], named)
        ELSE IF rc.n # 2 THEN one
        ELSE IF rc.class[2] = "float" \/ one.ir < ArgRegs
             THEN IF ByRef(t) THEN [one EXCEPT !.ir = @ + IF rc.class[2] = "int" THEN 1 ELSE 0,
                                               !.fr = @ + IF rc.class[2] = "float" THEN 1 ELSE 0]
                  ELSE PutRegister(one, rc.class[2], i, t, rc.part[2])
        ELSE [one EXCEPT !.stack = [b \in DOMAIN @ |->
                                       IF b \in one.ofs .. one.ofs + 7 THEN Loaded(i, t, rc.part[2])[b - one.ofs] ELSE @[b]],
                         !.ofs = @ + 8, !.adj = @ + 8]

\* gfunc_call walks the declared parameters along with the arguments.
GfuncCall(args, declared, room) ==
    FoldLeft(LAMBDA c, i : PassArg(c, i, args[i], i <= declared),
             [ir |-> 0, fr |-> 0, ofs |-> 0, adj |-> 0, temp |-> 0, skips |-> FALSE,
              ireg |-> [r \in 0 .. ArgRegs - 1 |-> [o \in 0 .. 7 |-> Ext]],
              freg |-> [r \in 0 .. ArgRegs - 1 |-> [o \in 0 .. 7 |-> Ext]], stack |-> [b \in 0 .. room - 1 |-> Ext]],
             [i \in DOMAIN args |-> i])

\* lui and addi of n, without the rounding that the sign of the low 12 bits
\* asks for.
LuiUnrounded(n) == (n \div 4096) * 4096 + Low(n)

\* How far sp is lowered before the call and raised after it.
StackAdd(c) == AlignUp(c.adj, 16) + AlignUp(c.temp, 16)
Lowered(n) == IF n < 4096 THEN n ELSE -LuiUnrounded(-n)
Raised(n) == IF n < 4096 THEN n ELSE LuiUnrounded(n)

\* addi refuses what does not fit into 12 bits.
MoveAsserts(n) == n \in 2048 .. 4095

-----------------------------------------------------------------------------
\* The callee.  mem[i] has the bytes that parameter i is read from.
Area(n) == [o \in 0 .. n - 1 |-> Ext]
Spill(mem, ofs, n, bytes) == [o \in DOMAIN mem |-> IF o \in ofs .. ofs + n - 1 THEN bytes[o - ofs] ELSE mem[o]]

\* Where the register of a part is stored: floats at the part's offset, the
\* others at full words.
PrologPart(p, i, t, rc, k) ==
    IF rc.class[k] = "int"
    THEN IF p.ir >= ArgRegs
         THEN [p EXCEPT !.mem[i] = Spill(@, (k - 1) * 8, 8, [o \in 0 .. 7 |-> p.stack[p.addr + o]]),
                        !.err = @ \/ p.addr % 8 # 0, !.addr = @ + 8]
         ELSE [p EXCEPT !.mem[i] = Spill(@, (k - 1) * 8, 8, p.ireg[p.ir]), !.ir = @ + 1]
    ELSE [p EXCEPT !.mem[i] = Spill(@, rc.part[k].ofs, IF t.size \div rc.n = 4 THEN 4 ELSE 8, p.freg[p.fr]),
                   !.fr = @ + 1]

PrologParam(p, i, type) ==
    LET t == IF ByRef(type) THEN Scalar(8, FALSE) ELSE type
        rc == RegPass(t, TRUE)
        at == AlignUp(p.addr, IF t.align < XLEN THEN XLEN ELSE t.align)
        q == [p EXCEPT !.mem[i] = Area(16)]
    IN  IF NoRegister(rc, p.ir, p.fr)
        THEN [p EXCEPT !.mem[i] = [o \in 0 .. t.size - 1 |-> p.stack[at + o]], !.addr = at + t.size]
        ELSE FoldLeft(LAMBDA s, k : PrologPart(s, i, t, rc, k), q, [k \in 1 .. rc.n |-> k])

\* A function that returns by reference has the pointer in its first register.
GfuncProlog(c, params, sret) ==
    LET start == [ir |-> IF sret THEN 1 ELSE 0, fr |-> 0, addr |-> 0, ireg |-> c.ireg, freg |-> c.freg,
                  stack |-> c.stack, mem |-> [i \in DOMAIN params |-> <<>>], err |-> FALSE]
    IN  FoldLeft(LAMBDA p, i : PrologParam(p, i, params[i]), start, [i \in DOMAIN params |-> i])

\* The registers that are left are saved right below the stack's arguments;
\* addresses here count from sp at the entry, which is a multiple of 16.
NumVaRegs(p) == ArgRegs - Min({p.ir, ArgRegs})
VaByte(p, b) == IF b < 0 THEN p.ireg[ArgRegs + b \div 8][b % 8] ELSE p.stack[b]
GenVaStart(p) == p.addr - 8 * NumVaRegs(p)

\* Mutant: a structure that is passed by reference is stepped over as a whole.
VaNext_ByValue(ap, t) == AlignUp(AlignUp(ap, t.align) + t.size, XLEN)

\* va_arg: the next place, and from it the place of the argument.
VaNext(ap, t) == IF ByRef(t) THEN ap + XLEN ELSE AlignUp(AlignUp(ap, t.align) + t.size, XLEN)

VaPlace(ap, t) == VaNext(ap, t) - IF ByRef(t) THEN XLEN ELSE AlignUp(t.size, XLEN)

-----------------------------------------------------------------------------
\* The scalars of a type, flat: what a program can read of a value.
RECURSIVE Leaves(_, _)
Leaves(t, ofs) ==
    CASE t.k = "scalar" -> {Part(ofs, t.size)}
      [] t.k = "array" -> UNION {Leaves(t.t, ofs + i * t.t.size) : i \in 0 .. t.c - 1}
      [] OTHER -> UNION {Leaves(t.fs[i].t, ofs + t.fs[i].ofs) : i \in DOMAIN t.fs}
Shows(Byte(_), i, t) ==
    IF ByRef(t) THEN \A o \in 0 .. 7 : Byte(o) = <<"p", i, o>>
    ELSE \A l \in Leaves(t, 0) : \A o \in l.ofs .. l.ofs + l.n - 1 : Byte(o) = <<"v", i, o>>

\* A hidden pointer comes first when the function returns by reference; the
\* walk along the declared parameters counts it as the first of them.
Hidden(sret) == IF sret THEN <<Scalar(8, FALSE)>> ELSE <<>>

\* Every parameter reads, byte for byte, as the argument that was passed, in
\* registers, in the stack or split over both, and va_arg steps through the
\* rest; gfunc_call() and gfunc_prolog() count registers and stack separately,
\* and what is stored in the stack stays in the room that was made for it.
ArgumentsArrive(args, declared, sret) ==
    LET all == Hidden(sret) \o args
        h == Len(Hidden(sret))
        c == GfuncCall(all, declared, 8 * 8)
        p == GfuncProlog(c, SubSeq(args, 1, declared), sret)
        Ap(i) == FoldLeft(VaNext, GenVaStart(p), SubSeq(args, declared + 1, i - 1))
    IN  \/ p.err
        \/ /\ c.ofs <= AlignUp(c.adj, 16)
           /\ \A i \in 1 .. declared : Shows(LAMBDA o : p.mem[i][o], i + h, args[i])
           /\ \A i \in declared + 1 .. Len(args) :
                 Shows(LAMBDA o : VaByte(p, VaPlace(Ap(i), args[i]) + o), i + h, args[i])

\* The calls that are taken apart from these (see the README): named arguments
\* in the stack of a variadic function that has registers left, or that do not
\* end at a full word; a last parameter with a float, or of 16 bytes' alignment,
\* behind a hidden pointer; an argument of 16 bytes' alignment that leaves a
\* word of the stack free.
Ordinary(args, declared, sret) ==
    LET p == GfuncProlog(GfuncCall(args, declared, 8 * 8), SubSeq(args, 1, declared), sret)
    IN  /\ ~GfuncCall(Hidden(sret) \o args, declared, 8 * 8).skips
        /\ Len(args) > declared => p.addr = 0 \/ (NumVaRegs(p) = 0 /\ p.addr % 8 = 0)
        /\ sret /\ declared > 0 =>
              /\ RegPass(args[declared], TRUE) = RegPass(args[declared], FALSE)
              /\ args[declared].align < 2 * XLEN

\* A call whose arguments take n bytes of stack leaves sp as it was, if it is
\* compiled at all.
SpKept(n) == MoveAsserts(n) \/ Lowered(n) = Raised(n)

\* From a page on the moves are right only for whole pages.
WholePages(n) == n < 4096 \/ n % 4096 = 0

-----------------------------------------------------------------------------
\* A structure comes back in registers when gfunc_sret() says so: the callee
\* loads and the caller stores the registers at multiples of the register's
\* size, or each part in its own class when the two classes differ.
GfuncSret(t) ==
    LET rc == RegPass(t, TRUE) IN
    IF t.size > 16 THEN [n |-> 0]
    ELSE IF rc.n = 2 /\ rc.class[1] # rc.class[2] THEN [n |-> -1, parts |-> rc.part]
    ELSE [n |-> rc.n, parts |-> [k \in 1 .. rc.n |->
             Part((k - 1) * (IF rc.class[1] = "float" THEN t.size \div rc.n ELSE 8), rc.part[1].n)]]

\* gfunc_return() and the code after the call, together.
Returned(t) ==
    LET s == GfuncSret(t) IN
    IF s.n = 0 THEN [o \in 0 .. t.size - 1 |-> <<"v", 0, o>>]
    ELSE FoldLeft(LAMBDA m, part : Spill(m, part.ofs, part.n, [o \in 0 .. 7 |-> <<"v", 0, part.ofs + o>>]),
                  Area(16), s.parts)

\* The caller of a function that returns a structure has all of it.
ReturnArrives(t) == LET m == Returned(t) IN \A l \in Leaves(t, 0) : \A o \in l.ofs .. l.ofs + l.n - 1 : m[o] = <<"v", 0, o>>

-----------------------------------------------------------------------------
\* The frame: v bytes, nva saved argument registers.  A large frame is made in
\* two steps, since an immediate has 12 bits.
Small(v) == v < 2048
\* lui and addi, rounded.
LuiAddi(n) == ((2048 + n) \div 4096) * 4096 + Low(n)
First(v) == IF Small(v) THEN v ELSE 16

Prologue(sp, v, nva) ==
    LET d == First(v)
        s == sp - d
    IN  [sp |-> IF Small(v) THEN s ELSE s - LuiAddi(v - 16), s0 |-> s + d - nva * 8,
         ra_at |-> s + d - 8 - nva * 8, s0_at |-> s + d - 16 - nva * 8]

\* alloca() has moved sp down by a; s0 has not moved.
GfuncEpilog(f, v, nva, a) ==
    LET d == First(v)
        sp == IF Small(v) THEN f.s0 - (v - nva * 8) ELSE f.sp - a + LuiAddi(v - 16)
    IN  [ra_from |-> sp + d - 8 - nva * 8, s0_from |-> sp + d - 16 - nva * 8, sp |-> sp + d]

\* The epilogue finds ra and s0 where the prologue put them and sp as it was.
FrameRestored(v, nva, a) ==
    LET f == Prologue(0, v, nva)
        e == GfuncEpilog(f, v, nva, a)
    IN  (Small(v) \/ a = 0) => e = [ra_from |-> f.ra_at, s0_from |-> f.s0_at, sp |-> 0]
=============================================================================
