------------------------------ MODULE InlineAsm ------------------------------
(***************************************************************************)
(* asm() with operands: asm_instr() and, for each target, the choice of    *)
(* registers by asm_compute_constraints() and the code that asm_gen_code() *)
(* puts before and after the assembled text.                               *)
(*                                                                         *)
(* An operand has modifiers, constraint letters or a reference to an       *)
(* output, a name, and a place: "local" is a variable of the frame,        *)
(* "llocal" one behind a pointer that is in the frame (VT_LLOCAL), "const" *)
(* a constant, "symbol" the address of a symbol, "regvar" a variable that  *)
(* was declared in register rv.  Values are symbolic.                      *)
(***************************************************************************)
EXTENDS Integers, Sequences, FiniteSets, SequencesExt, FiniteSetsExt

None == -1

\* Registers keep the numbers that the assembler gives them; the general ones
\* are cut down to a few, on riscv64 the first and the last two of 10 .. 18.
I386 == [name |-> "i386", regs |-> <<0, 1, 2, 3>>, saved |-> {3}, reserved |-> {4, 5}]
Riscv64 == [name |-> "riscv64", regs |-> <<10, 17, 18>>, saved |-> {9, 18}, reserved |-> {}]
AllRegisters(arch) == Range(arch.regs) \cup arch.saved \cup arch.reserved

Fixed == [a |-> 0, b |-> 3, c |-> 1, d |-> 2]
XDX == 2

LetterPriority(arch, l) ==
    IF arch.name = "i386"
    THEN CASE l = "A" -> 0 [] l \in DOMAIN Fixed -> 1 [] l = "q" -> 2 [] l = "r" -> 3 [] OTHER -> 4
    ELSE IF l = "r" THEN 3 ELSE 4
ConstraintPriority(arch, op) == Max({0} \cup {LetterPriority(arch, l) : l \in Range(op.letters)})

-----------------------------------------------------------------------------
\* The operand that a reference names, by number or by name; 0 for none.
Digits == [n \in {"0", "1"} |-> IF n = "0" THEN 1 ELSE 2]
FindConstraint(ops, ref) ==
    IF ref \in DOMAIN Digits THEN IF Digits[ref] <= Len(ops) THEN Digits[ref] ELSE 0
    ELSE SelectInSeq(ops, LAMBDA o : o.id = ref)

Referenced(ops, i) == IF ops[i].ref = "" THEN 0 ELSE FindConstraint(ops, ops[i].ref)
InputIndex(ops, k) == {i \in DOMAIN ops : Referenced(ops, i) = k}

BadReference(ops, nout) ==
    \E i \in DOMAIN ops :
        /\ ops[i].ref # ""
        /\ \/ Referenced(ops, i) = 0 \/ Referenced(ops, i) >= i \/ i <= nout
           \/ \E j \in 1 .. i - 1 : ops[j].ref # "" /\ Referenced(ops, j) = Referenced(ops, i)

\* The variable of the operand lives in a register of its own choice.
IsRegvar(op) == op.ref = "" /\ op.loc = "regvar"
Priority(arch, op) ==
    CASE op.ref # "" -> 5 [] IsRegvar(op) -> 1 [] OTHER -> ConstraintPriority(arch, op)

\* Operands in the order in which they get registers: an exchange sort.
SortedOps(arch, ops) ==
    LET Place == [i \in DOMAIN ops |-> i]
        prio == [i \in DOMAIN ops |-> Priority(arch, ops[i])]
        Exchange(s, i, j) ==
            IF i < j /\ prio[s[j]] < prio[s[i]] THEN [s EXCEPT ![i] = s[j], ![j] = s[i]] ELSE s
    IN  FoldLeft(LAMBDA s, i : FoldLeft(LAMBDA t, j : Exchange(t, i, j), s, Place), Place, Place)

-----------------------------------------------------------------------------
\* used[r] says whether r is taken for an input, an output or both.
Both == {"in", "out"}
IsRegAllocated(used, r, mask) == used[r] \cap mask # {}

\* Which of its two uses a register must be free for.
RegMask(ops, nout, j) ==
    CASE ops[j].mods \cap {"+", "&"} # {} -> Both
      [] InputIndex(ops, j) # {} -> Both
      [] j <= nout -> {"out"}
      [] OTHER -> {"in"}

No == [ok |-> FALSE, reg |-> None, mem |-> FALSE, llong |-> FALSE, takes |-> {}]
Plain == [No EXCEPT !.ok = TRUE]
InRegister(r) == [Plain EXCEPT !.reg = r, !.takes = {r}]
FirstOf(regs) == IF regs = <<>> THEN No ELSE InRegister(Head(regs))

\* What one letter of a constraint gives: a register, the memory itself, or no.
Letter(arch, used, op, mask, output, l) ==
    LET Free(r) == ~IsRegAllocated(used, r, mask) IN
    CASE l = "A" /\ arch.name = "i386" ->
            IF Free(0) /\ Free(XDX) THEN [InRegister(0) EXCEPT !.llong = TRUE, !.takes = {0, XDX}] ELSE No
      [] l \in DOMAIN Fixed -> FirstOf(SelectSeq(<<Fixed[l]>>, Free))
      [] l = "q" -> FirstOf(SelectSeq(<<0, 1, 2, 3>>, Free))
      [] l = "r" -> IF IsRegvar(op) THEN InRegister(op.rv) ELSE FirstOf(SelectSeq(arch.regs, Free))
      [] l = "i" -> IF op.loc \in {"const", "symbol"} THEN Plain ELSE No
      [] l = "I" -> IF op.loc = "const" THEN Plain ELSE No
      [] l \in {"m", "g"} ->
            IF (output \/ l = "m") /\ op.loc = "llocal"
            THEN LET s == FirstOf(SelectSeq(arch.regs, LAMBDA r : "in" \notin used[r]))
                 IN  [s EXCEPT !.mem = TRUE]
            ELSE Plain
      [] OTHER -> No

\* A regvar of the i386 has its register whatever its letters are.
Fit(arch, used, op, mask, output) ==
    IF IsRegvar(op) /\ arch.name = "i386" THEN InRegister(op.rv)
    ELSE LET n == SelectInSeq(op.letters, LAMBDA l : Letter(arch, used, op, mask, output, l).ok)
         IN  IF n = 0 THEN No ELSE Letter(arch, used, op, mask, output, op.letters[n])

Unplaced == [reg |-> None, mem |-> FALSE, llong |-> FALSE]
Allocate(arch, ops, nout, x, j) ==
    LET op == ops[j]
        mask == RegMask(ops, nout, j)
        fit == Fit(arch, x.used, op, mask, j <= nout)
        as == IF fit.mem THEN {"in"} ELSE mask
    IN  IF op.ref # "" THEN x
        ELSE IF ~fit.ok \/ (IsRegvar(op) /\ IsRegAllocated(x.used, op.rv, mask)) THEN [x EXCEPT !.err = TRUE]
        ELSE [x EXCEPT !.used = [r \in DOMAIN @ |-> IF r \in fit.takes THEN @[r] \cup as ELSE @[r]],
                       !.at = [i \in DOMAIN @ |->
                                  CASE i = j -> [reg |-> fit.reg, mem |-> fit.mem, llong |-> fit.llong]
                                    [] i \in InputIndex(ops, j) -> [@[i] EXCEPT !.reg = fit.reg, !.llong = fit.llong]
                                    [] OTHER -> @[i]]]

\* Outputs behind pointers are stored through one more register.
NeedsOutReg(ops, x) == \E i \in DOMAIN ops : x.at[i].reg # None /\ ops[i].loc = "llocal" /\ ~x.at[i].mem
OutFree_Any(arch, x) == arch.regs
OutFree(arch, x) == SelectSeq(arch.regs, LAMBDA r : "out" \notin x.used[r])

AsmComputeConstraints(arch, ops, nout, clobbers) ==
    LET start == [used |-> [r \in AllRegisters(arch) |-> IF r \in clobbers \cup arch.reserved THEN Both ELSE {}],
                  at |-> [i \in DOMAIN ops |-> Unplaced], err |-> BadReference(ops, nout), outreg |-> None]
        x == FoldLeft(LAMBDA y, j : IF y.err THEN y ELSE Allocate(arch, ops, nout, y, j),
                      start, SortedOps(arch, ops))
        free == OutFree(arch, x)
    IN  IF x.err \/ ~NeedsOutReg(ops, x) THEN x
        ELSE IF free = <<>> THEN [x EXCEPT !.err = TRUE] ELSE [x EXCEPT !.outreg = Head(free)]

-----------------------------------------------------------------------------
\* The machine: registers, the operands' variables (two words, the second for
\* a long long) and the registers that were pushed.
IsRw(op) == "+" \in op.mods
Value(i) == <<"value", i>>
High(i) == <<"high", i>>
Pointer(i) == <<"pointer", i>>
Result(i) == <<"result", i>>
Old(r) == <<"old", r>>
Junk == <<"junk", 0>>

\* The registers that are pushed before and popped after.
UsedSaved(arch, x, clobbers) ==
    arch.saved \cap (clobbers \cup {x.at[i].reg : i \in DOMAIN x.at})

\* The operands that are loaded before the text, and those stored after it,
\* some of them through a pointer.
Loaded(ops, nout, x) ==
    {i \in DOMAIN ops : x.at[i].reg # None /\ ((ops[i].loc = "llocal" /\ x.at[i].mem)
                                                \/ i > nout \/ IsRw(ops[i]))}
Stored(ops, nout, x) == {i \in 1 .. nout : x.at[i].reg # None /\ ~(ops[i].loc = "llocal" /\ x.at[i].mem)}
Through(ops, nout, x) == {i \in Stored(ops, nout, x) : ops[i].loc = "llocal"}

\* On riscv64 load() and store() have numbers of their own, 0 .. 7 for a0 .. a7,
\* 8 .. 15 for fa0 .. fa7 and 17 for ra.  asm_gen_code() converts every register
\* but the one that an output is stored through.
TccIreg(r) == r - 10
TREG_RA == 17
IsIreg(r) == r \in 0 .. 7
IsFreg(r) == r \in 8 .. 15

\* load(), store(), ireg() or freg() meets a number that its assert() forbids:
\* an integer may be stored from a float register, and not loaded into one.
Asserts(arch, ops, nout, x) ==
    /\ arch = Riscv64
    /\ \/ \E i \in Loaded(ops, nout, x) : ~IsIreg(TccIreg(x.at[i].reg))
       \/ \E i \in Stored(ops, nout, x) :
             ~IsIreg(TccIreg(x.at[i].reg)) /\ ~IsFreg(TccIreg(x.at[i].reg))
       \/ Through(ops, nout, x) # {} /\ (~IsIreg(TccIreg(x.outreg)) \/ x.outreg # TREG_RA)

\* What store() takes from register r, and whether it finds the variable.
FromFloat(arch, r) == arch = Riscv64 /\ IsFreg(TccIreg(r))
StoredFrom(arch, regs, r) == IF FromFloat(arch, r) THEN Junk ELSE regs[r]

GenLoads(arch, ops, nout, x, m) ==
    LET Load(s, i) ==
          LET o == x.at[i] IN
          CASE ops[i].loc = "llocal" /\ o.mem -> [s EXCEPT ![o.reg] = Pointer(i)]
            [] o.llong -> [s EXCEPT ![o.reg] = Value(i), ![XDX] = High(i)]
            [] OTHER -> [s EXCEPT ![o.reg] = Value(i)]
    IN  [m EXCEPT !.regs = FoldLeft(Load, @, SetToSortSeq(Loaded(ops, nout, x), <))]

\* The pointer is loaded into outreg; on riscv64 the store goes through ra.
GenStores(arch, ops, nout, x, m) ==
    LET Store(s, i) ==
          LET o == x.at[i]
              through == ops[i].loc = "llocal"
              t == IF through THEN [s EXCEPT !.regs[x.outreg] = Pointer(i)] ELSE s
              v == StoredFrom(arch, t.regs, o.reg)
          IN  IF o.llong /\ ~through THEN [t EXCEPT !.mem[i] = v, !.hi[i] = t.regs[XDX]]
              ELSE IF through /\ arch = Riscv64 THEN t
              ELSE [t EXCEPT !.mem[i] = v]
    IN  FoldLeft(Store, m, SetToSortSeq(Stored(ops, nout, x), <))

AsmGenCode(arch, ops, nout, x, clobbers, m, after) ==
    LET saved == UsedSaved(arch, x, clobbers) IN
    IF ~after THEN GenLoads(arch, ops, nout, x, [m EXCEPT !.pushed = [r \in saved |-> m.regs[r]]])
    ELSE LET s == GenStores(arch, ops, nout, x, m)
         IN  [s EXCEPT !.regs = [r \in DOMAIN @ |-> IF r \in saved THEN m.pushed[r] ELSE @[r]]]

\* What the text has in place of %i, read or written: the register, what the
\* register points to (on riscv64 the text has to add the parentheses), or the
\* operand's own place.  Of a variable of the frame riscv64 prints the offset
\* and no base register, so what the text reads and writes is not the variable.
SubstAsmOperand(x, i) ==
    CASE x.at[i].reg # None /\ x.at[i].mem -> "through"
      [] x.at[i].reg # None -> "register"
      [] OTHER -> "place"
Baseless(arch, ops, x, i) ==
    arch = Riscv64 /\ SubstAsmOperand(x, i) = "place" /\ ops[i].loc \in {"local", "llocal"}
Read(arch, ops, x, m, i) ==
    LET how == SubstAsmOperand(x, i) IN
    CASE how = "register" -> m.regs[x.at[i].reg]
      [] how = "through" -> IF m.regs[x.at[i].reg] = Pointer(i) THEN m.mem[i] ELSE Junk
      [] OTHER -> IF Baseless(arch, ops, x, i) THEN Junk ELSE m.mem[i]
Write(arch, ops, x, m, i) ==
    LET how == SubstAsmOperand(x, i)
        r == x.at[i].reg
    IN  CASE how = "register" -> IF x.at[i].llong THEN [m EXCEPT !.regs[r] = Result(i), !.regs[XDX] = <<"result high", i>>]
                                 ELSE [m EXCEPT !.regs[r] = Result(i)]
          [] how = "through" -> IF m.regs[r] = Pointer(i) THEN [m EXCEPT !.mem[i] = Result(i)] ELSE m
          [] OTHER -> IF Baseless(arch, ops, x, i) THEN m ELSE [m EXCEPT !.mem[i] = Result(i)]

\* The text of the programmer, as hostile as the constraints let it be: it
\* destroys the clobbered registers and the early outputs first, then reads
\* all its inputs, then writes memory and at last its other outputs.
Early(ops, i) == "&" \in ops[i].mods /\ ~IsRw(ops[i]) /\ InputIndex(ops, i) = {}
Text(arch, ops, nout, x, clobbers, m) ==
    LET Destroyed == [m EXCEPT !.regs = [r \in DOMAIN @ |-> IF r \in clobbers THEN Junk ELSE @[r]]]
        Writes(s, P(_)) == FoldLeft(LAMBDA t, i : IF P(i) THEN Write(arch, ops, x, t, i) ELSE t, s, [i \in 1 .. nout |-> i])
        first == Writes(Destroyed, LAMBDA i : Early(ops, i) /\ SubstAsmOperand(x, i) = "register")
        reads == [i \in {j \in DOMAIN ops : j > nout \/ IsRw(ops[j])} |-> Read(arch, ops, x, first, i)]
        second == Writes(first, LAMBDA i : SubstAsmOperand(x, i) # "register")
    IN  [m |-> Writes(second, LAMBDA i : SubstAsmOperand(x, i) = "register" /\ ~Early(ops, i)), reads |-> reads]

\* An input behind a pointer is brought into the frame, unless it may stay in
\* memory; it is saved there before the text.
ParseAsmOperand(op, output) ==
    IF ~output /\ op.loc = "llocal" /\ "m" \notin Range(op.letters) THEN [op EXCEPT !.loc = "local"] ELSE op

\* The clobber list: None stands for "memory", "cc" and "flags".
AsmClobber(list) == list \ {None}

AsmInstr(arch, given, nout, list) ==
    LET ops == [i \in DOMAIN given |-> ParseAsmOperand(given[i], i <= nout)]
        clobbers == AsmClobber(list)
        x == AsmComputeConstraints(arch, ops, nout, clobbers)
        before == [regs |-> [r \in AllRegisters(arch) |-> Old(r)], pushed |-> <<>>,
                   mem |-> [i \in DOMAIN ops |-> Value(i)], hi |-> [i \in DOMAIN ops |-> High(i)]]
        text == Text(arch, ops, nout, x, clobbers, AsmGenCode(arch, ops, nout, x, clobbers, before, FALSE))
    IN  IF x.err \/ Asserts(arch, ops, nout, x) THEN [err |-> TRUE]
        ELSE [err |-> FALSE, x |-> x, ops |-> ops, reads |-> text.reads,
              end |-> AsmGenCode(arch, ops, nout, x, clobbers, text.m, TRUE)]

-----------------------------------------------------------------------------
\* Operands that do not arrive on riscv64: those in the frame that the text is
\* to reach in memory, outputs in x18, which are stored from fa0, and outputs
\* behind pointers that are not left in memory, which are stored through ra.
Astray(arch, ops, nout, x) ==
    {i \in DOMAIN ops : Baseless(arch, ops, x, i)}
      \cup {i \in Stored(ops, nout, x) :
               FromFloat(arch, x.at[i].reg) \/ (arch = Riscv64 /\ i \in Through(ops, nout, x))}

\* The text reads the value of every input, every output reaches its variable
\* and no other one changes, and the registers that a function must keep are
\* as before (but for the one that outputs behind pointers are stored through,
\* which asm_gen_code() does not count); all this but for the operands that go
\* astray.
OperandsArrive(arch, ops, nout, clobbers) ==
    LET e == AsmInstr(arch, ops, nout, clobbers)
        astray == Astray(arch, e.ops, nout, e.x)
    IN  e.err \/ /\ \A i \in DOMAIN e.reads \ astray : e.reads[i] = Value(i)
                 /\ \A i \in DOMAIN ops \ (astray \cap 1 .. nout) :
                        e.end.mem[i] = IF i <= nout THEN Result(i) ELSE Value(i)
                 /\ \A i \in 1 .. nout : e.x.at[i].llong => e.end.hi[i] = <<"result high", i>>
                 /\ \A r \in arch.saved \ {e.x.outreg} : e.end.regs[r] = Old(r)
=============================================================================
