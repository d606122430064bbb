----------------------------- MODULE SymbolTable ----------------------------
(***************************************************************************)
(* The linker's symbol table of compiler/tccelf.c: a growing table of      *)
(* symbols with a chained hash table beside it, the rules by which two     *)
(* symbols of one name become one, and the final sort.  Operators on       *)
(* tables; the module Linker holds one in its state.                       *)
(*                                                                         *)
(* A table t is a record: t.syms the symbols from index 1 on (index 0, the *)
(* null symbol, is left out), t.nbuckets, t.bucket and t.chain the hash    *)
(* table, t.hashed the field nb_hashed_syms, t.hashing whether s->hash is  *)
(* set.  A symbol has a name, a binding, a visibility, the ST_ASM_SET flag,*)
(* a section (or UNDEF, ABS, COMMON), a value and a size; `org' says which *)
(* file it came from and is not part of the code's symbol.                 *)
(***************************************************************************)
EXTENDS Integers, Sequences, FiniteSetsExt, SequencesExt

CONSTANTS
    SymNames,     \* the names of symbols
    ElfHash(_)    \* elf_hash()

ASSUME HashAssumption == \A n \in SymNames : ElfHash(n) \in Nat

UNDEF  == 0
ABS    == -1
COMMON == -2

\* STV_INTERNAL is 1, so that less is more constraining, but for DEFAULT.
DEFAULT == 0
INTERNAL == 1
HIDDEN == 2

IsLocal(y) == y.bind = "LOCAL"

\* new_symtab(): an empty table, one bucket.
EmptyTable ==
    [syms |-> <<>>, nbuckets |-> 1, bucket |-> [h \in {0} |-> 0],
     chain |-> <<>>, hashed |-> 0, hashing |-> TRUE]

Bucket(name, nb) == ElfHash(name) % nb

-----------------------------------------------------------------------------
\* The loop of rebuild_hash() puts the symbols that are not local at the
\* head of their chain in the order of the table.
RebuildHash(t, nb) ==
    LET n == Len(t.syms)
        In(h) == {i \in 1 .. n : ~IsLocal(t.syms[i]) /\ Bucket(t.syms[i].name, nb) = h}
    IN  [t EXCEPT
            !.nbuckets = nb,
            !.bucket = [h \in 0 .. nb - 1 |-> Max({0} \cup In(h))],
            !.chain = [i \in 1 .. n |->
                IF IsLocal(t.syms[i]) THEN 0
                ELSE Max({0} \cup {j \in In(Bucket(t.syms[i].name, nb)) : j < i})]]

\* put_elf_sym(): a new entry, and its place in the hash table.
PutElfSym(t, y) ==
    LET t1 == [t EXCEPT !.syms = Append(@, y)]
        h  == Bucket(y.name, t.nbuckets)
        t2 == [t1 EXCEPT !.chain = Append(@, t.bucket[h]),
                         !.bucket = [@ EXCEPT ![h] = Len(t1.syms)],
                         !.hashed = @ + 1]
    IN  CASE IsLocal(y) -> [t1 EXCEPT !.chain = Append(@, 0)]
          [] ~IsLocal(y) /\ t2.hashed > 2 * t2.nbuckets -> RebuildHash(t2, 2 * t2.nbuckets)
          [] OTHER -> t2

\* put_elf_sym() while a file is being compiled: there is no hash table, and
\* the chain does not grow with the symbols.
PutUnhashed(t, ys) == [t EXCEPT !.syms = @ \o ys]

\* The loop of find_elf_sym(): the first symbol of the name from symbol i
\* on along its chain, or 0.
Walk(t, name) ==
    LET from[i \in 0 .. Len(t.syms)] ==
            IF i = 0 \/ t.syms[i].name = name THEN i ELSE from[t.chain[i]]
    IN  from

\* find_elf_sym(): without a hash table nothing is found.
FindElfSym(t, name) ==
    IF t.hashing THEN Walk(t, name)[t.bucket[Bucket(name, t.nbuckets)]] ELSE 0

-----------------------------------------------------------------------------
(***************************************************************************)
(* set_elf_sym(): the symbol y meets the symbol e of its name.             *)
(***************************************************************************)
SameSym(e, y) ==
    /\ e.value = y.value /\ e.size = y.size /\ e.bind = y.bind
    /\ e.vis = y.vis /\ e.asm = y.asm /\ e.sec = y.sec

\* The more constraining visibility of the two.
MergeVis(v, w) ==
    CASE v = DEFAULT -> w
      [] w = DEFAULT -> v
      [] OTHER -> Min({v, w})

Tentative(sec, bss) == sec \in {COMMON, bss}

\* Mutant: a weak definition that comes later wins.
Overrides_WeakWins(e, y, bss) == y.sec # UNDEF /\ y.bind = "WEAK"

\* e is defined: y takes its place.
Overrides(e, y, bss) ==
    /\ y.sec # UNDEF
    /\ \/ y.bind = "GLOBAL" /\ e.bind = "WEAK"
       \/ /\ y.bind # "WEAK"
          /\ y.vis \notin {HIDDEN, INTERNAL}
          /\ \/ Tentative(e.sec, bss) /\ y.sec > 0 /\ y.sec # bss
             \/ ~Tentative(y.sec, bss) /\ e.asm

\* Both are definitions, and neither gives way: "defined twice".
Clash(e, y, bss) ==
    /\ e.sec # UNDEF /\ ~SameSym(e, y)
    /\ y.sec # UNDEF /\ y.bind = "GLOBAL" /\ e.bind = "GLOBAL"
    /\ y.vis \notin {HIDDEN, INTERNAL}
    /\ ~Tentative(e.sec, bss) \/ y.sec \in {ABS}
    /\ ~Tentative(y.sec, bss)
    /\ ~e.asm

\* e once it has met y.
Merged(e, y, bss) ==
    LET v == MergeVis(e.vis, y.vis) IN
    CASE SameSym(e, y) -> e
      [] ~SameSym(e, y) /\ e.sec = UNDEF -> y
      [] OTHER -> IF Overrides(e, y, bss) THEN [y EXCEPT !.vis = v, !.asm = e.asm]
                  ELSE [e EXCEPT !.vis = v]

\* The index that the name of y has, 0 if it is local or new.
Known(t, y) == IF IsLocal(y) THEN 0 ELSE FindElfSym(t, y.name)

SetElfSym(t, y, bss) ==
    LET i == Known(t, y) IN
    IF i = 0 THEN PutElfSym(t, y)
    ELSE [t EXCEPT !.syms[i] = Merged(@, y, bss)]

\* What set_elf_sym() returns, and whether it reports an error.
SymIndex(t, y) == IF Known(t, y) = 0 THEN Len(t.syms) + 1 ELSE Known(t, y)
DefinedTwice(t, y, bss) == Known(t, y) # 0 /\ Clash(t.syms[Known(t, y)], y, bss)

\* One after the other: the table after the first k of them.
SetInTurn(t, ys, bss) ==
    LET after[k \in 0 .. Len(ys)] ==
            IF k = 0 THEN t ELSE SetElfSym(after[k - 1], ys[k], bss)
    IN  after

\* The table in the end, the index of each, and how many were defined twice.
SetElfSyms(t, ys, bss) ==
    LET after == SetInTurn(t, ys, bss) IN
    [tab |-> after[Len(ys)],
     index |-> [k \in 1 .. Len(ys) |-> SymIndex(after[k - 1], ys[k])],
     errors |-> Cardinality({k \in 1 .. Len(ys) : DefinedTwice(after[k - 1], ys[k], bss)})]

\* sort_syms(): `new' has the symbols copied so far, in their new order, and
\* `to' is old_to_new_syms[].  A pass copies the symbols that are local, or
\* those that are not.
Copied(a, y, i) == [new |-> Append(a.new, y), to |-> [a.to EXCEPT ![i] = Len(a.new) + 1]]

SortStep(a, ys, i, local) ==
    IF IsLocal(ys[i]) <=> local THEN Copied(a, ys[i], i) ELSE a

SortPass(a, ys, local) ==
    LET after[i \in 0 .. Len(ys)] ==
            IF i = 0 THEN a ELSE SortStep(after[i - 1], ys, i, local)
    IN  after

SortedSyms(ys) ==
    LET start == [new |-> <<>>, to |-> [i \in DOMAIN ys |-> 0]]
        locals == SortPass(start, ys, TRUE)[Len(ys)]
    IN  SortPass(locals, ys, FALSE)[Len(ys)]

-----------------------------------------------------------------------------
\* The hash table is exact: the chains hold the symbols that are not local,
\* each on the chain of its own name, and a name has only one of them, so
\* that a lookup finds the symbol that all files have been merged into.
HashExact(t) ==
    /\ Len(t.chain) = Len(t.syms)
    /\ \A i \in DOMAIN t.syms :
          \/ IsLocal(t.syms[i]) /\ i \notin {t.bucket[h] : h \in DOMAIN t.bucket}
          \/ ~IsLocal(t.syms[i]) /\ FindElfSym(t, t.syms[i].name) = i
=============================================================================
