------------------------------- MODULE Linker -------------------------------
(***************************************************************************)
(* The linker of compiler/tccelf.c as tcc.c drives it: files are compiled  *)
(* or loaded one after the other, archives member by member as they are    *)
(* needed; then common symbols get their place in .bss, a GOT is built,    *)
(* sections are laid out, symbols and relocations are given their values,  *)
(* and the file is written, to be loaded by the kernel's mm/elf.c.         *)
(*                                                                         *)
(* Abstracted: section contents are known by where they came from          *)
(* (`placed').  The relocation sections are one sequence `rels', with the  *)
(* number of the section that each applies to.  A relocation holds the     *)
(* symbol it was written for as `name' and `org', which the code does not  *)
(* keep, and ends with the value that is written for it.  Addends are      *)
(* zero.  Names, headers and strings are not laid out byte by byte.        *)
(***************************************************************************)
EXTENDS SymbolTable, ElfLoad

CONSTANTS
    CommandLines,  \* sequences of files: what the user asks for
    Runtime,       \* the libraries that tcc_add_runtime() adds
    OutputTypes,   \* subset of {"EXE", "OBJ"}
    HeaderSize,    \* of the ELF header and the program headers
    StartAddr,     \* ELF_START_ADDR
    TextAddrs,     \* addresses of -Ttext
    NoText,        \* no -Ttext
    PtrSize,
    LinkerSymbols, \* sequence of [name, sec, at], see tcc_add_linker_symbols()
    Entry          \* _start

ASSUME LinkerAssumption ==
    /\ {HeaderSize, StartAddr, PtrSize} \subseteq Nat
    /\ OutputTypes \subseteq {"EXE", "OBJ"}
    /\ TextAddrs \subseteq Nat \cup {NoText}

(***************************************************************************)
(* The files.  An object file f is [id, kind, secs, syms, rels] of kind    *)
(* "c" or "o"; its symbols and relocations count sections and symbols from *)
(* 1 on.  An archive is of kind "a" and has its object files in f.members. *)
(* `id' only tells files apart: a file that is named twice is two.         *)
(***************************************************************************)
IsSeq(q) == q \in Seq(Range(q))

ObjectFile(f) ==
    /\ IsSeq(f.secs) /\ IsSeq(f.syms) /\ IsSeq(f.rels)
    /\ \A k \in DOMAIN f.syms :
          /\ f.syms[k].name \in SymNames
          /\ f.syms[k].bind \in {"LOCAL", "GLOBAL", "WEAK"}
          /\ f.syms[k].sec \in DOMAIN f.secs \cup {UNDEF, ABS, COMMON}
    /\ \A k \in DOMAIN f.rels :
          f.rels[k].sec \in DOMAIN f.secs /\ f.rels[k].sym \in DOMAIN f.syms

\* The objects of a file: its members, or itself as number 0.
Objects(f) == IF f.kind = "a" THEN DOMAIN f.members ELSE {0}
ObjectOf(f, m) == IF f.kind = "a" THEN f.members[m] ELSE f

WellFormed(fs) ==
    /\ IsSeq(fs)
    /\ \A p \in DOMAIN fs :
          /\ fs[p].kind \in {"a", "c", "o"}
          /\ fs[p].kind = "a" => IsSeq(fs[p].members)
          /\ \A m \in Objects(fs[p]) : ObjectFile(ObjectOf(fs[p], m))
    /\ \A p, q \in DOMAIN fs : \A m \in Objects(fs[p]), n \in Objects(fs[q]) :
          ObjectOf(fs[p], m).id = ObjectOf(fs[q], n).id => p = q /\ m = n

ASSUME FilesAssumption ==
    \A c \in CommandLines : IsSeq(c) /\ IsSeq(Runtime) /\ WellFormed(c \o Runtime)

ASSUME SymbolsAssumption ==
    /\ IsSeq(LinkerSymbols)
    /\ \A k \in DOMAIN LinkerSymbols : LinkerSymbols[k].name \in SymNames
    /\ {"_GLOBAL_OFFSET_TABLE_", Entry} \subseteq SymNames

VARIABLES
    input,      \* files still to be added
    archive,    \* the archive being loaded: [file, i, bound, loaded]
    phase,
    options,    \* output_type and text_addr
    nb_errors,
    secs,       \* s1->sections from 1 on
    tab,        \* symtab_section and its hash
    rels,       \* the relocations
    got,        \* [sec, offset]: the GOT, 0 without one; sym_attrs[..].got_offset
    phdr,       \* the program headers
    placed,     \* where the sections of the input files went
    seen        \* the symbols of the input files

inVars  == <<input, archive, options>>
secVars == <<secs, placed>>
symVars == <<tab, rels, seen>>
outVars == <<got, phdr>>
vars == <<inVars, phase, nb_errors, secVars, symVars, outVars>>

NoArchive == [file |-> <<>>, i |-> 0, bound |-> 0, loaded |-> {}]

-----------------------------------------------------------------------------
(***************************************************************************)
(* Sections.                                                               *)
(***************************************************************************)
Section(name, type, flags) ==
    [name |-> name, type |-> type, flags |-> flags,
     align |-> IF type = "STRTAB" THEN 1 ELSE PtrSize, offset |-> 0, sh_size |-> 0, sh_addr |-> 0, sh_offset |-> 0]

\* tccelf_new(): the standard sections; the last two hold symbols and names.
StandardSections ==
    <<Section(".text", "PROGBITS", {"ALLOC", "EXEC"}),
      Section(".data", "PROGBITS", {"ALLOC", "WRITE"}),
      Section(".bss", "NOBITS", {"ALLOC", "WRITE"}),
      Section(".symtab", "SYMTAB", {}),
      Section(".strtab", "STRTAB", {})>>
Bss == 3

\* find_section(): the number of the section of that name, 0 if none.
SectionNum(ss, name) ==
    Max({0} \cup {i \in DOMAIN ss : ss[i].name = name})

AlignUp(x, a) == ((x + a - 1) \div a) * a

\* section_add(): `size' bytes at the next multiple of `align'.
SectionAdd(sec, size, align) ==
    [sec EXCEPT !.offset = AlignUp(@, align) + size, !.align = Max({@, align})]

-----------------------------------------------------------------------------
Init ==
    /\ input \in CommandLines
    /\ archive = NoArchive
    /\ phase = "files"
    /\ options \in [output_type : OutputTypes, text_addr : TextAddrs]
    /\ nb_errors = 0
    /\ secs = StandardSections
    /\ tab = EmptyTable
    /\ rels = <<>>
    /\ got = [sec |-> 0, offset |-> <<>>]
    /\ phdr = <<>>
    /\ placed = <<>>
    /\ seen = <<>>

-----------------------------------------------------------------------------
(***************************************************************************)
(* tcc_load_object_file().                                                 *)
(***************************************************************************)
\* The section of the linker that takes in section s of a file: an old one,
\* or a new one with the same properties.
WithSection(ss, s) ==
    IF SectionNum(ss, s.name) # 0 THEN ss
    ELSE Append(ss, [Section(s.name, s.type, s.flags) EXCEPT !.align = Max({1, s.align})])

\* The sections of f before the first one whose type contradicts the section
\* of that name: all of them, or the file is refused there.
Compatible(f) ==
    LET Bad(k) == \E i \in DOMAIN secs :
                     secs[i].name = f.secs[k].name /\ secs[i].type # f.secs[k].type
        bad == {k \in DOMAIN f.secs : Bad(k)}
    IN  IF bad = {} THEN f.secs ELSE SubSeq(f.secs, 1, Min(bad) - 1)

BadObject(f) == Compatible(f) # f.secs

\* The next piece of its section: section s of a file.
TakeIn(ss0, s) ==
    LET ss == WithSection(ss0, s) IN
    [ss EXCEPT ![SectionNum(ss, s.name)] = SectionAdd(@, s.size, Max({1, s.align}))]

\* The sections once the first k of a file's are in.
TakenIn(ss0, fsecs) ==
    LET after[k \in 0 .. Len(fsecs)] ==
            IF k = 0 THEN ss0 ELSE TakeIn(after[k - 1], fsecs[k])
    IN  after

\* The sections once those of f are in, and the piece of each.
Place(ss0, id, fsecs) ==
    LET after == TakenIn(ss0, fsecs)
        Piece(k) ==
            LET s == fsecs[k]
                n == SectionNum(after[k], s.name)
            IN  [file |-> id, num |-> k, sec |-> n, off |-> after[k][n].offset - s.size,
                 size |-> s.size, align |-> Max({1, s.align})]
    IN  [ss |-> after[Len(fsecs)], at |-> [k \in 1 .. Len(fsecs) |-> Piece(k)]]

\* The symbols of f with the numbers and offsets of the sections they are in.
Moved(f, at) ==
    [k \in DOMAIN f.syms |->
        LET y == f.syms[k] IN
        [name |-> y.name, bind |-> y.bind, vis |-> y.vis, asm |-> FALSE, size |-> y.size,
         sec |-> IF y.sec > 0 THEN at[y.sec].sec ELSE y.sec,
         value |-> IF y.sec > 0 THEN y.value + at[y.sec].off ELSE y.value,
         org |-> f.id]]

\* The relocations of f, now that symbol k is symbol index[k].
Rebased(f, at, index) ==
    [k \in DOMAIN f.rels |->
        LET r == f.rels[k] IN
        [sec |-> at[r.sec].sec, off |-> r.off + at[r.sec].off, kind |-> r.kind,
         sym |-> index[r.sym], name |-> f.syms[r.sym].name, org |-> f.id, value |-> 0]]

\* f is merged with what is there.
Merge(f) ==
    LET p == Place(secs, f.id, f.secs)
        ys == Moved(f, p.at)
        s == SetElfSyms(tab, ys, Bss)
    IN  /\ secs' = p.ss
        /\ placed' = placed \o p.at
        /\ tab' = s.tab
        /\ rels' = rels \o Rebased(f, p.at, s.index)
        /\ nb_errors' = nb_errors + s.errors
        /\ seen' = seen \o ys

\* f is refused, and what was merged before stays.
Refuse(f) ==
    /\ nb_errors' = nb_errors + 1
    /\ secs' = Place(secs, f.id, Compatible(f)).ss
    /\ UNCHANGED <<placed, symVars>>

-----------------------------------------------------------------------------
(***************************************************************************)
(* tcc_compile(): a C file.  Its symbols are put into the table without a  *)
(* hash table, and merged by tccelf_end_file(), which walks over them in   *)
(* place.                                                                  *)
(***************************************************************************)
\* tccelf_begin_file(), and put_extern_sym2() for each symbol.
Compiled(t, ys) == [PutUnhashed(t, ys) EXCEPT !.hashing = FALSE]

\* A static symbol that the file did not define becomes global.
EndBind(y) == IF y.sec = UNDEF /\ IsLocal(y) THEN [y EXCEPT !.bind = "GLOBAL"] ELSE y

\* Mutant: relocations keep the numbers they had during compilation.
EndFileIndex_Kept(t, first, index) == [k \in DOMAIN index |-> first + k]

\* tr[]: the numbers of the file's symbols in the merged table.
EndFileIndex(t, first, index) == index

\* tccelf_end_file(): the table is cut back to its old length and the
\* symbols after that are added again, each with what it has by then.
EndFile(t, first) ==
    SetElfSyms([t EXCEPT !.syms = SubSeq(@, 1, first), !.hashing = TRUE],
               [k \in 1 .. Len(t.syms) - first |-> EndBind(t.syms[first + k])], Bss)

CompileFile ==
    /\ phase = "files" /\ archive = NoArchive
    /\ input # <<>> /\ Head(input).kind = "c"
    /\ LET f == Head(input)
           p == Place(secs, f.id, f.secs)
           ys == Moved(f, p.at)
           first == Len(tab.syms)
           s == EndFile(Compiled(tab, ys), first)
       IN  /\ secs' = p.ss
           /\ placed' = placed \o p.at
           /\ tab' = s.tab
           /\ rels' = rels \o Rebased(f, p.at, EndFileIndex(tab, first, s.index))
           /\ nb_errors' = s.errors
           /\ seen' = seen \o [k \in DOMAIN ys |-> EndBind(ys[k])]
           /\ phase' = IF s.errors = 0 THEN phase ELSE "failed"
    /\ input' = Tail(input)
    /\ UNCHANGED <<archive, options, outVars>>

Adding == phase \in {"files", "runtime"}

\* What tcc.c does when a file was not added: main() stops, but
\* tcc_add_runtime() only has the error counted.
NotAdded == phase' = IF phase = "files" THEN "failed" ELSE phase

LoadObject ==
    /\ Adding /\ archive = NoArchive
    /\ input # <<>> /\ Head(input).kind = "o"
    /\ input' = Tail(input)
    /\ \/ /\ ~BadObject(Head(input))
          /\ Merge(Head(input))
          /\ UNCHANGED phase
       \/ /\ BadObject(Head(input))
          /\ Refuse(Head(input))
          /\ NotAdded
    /\ UNCHANGED <<archive, options, outVars>>

-----------------------------------------------------------------------------
(***************************************************************************)
(* tcc_load_archive() and tcc_load_alacarte(); tcc_tool_ar() made the      *)
(* index of the archive.                                                   *)
(***************************************************************************)
\* The index: a name for every symbol of member k that is defined and not
\* local, after those that are there already.
Entered(es, y, k) ==
    IF y.sec # UNDEF /\ ~IsLocal(y) THEN Append(es, [name |-> y.name, member |-> k]) ELSE es

Entries(es, ys, k) ==
    LET upto[j \in 0 .. Len(ys)] == IF j = 0 THEN es ELSE Entered(upto[j - 1], ys[j], k)
    IN  upto

\* The index once k members are in it.
IndexUpTo(f) ==
    LET upto[k \in 0 .. Len(f.members)] ==
            IF k = 0 THEN <<>>
            ELSE Entries(upto[k - 1], f.members[k].syms, k)[Len(f.members[k].syms)]
    IN  upto
ArIndex(f) == IndexUpTo(f)[Len(f.members)]

\* Mutant: any definition that is there will do.
Wanted_UndefOnly(a, i) ==
    LET e == ArIndex(a.file)[i]
        s == FindElfSym(tab, e.name)
    IN  /\ e.member \notin a.loaded
        /\ s # 0 /\ tab.syms[s].sec = UNDEF

\* Entry i names a member that is not loaded yet and defines a symbol that
\* is undefined or weak so far.
Wanted(a, i) ==
    LET e == ArIndex(a.file)[i]
        s == FindElfSym(tab, e.name)
    IN  /\ e.member \notin a.loaded
        /\ s # 0 /\ (tab.syms[s].sec = UNDEF \/ tab.syms[s].bind = "WEAK")

OpenArchive ==
    /\ Adding /\ archive = NoArchive
    /\ input # <<>> /\ Head(input).kind = "a"
    /\ archive' = [file |-> Head(input), i |-> 1, bound |-> 0, loaded |-> {}]
    /\ input' = Tail(input)
    /\ UNCHANGED <<options, phase, nb_errors, secVars, symVars, outVars>>

\* The walk over the index comes to the next entry that is wanted.
LoadMember ==
    /\ archive # NoArchive
    /\ \E i \in archive.i .. Len(ArIndex(archive.file)) :
          LET m == ArIndex(archive.file)[i].member
              f == archive.file.members[m]
          IN  /\ Wanted(archive, i)
              /\ \A k \in archive.i .. i - 1 : ~Wanted(archive, k)
              /\ \/ /\ ~BadObject(f)
                    /\ Merge(f)
                    /\ archive' = [archive EXCEPT !.i = i + 1, !.bound = @ + 1,
                                                  !.loaded = @ \cup {m}]
                    /\ UNCHANGED phase
                 \/ /\ BadObject(f)
                    /\ Refuse(f)
                    /\ archive' = NoArchive
                    /\ NotAdded
    /\ UNCHANGED <<input, options, outVars>>

\* The end of the index: once more from its start if a member was loaded.
EndOfIndex ==
    /\ archive # NoArchive
    /\ \A k \in archive.i .. Len(ArIndex(archive.file)) : ~Wanted(archive, k)
    /\ archive' = IF archive.bound > 0 THEN [archive EXCEPT !.i = 1, !.bound = 0]
                  ELSE NoArchive
    /\ UNCHANGED <<input, options, phase, nb_errors, secVars, symVars, outVars>>

-----------------------------------------------------------------------------
(***************************************************************************)
(* elf_output_file().                                                      *)
(***************************************************************************)
\* The errors counted so far are forgotten.
StartOutput ==
    /\ phase = "files" /\ archive = NoArchive /\ input = <<>>
    /\ nb_errors' = 0
    /\ IF options.output_type = "EXE"
       THEN phase' = "runtime" /\ input' = Runtime
       ELSE phase' = "layout" /\ UNCHANGED input
    /\ UNCHANGED <<archive, options, secVars, symVars, outVars>>

\* The place that resolve_common_syms() gives to the common symbols, in the
\* order of the table: .bss after symbol i.
BssAfter(ss0, t) ==
    LET bss[i \in 0 .. Len(t.syms)] ==
            IF i = 0 THEN ss0[Bss]
            ELSE IF t.syms[i].sec = COMMON
            THEN SectionAdd(bss[i - 1], t.syms[i].size, t.syms[i].value)
            ELSE bss[i - 1]
    IN  bss

CommonPlaced(ss0, t) ==
    LET bss == BssAfter(ss0, t)
        Settled(i) ==
            LET y == t.syms[i] IN
            IF y.sec # COMMON THEN y
            ELSE [y EXCEPT !.sec = Bss, !.value = bss[i].offset - y.size]
    IN  [ss |-> [ss0 EXCEPT ![Bss] = bss[Len(t.syms)]],
         t |-> [t EXCEPT !.syms = [i \in DOMAIN @ |-> Settled(i)]]]

\* set_global_sym() for a symbol that the linker provides; a section that is
\* not there is made, empty, by find_section().
LinkerSymAdded(a, d) ==
    LET ss == WithSection(a.ss, [name |-> d.sec, type |-> "PROGBITS",
                                 flags |-> {"ALLOC"}, align |-> PtrSize])
        n == SectionNum(ss, d.sec)
        y == [name |-> d.name, bind |-> "GLOBAL", vis |-> DEFAULT, asm |-> FALSE,
              size |-> 0, sec |-> n, org |-> "linker",
              value |-> IF d.at = "end" THEN ss[n].offset ELSE 0]
    IN  [ss |-> ss, t |-> SetElfSym(a.t, y, Bss),
         errors |-> a.errors + IF DefinedTwice(a.t, y, Bss) THEN 1 ELSE 0]

\* All of them, a being the sections, the table and the errors before.
LinkerSymsAdded(a) ==
    LET after[k \in 0 .. Len(LinkerSymbols)] ==
            IF k = 0 THEN a ELSE LinkerSymAdded(after[k - 1], LinkerSymbols[k])
    IN  after

ResolveCommon ==
    /\ phase = "runtime" /\ archive = NoArchive /\ input = <<>>
    /\ LET c == CommonPlaced(secs, tab)
           l == LinkerSymsAdded([ss |-> c.ss, t |-> c.t, errors |-> nb_errors])[Len(LinkerSymbols)]
       IN  /\ secs' = l.ss
           /\ tab' = l.t
           /\ nb_errors' = l.errors
    /\ phase' = "got"
    /\ UNCHANGED <<inVars, placed, rels, seen, outVars>>

\* build_got_entries(): the relocations of kind "got" for which an entry is
\* made, the first for each symbol.
GotEntry(gs, r) ==
    IF r.kind = "got" /\ \A j \in DOMAIN gs : gs[j].sym # r.sym THEN Append(gs, r) ELSE gs

GotEntries(rs) ==
    LET upto[k \in 0 .. Len(rs)] == IF k = 0 THEN <<>> ELSE GotEntry(upto[k - 1], rs[k])
    IN  upto

\* The GOT has three words of its own, one more for each of them, and a
\* relocation to fill it.
BuildGot ==
    LET gs == GotEntries(rels)[Len(rels)]
        n == Len(secs) + 1
        y == [name |-> "_GLOBAL_OFFSET_TABLE_", bind |-> "GLOBAL", vis |-> DEFAULT,
              asm |-> FALSE, size |-> 4, sec |-> n, value |-> 0, org |-> "linker"]
    IN
    /\ phase = "got"
    /\ phase' = "layout"
    /\ IF gs = <<>> THEN UNCHANGED <<got, secs, rels, tab, nb_errors>>
       ELSE /\ tab' = SetElfSym(tab, y, Bss)
            /\ nb_errors' = nb_errors + IF DefinedTwice(tab, y, Bss) THEN 1 ELSE 0
            /\ got' = [sec |-> n, offset |-> [k \in DOMAIN gs |->
                          [sym |-> gs[k].sym, off |-> (2 + k) * PtrSize]]]
            /\ secs' = Append(secs, [Section(".got", "PROGBITS", {"ALLOC", "WRITE"})
                                     EXCEPT !.offset = (3 + Len(gs)) * PtrSize])
            /\ rels' = rels \o [k \in DOMAIN gs |->
                          [gs[k] EXCEPT !.sec = n, !.off = (2 + k) * PtrSize, !.kind = "abs"]]
    /\ UNCHANGED <<inVars, placed, seen, phdr>>

\* sym_attrs[sym].got_offset
GotOffset(sym) ==
    LET k == CHOOSE k \in DOMAIN got.offset : got.offset[k].sym = sym IN got.offset[k].off

-----------------------------------------------------------------------------
(***************************************************************************)
(* layout_sections().                                                      *)
(***************************************************************************)
\* alloc_sec_names(): the sizes that go into the file.
Sized(s) == [s EXCEPT !.sh_size = IF options.output_type = "OBJ" \/ "ALLOC" \in s.flags
                                  THEN s.offset ELSE 0]

\* The sections of a segment: those with file contents before the others.
InSegment(ss, j) ==
    LET Here(i) == /\ "ALLOC" \in ss[i].flags
                   /\ ("WRITE" \in ss[i].flags) <=> (j = 2)
        all == SelectSeq([i \in DOMAIN ss |-> i], Here)
    IN  SelectSeq(all, LAMBDA i : ss[i].type # "NOBITS")
          \o SelectSeq(all, LAMBDA i : ss[i].type = "NOBITS")

\* Section i comes next: where it is in memory and in the file.
AddToSegment(a, i) ==
    LET s == a.ss[i]
        at == AlignUp(a.addr, s.align)
        off == a.file + (at - a.addr)
    IN  [a EXCEPT !.ss = [@ EXCEPT ![i].sh_addr = at, ![i].sh_offset = off],
                  !.addr = at + s.sh_size,
                  !.file = IF s.type = "NOBITS" THEN off ELSE off + s.sh_size,
                  !.ph = IF @.p_offset = 0 THEN [@ EXCEPT !.p_offset = off, !.p_vaddr = at]
                         ELSE @]

PageDown(x) == (x \div PageSize) * PageSize

\* The second segment starts on a page of its own, at the same offset in it.
NextSegment(addr) == IF addr % PageSize # 0 THEN addr + PageSize ELSE addr

Segment(a, j) ==
    LET b == FoldLeft(AddToSegment,
                      [a EXCEPT !.ph = [p_offset |-> 0, p_vaddr |-> 0, exec |-> j = 1]],
                      InSegment(a.ss, j))
        p == IF j = 1 THEN [b.ph EXCEPT !.p_offset = PageDown(@), !.p_vaddr = PageDown(@)]
             ELSE b.ph
    IN  [b EXCEPT !.phdr = Append(@, [p_offset |-> p.p_offset, p_vaddr |-> p.p_vaddr,
                                      exec |-> p.exec,
                                      p_filesz |-> b.file - p.p_offset,
                                      p_memsz |-> b.addr - p.p_vaddr]),
                  !.addr = IF j = 1 THEN NextSegment(@) ELSE @]

\* Where the first segment starts: -Ttext moves the file offset so that both
\* have the same place in their page.
FirstAddr == IF options.text_addr = NoText THEN StartAddr + (HeaderSize % PageSize)
             ELSE options.text_addr
FirstFile ==
    IF options.text_addr = NoText THEN HeaderSize
    ELSE HeaderSize + ((FirstAddr - HeaderSize) % PageSize)

\* The sections that are in no segment follow.
AddToFile(a, i) ==
    LET off == AlignUp(a.file, a.ss[i].align) IN
    [a EXCEPT !.ss = [@ EXCEPT ![i].sh_offset = off],
              !.file = IF a.ss[i].type = "NOBITS" THEN off ELSE off + a.ss[i].sh_size]

Layout ==
    LET exe == options.output_type = "EXE"
        sized == [i \in DOMAIN secs |-> Sized(secs[i])]
        a0 == [ss |-> sized, addr |-> FirstAddr, file |-> FirstFile,
               ph |-> [p_offset |-> 0, p_vaddr |-> 0, exec |-> FALSE], phdr |-> <<>>]
        a1 == IF exe THEN Segment(Segment(a0, 1), 2) ELSE [a0 EXCEPT !.file = HeaderSize]
        rest == SelectSeq([i \in DOMAIN secs |-> i],
                          LAMBDA i : ~(exe /\ "ALLOC" \in secs[i].flags))
        a2 == FoldLeft(AddToFile, a1, rest)
    IN
    /\ phase = "layout"
    /\ secs' = a2.ss
    /\ phdr' = a2.phdr
    /\ phase' = IF exe THEN "reloc" ELSE "write"
    /\ UNCHANGED <<inVars, nb_errors, placed, symVars, got>>

-----------------------------------------------------------------------------
\* relocate_syms(): the symbol's address; undefined and weak is 0.
Relocated(y) ==
    [y EXCEPT !.value = CASE y.sec = UNDEF -> IF y.bind = "WEAK" THEN 0 ELSE @
                          [] y.sec > 0     -> @ + secs[y.sec].sh_addr
                          [] OTHER         -> @]

\* What relocate() writes.
RelocValue(r, ys) ==
    IF r.kind = "got" THEN secs[got.sec].sh_addr + GotOffset(r.sym) ELSE ys[r.sym].value

\* final_sections_reloc(): undefined symbols are errors, and no file is
\* written if there was any; then get_sym_addr() of _start.
Reloc ==
    LET ys == [i \in DOMAIN tab.syms |-> Relocated(tab.syms[i])]
        undefined == {i \in DOMAIN ys : ys[i].sec = UNDEF /\ ys[i].bind # "WEAK"}
        start == FindElfSym(tab, Entry)
    IN
    /\ phase = "reloc"
    /\ tab' = [tab EXCEPT !.syms = ys]
    /\ nb_errors' = nb_errors + Cardinality(undefined)
    /\ IF nb_errors' = 0
       THEN /\ rels' = [k \in DOMAIN rels |-> [rels[k] EXCEPT !.value = RelocValue(rels[k], ys)]]
            /\ phase' = IF start = 0 \/ ys[start].sec = UNDEF THEN "failed" ELSE "write"
       ELSE /\ phase' = "failed"
            /\ UNCHANGED rels
    /\ UNCHANGED <<inVars, secVars, seen, outVars>>

\* tidy_section_headers() drops the sections that have no name in the file,
\* in a program all that are not loaded, and puts the others in the order of
\* the segments; 0 stands for a section that is gone.
Kept ==
    IF options.output_type = "OBJ" THEN [i \in DOMAIN secs |-> i]
    ELSE InSegment(secs, 1) \o InSegment(secs, 2)
Backmap(i) == Max({0} \cup {k \in DOMAIN Kept : Kept[k] = i})

\* tcc_write_elf_file(), with the sort of the symbols.
Write ==
    LET sorted == SortedSyms(tab.syms) IN
    /\ phase = "write"
    /\ secs' = [k \in DOMAIN Kept |-> secs[Kept[k]]]
    /\ tab' = [tab EXCEPT !.syms = [i \in DOMAIN sorted.new |->
                  [sorted.new[i] EXCEPT !.sec = IF @ > 0 THEN Backmap(@) ELSE @]]]
    /\ rels' = [k \in DOMAIN rels |->
                  [rels[k] EXCEPT !.sym = sorted.to[@], !.sec = Backmap(@)]]
    /\ placed' = [k \in DOMAIN placed |-> [placed[k] EXCEPT !.sec = Backmap(@)]]
    /\ got' = [got EXCEPT !.sec = IF @ > 0 THEN Backmap(@) ELSE @]
    /\ phase' = "done"
    /\ UNCHANGED <<inVars, nb_errors, seen, phdr>>

Stopped == phase \in {"done", "failed"} /\ UNCHANGED vars

Next ==
    \/ CompileFile \/ LoadObject
    \/ OpenArchive \/ LoadMember \/ EndOfIndex
    \/ StartOutput \/ ResolveCommon \/ BuildGot \/ Layout \/ Reloc \/ Write
    \/ Stopped

Spec == Init /\ [][Next]_vars

-----------------------------------------------------------------------------
(***************************************************************************)
(* Properties.                                                             *)
(***************************************************************************)
\* A lookup by name finds the one symbol that all files' symbols of the name
\* were merged into, through growing chains, a rehash, the locals between
\* them and the files for which find_elf_sym() is switched off.
HashFindsAll == phase \notin {"done"} => tab.hashing /\ HashExact(tab)

\* How strongly a symbol of an input file claims its name.
Rank(y) ==
    CASE y.sec = UNDEF -> 1
      [] y.sec # UNDEF /\ y.bind = "WEAK" -> 2
      [] y.sec # UNDEF /\ y.bind # "WEAK" /\ Tentative(y.sec, Bss) -> 3
      [] OTHER -> 4

Claims(n) == {k \in DOMAIN seen : seen[k].name = n /\ ~IsLocal(seen[k])}

\* The definition that a name ought to have: of those that claim it most
\* strongly, the first that came.
Best(n) ==
    CHOOSE k \in Claims(n) : \A j \in Claims(n) :
        \/ Rank(seen[j]) < Rank(seen[k])
        \/ Rank(seen[j]) = Rank(seen[k]) /\ j >= k

\* set_elf_sym() settles every name as if all files had been seen at once:
\* data before common and bss before weak before undefined, in whatever
\* order the files and the members of archives came.
BestDefinitionWins ==
    phase \in {"files", "runtime"} =>
        \A k \in DOMAIN seen :
            LET n == seen[k].name
                s == FindElfSym(tab, n)
            IN  Claims(n) # {} =>
                    /\ s # 0
                    /\ Rank(tab.syms[s]) = Rank(seen[Best(n)])
                    /\ Rank(tab.syms[s]) > 1 => tab.syms[s].org = seen[Best(n)].org

\* A relocation names the symbol that it was written for, through the merge
\* of its file and the final sort: one that all files share by its name, a
\* local one by its file too.
RelocsFollow ==
    \A k \in DOMAIN rels :
        LET y == tab.syms[rels[k].sym] IN
        /\ y.name = rels[k].name
        /\ IsLocal(y) => y.org = rels[k].org

\* When an archive is done with, no member that was left out defines a name
\* that is still undefined or weak, whichever order the members stood in,
\* and none was merged twice.
ArchiveStep ==
    /\ archive # NoArchive /\ archive' = NoArchive /\ phase' # "failed"
    /\ nb_errors' = nb_errors
    => /\ \A i \in 1 .. Len(ArIndex(archive.file)) :
            LET e == ArIndex(archive.file)[i]
                s == FindElfSym(tab, e.name)
            IN  \/ e.member \in archive.loaded
                \/ s = 0
                \/ Rank(tab.syms[s]) > 2
       /\ \A j, k \in DOMAIN placed :
            /\ placed[j].file = placed[k].file /\ placed[j].num = placed[k].num
            => j = k

Loaded == phase = "done" /\ options.output_type = "EXE"

\* The program as the kernel loads it: the kernel takes the file, and every
\* piece of every input file is where its section's address says, whole and
\* aligned, no matter how segments share pages of the file; .bss is zero.
ImageLoads ==
    Loaded =>
        LET mem == ElfLoad(phdr)
            entry == CHOOSE i \in DOMAIN tab.syms : tab.syms[i].name = Entry
        IN  /\ Loads(Max({s.sh_offset + s.sh_size : s \in Range(secs)}), phdr,
                     tab.syms[entry].value)
            /\ \A k \in DOMAIN placed :
                  LET p == placed[k]
                      s == secs[p.sec]
                  IN  "ALLOC" \in s.flags =>
                        /\ (s.sh_addr + p.off) % p.align = 0
                        /\ \A b \in 0 .. p.size - 1 :
                              mem[s.sh_addr + p.off + b] =
                                  IF s.type = "NOBITS" THEN Zero
                                  ELSE 1 + s.sh_offset + p.off + b

\* Every reference in the loaded program, direct or through the GOT, leads
\* to the bytes of the definition that its name ought to have.
ReferencesLead ==
    Loaded =>
        \A k \in DOMAIN rels :
            LET r == rels[k]
                locals == {j \in DOMAIN seen : /\ seen[j].org = r.org
                                               /\ seen[j].name = r.name /\ IsLocal(seen[j])
                                               /\ seen[j].sec # UNDEF}
                d == seen[IF locals # {} THEN Max(locals) ELSE Best(r.name)]
                word == {j \in DOMAIN rels : /\ rels[j].sec = got.sec
                                             /\ secs[got.sec].sh_addr + rels[j].off = r.value}
                lead == IF r.kind = "got" THEN rels[CHOOSE j \in word : TRUE].value ELSE r.value
            IN  CASE d.sec = UNDEF -> lead = 0
                  [] d.sec = COMMON ->
                        LET b == SectionNum(secs, ".bss") IN
                        /\ lead >= secs[b].sh_addr /\ lead % d.value = 0
                        /\ lead + d.size <= secs[b].sh_addr + secs[b].sh_size
                        /\ \A j \in DOMAIN placed : placed[j].sec = b =>
                              lead >= secs[b].sh_addr + placed[j].off + placed[j].size
                  [] OTHER -> \E j \in DOMAIN placed :
                        /\ placed[j].file = d.org
                        /\ LET s == secs[placed[j].sec] IN
                           /\ s.name = StandardSections[d.sec].name
                           /\ lead = s.sh_addr + d.value

\* A lookup by name finds the one symbol that all files' symbols of the name
\* were merged into, through growing chains, a rehash and the files for which
\* hashing is switched off, and it is the definition that claims the name
\* most strongly, data before common and bss before weak before undefined, in
\* whatever order the files and the members of archives came (set_elf_sym(),
\* put_elf_sym(), rebuild_hash()).
StrongestDefines == HashFindsAll /\ BestDefinitionWins

\* The kernel takes an executable that the linker finished and finds every
\* byte of its sections at its address, and in the loaded program every
\* reference leads to the object that its name stands for, through the merge
\* of its file, the final sort and the GOT where it was asked for
\* (layout_sections(), load_segment(), tccelf_end_file(), sort_syms(),
\* relocate_section()).
ReferencesArrive == ImageLoads /\ RelocsFollow /\ ReferencesLead

\* When an archive is done with, no member that was left out defines a name
\* that is still undefined or weak, and none was merged twice
\* (tcc_load_alacarte()).
ArchivesExhausted == [][ArchiveStep]_vars
=============================================================================
