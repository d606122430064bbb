-------------------------------- MODULE Layout --------------------------------
(***************************************************************************)
(* Structures: struct_decl() and struct_layout(), which place the fields   *)
(* and choose how each bit-field is accessed, and the accesses: gv() and   *)
(* vstore() through a word, load_packed_bf() and store_packed_bf() byte by *)
(* byte, init_putv() in data.                                              *)
(*                                                                         *)
(* A declared field has the size of its type (its alignment too), a width  *)
(* in bits or None, attributes packed and aligned, and may have no name.   *)
(* Memory is the set of bits that are 1, by number from the start.         *)
(***************************************************************************)
EXTENDS Integers, Sequences, FiniteSets, SequencesExt, FiniteSetsExt

None == -1
AlignUp(n, a) == ((n + a - 1) \div a) * a
Bytes(bits) == (bits + 7) \div 8

\* A width that is all of the type makes a plain field, unless packed.
Declared(f, packed) ==
    IF f.bits = 8 * f.size /\ ~packed /\ ~f.packed THEN [f EXCEPT !.bits = None] ELSE f
Rejected(f) == f.bits > 8 * f.size \/ (f.bits = 64 /\ f.packed) \/ (f.bits = 0 /\ f.named)

-----------------------------------------------------------------------------
\* A bit-field that would run over the end of a unit of its type starts a new
\* one, and so does one of no width and one with an alignment of its own.
Overflows_Never(x, f, align, bits) == FALSE
Overflows(x, f, align, bits) ==
    LET a8 == align * 8
    IN  (((x.c * 8 + x.bit_pos) % a8) + bits + a8 - 1) \div a8 > f.size \div align

\* bit_pos counts from byte c, which moves on by whole units of the alignment.
PlaceBits(x, f, align, packed) ==
    LET new == f.bits = 0 \/ f.aligned > 0 \/ (~packed /\ Overflows(x, f, align, f.bits))
        c0 == IF new THEN AlignUp(x.c + Bytes(x.bit_pos), align) ELSE x.c
        p0 == IF new THEN 0 ELSE x.bit_pos
        units == p0 \div (align * 8)
        c == c0 + units * align
        pos == p0 - units * align * 8
        size == IF f.size = 8 /\ f.bits <= 32 THEN 4 ELSE f.size
    IN  [x EXCEPT !.c = c, !.bit_pos = pos + f.bits,
                  !.maxalign = Max({@, IF f.named THEN align ELSE 1}),
                  !.out = Append(@, [ofs |-> c, pos |-> pos, bits |-> f.bits, size |-> size, how |-> "type"])]

PlacePlain(x, f, align) ==
    LET at == AlignUp(x.c + Bytes(x.bit_pos), align)
    IN  [x EXCEPT !.c = at + f.size, !.bit_pos = 0, !.maxalign = Max({@, align}),
                  !.out = Append(@, [ofs |-> at, pos |-> 0, bits |-> None, size |-> f.size, how |-> "type"])]

PlaceInUnion(x, f, align) ==
    LET size == IF f.bits # None THEN Bytes(f.bits) ELSE f.size
    IN  [x EXCEPT !.c = Max({@, size}), !.maxalign = Max({@, align}),
                  !.out = Append(@, [ofs |-> 0, pos |-> 0, bits |-> f.bits, size |-> f.size, how |-> "type"])]

PlaceField(x, f, union, allpacked) ==
    LET packed == f.bits # 0 /\ (f.packed \/ allpacked)
        align == IF f.aligned > 0 THEN f.aligned ELSE IF packed THEN 1 ELSE f.size
    IN  IF union THEN PlaceInUnion(x, f, align)
        ELSE IF f.bits = None THEN PlacePlain(x, f, align) ELSE PlaceBits(x, f, align, packed)

\* Another type for the access, when its own does not fit: the smallest one
\* that holds the field from an aligned byte, found by trying.
TypeFor(s) == CASE s > 4 -> 8 [] s > 2 -> 4 [] s > 1 -> 2 [] OTHER -> 1
RECURSIVE Retry(_, _, _)
Retry(f, align, c0) ==
    LET bit == f.ofs * 8 + f.pos
        cx == ((bit \div 8) \div align) * align
        px == bit - cx * 8
        s == TypeFor(Bytes(px + f.bits))
    IN  IF c0 = cx THEN [cx |-> cx, px |-> px, s |-> align] ELSE Retry(f, s, cx)

Accessible(f, size) == f.pos + f.bits <= f.size * 8 /\ f.ofs + f.size <= size
Access(f, size) ==
    IF f.bits \in {None, 0} \/ Accessible(f, size) THEN f
    ELSE LET r == Retry(f, 1, None) IN
         IF r.px + f.bits <= r.s * 8 /\ r.cx + r.s <= size
         THEN [f EXCEPT !.ofs = r.cx, !.pos = r.px, !.size = r.s]
         ELSE [f EXCEPT !.how = "bytes"]

StructLayout(fields, union, packed, aligned) ==
    LET fs == [i \in DOMAIN fields |-> Declared(fields[i], packed)]
        x == FoldLeft(LAMBDA y, f : PlaceField(y, f, union, packed),
                      [c |-> 0, bit_pos |-> 0, maxalign |-> 1, out |-> <<>>], fs)
        align == Max({x.maxalign, aligned})
        size == AlignUp(x.c + Bytes(x.bit_pos), align)
    IN  [size |-> size, align |-> align, fields |-> [i \in DOMAIN x.out |-> Access(x.out[i], size)]]

-----------------------------------------------------------------------------
\* The bytes a byte-wise access goes through: byte, first bit, number of bits,
\* and the bits of the value that are done.
RECURSIVE Pieces(_, _, _, _)
Pieces(byte, pos, bits, done) ==
    IF bits = 0 THEN <<>>
    ELSE LET n == Min({8 - pos, bits})
         IN  <<[byte |-> byte, pos |-> pos, n |-> n, done |-> done]>> \o Pieces(byte + 1, 0, bits - n, done + n)
PiecesOf(f) == Pieces(f.ofs + (f.pos \div 8), f.pos % 8, f.bits, 0)

\* A value is the set of its bits that are 1.
LoadPackedBf(f, mem) ==
    UNION {{p.done + i : i \in {j \in 0 .. p.n - 1 : p.byte * 8 + p.pos + j \in mem}} : p \in Range(PiecesOf(f))}
StorePackedBf(f, mem, v) ==
    FoldLeft(LAMBDA m, p : {b \in m : b \notin p.byte * 8 + p.pos .. p.byte * 8 + p.pos + p.n - 1}
                             \cup {p.byte * 8 + p.pos + i : i \in {j \in 0 .. p.n - 1 : p.done + j \in v}},
             mem, PiecesOf(f))

\* Through a word of the field's type: shifted up and down again, or masked.
Word(f, mem) == {b - f.ofs * 8 : b \in {a \in mem : a \in f.ofs * 8 .. (f.ofs + f.size) * 8 - 1}}
LoadBf(f, mem) ==
    LET width == IF f.size = 8 THEN 64 ELSE 32
        up == width - (f.pos + f.bits)
        shl == {b + up : b \in {a \in Word(f, mem) : a + up < width}}
    IN  {b - (width - f.bits) : b \in {a \in shl : a >= width - f.bits}}
StoreBf(f, mem, v) ==
    LET mask == f.pos .. f.pos + f.bits - 1
        new == {b \in Word(f, mem) : b \notin mask} \cup {b + f.pos : b \in v}
    IN  {b \in mem : b \notin f.ofs * 8 .. (f.ofs + f.size) * 8 - 1}
          \cup {b + f.ofs * 8 : b \in {a \in new : a < f.size * 8}}

LoadField(f, mem) == IF f.how = "bytes" THEN LoadPackedBf(f, mem) ELSE LoadBf(f, mem)
StoreField(f, mem, v) == IF f.how = "bytes" THEN StorePackedBf(f, mem, v) ELSE StoreBf(f, mem, v)
InitField(f, mem, v) == StorePackedBf(f, mem, v)

-----------------------------------------------------------------------------
\* The bits of a field.
BitsOf(f) == IF f.bits = None THEN f.ofs * 8 .. (f.ofs + f.size) * 8 - 1
             ELSE f.ofs * 8 + f.pos .. f.ofs * 8 + f.pos + f.bits - 1

\* Fields of a structure do not share bits and lie inside it, also the words
\* that an access of a bit-field reads and writes back; what is stored in a
\* bit-field, or initialized in data, is what a load gives, and the store
\* changes no bit of another field; without packing a bit-field stays inside
\* one unit of its type and a plain field is aligned.
LayoutSound(fields, union, packed) ==
    LET l == StructLayout(fields, union, packed, 1)
        all == 0 .. l.size * 8 - 1
    IN  /\ \A i \in DOMAIN l.fields :
              LET f == l.fields[i]
                  d == fields[i]
                  bf == f.bits \notin {None, 0}
              IN  /\ BitsOf(f) \subseteq all
                  /\ f.how = "type" /\ f.bits # 0 => f.ofs + f.size <= l.size
                  /\ ~union => \A j \in 1 .. i - 1 : BitsOf(f) \cap BitsOf(l.fields[j]) = {}
                  /\ bf => \A v \in {{}, 0 .. f.bits - 1} : \A m \in {{}, all} :
                        LET s == StoreField(f, m, v) IN
                        /\ LoadField(f, s) = v /\ InitField(f, m, v) = s
                        /\ s \ BitsOf(f) = m \ BitsOf(f)
                  /\ ~packed /\ ~d.packed =>
                        IF bf THEN d.aligned > 0 \/ Min(BitsOf(f)) \div (8 * d.size) = Max(BitsOf(f)) \div (8 * d.size)
                        ELSE f.bits # None \/ f.ofs % Max({d.size, d.aligned}) = 0
        /\ l.size % l.align = 0
=============================================================================
