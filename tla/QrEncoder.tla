------------------------------ MODULE QrEncoder ------------------------------
(***************************************************************************)
(* The QR encoder of the speaker's setup page (src/web/QrEncoder.cpp):     *)
(* byte mode, error correction level M.  A text is a sequence of bytes, a  *)
(* symbol a function from rows to columns to 0 (light) or 1 (dark).  The   *)
(* second half is the reference: what a reader that follows ISO/IEC 18004  *)
(* gets out of a symbol.  It shares with the encoder the mask patterns     *)
(* (maskBit), the order in which modules are visited (Path) and the        *)
(* conversions between bits and numbers, and has everything else, tables   *)
(* and field arithmetic included, from the standard.                       *)
(***************************************************************************)
EXTENDS Integers, Sequences, FiniteSets, SequencesExt, FiniteSetsExt, Bitwise

(* GF(256) with the polynomial 16#11D, by tables of powers and logarithms. *)
RECURSIVE Powers(_)
Powers(s) ==
    IF Len(s) = 255 THEN s
    ELSE LET x == 2 * s[Len(s)]
         IN  Powers(Append(s, IF x >= 256 THEN x ^^ 285 ELSE x))
Exp == Powers(<<1>>)
Log == [x \in 1..255 |-> CHOOSE i \in 0..254 : Exp[i + 1] = x]
mul(a, b) == IF a = 0 \/ b = 0 THEN 0 ELSE Exp[((Log[a] + Log[b]) % 255) + 1]

(* A sequence with its elements evaluated.                                 *)
Evaluated(s) == SubSeq(s, 1, Len(s))

(* The generator polynomial, lowest coefficient first.                     *)
RECURSIVE Generator(_)
Generator(n) ==
    IF n = 0 THEN <<1>>
    ELSE LET g == Generator(n - 1)
             alpha == Exp[n]
         IN  Evaluated([j \in 1..(Len(g) + 1) |->
                (IF j > 1 THEN g[j - 1] ELSE 0) ^^ (IF j <= Len(g) THEN mul(g[j], alpha) ELSE 0)])

(* rsEncode: the remainder of the data, shifted by the length of the code, *)
(* divided by the generator, highest coefficient first.                    *)
RECURSIVE Divided(_, _, _)
Divided(res, gen, i) ==
    IF i > Len(res) - Len(gen) + 1 THEN res
    ELSE Divided(Evaluated([k \in 1..Len(res) |->
                    IF k \in i..(i + Len(gen) - 1)
                    THEN res[k] ^^ mul(gen[k - i + 1], res[i]) ELSE res[k]]), gen, i + 1)
rsEncodeUnreversed(data, ec) ==
    LET res == Divided(data \o [i \in 1..ec |-> 0], Generator(ec), 1)
    IN  SubSeq(res, Len(data) + 1, Len(res))
rsEncode(data, ec) ==
    LET res == Divided(data \o [i \in 1..ec |-> 0], Reverse(Generator(ec)), 1)
    IN  SubSeq(res, Len(data) + 1, Len(res))

----------------------------------------------------------------------------
(* The table of versions.                                                  *)
VerM == << [data |-> 16, ec |-> 10, blocks |-> 1], [data |-> 28, ec |-> 16, blocks |-> 1],
           [data |-> 44, ec |-> 26, blocks |-> 1], [data |-> 64, ec |-> 18, blocks |-> 2],
           [data |-> 86, ec |-> 24, blocks |-> 2], [data |-> 108, ec |-> 16, blocks |-> 4],
           [data |-> 124, ec |-> 18, blocks |-> 4], [data |-> 154, ec |-> 22, blocks |-> 2],
           [data |-> 182, ec |-> 22, blocks |-> 3], [data |-> 216, ec |-> 26, blocks |-> 4] >>
moduleCount(v) == v * 4 + 17
charCountBits(v) == IF v <= 9 THEN 8 ELSE 16
TooLong == 0
chooseVersion(bytes) ==
    LET fits == {v \in DOMAIN VerM : 4 + charCountBits(v) + 8 * bytes <= 8 * VerM[v].data}
    IN  IF fits = {} THEN TooLong ELSE Min(fits)

(* BitBuf::put, highest bit first, and its inverse.                        *)
Bits(val, len) == [i \in 1..len |-> (val \div 2^(len - i)) % 2]
Number(bits) == FoldLeft(LAMBDA n, b : 2 * n + b, 0, bits)
Bytes(bits) == [i \in 1..(Len(bits) \div 8) |-> Number(SubSeq(bits, 8 * i - 7, 8 * i))]
BitsOf(words) == [i \in 1..(8 * Len(words)) |-> Bits(words[((i - 1) \div 8) + 1], 8)[((i - 1) % 8) + 1]]

(* Mode, length, text, terminator, padding.                                *)
dataCodewords(text, v) ==
    LET raw == Bits(4, 4) \o Bits(Len(text), charCountBits(v)) \o BitsOf(text)
        term == Min({4, 8 * VerM[v].data - Len(raw)})
        fill == (8 - ((Len(raw) + term) % 8)) % 8
        words == Bytes(raw \o [i \in 1..(term + fill) |-> 0])
    IN  words \o [i \in 1..(VerM[v].data - Len(words)) |-> IF i % 2 = 1 THEN 236 ELSE 17]

(* The blocks, the last ones a codeword longer, and their interleaving.    *)
blockLengths(v) ==
    LET nb == VerM[v].blocks
        rem == VerM[v].data % nb
    IN  [b \in 1..nb |-> (VerM[v].data \div nb) + IF b > nb - rem THEN 1 ELSE 0]
blockOf(data, lens, b) ==
    LET off == FoldLeft(LAMBDA n, l : n + l, 0, SubSeq(lens, 1, b - 1))
    IN  SubSeq(data, off + 1, off + lens[b])
interleave(blocks) ==
    LET nb == Len(blocks)
        longest == Max({Len(blocks[b]) : b \in DOMAIN blocks})
        columns == [j \in 1..(longest * nb) |-> <<((j - 1) \div nb) + 1, ((j - 1) % nb) + 1>>]
        filled == SelectSeq(columns, LAMBDA p : p[1] <= Len(blocks[p[2]]))
    IN  Evaluated([j \in DOMAIN filled |-> blocks[filled[j][2]][filled[j][1]]])
buildCodewords(data, v) ==
    LET lens == blockLengths(v)
        dblocks == [b \in DOMAIN lens |-> blockOf(data, lens, b)]
        eblocks == [b \in DOMAIN lens |-> rsEncode(dblocks[b], VerM[v].ec)]
    IN  interleave(dblocks) \o interleave(eblocks)

----------------------------------------------------------------------------
(* The function modules.  Unset marks the modules left for data.           *)
Unset == -1
Dark(b) == IF b THEN 1 ELSE 0

Corners(n) == {<<0, 0>>, <<0, n - 7>>, <<n - 7, 0>>}
InFinder(n, r, c) == \E p \in Corners(n) : r - p[1] \in -1..7 /\ c - p[2] \in -1..7
placeFinder(n, r, c) ==
    LET p == CHOOSE q \in Corners(n) : r - q[1] \in -1..7 /\ c - q[2] \in -1..7
        dr == r - p[1]
        dc == c - p[2]
    IN  Dark(/\ {dr, dc} \subseteq 0..6
             /\ {dr, dc} \intersect {0, 6} # {} \/ {dr, dc} \subseteq 2..4)

AlignPos == << {}, {6, 18}, {6, 22}, {6, 26}, {6, 30}, {6, 34},
               {6, 22, 38}, {6, 24, 42}, {6, 26, 46}, {6, 28, 50} >>
AlignCentres(v) ==
    LET n == moduleCount(v)
    IN  {p \in AlignPos[v] \X AlignPos[v] :
           ~ \/ p[1] <= 8 /\ p[2] <= 8
             \/ p[1] <= 8 /\ p[2] >= n - 9
             \/ p[1] >= n - 9 /\ p[2] <= 8}
Near(p, r, c) == r - p[1] \in -2..2 /\ c - p[2] \in -2..2
InAlignment(v, r, c) == \E p \in AlignCentres(v) : Near(p, r, c)
placeAlignment(v, r, c) ==
    LET p == CHOOSE q \in AlignCentres(v) : Near(q, r, c)
    IN  Dark({r - p[1], c - p[2]} \intersect {-2, 2} # {} \/ <<r, c>> = p)

InTiming(n, r, c) == (r = 6 /\ c \in 8..(n - 9)) \/ (c = 6 /\ r \in 8..(n - 9))
placeTiming(r, c) == Dark((IF r = 6 THEN c ELSE r) % 2 = 0)

InFormat(n, r, c) ==
    \/ r = 8 /\ (c <= 8 \/ c >= n - 8)
    \/ c = 8 /\ (r <= 8 \/ r >= n - 8)

(* The order of the calls in encode: each later one keeps what is set,     *)
(* except the alignment patterns and the dark module.                      *)
functionModules(v) ==
    LET n == moduleCount(v) IN
    [r \in 0..(n - 1) |-> [c \in 0..(n - 1) |->
        CASE r = n - 8 /\ c = 8 -> 1
          [] InAlignment(v, r, c) -> placeAlignment(v, r, c)
          [] InFinder(n, r, c) -> placeFinder(n, r, c)
          [] InTiming(n, r, c) -> placeTiming(r, c)
          [] InFormat(n, r, c) -> 0
          [] OTHER -> Unset]]

(* The modules in the order of placeData: pairs of columns from the right, *)
(* up and down in turn, without the timing column.                         *)
Path(n) ==
    [j \in 1..(n * (n - 1)) |->
        LET k == (j - 1) \div (2 * n)
            i == (j - 1) % (2 * n)
            col == IF n - 1 - 2 * k > 6 THEN n - 1 - 2 * k ELSE n - 2 - 2 * k
        IN  <<IF k % 2 = 0 THEN n - 1 - (i \div 2) ELSE i \div 2, col - (i % 2)>>]

(* The free modules of a version in that order, and each one's place in it.*)
Free(base) == SelectSeq(Path(Cardinality(DOMAIN base)), LAMBDA p : base[p[1]][p[2]] = Unset)
placeData(base, free, bits) ==
    LET at == [r \in DOMAIN base |-> [c \in {free[i][2] : i \in {k \in DOMAIN free : free[k][1] = r}} |->
                 CHOOSE i \in DOMAIN free : free[i] = <<r, c>>]]
    IN  [r \in DOMAIN base |-> [c \in DOMAIN base |->
           IF base[r][c] # Unset THEN base[r][c]
           ELSE IF at[r][c] <= Len(bits) THEN bits[at[r][c]] ELSE 0]]

maskBit(m, r, c) ==
    CASE m = 0 -> (r + c) % 2 = 0
      [] m = 1 -> r % 2 = 0
      [] m = 2 -> c % 3 = 0
      [] m = 3 -> (r + c) % 3 = 0
      [] m = 4 -> ((r \div 2) + (c \div 3)) % 2 = 0
      [] m = 5 -> ((r * c) % 2) + ((r * c) % 3) = 0
      [] m = 6 -> (((r * c) % 2) + ((r * c) % 3)) % 2 = 0
      [] m = 7 -> (((r + c) % 2) + ((r * c) % 3)) % 2 = 0

(* The two copies of the format word, highest bit first.                   *)
FormatM == <<21522, 20773, 24188, 23371, 17913, 16590, 20375, 19104>>
copy1 == << <<8, 0>>, <<8, 1>>, <<8, 2>>, <<8, 3>>, <<8, 4>>, <<8, 5>>, <<8, 7>>, <<8, 8>>,
            <<7, 8>>, <<5, 8>>, <<4, 8>>, <<3, 8>>, <<2, 8>>, <<1, 8>>, <<0, 8>> >>
copy2(n) == [i \in 1..15 |-> IF i <= 7 THEN <<n - i, 8>> ELSE <<8, n - 16 + i>>]
applyFormat(g, n, m) ==
    LET bits == Bits(FormatM[m + 1], 15)
        cell(r, c) == {i \in 1..15 : copy1[i] = <<r, c>> \/ copy2(n)[i] = <<r, c>>}
    IN  [r \in DOMAIN g |-> [c \in DOMAIN g |->
            IF r = n - 8 /\ c = 8 THEN 1
            ELSE IF InFormat(n, r, c) /\ cell(r, c) # {}
            THEN bits[CHOOSE i \in cell(r, c) : TRUE] ELSE g[r][c]]]

(* The data modules under mask m, and the format of m.                     *)
masked(base, placed, m) ==
    LET n == Cardinality(DOMAIN base)
    IN  applyFormat([r \in DOMAIN base |-> [c \in DOMAIN base |->
            IF base[r][c] # Unset THEN base[r][c]
            ELSE IF maskBit(m, r, c) THEN 1 - placed[r][c] ELSE placed[r][c]]], n, m)

(* Three points for five equal modules in a row, one for each further one. *)
penalty(g) ==
    LET n == Cardinality(DOMAIN g)
        lines == {<<d, r, c>> : d \in {0, 1}, r \in DOMAIN g, c \in 4..(n - 1)}
        at(d, r, c) == IF d = 1 THEN g[c][r] ELSE g[r][c]
        five(l) == \A k \in 1..4 : at(l[1], l[2], l[3] - k) = at(l[1], l[2], l[3])
        first(l) == l[3] = 4 \/ at(l[1], l[2], l[3] - 5) # at(l[1], l[2], l[3])
        runs == {l \in lines : five(l)}
    IN  Cardinality(runs) + 2 * Cardinality({l \in runs : first(l)})

----------------------------------------------------------------------------
(* Reference: the reader.                                                  *)

(* Data and error correction codewords of each block at level M.           *)
IsoBlocks == << <<16>>, <<28>>, <<44>>, <<32, 32>>, <<43, 43>>, <<27, 27, 27, 27>>,
                <<31, 31, 31, 31>>, <<38, 38, 39, 39>>, <<36, 36, 36, 37, 37>>,
                <<43, 43, 43, 43, 44>> >>
IsoEc == <<10, 16, 26, 18, 24, 16, 18, 22, 22, 26>>

(* Modules that carry codewords: outside the corners with their format     *)
(* modules, the timing lines, the alignment patterns and, from version 7   *)
(* on, the version words.  The patterns are centred at the timing line, at *)
(* the far edge and, in versions 7 to 10, halfway between.                 *)
IsoAlign(v, n) == (IF v >= 2 THEN {6, n - 7} ELSE {}) \union (IF v >= 7 THEN {(n - 1) \div 2} ELSE {})
IsoData(v, n, r, c) ==
    LET corner(x, y) == x <= 8 /\ y <= 8
        pos == IsoAlign(v, n)
        versionWord == v >= 7 /\ \/ r <= 5 /\ c \in (n - 11)..(n - 9)
                                 \/ c <= 5 /\ r \in (n - 11)..(n - 9)
        pattern(p) == r - p[1] \in -2..2 /\ c - p[2] \in -2..2
    IN  ~ \/ corner(r, c)
          \/ corner(r, n - 1 - c) /\ c # n - 9
          \/ corner(n - 1 - r, c) /\ r # n - 9
          \/ r = 6
          \/ c = 6
          \/ \E p \in (pos \X pos) \ {<<6, 6>>, <<6, n - 7>>, <<n - 7, 6>>} : pattern(p)
          \/ versionWord

(* The BCH code of a level-M format with mask m, and where the standard    *)
(* has bit b of its two copies.                                            *)
RECURSIVE BchRemainder(_, _)
BchRemainder(x, k) ==
    IF k < 0 THEN x ELSE BchRemainder(IF x >= 2^(k + 10) THEN x ^^ (1335 * 2^k) ELSE x, k - 1)
IsoFormat(m) == (m * 1024 + BchRemainder(m * 1024, 4)) ^^ 21522
IsoCopy1(b) ==
    IF b >= 9 THEN <<8, 14 - b>> ELSE IF b >= 7 THEN <<8, 15 - b>>
    ELSE IF b = 6 THEN <<7, 8>> ELSE <<b, 8>>
IsoCopy2(n, b) == IF b >= 8 THEN <<n - 15 + b, 8>> ELSE <<8, n - 1 - b>>

(* Multiplication by shift and add, and the value of a polynomial at the   *)
(* k-th power of the generator of the field.                               *)
RECURSIVE IsoMul(_, _)
IsoMul(a, b) ==
    IF b = 0 THEN 0
    ELSE LET d == IF 2 * a >= 256 THEN (2 * a) ^^ 285 ELSE 2 * a
         IN  (IF b % 2 = 1 THEN a ELSE 0) ^^ IsoMul(d, b \div 2)
RECURSIVE IsoPower(_)
IsoPower(k) == IF k = 0 THEN 1 ELSE IsoMul(2, IsoPower(k - 1))
ValueAt(word, k) ==
    LET x == IsoPower(k) IN FoldLeft(LAMBDA a, w : IsoMul(x, a) ^^ w, 0, word)
Syndromes(word, ec) == {ValueAt(word, k) : k \in 0..(ec - 1)}

(* The codewords of a symbol: read along the path, unmasked.               *)
ReadCodewords(g, v, m) ==
    LET n == Cardinality(DOMAIN g)
        cells == SelectSeq(Path(n), LAMBDA p : IsoData(v, n, p[1], p[2]))
    IN  Bytes([i \in DOMAIN cells |->
                 LET x == g[cells[i][1]][cells[i][2]]
                 IN  IF maskBit(m, cells[i][1], cells[i][2]) THEN 1 - x ELSE x])

(* Block b of interleaved codewords, data and error correction.            *)
ReadBlock(words, v, b) ==
    LET lens == IsoBlocks[v]
        nb == Len(lens)
        total == FoldLeft(LAMBDA n, l : n + l, 0, lens)
        short == lens[1] * nb
        longer == Cardinality({x \in 1..(b - 1) : lens[x] > lens[1]})
        data == [i \in 1..lens[1] |-> words[(i - 1) * nb + b]]
    IN  [data |-> IF lens[b] > lens[1] THEN Append(data, words[short + longer + 1]) ELSE data,
         ec |-> [i \in 1..IsoEc[v] |-> words[total + (i - 1) * nb + b]]]

Unreadable == <<-1>>
ReadSymbol(g) ==
    LET n == Cardinality(DOMAIN g)
        v == (n - 17) \div 4
        first == Number([i \in 1..15 |-> g[IsoCopy1(15 - i)[1]][IsoCopy1(15 - i)[2]]])
        second == Number([i \in 1..15 |-> g[IsoCopy2(n, 15 - i)[1]][IsoCopy2(n, 15 - i)[2]]])
        masks == {m \in 0..7 : IsoFormat(m) = first /\ IsoFormat(m) = second}
        words == ReadCodewords(g, v, CHOOSE m \in masks : TRUE)
        blocks == [b \in DOMAIN IsoBlocks[v] |-> ReadBlock(words, v, b)]
        bits == BitsOf(FoldLeft(LAMBDA s, b : s \o b.data, <<>>, blocks))
        cb == IF v \in 1..9 THEN 8 ELSE 16
        len == Number(SubSeq(bits, 5, 4 + cb))
    IN  IF masks = {} THEN Unreadable
        ELSE IF \E b \in DOMAIN blocks : Syndromes(blocks[b].data \o blocks[b].ec, IsoEc[v]) # {0}
        THEN Unreadable
        ELSE IF SubSeq(bits, 1, 4) # Bits(4, 4) THEN Unreadable
        ELSE Bytes(SubSeq(bits, 5 + cb, 4 + cb + 8 * len))
=============================================================================
