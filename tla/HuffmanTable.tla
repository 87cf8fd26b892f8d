---------------------------- MODULE HuffmanTable ----------------------------
(***************************************************************************)
(* Huffman tables: how jchuff.c makes one for the symbols a pass has       *)
(* counted (section K.2 of the standard), and what the encoder             *)
(* (jpeg_make_c_derived_tbl) and the decoder (jpeg_make_d_derived_tbl)     *)
(* derive from the one that is written to the file.                        *)
(* A count is a function whose domain is the set of symbols that occur.    *)
(***************************************************************************)
EXTENDS Integers, Sequences, SequencesExt, FiniteSets

CONSTANTS MaxLen,     \* 16: the longest code of a file
          MaxClen,    \* MAX_CLEN: the longest code of the first tree
          Lookahead   \* HUFF_LOOKAHEAD: the bits the decoder looks up at once

ASSUME HuffmanTableAssumption ==
    /\ Lookahead \in Nat \ {0}
    /\ MaxLen \in Nat /\ MaxLen > Lookahead
    /\ MaxClen \in Nat /\ MaxClen > MaxLen

(* The symbol that stands for the code of all ones.                        *)
Pseudo == 256

-----------------------------------------------------------------------------
(* jpeg_gen_optimal_table.  The smallest count; of equals the largest      *)
(* symbol.                                                                 *)
Rarest(freq, live) ==
    CHOOSE s \in live :
        \A t \in live : freq[s] < freq[t] \/ (freq[s] = freq[t] /\ s >= t)

(* Huffman's procedure: the two rarest branches become one, and all their  *)
(* symbols one bit longer, until one branch is left.                       *)
RECURSIVE CodeSizes(_, _, _, _)
CodeSizes(live, freq, branch, codesize) ==
    IF Cardinality(live) = 1 THEN codesize
    ELSE LET c1 == Rarest(freq, live)
             c2 == Rarest(freq, live \ {c1})
             both == branch[c1] \cup branch[c2]
         IN  CodeSizes(live \ {c2},
                       [freq EXCEPT ![c1] = @ + freq[c2]],
                       [branch EXCEPT ![c1] = both],
                       [s \in DOMAIN codesize |->
                           IF s \in both THEN codesize[s] + 1 ELSE codesize[s]])

(* The number of codes of each length.                                     *)
Bits(codesize) ==
    [l \in 0 .. MaxClen |-> Cardinality({s \in DOMAIN codesize : codesize[s] = l})]

(* No code may be longer than MaxLen: two codes of the longest length give *)
(* way, one takes their prefix, and a shorter code is split for the other. *)
RECURSIVE Limited(_, _)
Limited(bits, i) ==
    IF i = MaxLen THEN bits
    ELSE IF bits[i] = 0 THEN Limited(bits, i - 1)
    ELSE LET j == Max({l \in 1 .. (i - 2) : bits[l] > 0})
         IN  Limited([bits EXCEPT ![i] = @ - 2, ![i - 1] = @ + 1,
                                  ![j + 1] = @ + 2, ![j] = @ - 1], i)

(* Mutant: the code of the pseudo-symbol is kept.                          *)
WithPseudo(bits) == [l \in 1 .. MaxLen |-> bits[l]]

(* The pseudo-symbol had one of the longest codes: it is given up.         *)
WithoutPseudo(bits) ==
    LET longest == Max({l \in 1 .. MaxLen : bits[l] > 0})
    IN  [l \in 1 .. MaxLen |-> IF l = longest THEN bits[l] - 1 ELSE bits[l]]

OptimalTable(counts) ==
    LET freq == [s \in DOMAIN counts \cup {Pseudo} |->
                    IF s = Pseudo THEN 1 ELSE counts[s]]
        codesize == CodeSizes(DOMAIN freq, freq, [s \in DOMAIN freq |-> {s}],
                              [s \in DOMAIN freq |-> 0])
        Before(s, t) == codesize[s] < codesize[t] \/ (codesize[s] = codesize[t] /\ s < t)
    IN  [bits    |-> WithoutPseudo(Limited(Bits(codesize), MaxClen)),
         huffval |-> [p \in 1 .. Cardinality(DOMAIN counts) |->
                         CHOOSE s \in DOMAIN counts :
                             Cardinality({t \in DOMAIN counts : Before(t, s)}) = p - 1]]

-----------------------------------------------------------------------------
(* What both sides make of a table: Figure C.1, the length of every code,  *)
(* and Figure C.2, the codes, each the next number of its length.          *)
Total(bits, l) == SumFunctionOnSet(bits, 1 .. l)
HuffSize(bits) ==
    [p \in 1 .. Total(bits, MaxLen) |->
        Min({l \in 1 .. MaxLen : Total(bits, l) >= p})]
HuffCode(bits) ==
    LET size == HuffSize(bits)
        code[p \in DOMAIN size] ==
            IF p = 1 THEN 0 ELSE (code[p - 1] + 1) * 2 ^ (size[p] - size[p - 1])
    IN  code

(* Otherwise JERR_BAD_HUFF_TABLE: a code that does not fit in its length,  *)
(* or is all ones, more values than codes, or a value twice.               *)
Legal(table) ==
    LET size == HuffSize(table.bits)
        code == HuffCode(table.bits)
    IN  /\ \A p \in DOMAIN size : code[p] + 1 < 2 ^ size[p]
        /\ Len(size) = Len(table.huffval)
        /\ IsInjective(table.huffval)

(* A number as bits, the highest first, and back.                          *)
ToBits(v, n) == [i \in 1 .. n |-> (v \div 2 ^ (n - i)) % 2]
FromBits(bits) == FoldLeft(LAMBDA v, b : 2 * v + b, 0, bits)

(* jpeg_make_c_derived_tbl: the code of every symbol that has one.         *)
EncodeTable(table) ==
    LET size == HuffSize(table.bits)
        code == HuffCode(table.bits)
        place(s) == CHOOSE p \in DOMAIN table.huffval : table.huffval[p] = s
    IN  [s \in Range(table.huffval) |-> ToBits(code[place(s)], size[place(s)])]

(* jpeg_make_d_derived_tbl: for every length the largest code and where    *)
(* its values are, and what a code can be looked up by directly.           *)
DecodeTable(table) ==
    LET size == HuffSize(table.bits)
        code == HuffCode(table.bits)
        OfLength(l) == {p \in DOMAIN size : size[p] = l}
        Starts(bits, p) == size[p] <= Lookahead /\ FromBits(SubSeq(bits, 1, size[p])) = code[p]
        Found(bits) == {p \in DOMAIN size : Starts(bits, p)}
    IN  [huffval   |-> table.huffval,
         maxcode   |-> [l \in 1 .. (MaxLen + 1) |->
                           IF l > MaxLen THEN 2 ^ MaxLen * 2
                           ELSE IF OfLength(l) = {} THEN -1 ELSE code[Max(OfLength(l))]],
         valoffset |-> [l \in 1 .. MaxLen |->
                           IF OfLength(l) = {} THEN 0
                           ELSE Min(OfLength(l)) - code[Min(OfLength(l))]],
         look      |-> [bits \in [1 .. Lookahead -> {0, 1}] |->
                           IF Found(bits) = {} THEN [nbits |-> 0, sym |-> 0]
                           ELSE [nbits |-> size[Min(Found(bits))],
                                 sym   |-> table.huffval[Min(Found(bits))]]]]
=============================================================================
