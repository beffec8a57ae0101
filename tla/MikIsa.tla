------------------------------- MODULE MikIsa -------------------------------
(***************************************************************************)
(* Mik-64 instruction words as mik-emu encodes and decodes them, for both  *)
(* assemblers: mik-asm and the Asm of mik-os.                              *)
(***************************************************************************)
EXTENDS Integers, Sequences

CONSTANTS
    WordBytes,  \* bytes of an instruction word: 8
    ImmSpan     \* values of the immediate field: 2^44

ASSUME IsaAssumption ==
    /\ WordBytes \in Nat \ {0}
    /\ ImmSpan \in Nat \ {0} /\ ImmSpan % 2 = 0

\* encode: the immediate is cut to its field.
Encode(op, rd, rs1, rs2, imm) ==
    [op |-> op, rd |-> rd, rs1 |-> rs1, rs2 |-> rs2, imm |-> imm % ImmSpan]

\* sext44
Sext(w) == IF 2 * w.imm < ImmSpan THEN w.imm ELSE w.imm - ImmSpan

\* Where a taken branch or jump at address pc goes.
BranchTo(pc, w) == pc + WordBytes * Sext(w)

\* The immediate of a word replaced (Asm::resolve and patch_imm).
Patched(w, imm) == [w EXCEPT !.imm = imm % ImmSpan]

\* to_le_bytes: the bytes of a word.
WordCells(w) == [b \in 1 .. WordBytes |-> <<"code", w, b>>]

\* The word an instruction fetch finds at an offset of a binary.
FetchAt(bin, offset) == bin[offset + 1][2]

Branches == {"jmp", "beq", "bne"}

\* The operands an opcode takes, in order; "value" and "target" may name a
\* label.  The opcodes without operands look at none.
Operands ==
    [halt |-> <<>>, eret |-> <<>>, sfence |-> <<>>, iret |-> <<>>,
     li |-> <<"rd", "value">>,
     add |-> <<"rd", "rs1", "rs2">>, sub |-> <<"rd", "rs1", "rs2">>,
     and |-> <<"rd", "rs1", "rs2">>, or |-> <<"rd", "rs1", "rs2">>,
     addi |-> <<"rd", "rs1", "number">>,
     load8 |-> <<"rd", "rs1", "number">>, load64 |-> <<"rd", "rs1", "number">>,
     store8 |-> <<"rs1", "rs2", "number">>, store64 |-> <<"rs1", "rs2", "number">>,
     beq |-> <<"rs1", "rs2", "target">>, bne |-> <<"rs1", "rs2", "target">>,
     jmp |-> <<"target">>,
     trap |-> <<"number">>, int |-> <<"number">>,
     jmpr |-> <<"rs1">>, sret |-> <<"rs1">>,
     rdcsr |-> <<"rd", "number">>, wrcsr |-> <<"rs1", "number">>]

-----------------------------------------------------------------------------
(* Operand tokens: [t |-> "reg", "num" or "label", v |-> its value].        *)
(* An operand is parsed into the set of its value, or {} for an Err.        *)

\* Rust's integer division, towards zero.
Quot(a, b) == IF a >= 0 THEN a \div b ELSE -((-a) \div b)

\* A label that is defined, else a number.
Address(tok, labels) ==
    IF tok.t = "label" THEN {labels[l] : l \in {tok.v} \cap DOMAIN labels}
    ELSE {n \in {tok.v} : tok.t = "num"}

Parse(kind, tok, labels, pc) ==
    CASE kind = "value"  -> Address(tok, labels)
      [] kind = "target" -> {Quot(a - pc, WordBytes) : a \in Address(tok, labels)}
      [] kind = "number" -> Address(tok, <<>>)
      [] OTHER           -> {n \in {tok.v} : tok.t = "reg" /\ tok.v <= 15}

\* The field of the word filled by an operand of one of the kinds, 0 if none is.
Field(kinds, op, args, labels, pc) ==
    LET at == {i \in DOMAIN Operands[op] : Operands[op][i] \in kinds}
    IN  IF at = {} THEN {0}
        ELSE UNION {Parse(Operands[op][i], args[i], labels, pc) : i \in at}

\* encode_instruction: the word, or {} for any Err.
EncodeInstruction(op, args, labels, pc) ==
    IF op \notin DOMAIN Operands \/ Len(Operands[op]) \notin {0, Len(args)} THEN {}
    ELSE {Encode(op, d, a, b, n) :
            d \in Field({"rd"}, op, args, labels, pc),
            a \in Field({"rs1"}, op, args, labels, pc),
            b \in Field({"rs2"}, op, args, labels, pc),
            n \in Field({"number", "value", "target"}, op, args, labels, pc)}
=============================================================================
