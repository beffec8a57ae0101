------------------------------- MODULE MikAsm -------------------------------
(***************************************************************************)
(* mik-asm: the two-pass assembler of the user programs.  A source is a    *)
(* sequence of lines, already cut into a label (None if the line has none) *)
(* and a statement: an instruction, a .string, or none.  The text of a     *)
(* .string is a sequence of characters "c", separators "," and " ", and    *)
(* "#"; an escape is one character.                                        *)
(***************************************************************************)
EXTENDS MikIsa, FiniteSets, SequencesExt

CONSTANTS
    Sources,    \* bound: the programs assembled
    Bases       \* bound: the addresses they are assembled for

None == "none"

\* A source is a sequence of lines, and every address in it is far from the
\* sign bit of an immediate.
IsProgram(p) ==
    /\ Len(p) \in Nat /\ DOMAIN p = 1 .. Len(p)
    /\ \A n \in DOMAIN p : p[n].op = ".string" => p[n].text \in Seq(STRING)
    /\ \E longest \in WordBytes .. ImmSpan :
         /\ \A n \in DOMAIN p : p[n].op = ".string" => Len(p[n].text) < longest
         /\ \A b \in Bases : 2 * (b + longest * Len(p)) < ImmSpan

ASSUME SourceAssumption == Bases \subseteq Nat /\ \A p \in Sources : IsProgram(p)

VARIABLES
    source, base,
    phase,      \* "read", "place", "resolve", "encode", then "ok", "err" or "panic"
    line,       \* next line of the first pass
    items,      \* instructions and data
    labels,     \* label -> index of the item that follows it
    item_addrs, addr,
    label_addrs,
    binary      \* bytes: <<"code", word, byte>> or <<"data", character>>

asmVars == <<source, base, phase, line, items, labels, item_addrs, addr,
             label_addrs, binary>>

AsmInit ==
    /\ source \in Sources
    /\ base \in Bases
    /\ phase = "read"
    /\ line = 1
    /\ items = <<>>
    /\ labels = <<>>
    /\ item_addrs = <<>>
    /\ addr = base
    /\ label_addrs = <<>>
    /\ binary = <<>>

Blank(c) == c \in {",", " "}

\* The line was cut at '#' and split at blanks and commas, and its tokens are
\* joined with one blank: of every run of commas and blanks one blank is left.
Joined(text) ==
    LET kept == {i \in DOMAIN text : Blank(text[i]) => i = 1 \/ ~Blank(text[i - 1])}
        place(j) == CHOOSE i \in kept : Cardinality(kept \cap 1 .. i) = j
    IN  [j \in 1 .. Cardinality(kept) |->
            IF Blank(text[place(j)]) THEN " " ELSE text[place(j)]]

\* parse_string: the bytes and a NUL, or {} when '#' has cut the closing quote.
StringItem(text) ==
    {[op |-> ".string", text |-> Append(Joined(s), "NUL")] :
        s \in {s \in {text} : "#" \notin ToSet(s)}}

\* Only the opening quote is left: parse_string slices [1..0] of it, a panic.
LoneQuote(text) ==
    \E i \in DOMAIN text : text[i] = "#" /\ \A j \in 1 .. i - 1 : Blank(text[j])

\* The item of a statement, {} for none, an Err or a panic.
Statement(s) ==
    CASE s.op = None      -> {}
      [] s.op = ".string" -> StringItem(s.text)
      [] OTHER            -> {[op |-> s.op, args |-> s.args]}

\* The item a line adds, if any.
Collect(s) ==
    \/ s.op = None /\ UNCHANGED <<items, phase>>
    \/ \E item \in Statement(s) : items' = Append(items, item) /\ UNCHANGED phase
    \/ /\ s.op # None /\ Statement(s) = {}
       /\ phase' = IF s.op = ".string" /\ LoneQuote(s.text) THEN "panic" ELSE "err"
       /\ UNCHANGED items

\* A broken table: the first place of a label stays.
Recorded_FirstStays(s) ==
    [l \in DOMAIN labels \cup ({s.label} \ {None}) |->
        IF l \in DOMAIN labels THEN labels[l] ELSE Len(items) + 1]

\* The labels after a line: one defined twice has its last place.
Recorded(s) ==
    [l \in DOMAIN labels \cup ({s.label} \ {None}) |->
        IF l = s.label THEN Len(items) + 1 ELSE labels[l]]

\* First pass: record the label, collect the item.
ReadLine ==
    /\ phase = "read" /\ line <= Len(source)
    /\ labels' = Recorded(source[line])
    /\ Collect(source[line])
    /\ line' = line + 1
    /\ UNCHANGED <<source, base, item_addrs, addr, label_addrs, binary>>

EndOfSource ==
    /\ phase = "read" /\ line > Len(source)
    /\ phase' = "place"
    /\ UNCHANGED <<source, base, line, items, labels, item_addrs, addr,
                   label_addrs, binary>>

Size(item) == IF item.op = ".string" THEN Len(item.text) ELSE WordBytes

\* The address of every item.
PlaceItem ==
    /\ phase = "place" /\ Len(item_addrs) < Len(items)
    /\ item_addrs' = Append(item_addrs, addr)
    /\ addr' = addr + Size(items[Len(item_addrs) + 1])
    /\ UNCHANGED <<source, base, phase, line, items, labels, label_addrs, binary>>

\* Labels to addresses: item_addrs[idx] panics for a label after the last item.
ResolveLabels ==
    /\ phase = "place" /\ Len(item_addrs) = Len(items)
    /\ \/ /\ \E l \in DOMAIN labels : labels[l] > Len(items)
          /\ phase' = "panic"
          /\ UNCHANGED label_addrs
       \/ /\ \A l \in DOMAIN labels : labels[l] <= Len(items)
          /\ phase' = "encode"
          /\ label_addrs' = [l \in DOMAIN labels |-> item_addrs[labels[l]]]
    /\ line' = 1
    /\ UNCHANGED <<source, base, items, labels, item_addrs, addr, binary>>

\* The bytes of an item, {} for an Err.
ItemCells(k) ==
    LET item == items[k]
    IN  IF item.op = ".string"
        THEN {[i \in DOMAIN item.text |-> <<"data", item.text[i]>>]}
        ELSE {WordCells(w) :
                w \in EncodeInstruction(item.op, item.args, label_addrs, item_addrs[k])}

\* Second pass: encode an item.
EncodeItem ==
    /\ phase = "encode" /\ line <= Len(items)
    /\ \/ /\ \E cells \in ItemCells(line) : binary' = binary \o cells
          /\ phase' = phase
       \/ /\ ItemCells(line) = {}
          /\ phase' = "err"
          /\ UNCHANGED binary
    /\ line' = line + 1
    /\ UNCHANGED <<source, base, items, labels, item_addrs, addr, label_addrs>>

Assembled ==
    /\ phase = "encode" /\ line > Len(items)
    /\ phase' = "ok"
    /\ UNCHANGED <<source, base, line, items, labels, item_addrs, addr,
                   label_addrs, binary>>

AsmNext ==
    \/ ReadLine \/ EndOfSource
    \/ PlaceItem \/ ResolveLabels
    \/ EncodeItem \/ Assembled

AsmSpec == AsmInit /\ [][AsmNext]_asmVars
=============================================================================
