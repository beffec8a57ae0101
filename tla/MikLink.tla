------------------------------ MODULE MikLink ------------------------------
(***************************************************************************)
(* The Asm of mik-os (one pass, with fixups) and how its kernels become    *)
(* binaries: the code, the user programs behind it, and the words patched  *)
(* with their addresses and lengths.  The body of build_common and of a    *)
(* kernel_* function is given as the sequence of its calls: "label",       *)
(* "emit", or one that takes a label ("jmp", "beq", "bne", "li"); a slot   *)
(* names the variable that remembers the index of the word.                *)
(***************************************************************************)
EXTENDS MikIsa

CONSTANTS
    Kernels,    \* bound: the call sequences
    LoadAddr    \* where the binary is loaded: 0x400000

VARIABLES
    calls,
    kphase,     \* "emit", "resolve", then "linked" or "panic"
    at,         \* next call or fixup
    code,       \* Asm.code; indices count from 0 as in the code
    names,      \* Asm.labels
    unresolved, \* Asm.unresolved
    slots,      \* Fixups and the *_idx variables: slot -> index
    image       \* the bytes of the kernel binary

linkVars == <<calls, kphase, at, code, names, unresolved, slots, image>>

With(f, x, y) == [z \in DOMAIN f \cup {x} |-> IF z = x THEN y ELSE f[z]]

LinkInit ==
    /\ calls \in Kernels
    /\ kphase = "emit"
    /\ at = 1
    /\ code = <<>> /\ names = <<>> /\ unresolved = <<>> /\ slots = <<>>
    /\ image = <<>>

Next1 == at' = at + 1 /\ UNCHANGED <<calls, image>>

Label(c) ==
    /\ c.call = "label"
    /\ names' = With(names, c.name, Len(code))
    /\ UNCHANGED <<code, unresolved, slots>>

\* emit, and jmp, beq, bne and li, which leave a fixup.
Emit(c) ==
    /\ c.call # "label"
    /\ code' = Append(code, Encode(c.call, 0, 0, 0, 0))
    /\ unresolved' = IF c.call \in Branches \cup {"li"} /\ c.name # "none"
                     THEN Append(unresolved, <<Len(code), c.name>>) ELSE unresolved
    /\ slots' = IF c.slot = "none" THEN slots ELSE With(slots, c.slot, Len(code))
    /\ UNCHANGED names

Call ==
    /\ kphase = "emit" /\ at <= Len(calls)
    /\ Label(calls[at]) \/ Emit(calls[at])
    /\ Next1 /\ UNCHANGED kphase

EndOfCalls ==
    /\ kphase = "emit" /\ at > Len(calls)
    /\ kphase' = "resolve"
    /\ at' = 1
    /\ UNCHANGED <<calls, code, names, unresolved, slots, image>>

\* A broken distance, counted from the next word.
FixupImm_FromNext(idx, t) ==
    IF code[idx + 1].op \in Branches THEN t - (idx + 1) ELSE LoadAddr + WordBytes * t

\* The immediate of a fixup: a distance in words, or an absolute address.
FixupImm(idx, t) ==
    IF code[idx + 1].op \in Branches THEN t - idx ELSE LoadAddr + WordBytes * t

\* resolve: expect("undefined label") panics.
Fixup ==
    /\ kphase = "resolve" /\ at <= Len(unresolved)
    /\ LET idx == unresolved[at][1]
           target == unresolved[at][2]
       IN  \/ /\ target \in DOMAIN names
              /\ code' = [code EXCEPT ![idx + 1] = Patched(@, FixupImm(idx, names[target]))]
              /\ UNCHANGED kphase
           \/ /\ target \notin DOMAIN names
              /\ kphase' = "panic"
              /\ UNCHANGED code
    /\ Next1 /\ UNCHANGED <<names, unresolved, slots>>

\* A broken layout: prog1 is looked for where init is.
PatchValue_SameBase(slot, init, prog) ==
    LET blob == LoadAddr + WordBytes * Len(code)
    IN  CASE slot = "init_len" -> Len(init)
          [] slot = "exec_len" -> Len(prog)
          [] OTHER             -> blob

\* What a slot is patched with: the programs follow the code, init first.
PatchValue(slot, init, prog) ==
    LET blob == LoadAddr + WordBytes * Len(code)
    IN  CASE slot = "init_len"  -> Len(init)
          [] slot = "exec_len"  -> Len(prog)
          [] slot = "exec_addr" -> blob + Len(init)
          [] OTHER              -> blob

\* The bytes of the words, one word after another.
Cells(words) ==
    [b \in 1 .. WordBytes * Len(words) |->
        WordCells(words[((b - 1) \div WordBytes) + 1])[((b - 1) % WordBytes) + 1]]

\* patch_imm for the slots patched, then binary.
Link(init, prog, patched) ==
    LET slotsAt(k) == {s \in DOMAIN slots \cap patched : slots[s] + 1 = k}
    IN  /\ kphase = "resolve" /\ at > Len(unresolved)
        /\ code' = [k \in DOMAIN code |->
                      IF slotsAt(k) = {} THEN code[k]
                      ELSE Patched(code[k], PatchValue(CHOOSE s \in slotsAt(k) : TRUE,
                                                       init, prog))]
        /\ image' = Cells(code') \o init \o prog
        /\ kphase' = "linked"
        /\ UNCHANGED <<calls, at, names, unresolved, slots>>
=============================================================================
