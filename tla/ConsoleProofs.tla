--------------------------- MODULE ConsoleProofs ---------------------------
(***************************************************************************)
(* What holds of the console for every keyboard, ring and screen: shift    *)
(* never sticks, the decoder, the serial port and the shell together use   *)
(* the ring as the queue it is, the screen shows the line, and the shell   *)
(* runs the lines as they were typed.                                      *)
(***************************************************************************)
EXTENDS Console, InputRingProofs, FiniteSetTheorems, WellFoundedInduction

\* Only shift keys are held, and a set flag has a key that is down.
ShiftInv == held \subseteq Shifts /\ NoStuckShift

\* The release of either shift key clears the flag; no other code touches it.
LEMMA ShiftStep ==
    ASSUME ShiftInv, [Next]_vars
    PROVE  ShiftInv'
<1>1. ASSUME NEW sc \in Scancodes, KbdIrq(sc)
      PROVE  ShiftInv'
  <2>1. sc \in Nat /\ sc - 128 # sc  BY ConsoleAssumption
  <2>2. /\ shift' = ShiftAfter(sc)
        /\ held' = (held \cup ({sc} \cap Shifts)) \ {sc - 128}
    BY <1>1 DEF KbdIrq
  <2>3. CASE sc \in Shifts
    BY <2>1, <2>2, <2>3 DEF ShiftInv, NoStuckShift
  <2>4. CASE sc \notin Shifts /\ sc - 128 \in Shifts
    BY <2>2, <2>4 DEF ShiftInv, NoStuckShift, ShiftAfter
  <2>5. CASE sc \notin Shifts /\ sc - 128 \notin Shifts
    BY <2>2, <2>5 DEF ShiftInv, NoStuckShift, ShiftAfter
  <2> QED  BY <2>3, <2>4, <2>5
<1>2. CASE \/ \E b \in SerialBytes : DrainRx(b)
           \/ Shell \/ (\E b \in OtherBytes : OtherWrites(b)) \/ UNCHANGED vars
  <2>1. UNCHANGED kbdVars
    BY <1>2 DEF DrainRx, Shell, Read, Drop, Store, Erase, EnterNothing,
           EnterCommand, Turn, OtherWrites, vars
  <2> QED  BY <2>1 DEF kbdVars, ShiftInv, NoStuckShift
<1> QED  BY <1>1, <1>2 DEF Next

\* With every shift key up, letters come out small: the flag two keys share
\* never sticks, in whatever order they went down and up.
THEOREM ShiftNeverSticks == Spec => []NoStuckShift
<1>1. Init => ShiftInv  BY DEF Init, ShiftInv, NoStuckShift
<1>2. ShiftInv => NoStuckShift  BY DEF ShiftInv
<1> QED  BY <1>1, <1>2, ShiftStep, PTL DEF Spec

-----------------------------------------------------------------------------

\* A step of the console is one of the ring: the handlers push bytes a device
\* can deliver, the shell pops, and nobody else touches it.
LEMMA StepOfRing ==
    ASSUME [Next]_vars
    PROVE  [RingNext]_ringVars
<1>1. ASSUME NEW sc \in Scancodes, KbdIrq(sc)
      PROVE  [RingNext]_ringVars
  <2>1. \A b \in Decoded(sc) : b \in Bytes
    BY ConsoleAssumption DEF Decoded
  <2> QED  BY <1>1, <2>1 DEF KbdIrq, RingNext
<1>2. ASSUME NEW b \in SerialBytes, DrainRx(b)
      PROVE  RingNext
  BY <1>2, ConsoleAssumption DEF DrainRx, RingNext
<1>3. CASE Read
  BY <1>3 DEF Read, RingNext
<1>4. CASE \/ Drop \/ Store \/ Erase \/ EnterNothing \/ EnterCommand
           \/ (\E b \in OtherBytes : OtherWrites(b)) \/ UNCHANGED vars
  BY <1>4 DEF Drop, Store, Erase, EnterNothing, EnterCommand, Turn,
         OtherWrites, vars
<1> QED  BY <1>1, <1>2, <1>3, <1>4 DEF Next, Shell

\* Between its devices and the shell the ring is a first-in first-out queue
\* that loses a byte only when it is full.
THEOREM ConsoleUsesQueue == Spec => ImplementsQueue
<1>1. Spec => RingSpec
  <2>1. Init => RingInit  BY DEF Init
  <2> QED  BY <2>1, StepOfRing, PTL DEF Spec, RingSpec
<1> QED  BY <1>1, RingImplementsQueue

-----------------------------------------------------------------------------

\* Induction: a set that has zero and the successor of what it has, has all.
LEMMA Induction ==
  ASSUME NEW S, 0 \in S, \A n \in Nat : n \in S => n + 1 \in S
  PROVE  Nat \subseteq S
<1> DEFINE T == Nat \ S
           R == {ss \in Nat \X Nat : ss[1] < ss[2]}
<1> SUFFICES ASSUME T # {} PROVE FALSE
  OBVIOUS
<1>1. IsWellFoundedOn(R, Nat)  BY NatLessThanWellFounded DEF OpToRel
<1>2. PICK x \in T : \A y \in T : ~(<<y, x>> \in R)
  <2>1. T \subseteq Nat  OBVIOUS
  <2> HIDE DEF R, T
  <2> QED  BY <1>1, <2>1, WFMin
<1>3. x \in Nat /\ x # 0 /\ x \notin S  OBVIOUS
<1>4. x - 1 \in Nat /\ (x - 1) + 1 = x /\ x - 1 < x  BY <1>3
<1>5. x - 1 \in S  BY <1>2, <1>3, <1>4
<1> QED  BY <1>3, <1>4, <1>5

-----------------------------------------------------------------------------
(* The screen *)

\* What the screen is.
Area == Cols * Rows
Screen == [cursor : 0 .. Area - 1, cells : [0 .. Area - 1 -> Nat]]
Shown == [cursor |-> cursor, cells |-> cells]

\* Products grow with their factors.
LEMMA TimesMonotone ==
  ASSUME NEW a \in Nat, NEW b \in Nat, NEW c \in Nat, a <= b
  PROVE  a * c <= b * c
<1>1. PICK d \in Nat : b = a + d
  <2>1. b - a \in Nat /\ b = a + (b - a)  OBVIOUS
  <2> QED  BY <2>1
<1>2. (a + d) * c = a * c + d * c /\ d * c \in Nat /\ a * c \in Nat
  OBVIOUS
<1> QED  BY <1>1, <1>2

\* The sizes of screen, prompt and line.
LEMMA SizesOK ==
  /\ Cols \in Nat \ {0} /\ Rows \in Nat \ {0} /\ LineCap \in Nat \ {0}
  /\ Prompt \in Seq(32 .. 126) /\ Len(Prompt) \in Nat
  /\ Len(Prompt) + LineCap < Cols
  /\ Area = Cols * Rows /\ Area = Rows * Cols /\ Area \in Nat \ {0} /\ Cols <= Area
<1>1. /\ Cols \in Nat /\ Rows \in Nat \ {0} /\ LineCap \in Nat \ {0}
      /\ Prompt \in Seq(32 .. 126) /\ Len(Prompt) + LineCap < Cols
  BY ConsoleAssumption
<1>2. Cols \in Nat \ {0} /\ Len(Prompt) \in Nat  BY <1>1
<1>3. 1 * Cols <= Rows * Cols  BY <1>1, <1>2, TimesMonotone
<1>4. Area = Cols * Rows /\ Area = Rows * Cols  BY <1>1 DEF Area
<1> QED  BY <1>1, <1>2, <1>3, <1>4

\* Where a cell is: in row q, which starts at cell y, in column r.
LEMMA CellFacts ==
  ASSUME NEW c \in 0 .. Area - 1
  PROVE  \E q \in Nat, y \in Nat, r \in 0 .. Cols - 1 :
           /\ q = c \div Cols /\ r = c % Cols /\ y = q * Cols /\ c = y + r
           /\ (q + 1) * Cols = y + Cols /\ y + Cols <= Area
<1>0. Cols \in Nat \ {0}  BY SizesOK
<1>1. c \in Nat /\ c < Area  BY SizesOK
<1>2. PICK q \in Nat, r \in 0 .. Cols - 1 :
        q = c \div Cols /\ r = c % Cols /\ c = q * Cols + r
  BY <1>0, <1>1
<1>3. PICK y \in Nat : y = q * Cols  BY SizesOK
<1>4. (q + 1) * Cols = y + Cols  BY <1>3, SizesOK
<1>5. q < Rows
  <2> SUFFICES ASSUME q >= Rows PROVE FALSE
    BY <1>2, SizesOK
  <2>1. Rows * Cols <= q * Cols  BY SizesOK, TimesMonotone
  <2> QED  BY <1>1, <1>2, <1>3, <2>1, SizesOK
<1>6. y + Cols <= Area
  <2>1. q + 1 <= Rows /\ q + 1 \in Nat  BY <1>5, SizesOK
  <2>2. (q + 1) * Cols <= Rows * Cols  BY <2>1, SizesOK, TimesMonotone
  <2> QED  BY <1>4, <2>2, SizesOK
<1> QED  BY <1>2, <1>3, <1>4, <1>6

\* What is left of a cell's number behind whole rows.
LEMMA ColumnOf ==
  ASSUME NEW q \in Nat, NEW r \in 0 .. Cols - 1
  PROVE  (q * Cols + r) % Cols = r
<1> DEFINE a == q * Cols + r
<1>0. Cols \in Nat \ {0}  BY SizesOK
<1>1. a \in Nat  BY <1>0
<1>2. PICK k \in Nat, s \in 0 .. Cols - 1 : s = a % Cols /\ a = k * Cols + s
  <2> HIDE DEF a
  <2> QED  BY <1>0, <1>1
<1>3. PICK u \in Nat, v \in Nat : u = k * Cols /\ v = q * Cols  BY <1>0, <1>2
<1>4. u + s = v + r  BY <1>2, <1>3
<1>5. ASSUME k > q PROVE FALSE
  <2>1. q + 1 \in Nat /\ q + 1 <= k  BY <1>2, <1>5
  <2>2. (q + 1) * Cols <= k * Cols  BY <1>0, <1>2, <2>1, TimesMonotone
  <2>3. (q + 1) * Cols = v + Cols  BY <1>0, <1>3
  <2> QED  BY <1>0, <1>2, <1>3, <1>4, <2>2, <2>3
<1>6. ASSUME k < q PROVE FALSE
  <2>1. k + 1 \in Nat /\ k + 1 <= q  BY <1>2, <1>6
  <2>2. (k + 1) * Cols <= q * Cols  BY <1>0, <1>2, <2>1, TimesMonotone
  <2>3. (k + 1) * Cols = u + Cols  BY <1>0, <1>2, <1>3
  <2> QED  BY <1>0, <1>2, <1>3, <1>4, <2>2, <2>3
<1>7. k = q  BY <1>2, <1>5, <1>6
<1>8. u = v  BY <1>3, <1>7
<1>9. s = r  BY <1>2, <1>3, <1>4, <1>8
<1> QED  BY <1>2, <1>9

\* A byte that runs over the end of the screen scrolls it.
Fit(scr) == IF scr.cursor < Cols * Rows THEN scr
            ELSE [cursor |-> scr.cursor - Cols, cells |-> Scrolled(scr.cells)]

\* Scrolled or not, it is a screen.
LEMMA FitOK ==
  ASSUME NEW c \in 0 .. Area, NEW d \in [0 .. Area - 1 -> Nat]
  PROVE  /\ Fit([cursor |-> c, cells |-> d]) \in Screen
         /\ c < Area => Fit([cursor |-> c, cells |-> d]) = [cursor |-> c, cells |-> d]
         /\ c = Area => Fit([cursor |-> c, cells |-> d]).cursor = Area - Cols
<1>1. Scrolled(d) \in [0 .. Area - 1 -> Nat]
  BY SizesOK DEF Scrolled, Space
<1>2. CASE c < Area
  BY <1>2, SizesOK DEF Fit, Screen
<1>3. CASE c = Area
  <2>1. Fit([cursor |-> c, cells |-> d]) = [cursor |-> c - Cols, cells |-> Scrolled(d)]
    BY <1>3, SizesOK DEF Fit
  <2>2. c - Cols \in 0 .. Area - 1  BY <1>3, SizesOK
  <2> QED  BY <1>1, <1>3, <2>1, <2>2, SizesOK DEF Screen
<1> QED  BY <1>2, <1>3, SizesOK

\* put_byte, byte by byte.
LEMMA PutCases ==
  ASSUME NEW c, NEW d, NEW b
  PROVE  /\ b = 10 => PutByte([cursor |-> c, cells |-> d], b)
                        = Fit([cursor |-> (c \div Cols + 1) * Cols, cells |-> d])
         /\ b = 13 => PutByte([cursor |-> c, cells |-> d], b)
                        = Fit([cursor |-> (c \div Cols) * Cols, cells |-> d])
         /\ b = 8 /\ c % Cols > 0 =>
              PutByte([cursor |-> c, cells |-> d], b)
                = Fit([cursor |-> c - 1, cells |-> [d EXCEPT ![c - 1] = Space]])
         /\ Printable(b) =>
              PutByte([cursor |-> c, cells |-> d], b)
                = Fit([cursor |-> c + 1, cells |-> [d EXCEPT ![c] = b]])
         /\ ~(b = 10 \/ b = 13 \/ (b = 8 /\ c % Cols > 0) \/ Printable(b)) =>
              PutByte([cursor |-> c, cells |-> d], b) = Fit([cursor |-> c, cells |-> d])
<1>1. CASE b = 10  BY <1>1 DEF PutByte, Fit, Printable
<1>2. CASE b = 13  BY <1>2 DEF PutByte, Fit, Printable
<1>3. CASE b = 8 /\ c % Cols > 0  BY <1>3 DEF PutByte, Fit, Printable
<1>4. CASE Printable(b)  BY <1>4 DEF PutByte, Fit, Printable
<1>5. CASE ~(b = 10 \/ b = 13 \/ (b = 8 /\ c % Cols > 0) \/ Printable(b))
  BY <1>5 DEF PutByte, Fit
<1> QED  BY <1>1, <1>2, <1>3, <1>4, <1>5 DEF Printable

\* Every byte leaves a screen, and a newline goes to the left edge.
LEMMA PutAny ==
  ASSUME NEW scr \in Screen, NEW b \in Nat
  PROVE  /\ PutByte(scr, b) \in Screen
         /\ b = 10 => PutByte(scr, b).cursor % Cols = 0
<1>1. PICK c \in 0 .. Area - 1, d \in [0 .. Area - 1 -> Nat] :
        scr = [cursor |-> c, cells |-> d]
  BY DEF Screen
<1>2. PICK q \in Nat, y \in Nat, r \in 0 .. Cols - 1 :
           /\ q = c \div Cols /\ r = c % Cols /\ y = q * Cols /\ c = y + r
           /\ (q + 1) * Cols = y + Cols /\ y + Cols <= Area
  BY CellFacts
<1>a. /\ y \in Nat /\ r \in 0 .. Cols - 1 /\ c = y + r /\ y + Cols <= Area
      /\ Cols \in Nat \ {0} /\ Area \in Nat /\ c \in 0 .. Area - 1
  BY <1>2, SizesOK
<1>3. CASE b = 10
  <2>1. PutByte(scr, b) = Fit([cursor |-> y + Cols, cells |-> d])
    <3>1. PutByte(scr, b) = Fit([cursor |-> (c \div Cols + 1) * Cols, cells |-> d])
      BY <1>1, <1>3, PutCases
    <3>2. (c \div Cols + 1) * Cols = y + Cols  BY <1>2
    <3> QED  BY <3>1, <3>2
  <2>2. y + Cols \in 0 .. Area  BY <1>a
  <2>3. PutByte(scr, b) \in Screen  BY <2>1, <2>2, FitOK
  <2>4. (q * Cols + 0) % Cols = 0 /\ ((q + 1) * Cols + 0) % Cols = 0
    <3>1. 0 \in 0 .. Cols - 1 /\ q + 1 \in Nat  BY <1>a
    <3> QED  BY <3>1, ColumnOf
  <2>5. y % Cols = 0 /\ (y + Cols) % Cols = 0
    <3>1. q * Cols + 0 = y /\ (q + 1) * Cols + 0 = y + Cols  BY <1>2, SizesOK
    <3> QED  BY <2>4, <3>1
  <2>6. CASE y + Cols < Area
    BY <2>1, <2>2, <2>3, <2>5, <2>6, FitOK
  <2>7. CASE y + Cols = Area
    <3>1. PutByte(scr, b).cursor = Area - Cols  BY <2>1, <2>2, <2>7, FitOK
    <3>2. Area - Cols = y  BY <1>a, <2>7
    <3> QED  BY <2>3, <2>5, <3>1, <3>2
  <2> QED  BY <1>a, <2>6, <2>7
<1>4. CASE b = 13
  <2>1. PutByte(scr, b) = Fit([cursor |-> y, cells |-> d])
    <3>1. PutByte(scr, b) = Fit([cursor |-> (c \div Cols) * Cols, cells |-> d])
      BY <1>1, <1>4, PutCases
    <3> QED  BY <1>2, <3>1
  <2>2. y \in 0 .. Area  BY <1>a
  <2> QED  BY <1>4, <2>1, <2>2, FitOK
<1>5. CASE b = 8 /\ c % Cols > 0
  <2>1. PutByte(scr, b) = Fit([cursor |-> c - 1, cells |-> [d EXCEPT ![c - 1] = Space]])
    BY <1>1, <1>5, PutCases
  <2>2. c - 1 \in 0 .. Area  BY <1>2, <1>5, SizesOK
  <2>3. [d EXCEPT ![c - 1] = Space] \in [0 .. Area - 1 -> Nat]  BY DEF Space
  <2>4. PutByte(scr, b) \in Screen
    <3> DEFINE d2 == [d EXCEPT ![c - 1] = Space]
    <3> HIDE DEF d2
    <3> QED  BY <2>1, <2>2, <2>3, FitOK DEF d2
  <2> QED  BY <1>5, <2>4
<1>6. CASE Printable(b)
  <2>1. PutByte(scr, b) = Fit([cursor |-> c + 1, cells |-> [d EXCEPT ![c] = b]])
    BY <1>1, <1>6, PutCases
  <2>2. c + 1 \in 0 .. Area  BY SizesOK
  <2>3. [d EXCEPT ![c] = b] \in [0 .. Area - 1 -> Nat]  OBVIOUS
  <2>4. PutByte(scr, b) \in Screen
    <3> DEFINE d2 == [d EXCEPT ![c] = b]
    <3> HIDE DEF d2
    <3> QED  BY <2>1, <2>2, <2>3, FitOK DEF d2
  <2> QED  BY <1>6, <2>4 DEF Printable
<1>7. CASE ~(b = 10 \/ b = 13 \/ (b = 8 /\ c % Cols > 0) \/ Printable(b))
  <2>1. PutByte(scr, b) = Fit([cursor |-> c, cells |-> d])
    BY <1>1, <1>7, PutCases
  <2>2. c \in 0 .. Area  BY SizesOK
  <2> QED  BY <1>7, <2>1, <2>2, FitOK
<1> QED  BY <1>3, <1>4, <1>5, <1>6, <1>7

\* A printable byte that does not end a row changes one cell.
LEMMA PutPrintable ==
  ASSUME NEW scr \in Screen, NEW b \in Nat, Printable(b), (scr.cursor % Cols) + 1 < Cols
  PROVE  /\ PutByte(scr, b) = [cursor |-> scr.cursor + 1,
                               cells |-> [scr.cells EXCEPT ![scr.cursor] = b]]
         /\ (scr.cursor + 1) % Cols = (scr.cursor % Cols) + 1
<1>1. PICK c \in 0 .. Area - 1, d \in [0 .. Area - 1 -> Nat] :
        scr = [cursor |-> c, cells |-> d]
  BY DEF Screen
<1>2. PICK q \in Nat, y \in Nat, r \in 0 .. Cols - 1 :
           /\ q = c \div Cols /\ r = c % Cols /\ y = q * Cols /\ c = y + r
           /\ (q + 1) * Cols = y + Cols /\ y + Cols <= Area
  BY CellFacts
<1>3. /\ y \in Nat /\ r \in 0 .. Cols - 1 /\ c = y + r /\ y + Cols <= Area
      /\ Cols \in Nat \ {0} /\ Area \in Nat /\ c \in 0 .. Area - 1 /\ r = c % Cols
  BY <1>2, SizesOK
<1>4. r + 1 < Cols  BY <1>1, <1>3
<1>5. r + 1 \in 0 .. Cols - 1 /\ c + 1 \in 0 .. Area /\ c + 1 < Area /\ c + 1 = y + (r + 1)
  BY <1>3, <1>4
<1>6. (c + 1) % Cols = r + 1
  <2>1. (q * Cols + (r + 1)) % Cols = r + 1  BY <1>2, <1>5, ColumnOf
  <2> QED  BY <1>2, <1>5, <2>1
<1>7. PutByte(scr, b) = [cursor |-> c + 1, cells |-> [d EXCEPT ![c] = b]]
  <2>1. PutByte(scr, b) = Fit([cursor |-> c + 1, cells |-> [d EXCEPT ![c] = b]])
    BY <1>1, PutCases
  <2>2. PICK d2 : d2 = [d EXCEPT ![c] = b]  OBVIOUS
  <2>3. d2 \in [0 .. Area - 1 -> Nat]  BY <2>2
  <2> QED  BY <1>5, <2>1, <2>2, <2>3, FitOK
<1> QED  BY <1>1, <1>3, <1>6, <1>7

\* A backspace clears the cell before the cursor.
LEMMA PutBack ==
  ASSUME NEW scr \in Screen, scr.cursor % Cols > 0
  PROVE  /\ PutByte(scr, 8) = [cursor |-> scr.cursor - 1,
                               cells |-> [scr.cells EXCEPT ![scr.cursor - 1] = Space]]
         /\ (scr.cursor - 1) % Cols = (scr.cursor % Cols) - 1
<1>1. PICK c \in 0 .. Area - 1, d \in [0 .. Area - 1 -> Nat] :
        scr = [cursor |-> c, cells |-> d]
  BY DEF Screen
<1>2. PICK q \in Nat, y \in Nat, r \in 0 .. Cols - 1 :
           /\ q = c \div Cols /\ r = c % Cols /\ y = q * Cols /\ c = y + r
           /\ (q + 1) * Cols = y + Cols /\ y + Cols <= Area
  BY CellFacts
<1>3. /\ y \in Nat /\ r \in 0 .. Cols - 1 /\ c = y + r /\ y + Cols <= Area
      /\ Cols \in Nat \ {0} /\ Area \in Nat /\ c \in 0 .. Area - 1 /\ r = c % Cols
  BY <1>2, SizesOK
<1>4. r > 0  BY <1>1, <1>3
<1>5. r - 1 \in 0 .. Cols - 1 /\ c - 1 \in 0 .. Area /\ c - 1 < Area /\ c - 1 = y + (r - 1)
  BY <1>3, <1>4
<1>6. (c - 1) % Cols = r - 1
  <2>1. (q * Cols + (r - 1)) % Cols = r - 1  BY <1>2, <1>5, ColumnOf
  <2> QED  BY <1>2, <1>5, <2>1
<1>7. PutByte(scr, 8) = [cursor |-> c - 1, cells |-> [d EXCEPT ![c - 1] = Space]]
  <2>1. PutByte(scr, 8) = Fit([cursor |-> c - 1, cells |-> [d EXCEPT ![c - 1] = Space]])
    <3>1. c % Cols > 0  BY <1>3, <1>4
    <3>2. PutByte([cursor |-> c, cells |-> d], 8)
            = Fit([cursor |-> c - 1, cells |-> [d EXCEPT ![c - 1] = Space]])
      BY <3>1, PutCases
    <3> QED  BY <1>1, <3>2
  <2>2. PICK d2 : d2 = [d EXCEPT ![c - 1] = Space]  OBVIOUS
  <2>3. d2 \in [0 .. Area - 1 -> Nat]  BY <2>2 DEF Space
  <2> QED  BY <1>5, <2>1, <2>2, <2>3, FitOK
<1> QED  BY <1>1, <1>3, <1>6, <1>7

-----------------------------------------------------------------------------

\* h goes from the screen scr byte by byte through the text.
Path(scr, text, m, h) ==
  /\ h \in [0 .. m -> Screen]
  /\ h[0] = scr
  /\ \A n \in 1 .. m : h[n] = PutByte(h[n - 1], text[n])

\* There is a path through every text.
LEMMA PathExists ==
  ASSUME NEW scr \in Screen, NEW text \in Seq(Nat)
  PROVE  \E h : Path(scr, text, Len(text), h)
<1> DEFINE S == {m \in Nat : m <= Len(text) => \E h : Path(scr, text, m, h)}
<1>1. 0 \in S
  <2>1. Path(scr, text, 0, [i \in 0 .. 0 |-> scr])  BY DEF Path
  <2> QED  BY <2>1
<1>2. ASSUME NEW n \in Nat, n \in S PROVE n + 1 \in S
  <2> SUFFICES ASSUME n + 1 <= Len(text) PROVE \E h : Path(scr, text, n + 1, h)
    OBVIOUS
  <2>1. PICK h : Path(scr, text, n, h)  BY <1>2
  <2>2. h \in [0 .. n -> Screen] /\ h[n] \in Screen /\ text[n + 1] \in Nat
    BY <2>1 DEF Path
  <2>3. PutByte(h[n], text[n + 1]) \in Screen  BY <2>2, PutAny
  <2>4. PICK p : p = PutByte(h[n], text[n + 1])  OBVIOUS
  <2> DEFINE h2 == [i \in 0 .. n + 1 |-> IF i = n + 1 THEN p ELSE h[i]]
  <2>5. h2 \in [0 .. n + 1 -> Screen]  BY <2>2, <2>3, <2>4
  <2>6. h2[0] = scr  BY <2>1 DEF Path
  <2>7. \A i \in 1 .. n + 1 : h2[i] = PutByte(h2[i - 1], text[i])
    <3> SUFFICES ASSUME NEW i \in 1 .. n + 1 PROVE h2[i] = PutByte(h2[i - 1], text[i])
      OBVIOUS
    <3>1. CASE i = n + 1
      <4>1. h2[i] = p /\ i - 1 = n /\ h2[n] = h[n]  BY <3>1
      <4> QED  BY <2>4, <3>1, <4>1
    <3>2. CASE i # n + 1
      <4>1. i \in 1 .. n /\ i - 1 \in 0 .. n  BY <3>2
      <4>2. h2[i] = h[i] /\ h2[i - 1] = h[i - 1]  BY <4>1
      <4> QED  BY <2>1, <4>1, <4>2 DEF Path
    <3> QED  BY <3>1, <3>2
  <2> HIDE DEF h2
  <2> QED  BY <2>5, <2>6, <2>7 DEF Path
<1> HIDE DEF S
<1>3. Nat \subseteq S  BY <1>1, <1>2, Induction
<1>4. Len(text) \in Nat  OBVIOUS
<1> QED  BY <1>3, <1>4 DEF S

\* Writes goes along the one path there is.
LEMMA WritesPath ==
  ASSUME Shown \in Screen, NEW text \in Seq(Nat), Writes(text)
  PROVE  \E h : Path(Shown, text, Len(text), h) /\ Shown' = h[Len(text)]
<1> DEFINE N == Len(text)
           Is(f) == f = [n \in 0 .. N |->
                      IF n = 0 THEN {[cursor |-> cursor, cells |-> cells]}
                      ELSE {PutByte(scr, text[n]) : scr \in f[n - 1]}]
           A == CHOOSE f : Is(f)
<1>1. \E scr \in A[N] : cursor' = scr.cursor /\ cells' = scr.cells
  BY DEF Writes
<1>2. PICK h : Path(Shown, text, N, h)  BY PathExists
<1>3. Is([n \in 0 .. N |-> {h[n]}])
  <2> DEFINE f0 == [n \in 0 .. N |-> {h[n]}]
  <2> SUFFICES ASSUME NEW n \in 0 .. N
               PROVE {h[n]} = IF n = 0 THEN {[cursor |-> cursor, cells |-> cells]}
                      ELSE {PutByte(scr, text[n]) : scr \in f0[n - 1]}
    BY Zenon
  <2>1. CASE n = 0  BY <1>2, <2>1 DEF Path, Shown
  <2>2. CASE n # 0
    <3>1. n \in 1 .. N /\ n - 1 \in 0 .. N /\ f0[n - 1] = {h[n - 1]}  BY <2>2
    <3>2. h[n] = PutByte(h[n - 1], text[n])  BY <1>2, <3>1 DEF Path
    <3> QED  BY <2>2, <3>1, <3>2
  <2> QED  BY <2>1, <2>2
<1>4. Is(A)
  <2> HIDE DEF Is
  <2> QED  BY <1>3
<1>5. \A n \in 0 .. N : A[n] = {h[n]}
  <2> DEFINE S == {m \in Nat : m <= N => A[m] = {h[m]}}
  <2> HIDE DEF A
  <2>0. N \in Nat  OBVIOUS
  <2>1. 0 \in S
    <3>1. 0 \in 0 .. N  BY <2>0
    <3>2. A[0] = {[cursor |-> cursor, cells |-> cells]}  BY <1>4, <3>1
    <3> QED  BY <1>2, <3>2 DEF Path, Shown
  <2>2. ASSUME NEW m \in Nat, m \in S PROVE m + 1 \in S
    <3> SUFFICES ASSUME m + 1 <= N PROVE A[m + 1] = {h[m + 1]}
      OBVIOUS
    <3>1. A[m] = {h[m]} /\ m + 1 \in 1 .. N /\ m + 1 \in 0 .. N /\ m + 1 # 0 /\ (m + 1) - 1 = m
      BY <2>0, <2>2
    <3>2. h[m + 1] = PutByte(h[m], text[m + 1])  BY <1>2, <3>1 DEF Path
    <3>3. A[m + 1] = {PutByte(scr, text[m + 1]) : scr \in A[m]}  BY <1>4, <3>1
    <3> QED  BY <3>1, <3>2, <3>3
  <2> HIDE DEF S
  <2>3. Nat \subseteq S  BY <2>1, <2>2, Induction
  <2> QED  BY <2>0, <2>3 DEF S
<1>6. A[N] = {h[N]} /\ h[N] \in Screen
  <2>1. N \in 0 .. N  OBVIOUS
  <2> QED  BY <1>2, <1>5, <2>1 DEF Path
<1> HIDE DEF A
<1>7. cursor' = h[N].cursor /\ cells' = h[N].cells  BY <1>1, <1>6
<1>8. Shown' = h[N]  BY <1>6, <1>7 DEF Shown, Screen
<1> QED  BY <1>2, <1>8

\* Whatever is written leaves a screen.
LEMMA WritesType ==
  ASSUME Shown \in Screen, NEW text \in Seq(Nat), Writes(text)
  PROVE  Shown' \in Screen
<1>1. PICK h : Path(Shown, text, Len(text), h) /\ Shown' = h[Len(text)]
  BY WritesPath
<1>2. Len(text) \in 0 .. Len(text)  OBVIOUS
<1> QED  BY <1>1, <1>2 DEF Path

\* The cells before the cursor of scr show the first m bytes of s, from the
\* left edge.
Shows(scr, s, m) ==
  /\ scr.cursor % Cols = m
  /\ \A k \in 1 .. m : scr.cells[scr.cursor - m + k - 1] = s[k]

\* A cell's number is no smaller than its column.
LEMMA ColumnSmall ==
  ASSUME NEW scr \in Screen
  PROVE  /\ scr.cursor \in 0 .. Area - 1 /\ scr.cells \in [0 .. Area - 1 -> Nat]
         /\ scr.cursor % Cols \in 0 .. Cols - 1 /\ scr.cursor % Cols <= scr.cursor
<1>1. scr.cursor \in 0 .. Area - 1 /\ scr.cells \in [0 .. Area - 1 -> Nat]
  BY DEF Screen
<1>2. PICK q \in Nat, y \in Nat, r \in 0 .. Cols - 1 :
         r = scr.cursor % Cols /\ scr.cursor = y + r
  BY <1>1, CellFacts
<1>3. r <= y + r  BY <1>2, SizesOK
<1> QED  BY <1>1, <1>2, <1>3

\* The next byte of what is shown.
LEMMA ShowsNext ==
  ASSUME NEW scr \in Screen, NEW s, NEW m \in Nat, Shows(scr, s, m), m + 1 < Cols,
         s[m + 1] \in Nat, Printable(s[m + 1])
  PROVE  Shows(PutByte(scr, s[m + 1]), s, m + 1)
<1>1. PICK b \in Nat : b = s[m + 1]  OBVIOUS
<1>2. PICK c \in Nat : c = scr.cursor /\ m <= c /\ c \in 0 .. Area - 1 /\ c % Cols = m
  BY ColumnSmall, SizesOK DEF Shows
<1>3. /\ PutByte(scr, b) = [cursor |-> c + 1, cells |-> [scr.cells EXCEPT ![c] = b]]
      /\ (c + 1) % Cols = m + 1
  BY <1>1, <1>2, PutPrintable
<1>4. PICK p : p = PutByte(scr, b)  OBVIOUS
<1>5. p.cursor = c + 1 /\ p.cells = [scr.cells EXCEPT ![c] = b]  BY <1>3, <1>4
<1>6. \A k \in 1 .. m + 1 : p.cells[p.cursor - (m + 1) + k - 1] = s[k]
  <2> SUFFICES ASSUME NEW k \in 1 .. m + 1
               PROVE p.cells[p.cursor - (m + 1) + k - 1] = s[k]
    OBVIOUS
  <2>1. p.cursor - (m + 1) + k - 1 = c - m + k - 1  BY <1>2, <1>5
  <2>2. PICK i \in Nat : i = c - m + k - 1 /\ i <= c /\ (i = c => k = m + 1)
                         /\ (k = m + 1 => i = c)
    BY <1>2
  <2>3. i \in DOMAIN scr.cells
    <3>1. scr.cells \in [0 .. Area - 1 -> Nat] /\ Area \in Nat  BY ColumnSmall, SizesOK
    <3>2. i \in 0 .. Area - 1  BY <1>2, <2>2, <3>1
    <3> QED  BY <3>1, <3>2
  <2>4. CASE k = m + 1
    BY <1>1, <1>5, <2>1, <2>2, <2>3, <2>4
  <2>5. CASE k # m + 1
    <3>1. k \in 1 .. m /\ i # c  BY <2>2, <2>5
    <3>2. scr.cells[i] = s[k]  BY <1>2, <2>2, <3>1 DEF Shows
    <3> QED  BY <1>5, <2>1, <2>2, <2>3, <3>1, <3>2
  <2> QED  BY <2>4, <2>5
<1> QED  BY <1>1, <1>3, <1>4, <1>5, <1>6 DEF Shows

\* The prompt's bytes can be printed.
LEMMA PromptBytes ==
  /\ Prompt \in Seq(Nat)
  /\ \A k \in 1 .. Len(Prompt) : Prompt[k] \in 32 .. 126 /\ Prompt[k] \in Nat
                                /\ Printable(Prompt[k])
<1>1. ASSUME NEW k \in 1 .. Len(Prompt)
      PROVE  Prompt[k] \in 32 .. 126 /\ Prompt[k] \in Nat /\ Printable(Prompt[k])
  <2>1. Prompt[k] \in 32 .. 126
    <3>1. Prompt \in Seq(32 .. 126)  BY SizesOK
    <3> QED  BY <3>1, ElementOfSeq
  <2>2. PICK b \in 32 .. 126 : b = Prompt[k]  BY <2>1
  <2>3. b \in Nat /\ Printable(b)  BY DEF Printable
  <2> QED  BY <2>2, <2>3
<1>2. Prompt \in [1 .. Len(Prompt) -> Nat] /\ Len(Prompt) \in Nat  BY <1>1, SizesOK
<1> QED  BY <1>1, <1>2, SeqDef

\* A prompt behind a newline begins at the left edge.
LEMMA PromptShown ==
  ASSUME Shown \in Screen, NEW t \in Seq(Nat), t # <<>>, t[Len(t)] = 10, Writes(t \o Prompt)
  PROVE  Shown' \in Screen /\ Shows(Shown', Prompt, Len(Prompt))
<1> DEFINE T == Len(t)
           P == Len(Prompt)
           text == t \o Prompt
<1>0. /\ Prompt \in Seq(32 .. 126) /\ Prompt \in Seq(Nat)
      /\ T \in Nat \ {0} /\ P \in Nat /\ P < Cols /\ Cols \in Nat
  <2>1. Prompt \in Seq(32 .. 126) /\ P \in Nat /\ P < Cols /\ Cols \in Nat  BY SizesOK
  <2>4. Prompt \in Seq(Nat)  BY PromptBytes
  <2>5. T \in Nat \ {0}  OBVIOUS
  <2> QED  BY <2>1, <2>4, <2>5
<1>1. text \in Seq(Nat) /\ Len(text) = T + P  BY <1>0
<1>2. PICK h : Path(Shown, text, T + P, h) /\ Shown' = h[T + P]
  BY <1>1, WritesPath
<1>3. \A n \in 0 .. T + P : h[n] \in Screen  BY <1>2 DEF Path
<1>4. \A n \in 1 .. T + P : h[n] = PutByte(h[n - 1], text[n])  BY <1>2 DEF Path
<1>5. text[T] = 10 /\ \A k \in 1 .. P : text[T + k] = Prompt[k] /\ Prompt[k] \in 32 .. 126
  <2>1. text[T] = 10
    <3>1. T \in 1 .. Len(t)  BY <1>0
    <3> QED  BY <1>0, <3>1
  <2>2. ASSUME NEW k \in 1 .. P PROVE text[T + k] = Prompt[k] /\ Prompt[k] \in 32 .. 126
    <3>1. T + k \in 1 .. T + P /\ ~(T + k <= T) /\ (T + k) - T = k  BY <1>0
    <3>2. text[T + k] = Prompt[(T + k) - T]  BY <1>0, <3>1
    <3>3. Prompt[k] \in 32 .. 126  BY PromptBytes
    <3> QED  BY <3>1, <3>2, <3>3
  <2> QED  BY <2>1, <2>2
<1> HIDE DEF T, P, text
<1>6. \A m \in 0 .. P : Shows(h[T + m], Prompt, m)
  <2> DEFINE S == {m \in Nat : m <= P => Shows(h[T + m], Prompt, m)}
  <2>1. 0 \in S
    <3>1. T \in 1 .. T + P /\ T - 1 \in 0 .. T + P  BY <1>0
    <3>2. h[T] = PutByte(h[T - 1], 10) /\ h[T - 1] \in Screen  BY <1>3, <1>4, <1>5, <3>1
    <3>3. h[T].cursor % Cols = 0  
      <4>1. PICK scr \in Screen : scr = h[T - 1]  BY <3>2
      <4>2. 10 \in Nat  OBVIOUS
      <4>3. PutByte(scr, 10).cursor % Cols = 0  BY <4>2, PutAny
      <4> QED  BY <3>2, <4>1, <4>3
    <3>4. T + 0 = T  BY <1>0
    <3> QED  BY <3>3, <3>4 DEF Shows
  <2>2. ASSUME NEW m \in Nat, m \in S PROVE m + 1 \in S
    <3> SUFFICES ASSUME m + 1 <= P PROVE Shows(h[T + (m + 1)], Prompt, m + 1)
      OBVIOUS
    <3>1. /\ T + (m + 1) \in 1 .. T + P /\ (T + (m + 1)) - 1 = T + m /\ T + m \in 0 .. T + P
          /\ m + 1 \in 1 .. P /\ m + 1 < Cols
      BY <1>0
    <3>2. Shows(h[T + m], Prompt, m)  BY <1>0, <2>2
    <3>3. h[T + (m + 1)] = PutByte(h[T + m], text[T + (m + 1)])  BY <1>4, <3>1
    <3>4. text[T + (m + 1)] = Prompt[m + 1] /\ Prompt[m + 1] \in 32 .. 126
      BY <1>5, <3>1
    <3>5. Prompt[m + 1] \in Nat /\ Printable(Prompt[m + 1])
      BY <3>1, PromptBytes DEF P
    <3>6. h[T + m] \in Screen  BY <1>3, <3>1
    <3> QED  BY <3>1, <3>2, <3>3, <3>4, <3>5, <3>6, ShowsNext
  <2> HIDE DEF S
  <2>3. Nat \subseteq S  BY <2>1, <2>2, Induction
  <2> QED  BY <1>0, <2>3 DEF S
<1>7. P \in 0 .. P /\ T + P \in 0 .. T + P  BY <1>0
<1> QED  BY <1>2, <1>3, <1>6, <1>7 DEF P

\* sh_bs takes the last byte of what is shown away.
LEMMA BsShown ==
  ASSUME Shown \in Screen, NEW s, NEW m \in Nat, Shows(Shown, s, m + 1), Writes(BsSeq)
  PROVE  Shows(Shown', s, m)
<1>1. BsSeq \in Seq(Nat) /\ Len(BsSeq) = 3 /\ BsSeq[1] = 8 /\ BsSeq[2] = Space
      /\ BsSeq[3] = 8 /\ Space \in Nat /\ Printable(Space)
  BY DEF BsSeq, Space, Printable
<1>2. PICK h : Path(Shown, BsSeq, 3, h) /\ Shown' = h[3]  BY <1>1, WritesPath
<1>3. h[0] = Shown /\ h[0] \in Screen /\ h[1] \in Screen /\ h[2] \in Screen /\ h[3] \in Screen
  BY <1>2 DEF Path
<1>4. h[1] = PutByte(h[0], 8) /\ h[2] = PutByte(h[1], Space) /\ h[3] = PutByte(h[2], 8)
  <2>1. /\ h[1] = PutByte(h[1 - 1], BsSeq[1]) /\ h[2] = PutByte(h[2 - 1], BsSeq[2])
        /\ h[3] = PutByte(h[3 - 1], BsSeq[3])
    BY <1>2 DEF Path
  <2> QED  BY <1>1, <2>1
<1>5. PICK c \in Nat : /\ c = h[0].cursor /\ m + 1 <= c /\ c \in 0 .. Area - 1 /\ c % Cols = m + 1
                       /\ m + 1 < Cols
  BY <1>3, ColumnSmall, SizesOK DEF Shows
<1>6. h[1] = [cursor |-> c - 1, cells |-> [h[0].cells EXCEPT ![c - 1] = Space]] /\ (c - 1) % Cols = m
  BY <1>3, <1>4, <1>5, PutBack
<1>7. h[1].cursor = c - 1 /\ h[1].cells = [h[0].cells EXCEPT ![c - 1] = Space]  BY <1>6
<1>8. /\ h[2] = [cursor |-> (c - 1) + 1, cells |-> [h[1].cells EXCEPT ![c - 1] = Space]]
      /\ ((c - 1) + 1) % Cols = m + 1
  <2>1. (h[1].cursor % Cols) + 1 < Cols  BY <1>5, <1>6, <1>7
  <2>2. PICK d : d = h[1].cursor  OBVIOUS
  <2>3. /\ PutByte(h[1], Space) = [cursor |-> d + 1, cells |-> [h[1].cells EXCEPT ![d] = Space]]
        /\ (d + 1) % Cols = (d % Cols) + 1
    BY <1>1, <1>3, <2>1, <2>2, PutPrintable
  <2> QED  BY <1>4, <1>6, <1>7, <2>2, <2>3
<1>9. h[2].cursor = c /\ h[2].cells = [h[1].cells EXCEPT ![c - 1] = Space]
  <2>1. (c - 1) + 1 = c  BY <1>5
  <2> QED  BY <1>8, <2>1
<1>10. h[3] = [cursor |-> c - 1, cells |-> [h[2].cells EXCEPT ![c - 1] = Space]]
  BY <1>3, <1>4, <1>5, <1>9, PutBack
<1>11. h[3].cursor = c - 1 /\ h[3].cells = [h[2].cells EXCEPT ![c - 1] = Space]  BY <1>10
<1>12. \A k \in 1 .. m : h[3].cells[h[3].cursor - m + k - 1] = s[k]
  <2> SUFFICES ASSUME NEW k \in 1 .. m
               PROVE h[3].cells[h[3].cursor - m + k - 1] = s[k]
    OBVIOUS
  <2>1. PICK i \in Nat : /\ i = h[3].cursor - m + k - 1 /\ i # c - 1 /\ i < c
                         /\ i = c - (m + 1) + k - 1
    <3>1. h[3].cursor - m + k - 1 = c - (m + 1) + k - 1  BY <1>5, <1>11
    <3>2. /\ c - (m + 1) + k - 1 \in Nat /\ c - (m + 1) + k - 1 < c - 1
          /\ c - (m + 1) + k - 1 # c - 1
      BY <1>5
    <3> QED  BY <1>5, <3>1, <3>2
  <2>2. k \in 1 .. m + 1  OBVIOUS
  <2>3. h[0].cells[i] = s[k]  BY <1>3, <1>5, <2>1, <2>2 DEF Shows
  <2>4. h[3].cells[i] = h[2].cells[i] /\ h[2].cells[i] = h[1].cells[i]
        /\ h[1].cells[i] = h[0].cells[i]
    <3>1. i \in DOMAIN h[0].cells /\ i \in DOMAIN h[1].cells /\ i \in DOMAIN h[2].cells
      <4>1. /\ h[0].cells \in [0 .. Area - 1 -> Nat] /\ h[1].cells \in [0 .. Area - 1 -> Nat]
            /\ h[2].cells \in [0 .. Area - 1 -> Nat]
        BY <1>3, ColumnSmall
      <4>2. i \in 0 .. Area - 1  BY <1>5, <2>1, SizesOK
      <4> QED  BY <4>1, <4>2
    <3> QED  BY <1>7, <1>9, <1>11, <2>1, <3>1
  <2> QED  BY <2>1, <2>3, <2>4
<1> QED  BY <1>2, <1>6, <1>11, <1>12 DEF Shows

\* Of the prompt and a line that grows or shrinks.
LEMMA PromptAndLine ==
  ASSUME NEW l \in Seq(Bytes)
  PROVE  /\ Prompt \o l \in Seq(Nat) /\ Len(Prompt \o l) = Len(Prompt) + Len(l)
         /\ Len(l) \in Nat /\ Len(Prompt) \in Nat
         /\ \A b \in Bytes :
              /\ Append(l, b) \in Seq(Bytes) /\ Len(Append(l, b)) = Len(l) + 1
              /\ (Prompt \o Append(l, b))[Len(Prompt) + Len(l) + 1] = b
              /\ \A k \in 1 .. Len(Prompt) + Len(l) :
                    (Prompt \o Append(l, b))[k] = (Prompt \o l)[k]
         /\ l # <<>> =>
              /\ Len(l) \in Nat \ {0} /\ Front(l) \in Seq(Bytes) /\ Len(Front(l)) = Len(l) - 1
              /\ \A k \in 1 .. Len(Prompt) + Len(l) - 1 :
                    (Prompt \o Front(l))[k] = (Prompt \o l)[k]
<1>1. /\ Prompt \in Seq(Nat) /\ Len(Prompt) \in Nat /\ l \in Seq(Nat) /\ Len(l) \in Nat
  <2>1. Bytes \subseteq Nat  BY ConsoleAssumption
  <2>2. l \in Seq(Nat)  BY <2>1, SeqMonotonic
  <2> QED  BY <2>2, PromptBytes
<1>2. Prompt \o l \in Seq(Nat) /\ Len(Prompt \o l) = Len(Prompt) + Len(l)
  BY <1>1
<1>3. ASSUME NEW b \in Bytes
      PROVE  /\ Append(l, b) \in Seq(Bytes) /\ Len(Append(l, b)) = Len(l) + 1
             /\ (Prompt \o Append(l, b))[Len(Prompt) + Len(l) + 1] = b
             /\ \A k \in 1 .. Len(Prompt) + Len(l) :
                    (Prompt \o Append(l, b))[k] = (Prompt \o l)[k]
  <2>1. Append(l, b) \in Seq(Bytes) /\ Len(Append(l, b)) = Len(l) + 1
        /\ Append(l, b)[Len(l) + 1] = b /\ \A k \in 1 .. Len(l) : Append(l, b)[k] = l[k]
    OBVIOUS
  <2>2. PICK m : m = Append(l, b)  OBVIOUS
  <2>3. m \in Seq(Nat)
    <3>1. Bytes \subseteq Nat  BY ConsoleAssumption
    <3> QED  BY <2>1, <2>2, <3>1, SeqMonotonic
  <2>4. \A k \in 1 .. Len(Prompt) + Len(m) :
          (Prompt \o m)[k] = IF k <= Len(Prompt) THEN Prompt[k] ELSE m[k - Len(Prompt)]
    BY <1>1, <2>3
  <2>5. \A k \in 1 .. Len(Prompt) + Len(l) :
          (Prompt \o l)[k] = IF k <= Len(Prompt) THEN Prompt[k] ELSE l[k - Len(Prompt)]
    BY <1>1
  <2>6. (Prompt \o m)[Len(Prompt) + Len(l) + 1] = b
    <3>1. PICK i \in Nat : /\ i = Len(Prompt) + Len(l) + 1 /\ i \in 1 .. Len(Prompt) + Len(m)
                           /\ ~(i <= Len(Prompt)) /\ i - Len(Prompt) = Len(l) + 1
      BY <1>1, <2>1, <2>2
    <3> QED  BY <2>1, <2>2, <2>4, <3>1
  <2>7. ASSUME NEW k \in 1 .. Len(Prompt) + Len(l) PROVE (Prompt \o m)[k] = (Prompt \o l)[k]
    <3>1. k \in 1 .. Len(Prompt) + Len(m)  BY <1>1, <2>1, <2>2
    <3>2. CASE k <= Len(Prompt)  BY <2>4, <2>5, <3>1, <3>2
    <3>3. CASE ~(k <= Len(Prompt))
      <4>1. k - Len(Prompt) \in 1 .. Len(l)  BY <1>1, <3>3
      <4> QED  BY <2>1, <2>2, <2>4, <2>5, <3>1, <3>3, <4>1
    <3> QED  BY <3>2, <3>3
  <2> QED  BY <2>1, <2>2, <2>6, <2>7
<1>4. ASSUME l # <<>>
      PROVE  /\ Len(l) \in Nat \ {0} /\ Front(l) \in Seq(Bytes) /\ Len(Front(l)) = Len(l) - 1
             /\ \A k \in 1 .. Len(Prompt) + Len(l) - 1 :
                    (Prompt \o Front(l))[k] = (Prompt \o l)[k]
  <2>1. Len(l) \in Nat \ {0}  BY <1>4
  <2>2. Front(l) \in Seq(Bytes) /\ Len(Front(l)) = Len(l) - 1
        /\ \A k \in 1 .. Len(l) - 1 : Front(l)[k] = l[k]
    <3>1. PICK n \in Nat : n = Len(l) - 1 /\ n <= Len(l)
      <4>1. Len(l) - 1 \in Nat /\ Len(l) - 1 <= Len(l)  BY <2>1
      <4> QED  BY <4>1
    <3>2. Front(l) = SubSeq(l, 1, n)  BY <3>1 DEF Front
    <3>3. /\ SubSeq(l, 1, n) \in Seq(Bytes) /\ Len(SubSeq(l, 1, n)) = n
          /\ \A k \in 1 .. n : SubSeq(l, 1, n)[k] = l[k]
      <4>1. n <= Len(l)  BY <3>1
      <4> QED  BY <4>1
    <3> QED  BY <3>1, <3>2, <3>3
  <2>3. PICK m : m = Front(l)  OBVIOUS
  <2>4. m \in Seq(Nat)
    <3>1. Bytes \subseteq Nat  BY ConsoleAssumption
    <3> QED  BY <2>2, <2>3, <3>1, SeqMonotonic
  <2>5. \A k \in 1 .. Len(Prompt) + Len(m) :
          (Prompt \o m)[k] = IF k <= Len(Prompt) THEN Prompt[k] ELSE m[k - Len(Prompt)]
    BY <1>1, <2>4
  <2>6. \A k \in 1 .. Len(Prompt) + Len(l) :
          (Prompt \o l)[k] = IF k <= Len(Prompt) THEN Prompt[k] ELSE l[k - Len(Prompt)]
    BY <1>1
  <2>7. ASSUME NEW k \in 1 .. Len(Prompt) + Len(l) - 1
        PROVE  (Prompt \o m)[k] = (Prompt \o l)[k]
    <3>1. k \in 1 .. Len(Prompt) + Len(m) /\ k \in 1 .. Len(Prompt) + Len(l)
      BY <1>1, <2>1, <2>2, <2>3
    <3>2. CASE k <= Len(Prompt)  BY <2>5, <2>6, <3>1, <3>2
    <3>3. CASE ~(k <= Len(Prompt))
      <4>1. k - Len(Prompt) \in 1 .. Len(l) - 1  BY <1>1, <2>1, <3>3
      <4> QED  BY <2>2, <2>3, <2>5, <2>6, <3>1, <3>3, <4>1
    <3> QED  BY <3>2, <3>3
  <2> QED  BY <2>1, <2>2, <2>3, <2>7
<1> QED  BY <1>1, <1>2, <1>3, <1>4

\* What is shown depends on the bytes only.
LEMMA ShowsSame ==
  ASSUME NEW scr, NEW m \in Nat, NEW s, NEW t, Shows(scr, s, m), \A k \in 1 .. m : s[k] = t[k]
  PROVE  Shows(scr, t, m)
BY DEF Shows

-----------------------------------------------------------------------------

\* The line is one of bytes, and fits.
LineOK == line \in Seq(Bytes) /\ Len(line) <= LineCap

\* ScreenShowsLine, in terms of Shows.
Displayed == plain /\ sh # "gone" => Shows(Shown, Prompt \o line, Len(Prompt) + Len(line))

\* The screen is one, the line fits, and a byte is there when there is one to
\* deal with.
ScreenInv ==
  /\ Shown \in Screen /\ LineOK /\ RingTypeOK /\ (sh = "has" => taken # <<>>)
  /\ Displayed

\* The two ways to say that the screen shows the line.
LEMMA DisplayedIs ==
  ASSUME LineOK
  PROVE  Displayed <=> ScreenShowsLine
<1>1. Len(Prompt \o line) = Len(Prompt) + Len(line)  BY PromptAndLine DEF LineOK
<1> QED  BY <1>1 DEF Displayed, ScreenShowsLine, Shows, Shown

\* The first prompt is on the screen.
LEMMA ScreenInit ==
  ASSUME Init
  PROVE  ScreenInv
<1>1. RingTypeOK
  <2>1. RingInit  BY DEF Init
  <2> QED  BY <2>1, RingAssumption DEF RingInit, RingTypeOK, Index
<1>2. LineOK  BY SizesOK DEF Init, LineOK
<1>3. Displayed /\ (sh = "has" => taken # <<>>)  BY DEF Init, Displayed
<1>4. Shown \in Screen
  <2>1. PICK b \in OtherBytes :
          cells = [i \in 0 .. Cols * Rows - 1 |->
                     IF i < Len(Prompt) + 1 THEN (<<b>> \o Prompt)[i + 1] ELSE 0]
    BY DEF Init
  <2>2. <<b>> \o Prompt \in Seq(Nat) /\ Len(<<b>> \o Prompt) = Len(Prompt) + 1
    <3>1. OtherBytes \subseteq 32 .. 126  BY ConsoleAssumption
    <3>2. b \in Nat  BY <3>1
    <3> QED  BY <3>2, PromptBytes
  <2>3. PICK s \in Seq(Nat) : s = <<b>> \o Prompt /\ Len(s) = Len(Prompt) + 1  BY <2>2
  <2>4. \A i \in 0 .. Area - 1 : i < Len(Prompt) + 1 => s[i + 1] \in Nat
    <3> SUFFICES ASSUME NEW i \in 0 .. Area - 1, i < Len(Prompt) + 1 PROVE s[i + 1] \in Nat
      OBVIOUS
    <3>1. i + 1 \in 1 .. Len(s)  BY <2>3, SizesOK
    <3> QED  BY <3>1, ElementOfSeq
  <2>5. cells \in [0 .. Area - 1 -> Nat]
    <3>1. cells = [i \in 0 .. Area - 1 |-> IF i < Len(Prompt) + 1 THEN s[i + 1] ELSE 0]
      BY <2>1, <2>3 DEF Area
    <3> QED  BY <2>4, <3>1
  <2>6. cursor = Len(Prompt) + 1  BY DEF Init
  <2>7. cursor \in 0 .. Area - 1
    <3>1. /\ Cols \in Nat /\ LineCap \in Nat \ {0} /\ Len(Prompt) \in Nat /\ Area \in Nat
          /\ Len(Prompt) + LineCap < Cols /\ Cols <= Area
      BY SizesOK
    <3> QED  BY <2>6, <3>1
  <2> QED  BY <2>5, <2>7 DEF Shown, Screen
<1> QED  BY <1>1, <1>2, <1>3, <1>4 DEF ScreenInv

-----------------------------------------------------------------------------

\* The byte the shell has is one of the ring's.
LEMMA AlIsByte ==
  ASSUME RingTypeOK, taken # <<>>
  PROVE  al \in Bytes /\ al \in Nat
<1>1. \E b \in Bytes : taken = <<b>>  BY DEF RingTypeOK
<1> QED  BY <1>1, ConsoleAssumption DEF al

\* What Enter echoes.
Feed == <<10>>

\* Every step keeps the line on the screen.
LEMMA ScreenStep ==
  ASSUME ScreenInv, [Next]_vars
  PROVE  ScreenInv'
<1>0. /\ Shown \in Screen /\ line \in Seq(Bytes) /\ Len(line) <= LineCap
      /\ (sh = "has" => taken # <<>>) /\ Displayed /\ Len(line) \in Nat
  BY DEF ScreenInv, LineOK
<1>r. RingTypeOK'
  BY StepOfRing, RingTypeStep DEF ScreenInv
<1>1. CASE \/ \E sc \in Scancodes : KbdIrq(sc)
           \/ \E b \in SerialBytes : DrainRx(b)
  <2>1. UNCHANGED <<shellVars, screenVars>> /\ taken' = taken
    BY <1>1 DEF KbdIrq, DrainRx, Push, ringVars
  <2> QED  BY <1>0, <1>r, <2>1 DEF ScreenInv, LineOK, shellVars, screenVars, Displayed, Shown
<1>2. CASE Read
  <2>1. UNCHANGED <<line, screenVars>> /\ sh = "reads" /\ sh' = "has" /\ taken' # <<>>
    BY <1>2 DEF Read, Pop
  <2> QED  BY <1>0, <1>r, <2>1 DEF ScreenInv, LineOK, screenVars, Displayed, Shown
<1>3. CASE Drop
  <2>1. UNCHANGED <<line, screenVars>> /\ sh = "has" /\ sh' = "reads"
    BY <1>3 DEF Drop, Turn, Continue
  <2> QED  BY <1>0, <1>r, <2>1 DEF ScreenInv, LineOK, screenVars, Displayed, Shown
<1>4. CASE Store
  <2>1. /\ sh = "has" /\ sh' = "reads" /\ al \notin Enters \cup Erases /\ ~Dropped
        /\ line' = Append(line, al) /\ Writes(<<al>>)
        /\ plain' = (plain /\ Printable(al))
    BY <1>4 DEF Store, Turn, Continue
  <2>2. PICK a : a = al /\ a \in Bytes /\ a \in Nat  BY <1>0, <2>1, AlIsByte DEF ScreenInv
  <2>3. PICK l \in Seq(Bytes) : l = line  BY <1>0
  <2>4. Len(l) < LineCap /\ Len(l) \in Nat /\ Len(Prompt) \in Nat
        /\ Len(Prompt) + Len(l) + 1 < Cols /\ Cols \in Nat
    <3>1. ~(Len(l) >= LineCap)  BY <2>1, <2>3 DEF Dropped
    <3> QED  BY <2>3, <3>1, SizesOK
  <2>5. line' = Append(l, a) /\ Append(l, a) \in Seq(Bytes) /\ Len(Append(l, a)) = Len(l) + 1
    BY <2>1, <2>2, <2>3, PromptAndLine
  <2>6. LineOK'  BY <2>4, <2>5, SizesOK DEF LineOK
  <2>7. <<a>> \in Seq(Nat) /\ Len(<<a>>) = 1 /\ <<a>>[1] = a  BY <2>2
  <2>8. Writes(<<a>>)  BY <2>1, <2>2
  <2>9. PICK h : Path(Shown, <<a>>, 1, h) /\ Shown' = h[1]
    BY <1>0, <2>7, <2>8, WritesPath
  <2>10. /\ h[0] = Shown /\ h[1] = PutByte(h[0], a) /\ h[1] \in Screen
    <3>1. h[1] = PutByte(h[1 - 1], <<a>>[1])  BY <2>9 DEF Path
    <3> QED  BY <2>7, <2>9, <3>1 DEF Path
  <2>11. ASSUME plain' PROVE Shows(Shown', Prompt \o Append(l, a), Len(Prompt) + Len(l) + 1)
    <3>1. plain /\ Printable(a)  BY <2>1, <2>2, <2>11
    <3>2. Shows(Shown, Prompt \o l, Len(Prompt) + Len(l))
      BY <1>0, <2>1, <2>3, <3>1 DEF Displayed
    <3>a. PICK s : s = Prompt \o Append(l, a)  OBVIOUS
    <3>b. PICK m \in Nat : m = Len(Prompt) + Len(l)  BY <2>4
    <3>3. s = Prompt \o Append(l, a) /\ m = Len(Prompt) + Len(l)  BY <3>a, <3>b
    <3>4. s[m + 1] = a /\ \A k \in 1 .. m : (Prompt \o l)[k] = s[k]
      BY <2>2, <3>3, PromptAndLine
    <3>5. Shows(Shown, s, m)  BY <3>2, <3>3, <3>4, ShowsSame
    <3>6. m + 1 < Cols  BY <2>4, <3>3
    <3>7. Shows(PutByte(Shown, s[m + 1]), s, m + 1)
      BY <1>0, <2>2, <3>1, <3>4, <3>5, <3>6, ShowsNext
    <3> QED  BY <2>9, <2>10, <3>3, <3>4, <3>7
  <2>12. Displayed'
    <3>1. Len(Prompt) + Len(Append(l, a)) = Len(Prompt) + Len(l) + 1  BY <2>4, <2>5
    <3> QED  BY <2>5, <2>11, <3>1 DEF Displayed
  <2> QED  BY <1>r, <2>1, <2>6, <2>9, <2>10, <2>12 DEF ScreenInv
<1>5. CASE Erase
  <2>1. /\ sh = "has" /\ sh' = "reads" /\ plain' = plain
        /\ \/ line = <<>> /\ UNCHANGED <<line, cells, cursor>>
           \/ line # <<>> /\ line' = Front(line) /\ Writes(BsSeq)
    BY <1>5 DEF Erase, Turn, Continue
  <2>2. CASE UNCHANGED <<line, cells, cursor>>
    BY <1>0, <1>r, <2>1, <2>2 DEF ScreenInv, LineOK, Displayed, Shown
  <2>3. CASE line # <<>> /\ line' = Front(line) /\ Writes(BsSeq)
    <3>1. PICK l \in Seq(Bytes) : l = line  BY <1>0
    <3>2. /\ Len(l) \in Nat \ {0} /\ Front(l) \in Seq(Bytes) /\ Len(Front(l)) = Len(l) - 1
          /\ Len(Prompt) \in Nat
          /\ \A k \in 1 .. Len(Prompt) + Len(l) - 1 : (Prompt \o Front(l))[k] = (Prompt \o l)[k]
      BY <2>3, <3>1, PromptAndLine
    <3>3. line' = Front(l)  BY <2>3, <3>1
    <3>4. LineOK'  BY <1>0, <3>1, <3>2, <3>3, SizesOK DEF LineOK
    <3>5. BsSeq \in Seq(Nat)  BY DEF BsSeq, Space
    <3>6. Shown' \in Screen  BY <1>0, <2>3, <3>5, WritesType
    <3>7. ASSUME plain PROVE Shows(Shown', Prompt \o Front(l), Len(Prompt) + Len(Front(l)))
      <4>1. PICK m \in Nat : m + 1 = Len(Prompt) + Len(l) /\ m = Len(Prompt) + Len(Front(l))
                             /\ m = Len(Prompt) + Len(l) - 1
        <5>1. Len(Prompt) + Len(l) - 1 \in Nat /\ (Len(Prompt) + Len(l) - 1) + 1 = Len(Prompt) + Len(l)
              /\ Len(Prompt) + (Len(l) - 1) = Len(Prompt) + Len(l) - 1
          BY <3>2
        <5> QED  BY <3>2, <5>1
      <4>2. Shows(Shown, Prompt \o l, m + 1)  BY <1>0, <2>1, <3>1, <3>7, <4>1 DEF Displayed
      <4>3. Shows(Shown', Prompt \o l, m)  BY <1>0, <2>3, <4>2, BsShown
      <4>4. \A k \in 1 .. m : (Prompt \o l)[k] = (Prompt \o Front(l))[k]  BY <3>2, <4>1
      <4>5. Shows(Shown', Prompt \o Front(l), m)  BY <4>3, <4>4, ShowsSame
      <4> QED  BY <4>1, <4>5
    <3>8. Displayed'  BY <2>1, <3>3, <3>7 DEF Displayed
    <3> QED  BY <1>r, <2>1, <3>4, <3>6, <3>8 DEF ScreenInv
  <2> QED  BY <2>1, <2>2, <2>3
<1>6. CASE EnterNothing
  <2>1. /\ sh' = "reads" /\ line = <<>> /\ line' = line /\ Writes(<<10>> \o Prompt)
    BY <1>6 DEF EnterNothing, Turn, Continue
  <2>2. <<10>> \in Seq(Nat) /\ <<10>> # <<>> /\ <<10>>[Len(<<10>>)] = 10  OBVIOUS
  <2>3. Shown' \in Screen /\ Shows(Shown', Prompt, Len(Prompt))
    BY <1>0, <2>1, <2>2, PromptShown
  <2>4. Prompt \o <<>> = Prompt /\ Len(Prompt) + Len(<<>>) = Len(Prompt)  BY PromptBytes, SizesOK
  <2>5. Displayed'  BY <2>1, <2>3, <2>4 DEF Displayed
  <2> QED  BY <1>0, <1>r, <2>1, <2>3, <2>5 DEF ScreenInv, LineOK
<1>7. CASE EnterCommand
  <2>1. CASE sh' = "gone" /\ Writes(<<10>>) /\ UNCHANGED <<line, plain>>
    <3>1. <<10>> \in Seq(Nat)  OBVIOUS
    <3>2. Shown' \in Screen  BY <1>0, <2>1, <3>1, WritesType
    <3> QED  BY <1>0, <1>r, <2>1, <3>2 DEF ScreenInv, LineOK, Displayed
  <2>2. ASSUME NEW reply \in Seq(Nat), sh' = "reads", line' = <<>>,
               Writes(Feed \o reply \o Prompt),
               plain' = (reply = <<>> \/ Last(reply) = 10)
        PROVE  ScreenInv'
    <3>1. PICK t : t = <<10>> \o reply /\ t \in Seq(Nat) /\ t # <<>>
      <4>1. <<10>> \o reply \in Seq(Nat) /\ Len(<<10>> \o reply) # 0  OBVIOUS
      <4>2. <<10>> \o reply # <<>>  BY <4>1
      <4> QED  BY <4>1, <4>2
    <3>2. /\ t \in Seq(Nat) /\ t # <<>> /\ Writes(t \o Prompt)
          /\ (reply = <<>> \/ Last(reply) = 10 => t[Len(t)] = 10)
      <4>1. Writes(t \o Prompt)  BY <2>2, <3>1 DEF Feed
      <4>2. Len(t) = Len(reply) + 1 /\ Len(reply) \in Nat  BY <3>1
      <4>3. CASE reply = <<>>  BY <3>1, <4>1, <4>3
      <4>4. CASE reply # <<>>
        <5>1. t[Len(t)] = reply[Len(reply)]  BY <3>1, <4>2, <4>4
        <5> QED  BY <3>1, <4>1, <4>4, <5>1 DEF Last
      <4> QED  BY <4>3, <4>4
    <3>3. t \o Prompt \in Seq(Nat)  BY <3>2, PromptBytes
    <3>4. Shown' \in Screen  BY <1>0, <3>2, <3>3, WritesType
    <3>5. Prompt \o <<>> = Prompt /\ Len(Prompt) + Len(<<>>) = Len(Prompt)
      BY PromptBytes, SizesOK
    <3>6. plain' => Shows(Shown', Prompt, Len(Prompt))
      BY <1>0, <2>2, <3>2, PromptShown
    <3>7. Displayed'  BY <2>2, <3>5, <3>6 DEF Displayed
    <3>8. LineOK'  BY <2>2, SizesOK DEF LineOK
    <3> QED  BY <1>r, <2>2, <3>4, <3>7, <3>8 DEF ScreenInv
  <2>3. \/ sh' = "gone" /\ Writes(<<10>>) /\ UNCHANGED <<line, plain>>
        \/ /\ Run(line).do # "q" /\ sh' = "reads" /\ line' = <<>>
           /\ \E reply \in (IF Run(line).do = "none" THEN {<<>>} ELSE Replies[Run(line).do]) :
                Writes(<<10>> \o reply \o Prompt) /\ plain' = (reply = <<>> \/ Last(reply) = 10)
    BY <1>7 DEF EnterCommand, Continue
  <2>4. Run(line).do = "none" \/ Run(line).do \in DOMAIN Replies
    <3>1. CommandOf(line) \in DOMAIN Words \cup {"unknown"}
      BY DEF CommandOf
    <3>2. Run(line).do = "none" \/ Run(line).do = CommandOf(line)  BY DEF Run
    <3> QED  BY <3>1, <3>2, ConsoleAssumption
  <2>5. \A reply \in (IF Run(line).do = "none" THEN {<<>>} ELSE Replies[Run(line).do]) :
           reply \in Seq(Nat)
    <3>1. <<>> \in Seq(Nat)  OBVIOUS
    <3>2. CASE Run(line).do = "none"  BY <3>1, <3>2
    <3>3. CASE Run(line).do # "none"  BY <2>4, <3>3, ConsoleAssumption
    <3> QED  BY <3>2, <3>3
  <2> QED  BY <2>1, <2>2, <2>3, <2>5 DEF Feed
<1>8. CASE \E b \in OtherBytes : OtherWrites(b)
  <2>1. PICK b \in OtherBytes : OtherWrites(b)  BY <1>8
  <2>2. <<b>> \in Seq(Nat)
    <3>1. OtherBytes \subseteq 32 .. 126  BY ConsoleAssumption
    <3>2. b \in Nat  BY <3>1
    <3> QED  BY <3>2
  <2>3. Shown' \in Screen  BY <1>0, <2>1, <2>2, WritesType DEF OtherWrites
  <2>4. ~plain' /\ UNCHANGED <<line, sh, taken>>
    BY <2>1 DEF OtherWrites, ringVars, shellVars
  <2> QED  BY <1>0, <1>r, <2>3, <2>4 DEF ScreenInv, LineOK, Displayed
<1>9. CASE UNCHANGED vars
  BY <1>0, <1>r, <1>9 DEF ScreenInv, LineOK, Displayed, Shown, vars, ringVars, shellVars,
     screenVars
<1> QED  BY <1>1, <1>2, <1>3, <1>4, <1>5, <1>6, <1>7, <1>8, <1>9 DEF Next, Shell

\* While only printable bytes are typed and nobody else writes, the screen
\* shows prompt and line, through erasing, dropping and scrolling (user.S's
\* echo and sh_bs, vga.rs's put_byte and scroll).
THEOREM ScreenAlwaysShowsLine == Spec => []ScreenShowsLine
<1>1. Init => ScreenInv  BY ScreenInit
<1>2. ScreenInv => ScreenShowsLine  BY DisplayedIs DEF ScreenInv
<1> QED  BY <1>1, <1>2, ScreenStep, PTL DEF Spec

-----------------------------------------------------------------------------
(* Lines as they are meant *)

\* Editing keeps a line a sequence of bytes.
LEMMA EditedType ==
  ASSUME NEW l \in Seq(Bytes), NEW b \in Bytes
  PROVE  Edited(l, b) \in Seq(Bytes)
<1>1. SubSeq(l, 1, Len(l) - 1) \in Seq(Bytes)
  <2>1. CASE l = <<>>
    <3>1. Len(l) - 1 < 1  BY <2>1
    <3>2. SubSeq(l, 1, Len(l) - 1) = <<>>  BY <3>1
    <3> QED  BY <3>2
  <2>2. CASE l # <<>>
    <3>1. SubSeq(l, 1, Len(l) - 1) = Front(l)  BY DEF Front
    <3>2. Front(l) \in Seq(Bytes)  BY <2>2, PromptAndLine
    <3> QED  BY <3>1, <3>2
  <2> QED  BY <2>1, <2>2
<1>2. Append(l, b) \in Seq(Bytes)  OBVIOUS
<1> QED  BY <1>1, <1>2 DEF Edited

\* h follows the editing of m bytes.
EditPath(bytes, m, h) ==
  /\ h \in [0 .. m -> Seq(Bytes)]
  /\ h[0] = <<>>
  /\ \A n \in 1 .. m : h[n] = Edited(h[n - 1], bytes[n])

\* Every sequence of bytes can be followed.
LEMMA EditPathExists ==
  ASSUME NEW bytes \in Seq(Bytes)
  PROVE  \E h : EditPath(bytes, Len(bytes), h)
<1> DEFINE S == {m \in Nat : m <= Len(bytes) => \E h : EditPath(bytes, m, h)}
<1>1. 0 \in S
  <2>1. <<>> \in Seq(Bytes)  OBVIOUS
  <2>2. EditPath(bytes, 0, [i \in 0 .. 0 |-> <<>>])  BY <2>1 DEF EditPath
  <2> QED  BY <2>2
<1>2. ASSUME NEW n \in Nat, n \in S PROVE n + 1 \in S
  <2> SUFFICES ASSUME n + 1 <= Len(bytes) PROVE \E h : EditPath(bytes, n + 1, h)
    OBVIOUS
  <2>1. PICK h : EditPath(bytes, n, h)  BY <1>2
  <2>2. h \in [0 .. n -> Seq(Bytes)] /\ h[n] \in Seq(Bytes) /\ bytes[n + 1] \in Bytes
    BY <2>1 DEF EditPath
  <2>3. Edited(h[n], bytes[n + 1]) \in Seq(Bytes)  BY <2>2, EditedType
  <2>4. PICK p : p = Edited(h[n], bytes[n + 1])  OBVIOUS
  <2> DEFINE h2 == [i \in 0 .. n + 1 |-> IF i = n + 1 THEN p ELSE h[i]]
  <2>5. h2 \in [0 .. n + 1 -> Seq(Bytes)]  BY <2>2, <2>3, <2>4
  <2>6. h2[0] = <<>>  BY <2>1 DEF EditPath
  <2>7. \A i \in 1 .. n + 1 : h2[i] = Edited(h2[i - 1], bytes[i])
    <3> SUFFICES ASSUME NEW i \in 1 .. n + 1 PROVE h2[i] = Edited(h2[i - 1], bytes[i])
      OBVIOUS
    <3>1. CASE i = n + 1
      <4>1. h2[i] = p /\ i - 1 = n /\ h2[n] = h[n]  BY <3>1
      <4> QED  BY <2>4, <3>1, <4>1
    <3>2. CASE i # n + 1
      <4>1. i \in 1 .. n /\ i - 1 \in 0 .. n  BY <3>2
      <4>2. h2[i] = h[i] /\ h2[i - 1] = h[i - 1]  BY <4>1
      <4> QED  BY <2>1, <4>1, <4>2 DEF EditPath
    <3> QED  BY <3>1, <3>2
  <2> HIDE DEF h2
  <2> QED  BY <2>5, <2>6, <2>7 DEF EditPath
<1> HIDE DEF S
<1>3. Nat \subseteq S  BY <1>1, <1>2, Induction
<1>4. Len(bytes) \in Nat  OBVIOUS
<1> QED  BY <1>3, <1>4 DEF S

\* What is meant is where the editing ends.
LEMMA MeantPath ==
  ASSUME NEW bytes \in Seq(Bytes), NEW h, EditPath(bytes, Len(bytes), h)
  PROVE  Meant(bytes) = h[Len(bytes)]
<1> DEFINE N == Len(bytes)
           Is(f) == f = [n \in 0 .. N |->
                      IF n = 0 THEN <<>> ELSE Edited(f[n - 1], bytes[n])]
           A == CHOOSE f : Is(f)
<1>1. Meant(bytes) = A[N]  BY DEF Meant
<1>2. h \in [0 .. N -> Seq(Bytes)] /\ h[0] = <<>> /\ \A n \in 1 .. N : h[n] = Edited(h[n - 1], bytes[n])
  BY DEF EditPath
<1>3. Is(h)
  <2> SUFFICES h = [n \in 0 .. N |-> IF n = 0 THEN <<>> ELSE Edited(h[n - 1], bytes[n])]
    OBVIOUS
  <2>1. ASSUME NEW n \in 0 .. N
        PROVE  h[n] = IF n = 0 THEN <<>> ELSE Edited(h[n - 1], bytes[n])
    <3>1. N \in Nat  OBVIOUS
    <3>2. n = 0 \/ n \in 1 .. N  BY <3>1
    <3> QED  BY <1>2, <3>2
  <2> QED  BY <1>2, <2>1
<1>4. Is(A)
  <2> HIDE DEF Is
  <2> QED  BY <1>3
<1>5. A[N] = h[N]
  <2> DEFINE S == {m \in Nat : m <= N => A[m] = h[m]}
  <2> HIDE DEF A
  <2>0. N \in Nat  OBVIOUS
  <2>1. 0 \in S
    <3>1. 0 \in 0 .. N  BY <2>0
    <3>2. A[0] = <<>>  BY <1>4, <3>1
    <3> QED  BY <1>2, <3>2
  <2>2. ASSUME NEW m \in Nat, m \in S PROVE m + 1 \in S
    <3> SUFFICES ASSUME m + 1 <= N PROVE A[m + 1] = h[m + 1]
      OBVIOUS
    <3>1. A[m] = h[m] /\ m + 1 \in 1 .. N /\ m + 1 \in 0 .. N /\ m + 1 # 0 /\ (m + 1) - 1 = m
      BY <2>0, <2>2
    <3>2. A[m + 1] = Edited(A[m], bytes[m + 1])  BY <1>4, <3>1
    <3> QED  BY <1>2, <3>1, <3>2
  <2> HIDE DEF S
  <2>3. Nat \subseteq S  BY <2>1, <2>2, Induction
  <2> QED  BY <2>0, <2>3 DEF S
<1> HIDE DEF A
<1> QED  BY <1>1, <1>5

\* One more byte is one more edit.
LEMMA MeantMore ==
  /\ Meant(<<>>) = <<>>
  /\ \A bytes \in Seq(Bytes), b \in Bytes :
        /\ Meant(bytes) \in Seq(Bytes)
        /\ Meant(Append(bytes, b)) = Edited(Meant(bytes), b)
<1>1. Meant(<<>>) = <<>>
  <2>1. <<>> \in Seq(Bytes) /\ Len(<<>>) = 0  OBVIOUS
  <2>2. PICK h : EditPath(<<>>, Len(<<>>), h)  BY <2>1, EditPathExists
  <2>3. Meant(<<>>) = h[0]  BY <2>1, <2>2, MeantPath
  <2> QED  BY <2>2, <2>3 DEF EditPath
<1>2. ASSUME NEW bytes \in Seq(Bytes), NEW b \in Bytes
      PROVE  /\ Meant(bytes) \in Seq(Bytes)
             /\ Meant(Append(bytes, b)) = Edited(Meant(bytes), b)
  <2>1. PICK s \in Seq(Bytes), n \in Nat :
          s = Append(bytes, b) /\ n = Len(bytes) /\ Len(s) = n + 1 /\ s[n + 1] = b
          /\ \A k \in 1 .. n : s[k] = bytes[k]
    <3>1. Append(bytes, b) \in Seq(Bytes) /\ Len(bytes) \in Nat
      OBVIOUS
    <3>2. Len(Append(bytes, b)) = Len(bytes) + 1 /\ Append(bytes, b)[Len(bytes) + 1] = b
          /\ \A k \in 1 .. Len(bytes) : Append(bytes, b)[k] = bytes[k]
      OBVIOUS
    <3> QED  BY <3>1, <3>2
  <2>2. PICK h : EditPath(s, n + 1, h)  BY <2>1, EditPathExists
  <2>3. Meant(s) = h[n + 1]  BY <2>1, <2>2, MeantPath
  <2> DEFINE g == [i \in 0 .. n |-> h[i]]
  <2>4. /\ h \in [0 .. n + 1 -> Seq(Bytes)] /\ h[0] = <<>>
        /\ \A i \in 1 .. n + 1 : h[i] = Edited(h[i - 1], s[i])
    BY <2>2 DEF EditPath
  <2>5. EditPath(bytes, n, g)
    <3>1. g \in [0 .. n -> Seq(Bytes)] /\ g[0] = <<>> /\ \A i \in 0 .. n : g[i] = h[i]
      BY <2>4
    <3>2. \A i \in 1 .. n : g[i] = Edited(g[i - 1], bytes[i])
      <4> SUFFICES ASSUME NEW i \in 1 .. n PROVE g[i] = Edited(g[i - 1], bytes[i])
        OBVIOUS
      <4>1. i \in 1 .. n + 1 /\ i \in 0 .. n /\ i - 1 \in 0 .. n  OBVIOUS
      <4>2. h[i] = Edited(h[i - 1], s[i])  BY <2>4, <4>1
      <4> HIDE DEF g
      <4> QED  BY <2>1, <3>1, <4>1, <4>2
    <3> HIDE DEF g
    <3> QED  BY <3>1, <3>2 DEF EditPath
  <2>6. g[n] = h[n] /\ h[n] \in Seq(Bytes)  BY <2>4
  <2> HIDE DEF g
  <2>7. Meant(bytes) = h[n]  BY <2>1, <2>5, <2>6, MeantPath
  <2>8. h[n + 1] = Edited(h[n], b)
    <3>1. n + 1 \in 1 .. n + 1 /\ (n + 1) - 1 = n  OBVIOUS
    <3> QED  BY <2>1, <2>4, <3>1
  <2> QED  BY <2>1, <2>3, <2>6, <2>7, <2>8
<1> QED  BY <1>1, <1>2

-----------------------------------------------------------------------------
(* Counting the Enters *)

\* The members of e below i.
Below(e, i) == {j \in e : j < i}

\* Of m + 1 numbers there is one with n below it, for each n.
Counted(e, m) ==
  /\ e \in SUBSET Nat /\ IsFiniteSet(e) /\ Cardinality(e) = m + 1
  /\ \A n \in 0 .. m : \E i \in e : /\ Cardinality(Below(e, i)) = n
                                    /\ \A j \in e : Cardinality(Below(e, j)) = n => j = i

\* Below one of m + 1 numbers there are at most m.
LEMMA BelowSmall ==
  ASSUME NEW e, NEW m \in Nat, Counted(e, m), NEW i \in e
  PROVE  Cardinality(Below(e, i)) \in 0 .. m
<1>1. Below(e, i) \subseteq e \ {i} /\ i \in Nat  BY DEF Below, Counted
<1>2. IsFiniteSet(e) /\ Cardinality(e) = m + 1  BY DEF Counted
<1>3. IsFiniteSet(e \ {i}) /\ Cardinality(e \ {i}) = (m + 1) - 1  BY <1>2, FS_RemoveElement
<1>4. IsFiniteSet(Below(e, i)) /\ Cardinality(Below(e, i)) <= Cardinality(e \ {i})
  BY <1>1, <1>3, FS_Subset
<1>5. Cardinality(Below(e, i)) \in Nat  BY <1>4, FS_CardinalityType
<1> QED  BY <1>3, <1>4, <1>5

\* One number is counted.
LEMMA CountedFirst == Counted({0}, 0)
<1>1. IsFiniteSet({0}) /\ Cardinality({0}) = 0 + 1  BY FS_Singleton
<1>2. Below({0}, 0) = {}  BY DEF Below
<1>3. Cardinality({}) = 0  BY FS_EmptySet
<1> QED  BY <1>1, <1>2, <1>3 DEF Counted

\* A number above them all is the last.
LEMMA CountedMore ==
  ASSUME NEW e, NEW m \in Nat, Counted(e, m), NEW x \in Nat, \A i \in e : i < x
  PROVE  /\ Counted(e \cup {x}, m + 1)
         /\ Below(e \cup {x}, x) = e
         /\ \A i \in e : Below(e \cup {x}, i) = Below(e, i)
<1> DEFINE f == e \cup {x}
<1>0. e \in SUBSET Nat /\ IsFiniteSet(e) /\ Cardinality(e) = m + 1  BY DEF Counted
<1>1. x \notin e /\ f \in SUBSET Nat  BY <1>0
<1>2. Below(f, x) = e
  <2>1. \A j \in f : j < x <=> j \in e  BY <1>0, <1>1
  <2> HIDE DEF f
  <2>2. e \subseteq f  BY DEF f
  <2> QED  BY <2>1, <2>2 DEF Below
<1>3. \A i \in e : Below(f, i) = Below(e, i)  BY <1>0 DEF Below
<1>4. IsFiniteSet(f) /\ Cardinality(f) = (m + 1) + 1  BY <1>0, <1>1, FS_AddElement
<1>5. ASSUME NEW n \in 0 .. m + 1
      PROVE  \E i \in f : /\ Cardinality(Below(f, i)) = n
                          /\ \A j \in f : Cardinality(Below(f, j)) = n => j = i
  <2>1. CASE n = m + 1
    <3>1. x \in f /\ Cardinality(Below(f, x)) = n  BY <1>0, <1>2, <2>1
    <3>2. ASSUME NEW j \in f, Cardinality(Below(f, j)) = n PROVE j = x
      <4> SUFFICES ASSUME j # x PROVE FALSE
        OBVIOUS
      <4>1. j \in e  BY <3>2
      <4>2. Cardinality(Below(e, j)) \in 0 .. m  BY <4>1, BelowSmall
      <4>3. Cardinality(Below(e, j)) = n  BY <1>3, <3>2, <4>1
      <4> QED  BY <2>1, <4>2, <4>3
    <3> HIDE DEF f
    <3> QED  BY <3>1, <3>2
  <2>2. CASE n # m + 1
    <3>1. n \in 0 .. m  BY <2>2
    <3>2. PICK i \in e : /\ Cardinality(Below(e, i)) = n
                         /\ \A j \in e : Cardinality(Below(e, j)) = n => j = i
      BY <3>1 DEF Counted
    <3>3. i \in f /\ Cardinality(Below(f, i)) = n  BY <1>3, <3>2
    <3>4. ASSUME NEW j \in f, Cardinality(Below(f, j)) = n PROVE j = i
      <4>1. j # x  BY <1>0, <1>2, <2>2, <3>4
      <4>2. j \in e  BY <3>4, <4>1
      <4>3. Cardinality(Below(e, j)) = n  BY <1>3, <3>4, <4>2
      <4> QED  BY <3>2, <4>2, <4>3
    <3> HIDE DEF f
    <3> QED  BY <3>3, <3>4
  <2> QED  BY <2>1, <2>2
<1> QED  BY <1>1, <1>2, <1>3, <1>4, <1>5 DEF Counted

\* c with one byte more is d.
OneMore(c, b, d) == c \in Seq(Bytes) /\ b \in Bytes /\ d = Append(c, b)

\* What d is.
LEMMA OneMoreIs ==
  ASSUME NEW c, NEW b, NEW d, OneMore(c, b, d)
  PROVE  /\ d \in Seq(Bytes) /\ Len(c) \in Nat /\ Len(d) = Len(c) + 1 /\ d[Len(c) + 1] = b
         /\ \A k \in 1 .. Len(c) : d[k] = c[k]
<1>1. Append(c, b) \in Seq(Bytes) /\ Len(c) \in Nat
  BY DEF OneMore
<1>2. Len(Append(c, b)) = Len(c) + 1 /\ Append(c, b)[Len(c) + 1] = b
      /\ \A k \in 1 .. Len(c) : Append(c, b)[k] = c[k]
  BY DEF OneMore
<1> QED  BY <1>1, <1>2 DEF OneMore

\* The last byte does not count among those before it.
LEMMA SubSeqOld ==
  ASSUME NEW c, NEW b, NEW d, OneMore(c, b, d), NEW i \in Nat \ {0}, NEW j \in Nat, j <= Len(c)
  PROVE  SubSeq(d, i, j) = SubSeq(c, i, j)
<1>a. PICK n \in Nat :
      /\ d \in Seq(Bytes) /\ n = Len(c) /\ Len(d) = n + 1 /\ d[n + 1] = b
      /\ (\A k \in 1 .. n : d[k] = c[k]) /\ j <= n /\ c \in Seq(Bytes) /\ b \in Bytes
  BY OneMoreIs DEF OneMore
<1>1. CASE j < i
  <2>1. SubSeq(d, i, j) = <<>> /\ SubSeq(c, i, j) = <<>>  BY <1>1
  <2> QED  BY <2>1
<1>2. CASE i <= j
  <2>1. /\ SubSeq(d, i, j) \in Seq(Bytes) /\ SubSeq(c, i, j) \in Seq(Bytes)
        /\ Len(SubSeq(d, i, j)) = j - i + 1 /\ Len(SubSeq(c, i, j)) = j - i + 1
    BY <1>a, <1>2
  <2>2. \A k \in 1 .. j - i + 1 : SubSeq(d, i, j)[k] = d[i + k - 1]
                                  /\ SubSeq(c, i, j)[k] = c[i + k - 1]
    BY <1>a, <1>2
  <2>3. \A k \in 1 .. j - i + 1 : i + k - 1 \in 1 .. n  BY <1>a, <1>2
  <2>4. \A k \in 1 .. j - i + 1 : SubSeq(d, i, j)[k] = SubSeq(c, i, j)[k]
    BY <1>a, <2>2, <2>3
  <2> QED  BY <2>1, <2>4, SameElements
<1> QED  BY <1>1, <1>2

\* A part that ends with the last byte is one byte longer.
LEMMA SubSeqMore ==
  ASSUME NEW c, NEW b, NEW d, OneMore(c, b, d), NEW i \in Nat \ {0}, i <= Len(c) + 1
  PROVE  /\ SubSeq(d, i, Len(c) + 1) = Append(SubSeq(c, i, Len(c)), b)
         /\ SubSeq(c, i, Len(c)) \in Seq(Bytes)
<1>a. PICK n \in Nat :
      /\ d \in Seq(Bytes) /\ n = Len(c) /\ Len(d) = n + 1 /\ d[n + 1] = b
      /\ (\A k \in 1 .. n : d[k] = c[k]) /\ i <= n + 1 /\ c \in Seq(Bytes) /\ b \in Bytes
  BY OneMoreIs DEF OneMore
<1>1. /\ SubSeq(c, i, n) \in Seq(Bytes) /\ Len(SubSeq(c, i, n)) = (n + 1) - i
      /\ \A k \in 1 .. (n + 1) - i : SubSeq(c, i, n)[k] = c[i + k - 1]
  <2>1. CASE i = n + 1
    <3>1. SubSeq(c, i, n) = <<>> /\ (n + 1) - i = 0  BY <2>1
    <3> QED  BY <3>1
  <2>2. CASE i <= n
    BY <1>a, <2>2
  <2> QED  BY <1>a, <2>1, <2>2
<1>2. /\ SubSeq(d, i, n + 1) \in Seq(Bytes) /\ Len(SubSeq(d, i, n + 1)) = (n + 2) - i
      /\ \A k \in 1 .. (n + 2) - i : SubSeq(d, i, n + 1)[k] = d[i + k - 1]
  BY <1>a
<1>3. PICK s \in Seq(Bytes) : s = SubSeq(c, i, n)  BY <1>1
<1>4. PICK t \in Seq(Bytes) : t = SubSeq(d, i, n + 1)  BY <1>2
<1>5. /\ Append(s, b) \in Seq(Bytes) /\ Len(Append(s, b)) = (n + 2) - i /\ Len(t) = (n + 2) - i
      /\ Append(s, b)[(n + 2) - i] = b /\ Len(s) = (n + 1) - i
      /\ \A k \in 1 .. (n + 1) - i : Append(s, b)[k] = s[k]
  <2>1. Len(s) = (n + 1) - i /\ Len(t) = (n + 2) - i  BY <1>1, <1>2, <1>3, <1>4
  <2>2. Len(s) + 1 = (n + 2) - i  BY <2>1
  <2>3. /\ Append(s, b) \in Seq(Bytes) /\ Len(Append(s, b)) = Len(s) + 1
        /\ Append(s, b)[Len(s) + 1] = b
        /\ \A k \in 1 .. Len(s) : Append(s, b)[k] = s[k]
    BY <1>a
  <2> QED  BY <2>1, <2>2, <2>3
<1>6. ASSUME NEW k \in 1 .. (n + 2) - i PROVE t[k] = Append(s, b)[k]
  <2>1. t[k] = d[i + k - 1]  BY <1>2, <1>4
  <2>2. CASE k = (n + 2) - i
    <3>1. i + k - 1 = n + 1  BY <2>2
    <3> QED  BY <1>a, <1>5, <2>1, <2>2, <3>1
  <2>3. CASE k # (n + 2) - i
    <3>1. k \in 1 .. (n + 1) - i /\ i + k - 1 \in 1 .. n  BY <1>a, <2>3
    <3> QED  BY <1>a, <1>1, <1>3, <1>5, <2>1, <3>1
  <2> QED  BY <2>2, <2>3
<1>7. t = Append(s, b)  BY <1>5, <1>6, SameElements
<1> QED  BY <1>a, <1>1, <1>3, <1>4, <1>7

\* The end of each line, once the Enters are counted.
LEMMA EndOfIs ==
  ASSUME NEW c \in Seq(Bytes), NEW m \in Nat, Counted(Ends(c), m), NEW n \in 0 .. m
  PROVE  /\ EndOf(c, n) \in Ends(c) /\ Cardinality(Below(Ends(c), EndOf(c, n))) = n
         /\ EndOf(c, n) \in 0 .. Len(c)
         /\ \A i \in Ends(c) : Cardinality(Below(Ends(c), i)) = n => i = EndOf(c, n)
<1>1. PICK i \in Ends(c) : /\ Cardinality(Below(Ends(c), i)) = n
                           /\ \A j \in Ends(c) : Cardinality(Below(Ends(c), j)) = n => j = i
  BY DEF Counted
<1>2. EndOf(c, n) = CHOOSE k \in Ends(c) : Cardinality(Below(Ends(c), k)) = n
  BY DEF EndOf, Below
<1>3. EndOf(c, n) \in Ends(c) /\ Cardinality(Below(Ends(c), EndOf(c, n))) = n
  BY <1>1, <1>2
<1>4. EndOf(c, n) = i  BY <1>1, <1>3
<1>5. Ends(c) \subseteq 0 .. Len(c)  BY DEF Ends
<1> QED  BY <1>1, <1>3, <1>4, <1>5

\* A byte that is no Enter ends no line; an Enter ends one.
LEMMA EndsMore ==
  ASSUME NEW c \in Seq(Bytes), NEW m \in Nat, Counted(Ends(c), m), NEW b \in Bytes
  PROVE  /\ b \notin Enters => Ends(Append(c, b)) = Ends(c)
         /\ b \in Enters =>
              /\ Counted(Ends(Append(c, b)), m + 1)
              /\ \A n \in 0 .. m : EndOf(Append(c, b), n) = EndOf(c, n)
              /\ EndOf(Append(c, b), m + 1) = Len(c) + 1
<1>1. PICK d \in Seq(Bytes), n \in Nat :
        /\ d = Append(c, b) /\ n = Len(c) /\ Len(d) = n + 1 /\ d[n + 1] = b
        /\ \A k \in 1 .. n : d[k] = c[k]
  <2>1. Append(c, b) \in Seq(Bytes) /\ Len(c) \in Nat
    OBVIOUS
  <2>2. Len(Append(c, b)) = Len(c) + 1 /\ Append(c, b)[Len(c) + 1] = b
          /\ \A k \in 1 .. Len(c) : Append(c, b)[k] = c[k]
    OBVIOUS
  <2> QED  BY <2>1, <2>2
<1>2. DOMAIN d = 1 .. n + 1 /\ DOMAIN c = 1 .. n  BY <1>1
<1>3. CASE b \notin Enters
  <2>1. \A i \in 1 .. n + 1 : d[i] \in Enters <=> i \in 1 .. n /\ c[i] \in Enters
    BY <1>1, <1>3
  <2>2. Ends(d) = Ends(c)  BY <1>2, <2>1 DEF Ends
  <2> QED  BY <1>1, <1>3, <2>2
<1>4. CASE b \in Enters
  <2>1. \A i \in 1 .. n + 1 : d[i] \in Enters <=> i = n + 1 \/ (i \in 1 .. n /\ c[i] \in Enters)
    BY <1>1, <1>4
  <2>2. Ends(d) = Ends(c) \cup {n + 1}  BY <1>2, <2>1 DEF Ends
  <2>3. \A i \in Ends(c) : i < n + 1  BY <1>2 DEF Ends
  <2>4. n + 1 \in Nat  OBVIOUS
  <2>5. /\ Counted(Ends(d), m + 1) /\ Below(Ends(d), n + 1) = Ends(c)
        /\ \A i \in Ends(c) : Below(Ends(d), i) = Below(Ends(c), i)
    <3>1. PICK e : e = Ends(c)  OBVIOUS
    <3>2. PICK x \in Nat : x = n + 1  BY <2>4
    <3>3. Counted(e, m) /\ (\A i \in e : i < x)  BY <2>3, <3>1, <3>2
    <3>4. /\ Counted(e \cup {x}, m + 1) /\ Below(e \cup {x}, x) = e
          /\ \A i \in e : Below(e \cup {x}, i) = Below(e, i)
      BY <3>3, CountedMore
    <3>5. Ends(d) = e \cup {x}  BY <2>2, <3>1, <3>2
    <3> QED  BY <3>1, <3>2, <3>4, <3>5
  <2>6. Cardinality(Ends(c)) = m + 1  BY DEF Counted
  <2>7. EndOf(d, m + 1) = n + 1
    <3>1. m + 1 \in Nat /\ m + 1 \in 0 .. m + 1  OBVIOUS
    <3>2. \A i \in Ends(d) : Cardinality(Below(Ends(d), i)) = m + 1 => i = EndOf(d, m + 1)
      BY <2>5, <3>1, EndOfIs
    <3> QED  BY <2>2, <2>5, <2>6, <3>2
  <2>8. ASSUME NEW k \in 0 .. m PROVE EndOf(d, k) = EndOf(c, k)
    <3>1. m + 1 \in Nat /\ k \in 0 .. m + 1  OBVIOUS
    <3>2. \A i \in Ends(d) : Cardinality(Below(Ends(d), i)) = k => i = EndOf(d, k)
      BY <2>5, <3>1, EndOfIs
    <3>3. EndOf(c, k) \in Ends(c) /\ Cardinality(Below(Ends(c), EndOf(c, k))) = k
      BY EndOfIs
    <3> QED  BY <2>2, <2>5, <3>2, <3>3
  <2> QED  BY <1>1, <1>4, <2>5, <2>7, <2>8
<1> QED  BY <1>3, <1>4

-----------------------------------------------------------------------------

\* r is a sequence, of whatever.
AnySeq(r) == \E S : r \in Seq(S)

\* One element more.
LEMMA AnySeqMore ==
  ASSUME NEW r, AnySeq(r), NEW x
  PROVE  /\ AnySeq(Append(r, x)) /\ Len(r) \in Nat /\ Len(Append(r, x)) = Len(r) + 1
         /\ Append(r, x)[Len(r) + 1] = x
         /\ \A n \in 1 .. Len(r) : Append(r, x)[n] = r[n]
         /\ DOMAIN r = 1 .. Len(r)
<1>1. PICK S : r \in Seq(S)  BY DEF AnySeq
<1>2. PICK T : T = S \cup {x}  OBVIOUS
<1>3. r \in Seq(T)  BY <1>1, <1>2, SeqMonotonic
<1>4. x \in T  BY <1>2
<1>5. Append(r, x) \in Seq(T)  BY <1>3, <1>4
<1> QED  BY <1>3, <1>4, <1>5 DEF AnySeq

\* The commands r answer the lines of c, and l is the line that is not ended.
Heard(c, r, l) ==
  /\ c \in Seq(Bytes) /\ AnySeq(r) /\ Counted(Ends(c), Len(r))
  /\ l = Meant(SubSeq(c, EndOf(c, Len(r)) + 1, Len(c)))
  /\ \A n \in 1 .. Len(r) : AsMeant(r[n], LineOf(c, n))

\* Nothing has been heard at first.
LEMMA HeardFirst == Heard(<<>>, <<>>, <<>>)
<1>1. <<>> \in Seq(Bytes) /\ <<>> \in Seq({}) /\ Len(<<>>) = 0 /\ DOMAIN <<>> = {}
  OBVIOUS
<1>2. Ends(<<>>) = {0}  BY <1>1 DEF Ends
<1>3. EndOf(<<>>, 0) \in 0 .. 0
  <2>1. PICK c \in Seq(Bytes) : c = <<>> /\ Len(c) = 0  BY <1>1
  <2>2. Counted(Ends(c), 0)  BY <1>2, <2>1, CountedFirst
  <2>3. 0 \in Nat /\ 0 \in 0 .. 0  OBVIOUS
  <2>4. EndOf(c, 0) \in 0 .. Len(c)  BY <2>2, <2>3, EndOfIs
  <2> QED  BY <2>1, <2>4
<1>4. SubSeq(<<>>, 0 + 1, 0) = <<>>  OBVIOUS
<1>5. EndOf(<<>>, 0) = 0  BY <1>3
<1>6. <<>> = Meant(SubSeq(<<>>, EndOf(<<>>, Len(<<>>)) + 1, Len(<<>>)))
  BY <1>1, <1>4, <1>5, MeantMore
<1> QED  BY <1>1, <1>2, <1>6, CountedFirst DEF Heard, AnySeq

\* The lines that have ended stay what they were.
LEMMA LineOfOld ==
  ASSUME NEW c \in Seq(Bytes), NEW m \in Nat, Counted(Ends(c), m), NEW b \in Bytes,
         \A n \in 0 .. m : EndOf(Append(c, b), n) = EndOf(c, n), NEW n \in 1 .. m
  PROVE  LineOf(Append(c, b), n) = LineOf(c, n)
<1>1. n \in 0 .. m /\ n - 1 \in 0 .. m  OBVIOUS
<1>2. PICK i \in 0 .. Len(c) : i = EndOf(c, n - 1) /\ i = EndOf(Append(c, b), n - 1)
  BY <1>1, EndOfIs
<1>3. PICK j \in 0 .. Len(c) : j = EndOf(c, n) /\ j = EndOf(Append(c, b), n)
  BY <1>1, EndOfIs
<1>4. SubSeq(Append(c, b), i + 1, j - 1) = SubSeq(c, i + 1, j - 1)
  <2>1. i + 1 \in Nat \ {0} /\ Len(c) \in Nat  OBVIOUS
  <2>2. CASE j = 0
    <3>1. j - 1 < i + 1  BY <2>2
    <3>2. Append(c, b) \in Seq(Bytes)  OBVIOUS
    <3>3. SubSeq(Append(c, b), i + 1, j - 1) = <<>> /\ SubSeq(c, i + 1, j - 1) = <<>>
      BY <3>1, <3>2
    <3> QED  BY <3>3
  <2>3. CASE j # 0
    <3>1. j - 1 \in Nat /\ j - 1 <= Len(c)  BY <2>3
    <3>2. PICK u \in Nat \ {0} : u = i + 1  BY <2>1
    <3>3. PICK v \in Nat : v = j - 1 /\ v <= Len(c)  BY <3>1
    <3>4. PICK d : d = Append(c, b) /\ OneMore(c, b, d)  BY DEF OneMore
    <3>5. SubSeq(d, u, v) = SubSeq(c, u, v)  BY <3>3, <3>4, SubSeqOld
    <3> QED  BY <3>2, <3>3, <3>4, <3>5
  <2> QED  BY <2>2, <2>3
<1> QED  BY <1>2, <1>3, <1>4 DEF LineOf

\* One byte more edits the line, or ends it.
LEMMA HeardMore ==
  ASSUME NEW c, NEW r, NEW l, Heard(c, r, l), NEW b \in Bytes
  PROVE  /\ l \in Seq(Bytes)
         /\ b \notin Enters => Heard(Append(c, b), r, Edited(l, b))
         /\ \A x : b \in Enters /\ AsMeant(x, l) => Heard(Append(c, b), Append(r, x), <<>>)
<1>1. /\ c \in Seq(Bytes) /\ Len(c) \in Nat /\ AnySeq(r) /\ Counted(Ends(c), Len(r))
      /\ l = Meant(SubSeq(c, EndOf(c, Len(r)) + 1, Len(c)))
      /\ \A n \in 1 .. Len(r) : AsMeant(r[n], LineOf(c, n))
      /\ Append(c, b) \in Seq(Bytes)
  BY DEF Heard
<1>2. PICK m \in Nat : m = Len(r) /\ Counted(Ends(c), m)  BY <1>1, AnySeqMore
<1>3. PICK p \in 0 .. Len(c) : p = EndOf(c, m)
  <2>1. m \in 0 .. m  OBVIOUS
  <2> QED  BY <1>1, <1>2, <2>1, EndOfIs
<1>4. p + 1 \in Nat \ {0} /\ p + 1 <= Len(c) + 1 /\ Len(c) <= Len(c)  BY <1>1
<1>5. /\ SubSeq(Append(c, b), p + 1, Len(c)) = SubSeq(c, p + 1, Len(c))
      /\ SubSeq(Append(c, b), p + 1, Len(c) + 1) = Append(SubSeq(c, p + 1, Len(c)), b)
      /\ SubSeq(c, p + 1, Len(c)) \in Seq(Bytes)
  <2>1. PICK u \in Nat \ {0} : u = p + 1  BY <1>4
  <2>2. u <= Len(c) + 1 /\ Len(c) \in Nat /\ Len(c) <= Len(c)  BY <1>1, <1>4, <2>1
  <2>3. /\ SubSeq(Append(c, b), u, Len(c)) = SubSeq(c, u, Len(c))
        /\ SubSeq(Append(c, b), u, Len(c) + 1) = Append(SubSeq(c, u, Len(c)), b)
        /\ SubSeq(c, u, Len(c)) \in Seq(Bytes)
    <3>1. PICK d : d = Append(c, b) /\ OneMore(c, b, d)  BY <1>1 DEF OneMore
    <3>2. SubSeq(d, u, Len(c)) = SubSeq(c, u, Len(c))  BY <2>2, <3>1, SubSeqOld
    <3>3. /\ SubSeq(d, u, Len(c) + 1) = Append(SubSeq(c, u, Len(c)), b)
          /\ SubSeq(c, u, Len(c)) \in Seq(Bytes)
      BY <2>2, <3>1, SubSeqMore
    <3> QED  BY <3>1, <3>2, <3>3
  <2> QED  BY <2>1, <2>3
<1>6. l = Meant(SubSeq(c, p + 1, Len(c))) /\ l \in Seq(Bytes)
  BY <1>1, <1>2, <1>3, <1>5, MeantMore
<1>7. Len(Append(c, b)) = Len(c) + 1  BY <1>1
<1>8. ASSUME b \notin Enters PROVE Heard(Append(c, b), r, Edited(l, b))
  <2>1. Ends(Append(c, b)) = Ends(c)  BY <1>1, <1>2, <1>8, EndsMore
  <2>2. \A n : EndOf(Append(c, b), n) = EndOf(c, n)  BY <2>1 DEF EndOf
  <2>3. \A n \in 1 .. m : LineOf(Append(c, b), n) = LineOf(c, n)
    BY <1>1, <1>2, <2>2, LineOfOld
  <2>4. Edited(l, b) = Meant(SubSeq(Append(c, b), p + 1, Len(c) + 1))
    BY <1>5, <1>6, MeantMore
  <2> QED  BY <1>1, <1>2, <1>3, <1>7, <2>1, <2>2, <2>3, <2>4 DEF Heard
<1>9. ASSUME NEW x, b \in Enters, AsMeant(x, l) PROVE Heard(Append(c, b), Append(r, x), <<>>)
  <2>1. /\ Counted(Ends(Append(c, b)), m + 1)
        /\ \A n \in 0 .. m : EndOf(Append(c, b), n) = EndOf(c, n)
        /\ EndOf(Append(c, b), m + 1) = Len(c) + 1
    BY <1>1, <1>2, <1>9, EndsMore
  <2>2. \A n \in 1 .. m : LineOf(Append(c, b), n) = LineOf(c, n)
    BY <1>1, <1>2, <2>1, LineOfOld
  <2>3. LineOf(Append(c, b), m + 1) = l
    <3>1. (m + 1) - 1 = m /\ m \in 0 .. m /\ (Len(c) + 1) - 1 = Len(c)  BY <1>1
    <3>2. EndOf(Append(c, b), m) = p  BY <1>3, <2>1, <3>1
    <3> QED  BY <1>5, <1>6, <2>1, <3>1, <3>2 DEF LineOf
  <2>4. /\ AnySeq(Append(r, x)) /\ Len(Append(r, x)) = m + 1 /\ Append(r, x)[m + 1] = x
        /\ \A n \in 1 .. m : Append(r, x)[n] = r[n]
    BY <1>1, <1>2, AnySeqMore
  <2>5. <<>> = Meant(SubSeq(Append(c, b), (Len(c) + 1) + 1, Len(c) + 1))
    <3>1. SubSeq(Append(c, b), (Len(c) + 1) + 1, Len(c) + 1) = <<>>
      <4>1. Len(c) + 1 < (Len(c) + 1) + 1 /\ Len(c) + 1 \in Int /\ (Len(c) + 1) + 1 \in Int
        BY <1>1
      <4> QED  BY <1>1, <4>1
    <3> QED  BY <3>1, MeantMore
  <2>6. ASSUME NEW n \in 1 .. m + 1 PROVE AsMeant(Append(r, x)[n], LineOf(Append(c, b), n))
    <3>1. CASE n = m + 1  BY <1>9, <2>3, <2>4, <3>1
    <3>2. CASE n # m + 1
      <4>1. n \in 1 .. m  BY <3>2
      <4> QED  BY <1>1, <1>2, <2>2, <2>4, <4>1
    <3> QED  BY <3>1, <3>2
  <2> QED  BY <1>1, <1>7, <2>1, <2>4, <2>5, <2>6 DEF Heard
<1> QED  BY <1>6, <1>8, <1>9

-----------------------------------------------------------------------------
(* The words of a line *)

\* A set of numbers has a least one.
LEMMA LeastOf ==
  ASSUME NEW S \in SUBSET Nat, S # {}
  PROVE  \E x \in S : \A y \in S : x <= y
<1> DEFINE T == {n \in Nat : \A y \in S : n < y}
<1> SUFFICES ASSUME \A x \in S : \E y \in S : ~(x <= y) PROVE FALSE
  OBVIOUS
<1>1. 0 \in T
  <2> SUFFICES ASSUME NEW y \in S PROVE 0 < y
    OBVIOUS
  <2>1. PICK z \in S : ~(y <= z)  OBVIOUS
  <2> QED  BY <2>1
<1>2. ASSUME NEW n \in Nat, n \in T PROVE n + 1 \in T
  <2> SUFFICES ASSUME NEW y \in S PROVE n + 1 < y
    OBVIOUS
  <2>1. PICK z \in S : ~(y <= z)  OBVIOUS
  <2>2. n < z /\ z < y  BY <1>2, <2>1
  <2> QED  BY <2>2
<1> HIDE DEF T
<1>3. Nat \subseteq T  BY <1>1, <1>2, Induction
<1>4. PICK y \in S : TRUE  OBVIOUS
<1>5. y < y  BY <1>3, <1>4 DEF T
<1> QED  BY <1>5

\* A bounded set of numbers has a greatest one.
LEMMA GreatestOf ==
  ASSUME NEW S \in SUBSET Nat, S # {}, NEW n \in Nat, \A y \in S : y <= n
  PROVE  \E x \in S : \A y \in S : y <= x
<1> DEFINE B == {b \in Nat : \A y \in S : y <= b}
<1>1. PICK b \in B : \A c \in B : b <= c
  <2>1. n \in B /\ B \in SUBSET Nat  OBVIOUS
  <2> HIDE DEF B
  <2> QED  BY <2>1, LeastOf
<1>2. CASE b \in S  BY <1>1, <1>2
<1>3. CASE b \notin S
  <2>1. \A y \in S : y < b  BY <1>1, <1>3
  <2>2. b # 0
    <3>1. PICK y \in S : y < b  BY <2>1
    <3>2. y \in Nat /\ b \in Nat  BY <1>1
    <3> QED  BY <3>1, <3>2
  <2>3. b - 1 \in B  BY <1>1, <2>1, <2>2
  <2>4. b <= b - 1  BY <1>1, <2>3
  <2> QED  BY <1>1, <2>4
<1> QED  BY <1>2, <1>3

\* A prefix, byte by byte.
LEMMA PrefixIs ==
  ASSUME NEW p \in Seq(Nat), NEW l \in Seq(Nat)
  PROVE  IsPrefix(p, l) <=> Len(p) <= Len(l) /\ \A k \in 1 .. Len(p) : p[k] = l[k]
<1>1. PICK n \in Nat : n = Len(p)  OBVIOUS
<1>2. SubSeq(p, 1, n) \in Seq(Nat) /\ Len(SubSeq(p, 1, n)) = n
      /\ \A k \in 1 .. n : SubSeq(p, 1, n)[k] = p[k]
  BY <1>1
<1>3. CASE n <= Len(l)
  <2>1. SubSeq(l, 1, n) \in Seq(Nat) /\ Len(SubSeq(l, 1, n)) = n
        /\ \A k \in 1 .. n : SubSeq(l, 1, n)[k] = l[k]
    BY <1>3
  <2>2. ASSUME SubSeq(p, 1, n) = SubSeq(l, 1, n) PROVE \A k \in 1 .. n : p[k] = l[k]
    BY <1>2, <2>1, <2>2
  <2>3. ASSUME \A k \in 1 .. n : p[k] = l[k] PROVE SubSeq(p, 1, n) = SubSeq(l, 1, n)
    <3>1. PICK s \in Seq(Nat), t \in Seq(Nat) : s = SubSeq(p, 1, n) /\ t = SubSeq(l, 1, n)
      BY <1>2, <2>1
    <3>2. Len(s) = n /\ Len(t) = n /\ \A k \in 1 .. n : s[k] = t[k]  BY <1>2, <2>1, <2>3, <3>1
    <3>3. s = t  BY <3>2, SameElements
    <3> QED  BY <3>1, <3>3
  <2> QED  BY <1>1, <1>3, <2>2, <2>3 DEF IsPrefix
<1>4. CASE ~(n <= Len(l))  BY <1>1, <1>4 DEF IsPrefix
<1> QED  BY <1>3, <1>4

\* A command's word holds no space.
LEMMA WordIs ==
  ASSUME NEW c \in DOMAIN Words
  PROVE  /\ Words[c] \in Seq(Nat) /\ Len(Words[c]) \in Nat \ {0}
         /\ \A k \in 1 .. Len(Words[c]) : Words[c][k] # Space
<1>1. Words[c] \in Seq(33 .. 126) /\ Words[c] # <<>>  BY ConsoleAssumption
<1>2. PICK w \in Seq(33 .. 126) : w = Words[c] /\ w # <<>>  BY <1>1
<1>3. 33 .. 126 \subseteq Nat  OBVIOUS
<1>4. w \in Seq(Nat) /\ Len(w) \in Nat \ {0}
  <2>1. PICK S : S = 33 .. 126  OBVIOUS
  <2>2. w \in Seq(S) /\ S \subseteq Nat  BY <1>2, <1>3, <2>1
  <2>3. w \in Seq(Nat)  BY <2>2, SeqMonotonic
  <2> QED  BY <1>2, <2>3
<1>5. ASSUME NEW k \in 1 .. Len(w) PROVE w[k] # Space
  <2>1. w[k] \in 33 .. 126  BY ElementOfSeq
  <2>2. \A b \in 33 .. 126 : b # 32  OBVIOUS
  <2> QED  BY <2>1, <2>2 DEF Space
<1> QED  BY <1>2, <1>4, <1>5

\* sh_find_sp stops at the first space or at the end.
LEMMA FindSpIs ==
  ASSUME NEW s \in Seq(Nat)
  PROVE  /\ FindSp(s) \in 0 .. Len(s)
         /\ FindSp(s) = Len(s) \/ s[FindSp(s) + 1] = Space
         /\ \A j \in 0 .. Len(s) : j < FindSp(s) => j # Len(s) /\ s[j + 1] # Space
<1> DEFINE ends == {k \in 0 .. Len(s) : k = Len(s) \/ s[k + 1] = Space}
<1>1. Len(s) \in ends /\ ends \in SUBSET Nat  OBVIOUS
<1>2. FindSp(s) = CHOOSE k \in ends : \A j \in ends : k <= j  BY DEF FindSp
<1> HIDE DEF ends
<1>3. \E k \in ends : \A j \in ends : k <= j  BY <1>1, LeastOf
<1>4. FindSp(s) \in ends /\ \A j \in ends : FindSp(s) <= j  BY <1>2, <1>3
<1>5. PICK f \in Nat : f = FindSp(s) /\ f \in ends /\ \A j \in ends : f <= j  BY <1>1, <1>4
<1>6. ASSUME NEW j \in 0 .. Len(s), j < f PROVE j # Len(s) /\ s[j + 1] # Space
  <2>1. j \notin ends  BY <1>5, <1>6
  <2> QED  BY <2>1 DEF ends
<1>7. f \in 0 .. Len(s) /\ (f = Len(s) \/ s[f + 1] = Space)  BY <1>5 DEF ends
<1> QED  BY <1>5, <1>6, <1>7

\* sh_skip_sp leaves what begins behind the spaces.
LEMMA SkipSpIs ==
  ASSUME NEW s \in Seq(Nat)
  PROVE  \E m \in 1 .. Len(s) + 1 :
           /\ SkipSp(s) = SubSeq(s, m, Len(s))
           /\ \A j \in 1 .. m - 1 : s[j] = Space
           /\ m <= Len(s) => s[m] # Space
<1> DEFINE starts == {k \in 1 .. Len(s) + 1 : \A j \in 1 .. k - 1 : s[j] = Space}
<1>0. Len(s) \in Nat /\ Len(s) + 1 \in Nat  OBVIOUS
<1>1. 1 \in starts /\ starts \in SUBSET Nat /\ \A k \in starts : k <= Len(s) + 1  OBVIOUS
<1>2. SkipSp(s) = SubSeq(s, CHOOSE k \in starts : \A j \in starts : j <= k, Len(s))
  BY DEF SkipSp
<1> HIDE DEF starts
<1>3. \E k \in starts : \A j \in starts : j <= k  BY <1>0, <1>1, GreatestOf
<1>4. PICK m \in starts : SkipSp(s) = SubSeq(s, m, Len(s)) /\ \A j \in starts : j <= m
  BY <1>2, <1>3
<1>5. m \in 1 .. Len(s) + 1 /\ \A j \in 1 .. m - 1 : s[j] = Space  BY <1>4 DEF starts
<1>6. ASSUME m <= Len(s) PROVE s[m] # Space
  <2> SUFFICES ASSUME s[m] = Space PROVE FALSE
    OBVIOUS
  <2>1. \A j \in 1 .. (m + 1) - 1 : s[j] = Space  BY <1>5
  <2>2. m + 1 \in starts  BY <1>0, <1>5, <1>6, <2>1 DEF starts
  <2>3. m + 1 <= m  BY <1>4, <2>2
  <2> QED  BY <1>5, <2>3
<1> QED  BY <1>4, <1>5, <1>6

\* The rest of a sequence.
IsRest(t, s, i, n) ==
  /\ t = SubSeq(s, i, n) /\ Len(t) = (n + 1) - i
  /\ \A k \in 1 .. (n + 1) - i : t[k] = s[i + k - 1]

LEMMA RestIs ==
  ASSUME NEW s \in Seq(Nat), NEW n \in Nat, n = Len(s), NEW i \in Nat \ {0}, i <= n + 1
  PROVE  \E t \in Seq(Nat) : IsRest(t, s, i, n)
<1> USE DEF IsRest
<1>1. CASE i = n + 1
  <2>1. SubSeq(s, i, n) = <<>> /\ (n + 1) - i = 0  BY <1>1
  <2>2. PICK t : t = SubSeq(s, i, n) /\ t = <<>>  BY <2>1
  <2>3. t \in Seq(Nat) /\ Len(t) = (n + 1) - i  BY <2>1, <2>2
  <2>4. \A k \in 1 .. (n + 1) - i : FALSE  BY <2>1
  <2> QED  BY <2>2, <2>3, <2>4
<1>2. CASE i <= n
  <2>1. SubSeq(s, i, n) \in Seq(Nat) /\ Len(SubSeq(s, i, n)) = (n + 1) - i
        /\ \A k \in 1 .. (n + 1) - i : SubSeq(s, i, n)[k] = s[i + k - 1]
    BY <1>2
  <2> QED  BY <2>1
<1> QED  BY <1>1, <1>2

\* What follows the first word: what begins at m + 1, behind spaces.
LEMMA TailedIs ==
  ASSUME NEW l \in Seq(Nat)
  PROVE  \E m \in FindSp(l) .. Len(l), r \in Seq(Nat) :
           /\ Tailed(l) = r /\ r = SubSeq(l, m + 1, Len(l)) /\ Len(r) = Len(l) - m
           /\ \A k \in 1 .. Len(l) - m : r[k] = l[m + k]
           /\ \A j \in 1 .. m - FindSp(l) : l[FindSp(l) + j] = Space
           /\ m < Len(l) => FindSp(l) < m /\ l[m + 1] # Space
<1>1. PICK f \in Nat, n \in Nat : f = FindSp(l) /\ n = Len(l) /\ f <= n
                                  /\ (f = n \/ l[f + 1] = Space)
  <2>1. FindSp(l) \in 0 .. Len(l) /\ (FindSp(l) = Len(l) \/ l[FindSp(l) + 1] = Space)
        /\ Len(l) \in Nat
    BY FindSpIs
  <2> QED  BY <2>1
<1>2. PICK s \in Seq(Nat) : /\ s = SubSeq(l, f + 1, n) /\ Len(s) = n - f
                            /\ \A k \in 1 .. n - f : s[k] = l[f + k]
  <2>1. PICK i \in Nat \ {0} : i = f + 1 /\ i <= n + 1  BY <1>1
  <2>a. PICK s \in Seq(Nat) : IsRest(s, l, i, n)  BY <1>1, <2>1, RestIs
  <2>2. /\ s = SubSeq(l, i, n) /\ Len(s) = (n + 1) - i
        /\ \A k \in 1 .. (n + 1) - i : s[k] = l[i + k - 1]
    BY <2>a DEF IsRest
  <2>3. (n + 1) - i = n - f /\ \A k \in 1 .. n - f : i + k - 1 = f + k  BY <2>1
  <2>4. s = SubSeq(l, f + 1, n)  BY <2>1, <2>2
  <2>5. \A k \in 1 .. n - f : s[k] = l[f + k]
    <3> SUFFICES ASSUME NEW k \in 1 .. n - f PROVE s[k] = l[f + k]
      OBVIOUS
    <3>1. k \in 1 .. (n + 1) - i  BY <2>3
    <3>2. i + k - 1 = f + k  BY <2>3
    <3> QED  BY <2>2, <3>1, <3>2
  <2> QED  BY <2>2, <2>3, <2>4, <2>5
<1>3. Tailed(l) = SkipSp(s)  BY <1>1, <1>2 DEF Tailed
<1>4. PICK i \in 1 .. Len(s) + 1 :
           /\ SkipSp(s) = SubSeq(s, i, Len(s))
           /\ \A j \in 1 .. i - 1 : s[j] = Space
           /\ i <= Len(s) => s[i] # Space
  BY SkipSpIs
<1>a. f \in Nat /\ n \in Nat /\ f <= n /\ i \in 1 .. (n - f) + 1  BY <1>1, <1>2, <1>4
<1>b. PICK m \in Nat : m = f + (i - 1)
  <2>1. f + (i - 1) \in Nat  BY <1>a
  <2> QED  BY <2>1
<1>5. m \in f .. n /\ i = m - f + 1 /\ (n - f) + 1 - i = n - m  BY <1>a, <1>b
<1>6. PICK r \in Seq(Nat) : /\ r = SubSeq(s, i, Len(s)) /\ Len(r) = n - m
                            /\ \A k \in 1 .. n - m : r[k] = l[m + k]
  <2>1. PICK q \in Nat : q = Len(s) /\ q = n - f  BY <1>2
  <2>2. i \in Nat \ {0} /\ i <= q + 1  BY <1>a, <2>1
  <2>a. PICK r \in Seq(Nat) : IsRest(r, s, i, q)  BY <2>1, <2>2, RestIs
  <2>3. /\ r = SubSeq(s, i, q) /\ Len(r) = (q + 1) - i
        /\ \A k \in 1 .. (q + 1) - i : r[k] = s[i + k - 1]
    BY <2>a DEF IsRest
  <2>4. (q + 1) - i = n - m  BY <1>a, <1>b, <2>1
  <2>5. \A k \in 1 .. n - m : i + k - 1 \in 1 .. n - f /\ f + (i + k - 1) = m + k
    BY <1>a, <1>b
  <2>6. \A k \in 1 .. n - m : s[i + k - 1] = l[m + k]  BY <1>2, <2>5
  <2> QED  BY <2>1, <2>3, <2>4, <2>6
<1>7. \A j \in 1 .. m - f : l[f + j] = Space
  <2> SUFFICES ASSUME NEW j \in 1 .. m - f PROVE l[f + j] = Space
    OBVIOUS
  <2>1. j \in 1 .. i - 1 /\ j \in 1 .. n - f  BY <1>a, <1>b
  <2>2. s[j] = Space  BY <1>4, <2>1
  <2>3. s[j] = l[f + j]  BY <1>2, <2>1
  <2> QED  BY <2>2, <2>3
<1>8. ASSUME m < n PROVE f < m /\ l[m + 1] # Space
  <2>1. i \in 1 .. n - f /\ f + i = m + 1  BY <1>a, <1>b, <1>8
  <2>2. i <= Len(s)  BY <1>2, <1>a, <2>1
  <2>3. l[m + 1] # Space  BY <1>2, <1>4, <2>1, <2>2
  <2>4. f # m  BY <1>1, <1>8, <2>3
  <2> QED  BY <1>5, <1>a, <2>3, <2>4
<1>9. r = SubSeq(l, m + 1, n)
  <2>1. PICK j \in Nat \ {0} : j = m + 1 /\ j <= n + 1 /\ (n + 1) - j = n - m  BY <1>5, <1>a
  <2>a. PICK t \in Seq(Nat) : IsRest(t, l, j, n)  BY <1>1, <2>1, RestIs
  <2>2. /\ t = SubSeq(l, j, n) /\ Len(t) = (n + 1) - j
        /\ \A k \in 1 .. (n + 1) - j : t[k] = l[j + k - 1]
    BY <2>a DEF IsRest
  <2>3. ASSUME NEW k \in 1 .. n - m PROVE t[k] = r[k]
    <3>1. k \in 1 .. (n + 1) - j /\ j + k - 1 = m + k  BY <2>1
    <3>2. t[k] = l[m + k]  BY <2>2, <3>1
    <3> QED  BY <1>6, <3>2
  <2>4. t = r
    <3>1. Len(t) = n - m /\ Len(r) = n - m  BY <1>6, <2>1, <2>2
    <3> QED  BY <2>3, <3>1, SameElements
  <2> QED  BY <2>1, <2>2, <2>4
<1>10. /\ Tailed(l) = r /\ r = SubSeq(l, m + 1, Len(l)) /\ Len(r) = Len(l) - m
       /\ \A k \in 1 .. Len(l) - m : r[k] = l[m + k]
       /\ \A j \in 1 .. m - FindSp(l) : l[FindSp(l) + j] = Space
       /\ m < Len(l) => FindSp(l) < m /\ l[m + 1] # Space
  <2>1. Tailed(l) = r  BY <1>3, <1>4, <1>6
  <2> QED  BY <2>1, <1>1, <1>6, <1>7, <1>8, <1>9
<1> QED  BY <1>1, <1>5, <1>10

\* The shell finds the word of a command exactly where the line means it.
LEMMA HitIs ==
  ASSUME NEW l \in Seq(Nat), NEW c \in DOMAIN Words
  PROVE  /\ StrEq(SubSeq(l, 1, FindSp(l)), Words[c]) <=> Means(l, c)
         /\ Means(l, c) =>
              /\ FindSp(l) = Len(Words[c]) /\ Len(Words[c]) <= Len(l)
              /\ \A k \in 1 .. Len(Words[c]) : l[k] = Words[c][k]
<1>1. PICK W \in Seq(Nat), w \in Nat \ {0} :
        W = Words[c] /\ w = Len(W) /\ \A k \in 1 .. w : W[k] # Space
  BY WordIs
<1>2. PICK f \in Nat, n \in Nat :
        /\ f = FindSp(l) /\ n = Len(l) /\ f <= n /\ (f = n \/ l[f + 1] = Space)
        /\ \A j \in 0 .. n : j < f => j # n /\ l[j + 1] # Space
  <2>1. FindSp(l) \in 0 .. Len(l) /\ (FindSp(l) = Len(l) \/ l[FindSp(l) + 1] = Space)
        /\ (\A j \in 0 .. Len(l) : j < FindSp(l) => j # Len(l) /\ l[j + 1] # Space)
        /\ Len(l) \in Nat
    BY FindSpIs
  <2>2. PICK f : f = FindSp(l)  OBVIOUS
  <2>3. PICK n : n = Len(l)  OBVIOUS
  <2>4. f \in Nat /\ n \in Nat /\ f <= n  BY <2>1, <2>2, <2>3
  <2>5. /\ f = n \/ l[f + 1] = Space
        /\ \A j \in 0 .. n : j < f => j # n /\ l[j + 1] # Space
    BY <2>1, <2>2, <2>3
  <2> QED  BY <2>2, <2>3, <2>4, <2>5
<1>3. PICK p \in Seq(Nat) : p = SubSeq(l, 1, f) /\ Len(p) = f /\ \A k \in 1 .. f : p[k] = l[k]
  <2>1. SubSeq(l, 1, f) \in Seq(Nat) /\ Len(SubSeq(l, 1, f)) = f
        /\ \A k \in 1 .. f : SubSeq(l, 1, f)[k] = l[k]
    BY <1>2
  <2>2. PICK p : p = SubSeq(l, 1, f)  OBVIOUS
  <2> QED  BY <2>1, <2>2
<1>4. StrEq(p, W) <=> f = w /\ \A k \in 1 .. w : W[k] = l[k]
  <2>1. IsPrefix(W, p) <=> w <= f /\ \A k \in 1 .. w : W[k] = p[k]
    BY <1>1, <1>3, PrefixIs
  <2>2. f = w => \A k \in 1 .. w : p[k] = l[k]  BY <1>3
  <2> QED  BY <1>1, <1>3, <2>1, <2>2 DEF StrEq
<1>5. Means(l, c) <=> /\ w <= n /\ \A k \in 1 .. w : W[k] = l[k]
                      /\ l = W \/ l[w + 1] = Space
  <2>1. IsPrefix(W, l) <=> w <= n /\ \A k \in 1 .. w : W[k] = l[k]
    BY <1>1, <1>2, PrefixIs
  <2> QED  BY <1>1, <2>1 DEF Means
<1>6. ASSUME w <= n, \A k \in 1 .. w : W[k] = l[k], w = n PROVE l = W
  BY <1>1, <1>2, <1>6, SameElements
<1>7. ASSUME w <= n, \A k \in 1 .. w : W[k] = l[k], l = W \/ l[w + 1] = Space PROVE f = w
  <2>1. ASSUME f < w PROVE FALSE
    <3>1. f # n /\ f + 1 \in 1 .. w  BY <1>1, <1>2, <1>7, <2>1
    <3>2. l[f + 1] = Space  BY <1>2, <3>1
    <3> QED  BY <1>1, <1>7, <3>1, <3>2
  <2>2. ASSUME w < f PROVE FALSE
    <3>1. w \in 0 .. n /\ w # n  BY <1>1, <1>2, <2>2
    <3>2. l[w + 1] # Space  BY <1>2, <2>2, <3>1
    <3>3. l # W  BY <1>1, <1>2, <3>1
    <3> QED  BY <1>7, <3>2, <3>3
  <2> QED  BY <1>1, <1>2, <2>1, <2>2
<1>8. ASSUME f = w, \A k \in 1 .. w : W[k] = l[k]
      PROVE  w <= n /\ (l = W \/ l[w + 1] = Space)
  BY <1>1, <1>2, <1>6, <1>8
<1>9. StrEq(p, W) <=> Means(l, c)  BY <1>4, <1>5, <1>7, <1>8
<1>10. Means(l, c) => f = w /\ w <= n /\ \A k \in 1 .. w : l[k] = W[k]
  BY <1>5, <1>7
<1> QED  BY <1>1, <1>2, <1>3, <1>9, <1>10

\* k spaces.
Blanks(k) == [i \in 1 .. k |-> Space]

\* Two sequences, one behind the other.
LEMMA Behind ==
  ASSUME NEW a \in Seq(Nat), NEW b \in Seq(Nat)
  PROVE  /\ a \o b \in Seq(Nat) /\ Len(a \o b) = Len(a) + Len(b)
         /\ \A i \in 1 .. Len(a) + Len(b) : (a \o b)[i] = IF i <= Len(a) THEN a[i] ELSE b[i - Len(a)]
OBVIOUS

\* A word, spaces and the rest, where they stand in a line.
Parted(l, n, f, m, k, p, r) ==
    /\ n = Len(l) /\ f <= m /\ m <= n /\ f + k = m
    /\ Len(p) = f /\ \A i \in 1 .. f : p[i] = l[i]
    /\ \A i \in 1 .. k : l[f + i] = Space
    /\ Len(r) = n - m /\ \A i \in 1 .. n - m : r[i] = l[m + i]

Rejoined(l, k, p, r) == l = p \o Blanks(k) \o r

\* The parts of a line, put together again.
LEMMA Parts ==
  ASSUME NEW l \in Seq(Nat), NEW n \in Nat, NEW f \in Nat, NEW m \in Nat, NEW k \in Nat,
         NEW p \in Seq(Nat), NEW r \in Seq(Nat), Parted(l, n, f, m, k, p, r)
  PROVE  Rejoined(l, k, p, r)
<1>p. /\ n = Len(l) /\ f <= m /\ m <= n /\ f + k = m
      /\ Len(p) = f /\ \A i \in 1 .. f : p[i] = l[i]
      /\ \A i \in 1 .. k : l[f + i] = Space
      /\ Len(r) = n - m /\ \A i \in 1 .. n - m : r[i] = l[m + i]
  BY DEF Parted
<1>q. f \in 0 .. n /\ m \in f .. n  BY <1>p
<1>0. k = m - f /\ f + k = m  BY <1>p
<1>1. PICK x \in Seq(Nat) : x = Blanks(k) /\ Len(x) = k /\ \A i \in 1 .. k : x[i] = Space
  <2>1. Blanks(k) \in Seq(Nat)  BY DEF Blanks, Space
  <2>2. Len(Blanks(k)) = k /\ \A i \in 1 .. k : Blanks(k)[i] = Space  BY DEF Blanks
  <2> QED  BY <2>1, <2>2
<1>2. PICK z \in Seq(Nat) : /\ z = p \o x /\ Len(z) = m
                            /\ \A i \in 1 .. m : z[i] = IF i <= f THEN p[i] ELSE x[i - f]
  <2>1. p \o x \in Seq(Nat) /\ Len(p \o x) = Len(p) + Len(x)
        /\ \A i \in 1 .. Len(p) + Len(x) : (p \o x)[i] = IF i <= Len(p) THEN p[i] ELSE x[i - Len(p)]
    BY Behind
  <2>2. Len(p) + Len(x) = m  BY <1>0, <1>1, <1>p
  <2>3. PICK z : z = p \o x  OBVIOUS
  <2>4. z \in Seq(Nat) /\ Len(z) = m  BY <2>1, <2>2, <2>3
  <2>5. \A i \in 1 .. m : z[i] = IF i <= f THEN p[i] ELSE x[i - f]
    <3>1. Len(p) = f  BY <1>p
    <3>2. \A i \in 1 .. m : (p \o x)[i] = IF i <= f THEN p[i] ELSE x[i - f]
      BY <2>1, <2>2, <3>1
    <3> QED  BY <2>3, <3>2
  <2> QED  BY <2>3, <2>4, <2>5
<1>3. PICK y \in Seq(Nat) : /\ y = z \o r /\ Len(y) = n
                            /\ \A i \in 1 .. n : y[i] = IF i <= m THEN z[i] ELSE r[i - m]
  <2>1. z \o r \in Seq(Nat) /\ Len(z \o r) = Len(z) + Len(r)
        /\ \A i \in 1 .. Len(z) + Len(r) : (z \o r)[i] = IF i <= Len(z) THEN z[i] ELSE r[i - Len(z)]
    BY Behind
  <2>2. Len(z) + Len(r) = n /\ Len(z) = m  BY <1>2, <1>p
  <2>3. PICK y : y = z \o r  OBVIOUS
  <2>4. y \in Seq(Nat) /\ Len(y) = n  BY <2>1, <2>2, <2>3
  <2>5. \A i \in 1 .. n : y[i] = IF i <= m THEN z[i] ELSE r[i - m]
    <3>1. \A i \in 1 .. n : (z \o r)[i] = IF i <= m THEN z[i] ELSE r[i - m]
      BY <2>1, <2>2
    <3> QED  BY <2>3, <3>1
  <2> QED  BY <2>3, <2>4, <2>5
<1>4. ASSUME NEW i \in 1 .. n PROVE y[i] = l[i]
  <2>1. CASE i <= f
    <3>1. i \in 1 .. f /\ i <= m /\ i \in 1 .. m  BY <1>q, <2>1
    <3>2. y[i] = z[i] /\ z[i] = p[i]  BY <1>2, <1>3, <2>1, <3>1
    <3> QED  BY <1>p, <3>1, <3>2
  <2>2. CASE i > f /\ i <= m
    <3>1. PICK j \in 1 .. k : i = f + j /\ i - f = j
      <4>1. i - f \in 1 .. k /\ i = f + (i - f)  BY <1>0, <2>2
      <4> QED  BY <4>1
    <3>2. i \in 1 .. m /\ ~(i <= f) /\ j \in 1 .. m - f  BY <1>0, <2>2, <3>1
    <3>3. y[i] = x[j]  BY <1>2, <1>3, <2>2, <3>1, <3>2
    <3>4. l[i] = Space  BY <1>p, <3>1
    <3> QED  BY <1>1, <3>1, <3>3, <3>4
  <2>3. CASE i > m
    <3>1. PICK j \in 1 .. n - m : i = m + j /\ i - m = j
      <4>1. i - m \in 1 .. n - m /\ i = m + (i - m)  BY <1>q, <2>3
      <4> QED  BY <4>1
    <3>2. ~(i <= m)  BY <1>q, <2>3
    <3>3. y[i] = r[j]  BY <1>3, <3>1, <3>2
    <3> QED  BY <1>p, <3>1, <3>3
  <2>4. i <= f \/ (i > f /\ i <= m) \/ i > m  BY <1>q
  <2> QED  BY <2>1, <2>2, <2>3, <2>4
<1>5. y = l
  <2>1. Len(y) = n /\ Len(l) = n  BY <1>3, <1>p
  <2> QED  BY <1>4, <2>1, SameElements
<1> QED  BY <1>0, <1>1, <1>2, <1>3, <1>5 DEF Rejoined

\* What the shell takes for the first word and for the rest are that.
LEMMA TailFollows ==
  ASSUME NEW l \in Seq(Nat)
  PROVE  /\ Follows(l, SubSeq(l, 1, FindSp(l)), Tailed(l))
         /\ Tailed(l) \in Seq(Nat)
         /\ Tailed(l) # <<>> => Tailed(l)[1] # Space
         /\ Tailed(l) # <<>> => \E i \in DOMAIN l : Tailed(l) = SubSeq(l, i, Len(l))
<1>1. PICK f, n \in Nat : f = FindSp(l) /\ n = Len(l) /\ f \in 0 .. n
  BY FindSpIs
<1>2. PICK m \in f .. n, r \in Seq(Nat) :
           /\ Tailed(l) = r /\ r = SubSeq(l, m + 1, n) /\ Len(r) = n - m
           /\ \A k \in 1 .. n - m : r[k] = l[m + k]
           /\ \A j \in 1 .. m - f : l[f + j] = Space
           /\ m < n => f < m /\ l[m + 1] # Space
  BY <1>1, TailedIs
<1>3. PICK p \in Seq(Nat) : p = SubSeq(l, 1, f) /\ Len(p) = f /\ \A k \in 1 .. f : p[k] = l[k]
  <2>1. f \in Nat /\ f <= n  BY <1>1
  <2>2. SubSeq(l, 1, f) \in Seq(Nat) /\ Len(SubSeq(l, 1, f)) = f
        /\ \A k \in 1 .. f : SubSeq(l, 1, f)[k] = l[k]
    BY <1>1, <2>1
  <2>3. PICK p : p = SubSeq(l, 1, f)  OBVIOUS
  <2> QED  BY <2>2, <2>3
<1>k. PICK k \in 0 .. n : k = m - f /\ f + k = m
  <2>1. m - f \in 0 .. n /\ f + (m - f) = m  BY <1>1
  <2> QED  BY <2>1
<1>4. l = p \o Blanks(k) \o r
  <2>1. n = Len(l) /\ f <= m /\ m <= n /\ f + k = m  BY <1>1, <1>k
  <2>5. Len(p) = f  BY <1>3
  <2>6. Len(r) = n - m  BY <1>2
  <2>2. \A i \in 1 .. f : p[i] = l[i]  BY <1>3
  <2>3. \A i \in 1 .. k : l[f + i] = Space  BY <1>2, <1>k
  <2>4. \A i \in 1 .. n - m : r[i] = l[m + i]  BY <1>2
  <2>7. Parted(l, n, f, m, k, p, r)
    BY <2>1, <2>2, <2>3, <2>4, <2>5, <2>6 DEF Parted
  <2>8. n \in Nat /\ f \in Nat /\ m \in Nat /\ k \in Nat  BY <1>1, <1>k
  <2>9. l \in Seq(Nat) /\ p \in Seq(Nat) /\ r \in Seq(Nat)  OBVIOUS
  <2>10. Rejoined(l, k, p, r)  BY <2>7, <2>8, <2>9, Parts
  <2> QED  BY <2>10 DEF Rejoined
<1>5. r # <<>> => m < n /\ m - f > 0 /\ r[1] # Space
  <2> SUFFICES ASSUME r # <<>> PROVE m < n /\ m - f > 0 /\ r[1] # Space
    OBVIOUS
  <2>1. n - m # 0  BY <1>2
  <2>2. m < n /\ 1 \in 1 .. n - m  BY <1>1, <2>1
  <2>3. f < m /\ l[m + 1] # Space /\ r[1] = l[m + 1]  BY <1>2, <2>2
  <2>4. m - f > 0  BY <1>1, <2>3
  <2> QED  BY <2>2, <2>3, <2>4
<1>6. Follows(l, p, r)
  <2>2. l = p \o [i \in 1 .. k |-> Space] \o r  BY <1>4 DEF Blanks
  <2>3. r = <<>> \/ (k > 0 /\ r[1] # Space)  BY <1>5, <1>k
  <2> QED  BY <1>1, <2>2, <2>3 DEF Follows
<1>7. r # <<>> => \E i \in DOMAIN l : r = SubSeq(l, i, Len(l))
  <2> SUFFICES ASSUME r # <<>> PROVE \E i \in DOMAIN l : r = SubSeq(l, i, Len(l))
    OBVIOUS
  <2>1. m + 1 \in 1 .. n  BY <1>1, <1>5
  <2>2. DOMAIN l = 1 .. n  BY <1>1
  <2> QED  BY <1>1, <1>2, <2>1, <2>2
<1> QED  BY <1>1, <1>2, <1>3, <1>5, <1>6, <1>7

\* What the shell does with a line is what the line means.
LEMMA RunIsMeant ==
  ASSUME NEW l \in Seq(Nat), l # <<>>
  PROVE  AsMeant(Run(l), l)
<1> DEFINE meant == {d \in DOMAIN Words : Means(l, d)}
           c == CommandOf(l)
           rest == Tailed(l)
<1>1. meant = {d \in DOMAIN Words : StrEq(SubSeq(l, 1, FindSp(l)), Words[d])}
  BY HitIs
<1>2. c = IF meant = {} THEN "unknown" ELSE CHOOSE d \in meant : TRUE
  <2>1. PICK hits : hits = {d \in DOMAIN Words : StrEq(SubSeq(l, 1, FindSp(l)), Words[d])}
    OBVIOUS
  <2>2. c = IF hits = {} THEN "unknown" ELSE CHOOSE d \in hits : TRUE
    BY <2>1 DEF CommandOf
  <2>3. hits = meant  BY <1>1, <2>1
  <2> HIDE DEF meant, c
  <2> QED  BY <2>2, <2>3
<1>3. /\ Run(l).do = IF Wants(c) /\ rest = <<>> THEN "none" ELSE c
      /\ Run(l).name = IF ~Wants(c) THEN <<>>
                       ELSE IF c = "w" THEN SubSeq(rest, 1, FindSp(rest)) ELSE rest
      /\ Run(l).text = IF c = "w" THEN Tailed(rest) ELSE <<>>
  BY DEF Run
<1>4. AsMeant(Run(l), l) <=>
        \/ Run(l).do \in meant /\ (Wants(Run(l).do) => Named(Run(l), l))
        \/ Run(l).do = "unknown" /\ meant = {} /\ l # <<>>
        \/ /\ Run(l).do = "none"
           /\ l = <<>> \/ \E d \in meant : Wants(d) /\ Follows(l, Words[d], <<>>)
  BY DEF AsMeant
<1> HIDE DEF meant, c, rest
<1>5. CASE meant = {}
  <2>1. c = "unknown" /\ ~Wants(c)  BY <1>2, <1>5 DEF Wants
  <2> QED  BY <1>3, <1>4, <1>5, <2>1
<1>6. CASE meant # {} /\ ~Wants(c)
  <2>1. c \in meant  BY <1>2, <1>6
  <2> QED  BY <1>3, <1>4, <1>6, <2>1
<1>7. CASE meant # {} /\ Wants(c)
  <2>1. c \in meant  BY <1>2, <1>7
  <2>2. c \in DOMAIN Words /\ StrEq(SubSeq(l, 1, FindSp(l)), Words[c])  BY <1>1, <2>1
  <2>3. SubSeq(l, 1, FindSp(l)) = Words[c]
    <3>1. PICK f \in Nat : f = FindSp(l) /\ f <= Len(l)
      <4>1. FindSp(l) \in Nat /\ FindSp(l) <= Len(l)  BY FindSpIs
      <4> QED  BY <4>1
    <3>2. PICK p : p = SubSeq(l, 1, f)  OBVIOUS
    <3>3. p \in Seq(Nat)  BY <3>1, <3>2
    <3>4. PICK W \in Seq(Nat) : W = Words[c]  BY <2>2, WordIs
    <3>5. Len(p) = Len(W) /\ IsPrefix(W, p)  BY <2>2, <3>1, <3>2, <3>4 DEF StrEq
    <3>6. \A k \in 1 .. Len(W) : W[k] = p[k]  BY <3>3, <3>5, PrefixIs
    <3>7. p = W  BY <3>3, <3>5, <3>6, SameElements
    <3> QED  BY <3>1, <3>2, <3>4, <3>7
  <2>4. /\ Follows(l, Words[c], rest) /\ rest \in Seq(Nat)
        /\ rest # <<>> => rest[1] # Space /\ \E i \in DOMAIN l : rest = SubSeq(l, i, Len(l))
    BY <2>3, TailFollows DEF rest
  <2>5. CASE rest = <<>>
    <3>1. Run(l).do = "none"  BY <1>3, <1>7, <2>5
    <3> QED  BY <1>4, <1>7, <2>1, <2>4, <2>5, <3>1
  <2>6. CASE rest # <<>> /\ c # "w"
    <3>1. Run(l).do = c /\ Run(l).name = rest  BY <1>3, <1>7, <2>6
    <3>2. Named(Run(l), l)  BY <2>4, <2>6, <3>1 DEF Named
    <3> QED  BY <1>4, <2>1, <3>1, <3>2
  <2>7. CASE rest # <<>> /\ c = "w"
    <3>1. PICK r \in Seq(Nat) : r = rest /\ r # <<>>  BY <2>4, <2>7
    <3>2. /\ FindSp(r) \in 0 .. Len(r) /\ (FindSp(r) = Len(r) \/ r[FindSp(r) + 1] = Space)
          /\ \A j \in 0 .. Len(r) : j < FindSp(r) => j # Len(r) /\ r[j + 1] # Space
      BY FindSpIs
    <3>3. PICK g \in Nat : g = FindSp(r) /\ g <= Len(r) /\ g # 0
      <4>1. FindSp(r) \in Nat /\ FindSp(r) <= Len(r)  BY <3>2
      <4>2. FindSp(r) # 0
        <5> SUFFICES ASSUME FindSp(r) = 0 PROVE FALSE
          OBVIOUS
        <5>1. Len(r) # 0 /\ 0 + 1 = 1  BY <3>1
        <5> QED  BY <2>4, <2>7, <3>1, <3>2, <5>1
      <4> QED  BY <4>1, <4>2
    <3>4. PICK name : name = SubSeq(r, 1, g)  OBVIOUS
    <3>5. name \in Seq(Nat) /\ Len(name) = g /\ \A i \in 1 .. g : name[i] = r[i]
      BY <3>3, <3>4
    <3>6. name # <<>> /\ DOMAIN name = 1 .. g  BY <3>3, <3>5
    <3>7. \A i \in DOMAIN name : name[i] # Space
      <4> SUFFICES ASSUME NEW i \in 1 .. g PROVE name[i] # Space
        BY <3>6
      <4>1. PICK j \in 0 .. Len(r) : j < FindSp(r) /\ j + 1 = i
        <5>1. i - 1 \in 0 .. Len(r) /\ i - 1 < g /\ (i - 1) + 1 = i  BY <3>3
        <5> QED  BY <3>3, <5>1
      <4>2. r[j + 1] # Space  BY <3>2, <4>1
      <4> QED  BY <3>5, <4>1, <4>2
    <3>8. Follows(r, name, Tailed(r))  BY <3>3, <3>4, TailFollows
    <3>9. PICK i \in DOMAIN l : r = SubSeq(l, i, Len(l))  BY <2>4, <3>1
    <3>10. Run(l).do = "w" /\ Run(l).name = name /\ Run(l).text = Tailed(r)
      BY <1>3, <1>7, <2>7, <3>1, <3>3, <3>4
    <3>11. /\ Follows(l, Words["w"], SubSeq(l, i, Len(l)))
           /\ Follows(SubSeq(l, i, Len(l)), Run(l).name, Run(l).text)
      BY <2>4, <2>7, <3>1, <3>8, <3>9, <3>10
    <3>12. Named(Run(l), l)  BY <3>6, <3>7, <3>9, <3>10, <3>11 DEF Named
    <3> QED  BY <1>4, <2>1, <2>7, <3>10, <3>12
  <2> QED  BY <1>7, <2>5, <2>6, <2>7
<1> QED  BY <1>5, <1>6, <1>7

-----------------------------------------------------------------------------
(* The bytes on their way to the shell *)

\* How many bytes the shell has and has not dealt with.
InHand == IF sh = "has" THEN 1 ELSE 0

\* What was typed ends with the byte the shell has and the bytes in the ring.
TypedInv ==
  /\ sh \in {"reads", "has", "gone"} /\ typed \in Seq(Bytes)
  /\ len + InHand <= Len(typed)
  /\ \A k \in 1 .. len : typed[(Len(typed) - len) + k] = Contents[k]
  /\ sh = "has" => typed[Len(typed) - len] = al

\* What the shell has dealt with, the commands it ran and its line agree.
RunsInv == ScreenInv /\ TypedInv /\ (sh # "gone" => Heard(Consumed, ran, line))

\* The numbers of TypedInv.
LEMMA TypedFacts ==
  ASSUME TypedInv, RingTypeOK
  PROVE  /\ len \in Nat /\ Len(typed) \in Nat /\ InHand \in 0 .. 1
         /\ Consumed = SubSeq(typed, 1, (Len(typed) - len) - InHand)
         /\ (Len(typed) - len) - InHand \in Nat
         /\ Len(Contents) = len /\ Contents \in Seq(Bytes)
<1>1. len \in Nat /\ Len(typed) \in Nat /\ InHand \in 0 .. 1
  BY RingAssumption DEF RingTypeOK, TypedInv, InHand
<1>2. Consumed = SubSeq(typed, 1, (Len(typed) - len) - InHand)
  BY DEF Consumed, InHand
<1>3. (Len(typed) - len) - InHand \in Nat
  <2>1. len + InHand <= Len(typed)  BY DEF TypedInv
  <2> QED  BY <1>1, <2>1
<1> QED  BY <1>1, <1>2, <1>3, ContentsType DEF ContentsFacts

\* A byte that comes in does not touch what was consumed.
LEMMA PushTyped ==
  ASSUME TypedInv, RingTypeOK, RingTypeOK', NEW b \in Bytes, Push(b), Typed(b), sh' = sh
  PROVE  TypedInv' /\ Consumed' = Consumed
<1>0. PICK n \in Nat, L \in Nat, h \in 0 .. 1 :
        /\ n = len /\ L = Len(typed) /\ h = InHand /\ n + h <= L
        /\ Consumed = SubSeq(typed, 1, (L - n) - h) /\ (L - n) - h \in Nat /\ n <= L
  BY TypedFacts DEF TypedInv
<1>1. InHand' = h /\ al' = al /\ sh' \in {"reads", "has", "gone"}
  BY <1>0 DEF InHand, Push, al, TypedInv
<1>2. CASE len < Cap
  <2>1. Contents' = Contents \o <<b>> /\ len' = n + 1 /\ typed' = Append(typed, b)
    BY <1>0, <1>2, PushAppends DEF Push, Typed
  <2>2. PICK t \in Seq(Bytes) : t = typed /\ Len(t) = L /\ \A k \in 1 .. n : t[(L - n) + k] = Contents[k]
    BY <1>0 DEF TypedInv
  <2>3. PICK d : d = Append(t, b) /\ OneMore(t, b, d) /\ typed' = d  BY <2>1, <2>2 DEF OneMore
  <2>4. d \in Seq(Bytes) /\ Len(d) = L + 1 /\ d[L + 1] = b /\ \A k \in 1 .. L : d[k] = t[k]
    BY <2>2, <2>3, OneMoreIs
  <2>5. Contents \in Seq(Bytes) /\ Len(Contents) = n  BY <1>0, TypedFacts
  <2>6. (Contents \o <<b>>)[n + 1] = b /\ \A k \in 1 .. n : (Contents \o <<b>>)[k] = Contents[k]
    <3>1. PICK c \in Seq(Bytes) : c = Contents /\ Len(c) = n  BY <2>5
    <3>2. <<b>> \in Seq(Bytes) /\ Len(<<b>>) = 1 /\ <<b>>[1] = b  OBVIOUS
    <3>3. \A i \in 1 .. n + 1 : (c \o <<b>>)[i] = IF i <= n THEN c[i] ELSE <<b>>[i - n]
      BY <3>1, <3>2
    <3>4. n + 1 \in 1 .. n + 1 /\ ~(n + 1 <= n) /\ (n + 1) - n = 1
          /\ \A k \in 1 .. n : k \in 1 .. n + 1 /\ k <= n
      OBVIOUS
    <3> QED  BY <3>1, <3>2, <3>3, <3>4
  <2>7. (L + 1) - (n + 1) = L - n  BY <1>0
  <2>8. ASSUME NEW k \in 1 .. n + 1 PROVE d[(L - n) + k] = (Contents \o <<b>>)[k]
    <3>1. CASE k = n + 1
      <4>1. (L - n) + k = L + 1  BY <1>0, <3>1
      <4> QED  BY <2>4, <2>6, <3>1, <4>1
    <3>2. CASE k # n + 1
      <4>1. k \in 1 .. n /\ (L - n) + k \in 1 .. L  BY <1>0, <3>2
      <4> QED  BY <2>2, <2>4, <2>6, <4>1
    <3> QED  BY <3>1, <3>2
  <2>9. sh = "has" => d[L - n] = al
    <3> SUFFICES ASSUME sh = "has" PROVE d[L - n] = al
      OBVIOUS
    <3>1. h = 1 /\ t[L - n] = al  BY <1>0, <2>2 DEF InHand, TypedInv
    <3>2. L - n \in 1 .. L  BY <1>0, <3>1
    <3> QED  BY <2>4, <3>1, <3>2
  <2>10. TypedInv'
    <3>1. /\ typed' \in Seq(Bytes) /\ Len(typed') = L + 1 /\ Len(typed') - len' = L - n
          /\ len' + h <= Len(typed')
      BY <1>0, <2>1, <2>3, <2>4, <2>7
    <3>2. \A k \in 1 .. len' : typed'[(Len(typed') - len') + k] = Contents'[k]
      BY <2>1, <2>3, <2>8, <3>1
    <3>3. sh' = "has" => typed'[Len(typed') - len'] = al'
      BY <1>1, <2>3, <2>9, <3>1
    <3> QED  BY <1>1, <3>1, <3>2, <3>3 DEF TypedInv
  <2>11. Consumed' = SubSeq(d, 1, (L - n) - h)
    <3>1. Consumed' = SubSeq(typed', 1, (Len(typed') - len') - InHand')
      BY DEF Consumed, InHand
    <3>2. Len(typed') - len' = L - n  BY <2>1, <2>3, <2>4, <2>7
    <3> QED  BY <1>1, <2>3, <3>1, <3>2
  <2>12. SubSeq(d, 1, (L - n) - h) = SubSeq(t, 1, (L - n) - h)
    <3>1. PICK j \in Nat : j = (L - n) - h /\ j <= Len(t)  BY <1>0, <2>2
    <3>2. 1 \in Nat \ {0}  OBVIOUS
    <3>3. SubSeq(d, 1, j) = SubSeq(t, 1, j)  BY <2>3, <3>1, <3>2, SubSeqOld
    <3> QED  BY <3>1, <3>3
  <2> QED  BY <1>0, <2>2, <2>10, <2>11, <2>12
<1>3. CASE ~(len < Cap)
  <2>1. UNCHANGED <<ringVars, typed, sh>>  BY <1>3 DEF Push, Typed, ringVars
  <2> QED  BY <2>1 DEF TypedInv, InHand, Contents, Consumed, ringVars, al
<1> QED  BY <1>2, <1>3

\* A byte that is read is in hand, and not yet consumed.
LEMMA ReadTyped ==
  ASSUME TypedInv, RingTypeOK, RingTypeOK', Read
  PROVE  TypedInv' /\ Consumed' = Consumed
<1>0. PICK n \in Nat, L \in Nat : n = len /\ L = Len(typed) /\ n <= L
  BY TypedFacts DEF TypedInv
<1>1. sh = "reads" /\ sh' = "has" /\ typed' = typed /\ Pop  BY DEF Read
<1>2. /\ Contents # <<>> /\ taken' = <<Head(Contents)>> /\ Contents' = Tail(Contents)
      /\ len' = n - 1 /\ n # 0
  BY <1>0, <1>1, PopRemoves DEF Pop
<1>3. PICK c \in Seq(Bytes) : c = Contents /\ Len(c) = n /\ c # <<>>
  BY <1>0, <1>2, TypedFacts
<1>4. /\ al' = c[1] /\ \A k \in 1 .. n - 1 : Contents'[k] = c[k + 1]
  <2>1. Head(c) = c[1] /\ \A k \in 1 .. n - 1 : Tail(c)[k] = c[k + 1]  BY <1>3
  <2> QED  BY <1>2, <1>3, <2>1 DEF al
<1>5. PICK t \in Seq(Bytes) : t = typed /\ Len(t) = L /\ \A k \in 1 .. n : t[(L - n) + k] = c[k]
  BY <1>0, <1>3 DEF TypedInv
<1>6. /\ L - (n - 1) = (L - n) + 1 /\ 1 \in 1 .. n
      /\ \A k \in 1 .. n - 1 : k + 1 \in 1 .. n /\ ((L - n) + 1) + k = (L - n) + (k + 1)
      /\ (n - 1) + 1 <= L
  BY <1>0, <1>2
<1>7. \A k \in 1 .. n - 1 : t[((L - n) + 1) + k] = Contents'[k]  BY <1>4, <1>5, <1>6
<1>8. t[(L - n) + 1] = al'  BY <1>4, <1>5, <1>6
<1>9. TypedInv'
  <2>1. /\ Len(typed') - len' = (L - n) + 1 /\ InHand' = 1 /\ len' + 1 <= Len(typed')
        /\ typed' = t /\ len' = n - 1
    BY <1>1, <1>2, <1>5, <1>6 DEF InHand
  <2>2. sh' \in {"reads", "has", "gone"}  BY <1>1
  <2> QED  BY <1>7, <1>8, <2>1, <2>2 DEF TypedInv
<1>10. Consumed' = Consumed
  <2>1. Consumed' = SubSeq(typed', 1, (Len(typed') - len') - InHand')
    BY DEF Consumed, InHand
  <2>2. Consumed = SubSeq(typed, 1, (L - n) - InHand)  BY <1>0, TypedFacts
  <2>3. InHand = 0 /\ InHand' = 1  BY <1>1 DEF InHand
  <2>4. (L - (n - 1)) - 1 = (L - n) - 0  BY <1>0
  <2>5. Len(typed') - len' = L - (n - 1)  BY <1>0, <1>1, <1>2
  <2> QED  BY <1>1, <2>1, <2>2, <2>3, <2>4, <2>5
<1> QED  BY <1>9, <1>10

\* A turn consumes the byte in hand.
LEMMA TurnTyped ==
  ASSUME TypedInv, RingTypeOK, sh = "has", sh' \in {"reads", "gone"},
         UNCHANGED <<ringVars, typed>>
  PROVE  TypedInv' /\ (sh' = "reads" => Consumed' = Append(Consumed, al))
<1>0. PICK n \in Nat, L \in Nat, j \in Nat :
        /\ n = len /\ L = Len(typed) /\ n + 1 <= L /\ j = (L - n) - 1 /\ j + 1 = L - n
        /\ Consumed = SubSeq(typed, 1, j) /\ typed[j + 1] = al
  <2>1. InHand = 1  BY DEF InHand
  <2>2. len \in Nat /\ Len(typed) \in Nat /\ len + 1 <= Len(typed)
        /\ Consumed = SubSeq(typed, 1, (Len(typed) - len) - 1)
        /\ typed[Len(typed) - len] = al
    BY <2>1, TypedFacts DEF TypedInv
  <2>3. PICK n \in Nat, L \in Nat : n = len /\ L = Len(typed) /\ n + 1 <= L  BY <2>2
  <2>4. PICK j \in Nat : j = (L - n) - 1 /\ j + 1 = L - n
    <3>1. (L - n) - 1 \in Nat /\ ((L - n) - 1) + 1 = L - n  BY <2>3
    <3> QED  BY <3>1
  <2> QED  BY <2>2, <2>3, <2>4
<1>1. Contents' = Contents /\ len' = len /\ typed' = typed /\ InHand' = 0
  BY DEF ringVars, Contents, InHand
<1>2. TypedInv'
  <2>1. sh' \in {"reads", "has", "gone"} /\ sh' # "has"  OBVIOUS
  <2>2. len' + 0 <= Len(typed')  BY <1>0, <1>1
  <2> QED  BY <1>1, <2>1, <2>2 DEF TypedInv
<1>3. ASSUME sh' = "reads" PROVE Consumed' = Append(Consumed, al)
  <2>1. Consumed' = SubSeq(typed, 1, (L - n) - 0)  BY <1>0, <1>1, <1>3 DEF Consumed
  <2>2. Consumed' = SubSeq(typed, 1, j + 1)  BY <1>0, <2>1
  <2>3. PICK t \in Seq(Bytes) : t = typed /\ Len(t) = L /\ t[j + 1] = al /\ j + 1 <= L
    BY <1>0 DEF TypedInv
  <2>4. /\ SubSeq(t, 1, j) \in Seq(Bytes) /\ Len(SubSeq(t, 1, j)) = j
        /\ \A k \in 1 .. j : SubSeq(t, 1, j)[k] = t[k]
    BY <2>3
  <2>5. /\ SubSeq(t, 1, j + 1) \in Seq(Bytes) /\ Len(SubSeq(t, 1, j + 1)) = j + 1
        /\ \A k \in 1 .. j + 1 : SubSeq(t, 1, j + 1)[k] = t[k]
    BY <2>3
  <2>6. PICK u \in Seq(Bytes) : u = SubSeq(t, 1, j) /\ Len(u) = j /\ \A k \in 1 .. j : u[k] = t[k]
    BY <2>4
  <2>7. PICK v \in Seq(Bytes) : v = SubSeq(t, 1, j + 1) /\ Len(v) = j + 1
                                /\ \A k \in 1 .. j + 1 : v[k] = t[k]
    BY <2>5
  <2>8. PICK b \in Bytes : b = al
    <3>1. j + 1 \in 1 .. Len(t)  BY <2>3
    <3>2. t[j + 1] \in Bytes  BY <3>1, ElementOfSeq
    <3> QED  BY <2>3, <3>2
  <2>9. /\ Append(u, b) \in Seq(Bytes) /\ Len(Append(u, b)) = j + 1 /\ Append(u, b)[j + 1] = b
        /\ \A k \in 1 .. j : Append(u, b)[k] = u[k]
    BY <2>6
  <2>10. \A k \in 1 .. j + 1 : v[k] = Append(u, b)[k]
    <3> SUFFICES ASSUME NEW k \in 1 .. j + 1 PROVE v[k] = Append(u, b)[k]
      OBVIOUS
    <3>1. CASE k = j + 1  BY <2>3, <2>7, <2>8, <2>9, <3>1
    <3>2. CASE k # j + 1
      <4>1. k \in 1 .. j  BY <3>2
      <4> QED  BY <2>6, <2>7, <2>9, <4>1
    <3> QED  BY <3>1, <3>2
  <2>11. v = Append(u, b)
    <3>1. PICK w \in Seq(Bytes) : w = Append(u, b)  BY <2>9
    <3>2. Len(w) = Len(v) /\ \A k \in 1 .. Len(v) : v[k] = w[k]  BY <2>7, <2>9, <2>10, <3>1
    <3>3. v = w  BY <3>2, SameElements
    <3> QED  BY <3>1, <3>3
  <2> QED  BY <1>0, <2>2, <2>3, <2>6, <2>7, <2>8, <2>11
<1> QED  BY <1>2, <1>3

\* What is heard is what RunsAsTyped says.
LEMMA HeardIs ==
  ASSUME sh # "gone" => Heard(Consumed, ran, line)
  PROVE  RunsAsTyped
<1> SUFFICES ASSUME Heard(Consumed, ran, line)
             PROVE /\ Len(ran) = Cardinality(Ends(Consumed)) - 1
                   /\ line = Meant(SubSeq(Consumed, EndOf(Consumed, Len(ran)) + 1, Len(Consumed)))
                   /\ \A n \in DOMAIN ran : AsMeant(ran[n], LineOf(Consumed, n))
  BY DEF RunsAsTyped
<1>1. AnySeq(ran) /\ Cardinality(Ends(Consumed)) = Len(ran) + 1  BY DEF Heard, Counted
<1>2. Len(ran) \in Nat /\ DOMAIN ran = 1 .. Len(ran)  BY <1>1, AnySeqMore
<1> QED  BY <1>1, <1>2 DEF Heard

\* Nothing is typed at first.
LEMMA RunsInit ==
  ASSUME Init
  PROVE  RunsInv
<1>1. ScreenInv  BY ScreenInit
<1>2. typed = <<>> /\ ran = <<>> /\ line = <<>> /\ sh = "reads" /\ len = 0
  BY DEF Init, RingInit
<1>3. TypedInv
  <2>1. <<>> \in Seq(Bytes) /\ Len(<<>>) = 0  OBVIOUS
  <2> QED  BY <1>2, <2>1 DEF TypedInv, InHand
<1>4. Consumed = <<>>
  <2>1. SubSeq(<<>>, 1, 0) = <<>> /\ 0 - 0 - 0 = 0 /\ Len(<<>>) = 0  OBVIOUS
  <2>2. Consumed = SubSeq(<<>>, 1, 0 - 0 - 0)  BY <1>2, <2>1 DEF Consumed
  <2> QED  BY <2>1, <2>2
<1>5. Heard(Consumed, ran, line)  BY <1>2, <1>4, HeardFirst
<1> QED  BY <1>1, <1>3, <1>5 DEF RunsInv

\* What a turn does to the line and the commands, in terms of what is heard.
LEMMA TurnHeard ==
  ASSUME RunsInv, ScreenInv', sh = "has", sh' \in {"reads", "gone"},
         UNCHANGED <<ringVars, typed>>,
         sh' = "reads" =>
            \/ al \notin Enters /\ ran' = ran /\ line' = Edited(line, al)
            \/ al \in Enters /\ line' = <<>>
               /\ \E x : AsMeant(x, line) /\ ran' = Append(ran, x)
  PROVE  RunsInv'
<1>1. TypedInv /\ RingTypeOK /\ taken # <<>> /\ Heard(Consumed, ran, line)
  BY DEF RunsInv, ScreenInv
<1>2. TypedInv' /\ (sh' = "reads" => Consumed' = Append(Consumed, al))  BY <1>1, TurnTyped
<1>3. PICK b \in Bytes : b = al  BY <1>1, AlIsByte
<1>4. /\ b \notin Enters => Heard(Append(Consumed, b), ran, Edited(line, b))
      /\ \A x : b \in Enters /\ AsMeant(x, line) =>
                   Heard(Append(Consumed, b), Append(ran, x), <<>>)
  BY <1>1, HeardMore
<1>5. ASSUME sh' = "reads" PROVE Heard(Consumed', ran', line')
  <2>1. Consumed' = Append(Consumed, b)  BY <1>2, <1>3, <1>5
  <2>2. CASE b \notin Enters /\ ran' = ran /\ line' = Edited(line, b)
    BY <1>4, <2>1, <2>2
  <2>3. ASSUME b \in Enters, line' = <<>>, NEW x, AsMeant(x, line), ran' = Append(ran, x)
        PROVE  Heard(Consumed', ran', line')
    BY <1>4, <2>1, <2>3
  <2> QED  BY <1>3, <1>5, <2>2, <2>3
<1> QED  BY <1>2, <1>5 DEF RunsInv

\* Every step keeps lines and commands together.
LEMMA RunsStep ==
  ASSUME RunsInv, [Next]_vars
  PROVE  RunsInv'
<1>0. /\ ScreenInv /\ TypedInv /\ (sh # "gone" => Heard(Consumed, ran, line)) /\ RingTypeOK
      /\ line \in Seq(Bytes) /\ ScreenInv' /\ RingTypeOK'
  <2>1. ScreenInv'  BY ScreenStep DEF RunsInv
  <2> QED  BY <2>1 DEF RunsInv, ScreenInv, LineOK
<1>1. ASSUME NEW b \in Bytes, Push(b), Typed(b), UNCHANGED shellVars
      PROVE  RunsInv'
  <2>1. sh' = sh /\ ran' = ran /\ line' = line  BY <1>1 DEF shellVars
  <2>2. TypedInv' /\ Consumed' = Consumed  BY <1>0, <1>1, <2>1, PushTyped
  <2> QED  BY <1>0, <2>1, <2>2 DEF RunsInv
<1>2. ASSUME UNCHANGED <<ringVars, typed, shellVars>> PROVE RunsInv'
  <2>1. sh' = sh /\ ran' = ran /\ line' = line  BY <1>2 DEF shellVars
  <2>2. TypedInv' /\ Consumed' = Consumed
    BY <1>0, <1>2, <2>1 DEF TypedInv, InHand, Contents, Consumed, ringVars, al
  <2> QED  BY <1>0, <2>1, <2>2 DEF RunsInv
<1>3. ASSUME NEW sc \in Scancodes, KbdIrq(sc) PROVE RunsInv'
  <2>1. \A b \in Decoded(sc) : b \in Bytes  BY ConsoleAssumption DEF Decoded
  <2>2. CASE \E b \in Decoded(sc) : Push(b) /\ Typed(b)
    BY <1>1, <1>3, <2>1, <2>2 DEF KbdIrq
  <2>3. CASE UNCHANGED <<ringVars, typed>>
    BY <1>2, <1>3, <2>3 DEF KbdIrq
  <2> QED  BY <1>3, <2>2, <2>3 DEF KbdIrq
<1>4. ASSUME NEW b \in SerialBytes, DrainRx(b) PROVE RunsInv'
  <2>1. b \in Bytes  BY ConsoleAssumption
  <2> QED  BY <1>1, <1>4, <2>1 DEF DrainRx
<1>5. CASE Read
  <2>1. TypedInv' /\ Consumed' = Consumed  BY <1>0, <1>5, ReadTyped
  <2>2. ran' = ran /\ line' = line /\ sh = "reads"  BY <1>5 DEF Read
  <2> QED  BY <1>0, <2>1, <2>2 DEF RunsInv
<1>6. CASE Drop
  <2>1. /\ sh = "has" /\ sh' = "reads" /\ UNCHANGED <<ringVars, typed>> /\ ran' = ran
        /\ line' = line /\ al \notin Enters \cup Erases /\ Len(line) >= LineCap
    BY <1>6 DEF Drop, Turn, Continue, Dropped
  <2>2. ~(Len(line) < LineCap)  BY <1>0, <2>1, SizesOK
  <2>3. line' = Edited(line, al)  BY <2>1, <2>2 DEF Edited
  <2> QED  BY <1>0, <2>1, <2>3, TurnHeard
<1>7. CASE Store
  <2>1. /\ sh = "has" /\ sh' = "reads" /\ UNCHANGED <<ringVars, typed>> /\ ran' = ran
        /\ line' = Append(line, al) /\ al \notin Enters \cup Erases /\ ~(Len(line) >= LineCap)
    BY <1>7 DEF Store, Turn, Continue, Dropped
  <2>2. Len(line) < LineCap  BY <1>0, <2>1, SizesOK
  <2>3. line' = Edited(line, al)  BY <2>1, <2>2 DEF Edited
  <2> QED  BY <1>0, <2>1, <2>3, TurnHeard
<1>8. CASE Erase
  <2>1. /\ sh = "has" /\ sh' = "reads" /\ UNCHANGED <<ringVars, typed>> /\ ran' = ran
        /\ al \in Erases
        /\ (line = <<>> /\ line' = line) \/ (line # <<>> /\ line' = Front(line))
    BY <1>8 DEF Erase, Turn, Continue
  <2>2. al \notin Enters  BY <2>1 DEF Erases, Enters
  <2>3. line' = Edited(line, al)
    <3>1. CASE line = <<>>
      <4>1. SubSeq(<<>>, 1, Len(<<>>) - 1) = <<>>
        <5>1. Len(<<>>) - 1 < 1 /\ Len(<<>>) - 1 \in Int /\ <<>> \in Seq(Bytes)  OBVIOUS
        <5> QED  BY <5>1
      <4> QED  BY <2>1, <3>1, <4>1 DEF Edited
    <3>2. CASE line # <<>>  BY <2>1, <3>2 DEF Edited, Front
    <3> QED  BY <3>1, <3>2
  <2> QED  BY <1>0, <2>1, <2>2, <2>3, TurnHeard
<1>9. CASE EnterNothing
  <2>1. /\ sh = "has" /\ sh' = "reads" /\ UNCHANGED <<ringVars, typed>> /\ al \in Enters
        /\ line = <<>> /\ line' = <<>>
        /\ ran' = Append(ran, [do |-> "none", name |-> <<>>, text |-> <<>>])
    BY <1>9 DEF EnterNothing, Turn, Continue
  <2>2. AsMeant([do |-> "none", name |-> <<>>, text |-> <<>>], line)  BY <2>1 DEF AsMeant
  <2> QED  BY <1>0, <2>1, <2>2, TurnHeard
<1>10. CASE EnterCommand
  <2>1. /\ sh = "has" /\ UNCHANGED <<ringVars, typed>> /\ al \in Enters /\ line # <<>>
        /\ ran' = Append(ran, Run(line))
        /\ sh' = "gone" \/ (sh' = "reads" /\ line' = <<>>)
    BY <1>10 DEF EnterCommand, Turn, Continue
  <2>2. AsMeant(Run(line), line)
    <3>1. Bytes \subseteq Nat  BY ConsoleAssumption
    <3>2. line \in Seq(Nat)  BY <1>0, <3>1, SeqMonotonic
    <3> QED  BY <2>1, <3>2, RunIsMeant
  <2> QED  BY <1>0, <2>1, <2>2, TurnHeard DEF RunsInv
<1>11. CASE (\E b \in OtherBytes : OtherWrites(b)) \/ UNCHANGED vars
  BY <1>2, <1>11 DEF OtherWrites, vars
<1> QED
  BY <1>3, <1>4, <1>5, <1>6, <1>7, <1>8, <1>9, <1>10, <1>11 DEF Next, Shell

\* The shell runs one command for each Enter it was given, the one its line
\* means, whatever was typed ahead, erased or dropped, through the ring of
\* input.rs and the words of user.S.
THEOREM AlwaysRunsAsTyped == Spec => []RunsAsTyped
<1>1. Init => RunsInv  BY RunsInit
<1>2. RunsInv => RunsAsTyped  BY HeardIs DEF RunsInv
<1> QED  BY <1>1, <1>2, RunsStep, PTL DEF Spec

-----------------------------------------------------------------------------
(* No Enter is owed *)

\* The shell never reads on with an Enter unanswered behind it: when it waits
\* for a byte and the ring is empty, it has run a command for every Enter
\* that was typed, and for nothing else.
NothingOwed == sh = "reads" /\ len = 0 => Answered

\* Besides the beginning there are as many ends of lines as Enters.
LEMMA EndsAreEnters ==
  ASSUME NEW c \in Seq(Bytes), NEW m \in Nat, Counted(Ends(c), m)
  PROVE  Cardinality({i \in DOMAIN c : c[i] \in Enters}) = m
<1> DEFINE e == {i \in DOMAIN c : c[i] \in Enters}
<1>1. 0 \notin e /\ Ends(c) = e \cup {0}
  <2>1. 0 \notin DOMAIN c  OBVIOUS
  <2> QED  BY <2>1 DEF Ends
<1>2. IsFiniteSet(Ends(c)) /\ Cardinality(Ends(c)) = m + 1  BY DEF Counted
<1> HIDE DEF e
<1>3. IsFiniteSet(e)
  <2>1. e \subseteq Ends(c)  BY <1>1
  <2> QED  BY <1>2, <2>1, FS_Subset
<1>4. Cardinality(Ends(c)) = Cardinality(e) + 1  BY <1>1, <1>3, FS_AddElement
<1>5. Cardinality(e) \in Nat  BY <1>3, FS_CardinalityType
<1>6. Cardinality(e) = m  BY <1>2, <1>4, <1>5
<1> QED  BY <1>6 DEF e

LEMMA RunsOweNothing ==
  ASSUME RunsInv
  PROVE  NothingOwed
<1> SUFFICES ASSUME sh = "reads", len = 0 PROVE Answered
  BY DEF NothingOwed
<1>1. TypedInv /\ RingTypeOK /\ Heard(Consumed, ran, line)
  BY DEF RunsInv, ScreenInv
<1>2. Consumed = typed
  <2>1. typed \in Seq(Bytes) /\ InHand = 0  BY <1>1 DEF TypedInv, InHand
  <2>2. Consumed = SubSeq(typed, 1, (Len(typed) - 0) - 0)  BY <1>1, <2>1, TypedFacts
  <2>3. (Len(typed) - 0) - 0 = Len(typed)  BY <2>1
  <2>4. SubSeq(typed, 1, Len(typed)) = typed  BY <2>1
  <2> QED  BY <2>2, <2>3, <2>4
<1>3. typed \in Seq(Bytes) /\ AnySeq(ran) /\ Counted(Ends(typed), Len(ran))
  BY <1>1, <1>2 DEF Heard
<1>4. Len(ran) \in Nat  BY <1>3, AnySeqMore
<1> QED  BY <1>3, <1>4, EndsAreEnters DEF Answered

\* The shell owes no answer when it waits at an empty ring, for all sizes of
\* the ring, the line and the screen and whatever is typed: what liveness
\* adds is only that the shell gets there.
THEOREM NeverOwesAnEnter == Spec => []NothingOwed
<1>1. Init => RunsInv  BY RunsInit
<1>2. RunsInv => NothingOwed  BY RunsOweNothing
<1> QED  BY <1>1, <1>2, RunsStep, PTL DEF Spec
=============================================================================
