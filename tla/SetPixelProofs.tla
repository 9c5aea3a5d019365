--------------------------- MODULE SetPixelProofs ---------------------------
(***************************************************************************)
(* Proofs about the first stage, setpixel-coprocessor, on screens of any   *)
(* size, for any operands and any pixels: what becomes of a screen that    *)
(* setpixel plots.  The value of the line start is not known, so there is  *)
(* a theorem for each of the two.                                          *)
(***************************************************************************)
EXTENDS SetPixel, TLAPS
-----------------------------------------------------------------------------
(* Places and words are on the screen. *)

LEMMA SizeFacts == ScreenSize \in Nat /\ ScreenSize >= 1
  BY ScreenSizeAssumption

LEMMA Monotone ==
  ASSUME NEW c \in Nat, NEW k \in Int, NEW l \in Int, k <= l
  PROVE  k * c <= l * c
  OBVIOUS

LEMMA QuotientBelow ==
  ASSUME NEW c \in Nat \ {0}, NEW n \in 0..(c * c - 1)
  PROVE  n \div c \in 0..(c - 1) /\ n % c \in 0..(c - 1)
  <1> DEFINE q == n \div c
  <1>1. c * c \in Nat /\ n \in Nat
    OBVIOUS
  <1>2. q \in Nat /\ n % c \in 0..(c - 1) /\ n = q * c + (n % c)
    BY <1>1
  <1> HIDE DEF q
  <1>3. ~(c <= q)
    <2> SUFFICES ASSUME c <= q PROVE FALSE
      OBVIOUS
    <2>1. c * c <= q * c
      BY <1>2, Monotone
    <2>2. q * c \in Int
      BY <1>2
    <2> QED BY <1>1, <1>2, <2>1, <2>2
  <1> QED BY <1>2, <1>3 DEF q

(* The address of a word of the screen is that of a bit of the memory.      *)
LEMMA BitOfWordType ==
  ASSUME NEW p \in Pixel
  PROVE  BitOfWord(p) \in Pixel
  <1> DEFINE at == p[1] * ScreenSize + p[2]
             bytenum == at \div 8
  <1>1. ScreenSize \in Nat \ {0} /\ p[1] \in 0..(ScreenSize - 1) /\ p[2] \in 0..(ScreenSize - 1)
    BY SizeFacts DEF Pixel, Coord
  <1>2. at \in 0..(ScreenSize * ScreenSize - 1)
    <2>1. p[1] * ScreenSize <= (ScreenSize - 1) * ScreenSize
      BY <1>1, Monotone
    <2>2. (ScreenSize - 1) * ScreenSize = ScreenSize * ScreenSize - ScreenSize
      BY <1>1
    <2>3. p[1] * ScreenSize \in Nat /\ ScreenSize * ScreenSize \in Nat
      BY <1>1
    <2> QED BY <1>1, <2>1, <2>2, <2>3
  <1> HIDE DEF at
  <1>3. bytenum \in 0..(ScreenSize * ScreenSize - 1)
    <2>1. ScreenSize * ScreenSize \in Int
      BY <1>1
    <2> QED BY <1>2, <2>1
  <1> HIDE DEF bytenum
  <1>4. bytenum \div ScreenSize \in Coord /\ bytenum % ScreenSize \in Coord
    BY <1>1, <1>3, QuotientBelow DEF Coord
  <1> QED BY <1>4 DEF BitOfWord, Pixel, bytenum, at

(* The sums of the operands are cut to the nine bits of an index.           *)
LEMMA PlacesType ==
  ASSUME NEW o \in Operands
  PROVE  Places(o) \subseteq Pixel
  <1>1. o.cx \in Int /\ o.cy \in Int /\ o.x \in Int /\ o.y \in Int
    BY SetPixelAssumption, SizeFacts DEF Coord
  <1>2. \A u, v \in Int : Plus(u, v) \in Coord /\ Minus(u, v) \in Coord
    BY SizeFacts DEF Plus, Minus, Unsigned, Coord
  <1> QED BY <1>1, <1>2 DEF Places, Pixel
-----------------------------------------------------------------------------
(* What the two kinds of cycle do to the memory. *)

LEMMA LightKeeps ==
  ASSUME Inv, NEW o \in Operands, Light(o), UNCHANGED <<start, plotted>>
  PROVE  /\ pixmem' \subseteq Pixel /\ touched' \subseteq Pixel
         /\ ~start' => touched' = {}
         /\ pixmem' \ touched' = pixmem \ touched'
         /\ touched \subseteq touched'
         /\ EighthsOfPlotted'
  <1>1. Places(o) \subseteq Pixel /\ pixmem \subseteq Pixel /\ touched \subseteq Pixel
    BY PlacesType DEF Inv, TypeOK
  <1>2. /\ pixmem' = IF start THEN pixmem \cup Places(o) ELSE pixmem
        /\ touched' = IF start THEN touched \cup Places(o) ELSE touched
    BY DEF Light, Open
  <1>3. pixmem' \ touched' = pixmem \ touched' /\ touched \subseteq touched'
    BY <1>2
  <1> DEFINE Eighths == IF start THEN {BitOfWord(p) : p \in {q \in plotted : q[2] % 8 = 0}} ELSE {}
  <1>4. pixmem \ touched = Eighths \ touched
    BY DEF Inv, EighthsOfPlotted
  <1>5. Eighths' = Eighths
    OBVIOUS
  <1>6. pixmem' \ touched' = Eighths' \ touched'
    <2> HIDE DEF Eighths
    <2> QED BY <1>3, <1>4, <1>5
  <1>7. EighthsOfPlotted'
    BY <1>6 DEF EighthsOfPlotted
  <1> QED BY <1>1, <1>2, <1>3, <1>7 DEF Inv

LEMMA LoadInv ==
  ASSUME Inv, NEW p \in Pixels, NEW o \in Operands, LoadWord(p, o)
  PROVE  Inv'
  <1>1. p \in Pixel /\ BitOfWord(p) \in Pixel
    BY SetPixelAssumption, BitOfWordType
  <1>2. /\ pc' = "store" /\ pixel' = p /\ Light(o) /\ UNCHANGED <<start, plotted>>
        /\ word' = IF BitOfWord(p) \in pixmem THEN 1 ELSE 0
    BY DEF LoadWord
  <1>3. TypeOK'
    BY <1>1, <1>2, LightKeeps DEF Inv, TypeOK
  <1>4. WordInv'
    <2>1. word' = 1 <=> BitOfWord(p) \in pixmem
      BY <1>2
    <2>2. BitOfWord(p) \notin touched' => (BitOfWord(p) \in pixmem <=> BitOfWord(p) \in pixmem')
      BY <1>2, LightKeeps
    <2>3. BitOfWord(pixel)' = BitOfWord(p)
      BY <1>2 DEF BitOfWord
    <2> QED BY <2>1, <2>2, <2>3 DEF WordInv
  <1> QED BY <1>2, <1>3, <1>4, LightKeeps DEF Inv

LEMMA OtherInv ==
  ASSUME Inv, NEW o \in Operands, Other(o)
  PROVE  Inv'
  <1>1. Light(o) /\ UNCHANGED <<start, pc, pixel, word, plotted>>
    BY DEF Other
  <1>2. TypeOK'
    BY <1>1, LightKeeps DEF Inv, TypeOK
  <1>3. WordInv'
    <2> DEFINE b == BitOfWord(pixel)
    <2>1. b' = b
      BY <1>1 DEF BitOfWord
    <2>2. b \notin touched' => b \notin touched /\ (b \in pixmem <=> b \in pixmem')
      BY <1>1, LightKeeps
    <2>3. pc = "store" /\ b \notin touched => (word = 1 <=> b \in pixmem)
      BY DEF Inv, WordInv
    <2> HIDE DEF b
    <2>4. pc' = "store" /\ b' \notin touched' => (word' = 1 <=> b' \in pixmem')
      BY <1>1, <2>1, <2>2, <2>3
    <2> QED BY <2>4 DEF WordInv, b
  <1> QED BY <1>1, <1>2, <1>3, LightKeeps DEF Inv

(* The load has told what the word holds, so the store takes back none of   *)
(* its eighths.                                                             *)
LEMMA StoreInv ==
  ASSUME Inv, StoreWord
  PROVE  Inv'
  <1> DEFINE b == BitOfWord(pixel)
             First(s) == {BitOfWord(p) : p \in {q \in s : q[2] % 8 = 0}}
  <1>1. /\ pc = "store" /\ pc' = "idle" /\ UNCHANGED <<start, pixel, word, touched>>
        /\ plotted' = plotted \cup {pixel}
        /\ pixmem' = IF ~start THEN pixmem
                     ELSE IF StoredBit = 1 THEN pixmem \cup {b} ELSE pixmem \ {b}
    BY DEF StoreWord, Store, Open
  <1>2. TypeOK'
    <2>1. b \in Pixel /\ pixel \in Pixel
      BY BitOfWordType DEF Inv, TypeOK
    <2>2. pixmem' \subseteq Pixel
      BY <1>1, <2>1 DEF Inv, TypeOK
    <2> QED BY <1>1, <2>1, <2>2 DEF Inv, TypeOK
  <1>3. pixmem \ touched = (IF start THEN First(plotted) ELSE {}) \ touched
    BY DEF Inv, EighthsOfPlotted
  <1>4. First(plotted') = IF pixel[2] % 8 = 0 THEN First(plotted) \cup {b} ELSE First(plotted)
    BY <1>1
  <1>5. /\ pixel[2] % 8 = 0 => StoredBit = 1
        /\ pixel[2] % 8 # 0 /\ b \notin touched => (StoredBit = 1 <=> b \in pixmem)
    BY <1>1 DEF Inv, WordInv, StoredBit
  <1>6. pixmem' \ touched = (IF start THEN First(plotted') ELSE {}) \ touched
    <2> HIDE DEF b, First
    <2>1. CASE ~start
      BY <1>1, <1>3, <2>1
    <2>2. CASE start /\ pixel[2] % 8 = 0
      BY <1>1, <1>3, <1>4, <1>5, <2>2
    <2>3. CASE start /\ pixel[2] % 8 # 0
      BY <1>1, <1>3, <1>4, <1>5, <2>3
    <2> QED BY <2>1, <2>2, <2>3
  <1>7. EighthsOfPlotted'
    BY <1>1, <1>6 DEF EighthsOfPlotted
  <1> QED BY <1>1, <1>2, <1>7 DEF Inv, WordInv

LEMMA ClearInv ==
  ASSUME Inv, NEW p \in Pixels, ClearWord(p)
  PROVE  Inv'
  <1> DEFINE b == BitOfWord(p)
             First(s) == {BitOfWord(w) : w \in {q \in s : q[2] % 8 = 0}}
  <1>1. /\ pc = "idle" /\ UNCHANGED <<start, pc, pixel, word, touched>>
        /\ plotted' = {q \in plotted : BitOfWord(q) # b}
        /\ pixmem' = IF ~start THEN pixmem ELSE pixmem \ {b}
    BY DEF ClearWord, Store, Open
  <1>2. TypeOK'
    BY <1>1 DEF Inv, TypeOK
  <1>3. pixmem \ touched = (IF start THEN First(plotted) ELSE {}) \ touched
    BY DEF Inv, EighthsOfPlotted
  <1>4. First(plotted') = First(plotted) \ {b}
    BY <1>1
  <1>5. pixmem' \ touched = (IF start THEN First(plotted') ELSE {}) \ touched
    <2> HIDE DEF b, First
    <2> QED BY <1>1, <1>3, <1>4
  <1>6. EighthsOfPlotted'
    BY <1>1, <1>5 DEF EighthsOfPlotted
  <1> QED BY <1>1, <1>2, <1>6 DEF Inv, WordInv
-----------------------------------------------------------------------------
LEMMA InitInv == Init => Inv
  <1>1. <<0, 0>> \in Pixel
    BY SizeFacts DEF Pixel, Coord
  <1> QED BY <1>1 DEF Init, Inv, TypeOK, EighthsOfPlotted, WordInv

LEMMA NextInv == Inv /\ [Next]_vars => Inv'
  <1> SUFFICES ASSUME Inv, [Next]_vars PROVE Inv'
    OBVIOUS
  <1>1. CASE UNCHANGED vars
    BY <1>1 DEF vars, Inv, TypeOK, EighthsOfPlotted, WordInv
  <1> QED BY <1>1, LoadInv, StoreInv, ClearInv, OtherInv DEF Next

(* The inductive invariant: between a load and its store the word says what *)
(* the memory holds.                                                        *)
THEOREM Invariance == Spec => []Inv
  BY InitInv, NextInv, PTL DEF Spec

(* The words and the indices of the eight pixels stay on the screen.        *)
THEOREM TypeCorrect == Spec => []TypeOK
  <1>1. Inv => TypeOK
    BY DEF Inv
  <1> QED BY <1>1, Invariance, PTL

(* With start high, one pixel of eight is left of what setpixel plots, and  *)
(* none of those is lost when others of their words are plotted.            *)
THEOREM OneOfEightKept == Spec => []EighthsOfPlotted
  <1>1. Inv => EighthsOfPlotted
    BY DEF Inv
  <1> QED BY <1>1, Invariance, PTL

(* With start low no store and no operand ever lights anything: main of     *)
(* this stage compares two empty screens.                                   *)
THEOREM NothingWithoutStart == Spec => [](~start => pixmem = {})
  <1>1. Inv => (~start => pixmem = {})
    BY DEF Inv, EighthsOfPlotted
  <1> QED BY <1>1, Invariance, PTL
=============================================================================
