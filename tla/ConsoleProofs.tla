--------------------------- MODULE ConsoleProofs ---------------------------
(***************************************************************************)
(* Proofs about Console, for every size of screen and font, every text and *)
(* any number of calls of print.                                           *)
(***************************************************************************)
EXTENDS Console, FiniteSetTheorems, SequenceTheorems, WellFoundedInduction, TLAPS

-----------------------------------------------------------------------------
(* Numbers and sequences.                                                  *)

\* Every non-empty set of numbers has a least one.
LEMMA LeastNumber ==
    ASSUME NEW T, T \subseteq Nat, T # {}
    PROVE  \E x \in T : \A y \in T : x <= y
  <1>1. PICK x \in T : \A y \in T : ~ (<<y, x>> \in OpToRel(<, Nat))
    BY NatLessThanWellFounded, WFMin
  <1>2. \A y \in T : ~ (y < x)
    BY <1>1 DEF OpToRel
  <1> QED BY <1>2

\* Multiplication is monotonic.
LEMMA Monotonic ==
    ASSUME NEW a \in Int, NEW b \in Int, a <= b, NEW d \in Nat
    PROVE  d * a \in Int /\ d * b \in Int /\ d * a <= d * b
  OBVIOUS

\* A function on 1 .. n is a sequence of length n.
LEMMA FunctionIsSeq ==
    ASSUME NEW s, NEW n \in Nat, s = [k \in 1 .. n |-> s[k]]
    PROVE  s \in Seq({s[k] : k \in 1 .. n}) /\ Len(s) = n
  <1>1. s \in [1 .. n -> {s[k] : k \in 1 .. n}]
    OBVIOUS
  <1>2. s \in Seq({s[k] : k \in 1 .. n})
    BY <1>1, SeqDef
  <1>3. Len(s) \in Nat /\ DOMAIN s = 1 .. Len(s)
    BY <1>2, LenProperties
  <1>4. DOMAIN s = 1 .. n
    BY <1>1
  <1> QED BY <1>2, <1>3, <1>4

-----------------------------------------------------------------------------
(* Where the lines are on the screen.                                      *)

\* the first row of line k when there are n lines
Top(n, k) == DrawnAt(k) - FONT_HEIGHT * (Scrolls(n) - Scrolls(k))

\* the rows of pixels of line k
RowsOf(n, k) == Top(n, k) .. Top(n, k) + FONT_HEIGHT - 1

\* The screen holds ROWS whole lines, and less than one more.
LEMMA Sizes ==
    /\ FONT_HEIGHT \in Nat \ {0} /\ HEIGHT \in Nat /\ FONT_HEIGHT < HEIGHT
    /\ ROWS \in Nat \ {0}
    /\ FONT_HEIGHT * ROWS \in Nat /\ FONT_HEIGHT * ROWS <= HEIGHT
    /\ HEIGHT < FONT_HEIGHT * ROWS + FONT_HEIGHT
  <1>1. /\ FONT_HEIGHT \in Nat \ {0} /\ HEIGHT \in Nat /\ FONT_HEIGHT < HEIGHT
    BY ConsoleAssumption
  <1>2. PICK f \in Nat \ {0}, h \in Nat : f = FONT_HEIGHT /\ h = HEIGHT
    BY <1>1
  <1>3. PICK q : q = h \div f
    OBVIOUS
  <1>4. q \in Int /\ f * q <= h /\ h < f * q + f
    BY <1>3
  <1>5. q >= 1
    <2> SUFFICES ASSUME q <= 0 PROVE FALSE
      BY <1>4
    <2>1. f * q <= 0
      BY <1>4
    <2> QED BY <2>1, <1>1, <1>2, <1>4
  <1>6. f * q \in Nat
    BY <1>4, <1>5
  <1> QED BY <1>1, <1>2, <1>3, <1>4, <1>5, <1>6 DEF ROWS

\* Where a line is first drawn: below the one before, or at the bottom.
LEMMA FirstRow ==
    ASSUME NEW k \in Nat \ {0}
    PROVE  /\ k <= ROWS => DrawnAt(k) = FONT_HEIGHT * k - FONT_HEIGHT
           /\ k > ROWS => DrawnAt(k) = HEIGHT - FONT_HEIGHT
           /\ FONT_HEIGHT * k \in Int
           /\ DrawnAt(k) \in Nat /\ DrawnAt(k) <= HEIGHT - FONT_HEIGHT
  <1>1. PICK f \in Nat \ {0}, h \in Nat, r \in Nat \ {0} :
          f = FONT_HEIGHT /\ h = HEIGHT /\ r = ROWS /\ f * r \in Nat /\ f * r <= h /\ h < f * r + f /\ f < h
    BY Sizes
  <1>2. (k - 1) * f = f * k - f /\ f * k \in Nat /\ f * k >= f
    <2>1. f * 1 <= f * k
      BY Monotonic
    <2> QED BY <2>1
  <1>3. k <= r => f * k <= f * r
    BY Monotonic
  <1>4. k > r => f * k >= f * r + f
    <2>1. k > r => f * (r + 1) <= f * k
      BY Monotonic
    <2> QED BY <2>1
  <1>5. DrawnAt(k) = IF f * k - f <= h - f THEN f * k - f ELSE h - f
    BY <1>1, <1>2 DEF DrawnAt, Least
  <1> QED BY <1>1, <1>2, <1>3, <1>4, <1>5

\* A new line scrolls once when the screen is full, and not at all before.
LEMMA ScrollsOnce ==
    ASSUME NEW n \in Nat
    PROVE  /\ Scrolls(n) \in Nat
           /\ Scrolls(n + 1) = IF n < ROWS THEN Scrolls(n) ELSE Scrolls(n) + 1
           /\ \A k \in 1 .. n : Scrolls(k) \in Nat /\ Scrolls(k) <= Scrolls(n)
  BY Sizes DEF Scrolls

\* The tops of the lines.
LEMMA Tops ==
    ASSUME NEW n \in Nat, NEW k \in 1 .. n
    PROVE  /\ Top(n, k) \in Int
           /\ Top(n, n) = DrawnAt(n)
           /\ Top(n + 1, k) = IF n < ROWS THEN Top(n, k) ELSE Top(n, k) - FONT_HEIGHT
  <1>1. PICK f, d, a, b, c :
          /\ f \in Nat \ {0} /\ f = FONT_HEIGHT /\ d = DrawnAt(k)
          /\ a = Scrolls(n) /\ b = Scrolls(k) /\ c = Scrolls(n + 1)
    BY Sizes
  <1>2. d \in Int /\ a \in Int /\ b \in Int /\ c = IF n < ROWS THEN a ELSE a + 1
    <2>1. DrawnAt(k) \in Nat
      BY FirstRow
    <2>2. Scrolls(n) \in Nat /\ Scrolls(k) \in Nat
      BY ScrollsOnce
    <2>3. Scrolls(n + 1) = IF n < ROWS THEN Scrolls(n) ELSE Scrolls(n) + 1
      BY ScrollsOnce
    <2> QED BY <1>1, <2>1, <2>2, <2>3
  <1>3. Top(n, k) = d - f * (a - b) /\ Top(n + 1, k) = d - f * (c - b)
    BY <1>1 DEF Top
  <1>4. f * (a + 1 - b) = f * (a - b) + f /\ f * (a - b) \in Int
    BY <1>1, <1>2
  <1>5. Top(n, n) = DrawnAt(n)
    <2>1. Scrolls(n) \in Int /\ DrawnAt(n) \in Int
      BY ScrollsOnce, FirstRow
    <2>2. Scrolls(n) - Scrolls(n) = 0 /\ FONT_HEIGHT * 0 = 0
      BY <2>1, <1>1
    <2> QED BY <2>1, <2>2 DEF Top
  <1> QED BY <1>1, <1>2, <1>3, <1>4, <1>5

\* Each line is at least a font's height below the one before.
LEMMA LinesApart ==
    ASSUME NEW n \in Nat, NEW j \in 1 .. n, NEW k \in 1 .. n, j < k
    PROVE  Top(n, j) + FONT_HEIGHT <= Top(n, k)
  <1>1. PICK f \in Nat \ {0}, h \in Nat, r \in Nat \ {0} :
          f = FONT_HEIGHT /\ h = HEIGHT /\ r = ROWS /\ f * r \in Nat /\ f * r <= h /\ h < f * r + f
    BY Sizes
  <1>2. PICK a, b, c : a = Scrolls(n) /\ b = Scrolls(j) /\ c = Scrolls(k)
    OBVIOUS
  <1>3. /\ a \in Nat /\ b = (IF j <= r THEN 0 ELSE j - r) /\ c = IF k <= r THEN 0 ELSE k - r
    BY <1>1, <1>2, ScrollsOnce DEF Scrolls
  <1>4. f * (a - b) = f * a - f * b /\ f * (a - c) = f * a - f * c
        /\ f * a \in Int /\ f * b \in Int /\ f * c \in Int
    BY <1>3
  <1>5. f * j \in Int /\ f * k \in Int /\ f * j + f <= f * k
    <2>1. f * (j + 1) <= f * k
      BY Monotonic
    <2> QED BY <2>1
  <1>6. Top(n, j) = DrawnAt(j) - f * a + f * b /\ Top(n, k) = DrawnAt(k) - f * a + f * c
    BY <1>1, <1>2, <1>3, <1>4, FirstRow DEF Top
  <1>7. CASE k <= r
    <2>1. DrawnAt(j) = f * j - f /\ DrawnAt(k) = f * k - f /\ b = 0 /\ c = 0
      BY <1>1, <1>3, <1>7, FirstRow
    <2> QED BY <2>1, <1>1, <1>4, <1>5, <1>6
  <1>8. CASE k > r /\ j <= r
    <2>1. DrawnAt(j) = f * j - f /\ DrawnAt(k) = h - f /\ b = 0 /\ c >= 1 /\ c \in Nat
      BY <1>1, <1>3, <1>8, FirstRow
    <2>2. f * 1 <= f * c /\ f * j <= f * r /\ f * b = 0
      BY <2>1, <1>8, Monotonic
    <2> QED BY <2>1, <2>2, <1>1, <1>4, <1>5, <1>6
  <1>9. CASE k > r /\ j > r
    <2>1. DrawnAt(j) = h - f /\ DrawnAt(k) = h - f /\ b + 1 <= c /\ b \in Nat /\ c \in Nat
      BY <1>1, <1>3, <1>9, FirstRow
    <2>2. f * (b + 1) <= f * c /\ f * (b + 1) = f * b + f
      BY <2>1, Monotonic
    <2> QED BY <2>1, <2>2, <1>1, <1>4, <1>6
  <1> QED BY <1>1, <1>7, <1>8, <1>9

-----------------------------------------------------------------------------
(* The screen and the page.                                                *)

\* a line of glyphs, and n of them
IsLine(l) == l = [x \in 0 .. COLS - 1 |-> l[x]]
AreLines(s, n) ==
    /\ n \in Nat \ {0}
    /\ s = [k \in 1 .. n |-> s[k]]
    /\ \A k \in 1 .. n : IsLine(s[k])

IsTerm(t) ==
    /\ t = [screen |-> t.screen, x |-> t.x, y |-> t.y]
    /\ t.screen = [y \in Rows |-> t.screen[y]]
    /\ \A y \in Rows : t.screen[y] = [x \in Columns |-> t.screen[y][x]]

\* a row of pixels of line k
Drawn(l, i) == [x \in Columns |-> Pixels(IF x = COLS THEN Blank ELSE l[x], i)]

\* The screen has each of the n lines in its rows and is blank elsewhere.
Placed(screen, lines, n) ==
    \A y \in Rows :
        /\ \A k \in 1 .. n : y \in RowsOf(n, k) => screen[y] = Drawn(lines[k], y - Top(n, k))
        /\ (\A k \in 1 .. n : y \notin RowsOf(n, k)) => screen[y] = BlankRow

\* What ScreenShowsTail says of a calm page.
Shows(t, p) ==
    /\ p = [lines |-> p.lines, col |-> p.col, calm |-> p.calm] /\ p.calm = TRUE
    /\ AreLines(p.lines, Len(p.lines)) /\ p.col \in 0 .. COLS - 1
    /\ IsTerm(t) /\ Placed(t.screen, p.lines, Len(p.lines))
    /\ t.x = p.col /\ t.y = DrawnAt(Len(p.lines))

\* Two lines share no row.
LEMMA OneLine ==
    ASSUME NEW n \in Nat, NEW j \in 1 .. n, NEW k \in 1 .. n, NEW y,
           y \in RowsOf(n, j), y \in RowsOf(n, k)
    PROVE  j = k
  <1>1. Top(n, j) \in Int /\ Top(n, k) \in Int /\ FONT_HEIGHT \in Int
    BY Tops, Sizes
  <1>2. j < k => Top(n, j) + FONT_HEIGHT <= Top(n, k)
    BY LinesApart
  <1>3. k < j => Top(n, k) + FONT_HEIGHT <= Top(n, j)
    BY LinesApart
  <1> QED BY <1>1, <1>2, <1>3 DEF RowsOf

\* Layout is the screen with each line in its place.
LEMMA LayoutPlaced ==
    ASSUME NEW lines, NEW n \in Nat, Len(lines) = n, NEW screen,
           screen = [y \in Rows |-> screen[y]]
    PROVE  screen = Layout(lines) <=> Placed(screen, lines, n)
  <1> DEFINE at(y) == {k \in 1 .. n : y \in RowsOf(n, k)}
             row(y) == IF at(y) = {} THEN BlankRow
                       ELSE LET k == CHOOSE k \in at(y) : TRUE
                            IN  Drawn(lines[k], y - Top(n, k))
  <1>1. Layout(lines) = [y \in Rows |-> row(y)]
    BY DEF Layout, Drawn, RowsOf, Top
  <1>2. ASSUME NEW y \in Rows
        PROVE  screen[y] = row(y) <=>
                 /\ \A k \in 1 .. n : y \in RowsOf(n, k) => screen[y] = Drawn(lines[k], y - Top(n, k))
                 /\ (\A k \in 1 .. n : y \notin RowsOf(n, k)) => screen[y] = BlankRow
    <2>1. CASE at(y) = {}
      BY <2>1
    <2>2. CASE at(y) # {}
      <3>1. PICK k \in 1 .. n : k = (CHOOSE j \in at(y) : TRUE) /\ y \in RowsOf(n, k)
        BY <2>2
      <3>2. row(y) = Drawn(lines[k], y - Top(n, k))
        BY <2>2, <3>1
      <3>3. \A j \in 1 .. n : y \in RowsOf(n, j) => j = k
        BY <3>1, OneLine
      <3> HIDE DEF row
      <3> QED BY <3>1, <3>2, <3>3
    <2> QED BY <2>1, <2>2
  <1> HIDE DEF row
  <1>3. screen = [y \in Rows |-> row(y)] <=> \A y \in Rows : screen[y] = row(y)
    OBVIOUS
  <1> QED BY <1>1, <1>2, <1>3 DEF Placed

-----------------------------------------------------------------------------
(* Putchar, beside what it does to the page.                               *)

\* lines with a glyph at column x of the last one
WithGlyph(lines, n, x, glyph) == [lines EXCEPT ![n] = [@ EXCEPT ![x] = glyph]]

\* A glyph at the cursor changes the last line only.
LEMMA DrawKeeps ==
    ASSUME NEW t, IsTerm(t), NEW lines, NEW n \in Nat, AreLines(lines, n), Placed(t.screen, lines, n),
           NEW x0 \in 0 .. COLS - 1, t.x = x0, t.y = DrawnAt(n), NEW glyph,
           NEW t1, t1 = Draw(t, glyph), NEW l1, l1 = WithGlyph(lines, n, x0, glyph)
    PROVE  /\ IsTerm(t1) /\ t1.x = x0 /\ t1.y = t.y
           /\ AreLines(l1, n) /\ Placed(t1.screen, l1, n)
  <1>1. n \in Nat \ {0} /\ n \in 1 .. n /\ COLS \in Nat \ {0}
    BY ConsoleAssumption DEF AreLines
  <1>2. t.y = Top(n, n)
    BY <1>1, Tops
  <1>3. /\ t1 = [screen |-> t1.screen, x |-> t1.x, y |-> t1.y]
        /\ t1.x = x0 /\ t1.y = t.y
        /\ t1.screen = [y \in Rows |->
              IF y \in RowsOf(n, n)
              THEN [x \in Columns |-> IF x = x0 THEN Pixels(glyph, y - Top(n, n)) ELSE t.screen[y][x]]
              ELSE t.screen[y]]
    BY <1>2 DEF Draw, IsTerm, RowsOf
  <1>4. /\ l1 = [k \in 1 .. n |-> l1[k]]
        /\ \A k \in 1 .. n : k # n => l1[k] = lines[k]
        /\ l1[n] = [x \in 0 .. COLS - 1 |-> IF x = x0 THEN glyph ELSE lines[n][x]]
    BY <1>1 DEF WithGlyph, AreLines, IsLine
  <1>5. AreLines(l1, n)
    <2>1. ASSUME NEW k \in 1 .. n PROVE IsLine(l1[k])
      <3>1. CASE k = n
        BY <3>1, <1>4 DEF IsLine
      <3>2. CASE k # n
        BY <3>2, <1>4 DEF AreLines
      <3> QED BY <3>1, <3>2
    <2> QED BY <2>1, <1>1, <1>4 DEF AreLines
  <1>6. ASSUME NEW y \in Rows
        PROVE  t1.screen[y] = [x \in Columns |-> t1.screen[y][x]]
    BY <1>3 DEF IsTerm
  <1>7. IsTerm(t1)
    BY <1>3, <1>6 DEF IsTerm
  <1>8. ASSUME NEW y \in Rows, NEW k \in 1 .. n, y \in RowsOf(n, k)
        PROVE  t1.screen[y] = Drawn(l1[k], y - Top(n, k))
    <2>1. t.screen[y] = Drawn(lines[k], y - Top(n, k))
      BY <1>8 DEF Placed
    <2>2. CASE k # n
      <3>1. y \notin RowsOf(n, n)
        BY <1>1, <1>8, <2>2, OneLine
      <3> QED BY <2>1, <2>2, <3>1, <1>3, <1>4
    <2>3. CASE k = n
      <3>1. t1.screen[y] = [x \in Columns |-> IF x = x0 THEN Pixels(glyph, y - Top(n, n)) ELSE t.screen[y][x]]
        BY <2>3, <1>3, <1>8
      <3>2. ASSUME NEW x \in Columns
            PROVE  (IF x = x0 THEN Pixels(glyph, y - Top(n, n)) ELSE t.screen[y][x])
                     = Pixels(IF x = COLS THEN Blank ELSE l1[n][x], y - Top(n, n))
        <4>1. t.screen[y][x] = Pixels(IF x = COLS THEN Blank ELSE lines[n][x], y - Top(n, n))
          BY <2>1, <2>3 DEF Drawn
        <4>2. x0 # COLS
          BY <1>1
        <4>3. CASE x = COLS
          BY <4>1, <4>2, <4>3
        <4>4. CASE x # COLS
          <5>1. x \in 0 .. COLS - 1
            BY <4>4, <1>1 DEF Columns
          <5>2. l1[n][x] = IF x = x0 THEN glyph ELSE lines[n][x]
            BY <5>1, <1>4
          <5> QED BY <4>1, <4>4, <5>2
        <4> QED BY <4>3, <4>4
      <3> QED BY <2>3, <3>1, <3>2 DEF Drawn
    <2> QED BY <2>2, <2>3
  <1>9. ASSUME NEW y \in Rows, \A k \in 1 .. n : y \notin RowsOf(n, k)
        PROVE  t1.screen[y] = BlankRow
    BY <1>9, <1>1, <1>3 DEF Placed
  <1> QED BY <1>3, <1>5, <1>7, <1>8, <1>9 DEF Placed

\* Blank rows are those of an empty line.
LEMMA EmptyLine ==
    ASSUME NEW i
    PROVE  IsLine(NewLine) /\ Drawn(NewLine, i) = BlankRow
  <1>1. COLS \in Nat \ {0}
    BY ConsoleAssumption
  <1>2. ASSUME NEW x \in Columns
        PROVE  Pixels(IF x = COLS THEN Blank ELSE NewLine[x], i) = Pixels(Blank, 0)
    BY <1>1 DEF NewLine, Columns, Pixels
  <1> QED BY <1>2 DEF Drawn, BlankRow, NewLine, IsLine

\* One more line behind the n there are.
LEMMA AppendLine ==
    ASSUME NEW lines, NEW n \in Nat, AreLines(lines, n), NEW l1, l1 = Append(lines, NewLine)
    PROVE  /\ n + 1 \in Nat /\ AreLines(l1, n + 1) /\ Len(l1) = n + 1
           /\ \A k \in 1 .. n : l1[k] = lines[k]
           /\ l1[n + 1] = NewLine
  <1>1. n \in Nat \ {0} /\ lines = [k \in 1 .. n |-> lines[k]]
    BY DEF AreLines
  <1>2. PICK S : S = {lines[k] : k \in 1 .. n} \cup {NewLine}
    OBVIOUS
  <1>3. lines \in Seq({lines[k] : k \in 1 .. n}) /\ Len(lines) = n
    BY <1>1, FunctionIsSeq
  <1>4. lines \in [1 .. n -> S]
    BY <1>1, <1>2
  <1>5. lines \in Seq(S) /\ NewLine \in S
    BY <1>1, <1>2, <1>4, SeqDef
  <1>6. /\ l1 \in Seq(S) /\ Len(l1) = n + 1
        /\ \A k \in 1 .. n : l1[k] = lines[k]
        /\ l1[n + 1] = NewLine
    BY <1>3, <1>5, AppendProperties
  <1>7. l1 = [k \in 1 .. n + 1 |-> l1[k]]
    <2>1. DOMAIN l1 = 1 .. n + 1
      BY <1>6, LenProperties
    <2>2. l1 \in [1 .. Len(l1) -> S]
      BY <1>6, LenProperties
    <2> QED BY <2>1, <2>2
  <1>8. ASSUME NEW k \in 1 .. n + 1 PROVE IsLine(l1[k])
    <2>1. CASE k = n + 1
      BY <2>1, <1>6, EmptyLine
    <2>2. CASE k # n + 1
      <3>1. k \in 1 .. n
        BY <1>1, <2>2
      <3> QED BY <3>1, <1>6 DEF AreLines
    <2> QED BY <2>1, <2>2
  <1> QED BY <1>1, <1>6, <1>7, <1>8 DEF AreLines

\* A new line: the lines are in their places again, whether or not the screen
\* had to scroll, and also where the last line is not a whole one.
LEMMA LnKeeps ==
    ASSUME NEW t, IsTerm(t), NEW lines, NEW n \in Nat, AreLines(lines, n), Placed(t.screen, lines, n),
           t.y = DrawnAt(n), NEW t1, t1 = ln(t), NEW l1, l1 = Append(lines, NewLine)
    PROVE  /\ IsTerm(t1) /\ t1.x = 0 /\ t1.y = DrawnAt(n + 1)
           /\ Placed(t1.screen, l1, n + 1)
  <1>1. n \in Nat \ {0} /\ n \in 1 .. n /\ n + 1 \in Nat \ {0} /\ n + 1 \in 1 .. n + 1
    BY DEF AreLines
  <1>2. (\A k \in 1 .. n : l1[k] = lines[k]) /\ l1[n + 1] = NewLine
    <2>1. \A k \in 1 .. n : l1[k] = lines[k]
      BY AppendLine
    <2>2. l1[n + 1] = NewLine
      BY AppendLine
    <2> QED BY <2>1, <2>2
  <1>3. PICK f \in Nat \ {0}, h \in Nat, r \in Nat \ {0} :
          f = FONT_HEIGHT /\ h = HEIGHT /\ r = ROWS /\ f * r \in Nat /\ f * r <= h /\ h < f * r + f /\ f < h
    BY Sizes
  <1>4. \A k \in 1 .. n : Top(n, k) \in Int
    BY <1>1, Tops
  <1>5. Top(n + 1, n + 1) = DrawnAt(n + 1)
    BY <1>1, Tops
  <1>6. t.y \in Nat /\ DrawnAt(n + 1) \in Nat
    BY <1>1, FirstRow
  <1>7. CASE n < ROWS
    <2>1. \A k \in 1 .. n : Top(n + 1, k) = Top(n, k)
      BY <1>1, <1>7, Tops
    <2>2. DrawnAt(n) = f * n - f /\ DrawnAt(n + 1) = f * n /\ f * n \in Int /\ f * n + f <= h
      <3>1. DrawnAt(n) = f * n - f /\ DrawnAt(n + 1) = f * (n + 1) - f
        BY <1>1, <1>3, <1>7, FirstRow
      <3>2. f * (n + 1) = f * n + f /\ f * n \in Int
        BY <1>1
      <3>3. f * (n + 1) <= f * r
        BY <1>1, <1>3, <1>7, Monotonic
      <3> QED BY <3>1, <3>2, <3>3, <1>3
    <2>3. t1 = [t EXCEPT !.x = 0, !.y = DrawnAt(n + 1)]
      <3>1. t.y + FONT_HEIGHT = DrawnAt(n + 1) /\ ~BelowScreen(DrawnAt(n + 1))
        BY <2>2, <1>3 DEF BelowScreen
      <3>2. ln(t) = LET down == [t EXCEPT !.x = 0, !.y = @ + FONT_HEIGHT]
                    IN  IF BelowScreen(down.y) THEN [term_scroll(down) EXCEPT !.y = HEIGHT - FONT_HEIGHT]
                        ELSE down
        BY DEF ln
      <3>3. [t EXCEPT !.x = 0, !.y = @ + FONT_HEIGHT] = [t EXCEPT !.x = 0, !.y = DrawnAt(n + 1)]
        BY <3>1 DEF IsTerm
      <3>4. [t EXCEPT !.x = 0, !.y = DrawnAt(n + 1)].y = DrawnAt(n + 1)
        BY DEF IsTerm
      <3> QED BY <3>1, <3>2, <3>3, <3>4
    <2>4. IsTerm(t1) /\ t1.x = 0 /\ t1.y = DrawnAt(n + 1) /\ t1.screen = t.screen
      <3>1. t = [screen |-> t.screen, x |-> t.x, y |-> t.y]
        BY DEF IsTerm
      <3>2. /\ t1.x = 0 /\ t1.y = DrawnAt(n + 1) /\ t1.screen = t.screen
            /\ t1 = [screen |-> t1.screen, x |-> t1.x, y |-> t1.y]
        BY ONLY <2>3, <3>1
      <3> QED BY <3>2 DEF IsTerm
    <2>5. ASSUME NEW y \in Rows, NEW k \in 1 .. n + 1, y \in RowsOf(n + 1, k)
          PROVE  t1.screen[y] = Drawn(l1[k], y - Top(n + 1, k))
      <3>1. CASE k = n + 1
        <4>1. \A j \in 1 .. n : y \notin RowsOf(n, j)
          <5> SUFFICES ASSUME NEW j \in 1 .. n, y \in RowsOf(n, j) PROVE FALSE
            OBVIOUS
          <5>1. y \in RowsOf(n + 1, j) /\ j \in 1 .. n + 1
            BY <2>1, <1>1 DEF RowsOf
          <5>2. j = n + 1
            BY <5>1, <3>1, <2>5, <1>1, OneLine
          <5> QED BY <5>2, <1>1
        <4> QED BY <4>1, <3>1, <2>4, <1>2, EmptyLine DEF Placed
      <3>2. CASE k # n + 1
        <4>1. k \in 1 .. n
          BY <3>2, <1>1
        <4> QED BY <4>1, <2>5, <2>1, <2>4, <1>2 DEF Placed, RowsOf
      <3> QED BY <3>1, <3>2
    <2>6. ASSUME NEW y \in Rows, \A k \in 1 .. n + 1 : y \notin RowsOf(n + 1, k)
          PROVE  t1.screen[y] = BlankRow
      <3>1. ASSUME NEW k \in 1 .. n PROVE y \notin RowsOf(n, k)
        <4>1. k \in 1 .. n + 1
          BY <1>1
        <4> QED BY <4>1, <2>1, <2>6 DEF RowsOf
      <3> QED BY <3>1, <2>4 DEF Placed
    <2> QED BY <2>4, <2>5, <2>6 DEF Placed
  <1>8. CASE n >= ROWS
    <2>1. \A k \in 1 .. n : Top(n + 1, k) = Top(n, k) - f
      BY <1>1, <1>3, <1>8, Tops
    <2>2. DrawnAt(n + 1) = h - f /\ t.y + f + f > h
      <3>1. DrawnAt(n + 1) = h - f
        BY <1>1, <1>3, <1>8, FirstRow
      <3>2. n > r => DrawnAt(n) = h - f
        BY <1>1, <1>3, <1>8, FirstRow
      <3>3. n = r => DrawnAt(n) = f * r - f
        BY <1>1, <1>3, <1>8, FirstRow
      <3> QED BY <3>1, <3>2, <3>3, <1>1, <1>3, <1>6, <1>8
    <2>3. /\ t1.x = 0 /\ t1.y = DrawnAt(n + 1)
          /\ t1 = [screen |-> t1.screen, x |-> t1.x, y |-> t1.y]
          /\ t1.screen = [y \in Rows |-> IF y + f \in Rows THEN t.screen[y + f] ELSE BlankRow]
      <3>1. PICK d : d = [t EXCEPT !.x = 0, !.y = @ + FONT_HEIGHT]
        OBVIOUS
      <3>2. d.y = t.y + f /\ d.screen = t.screen /\ d.x = 0 /\ d = [screen |-> d.screen, x |-> d.x, y |-> d.y]
        BY <3>1, <1>3 DEF IsTerm
      <3>3. BelowScreen(d.y)
        BY <3>2, <2>2, <1>3, <1>6 DEF BelowScreen
      <3>4. t1 = [term_scroll(d) EXCEPT !.y = HEIGHT - FONT_HEIGHT]
        BY <3>1, <3>3 DEF ln
      <3> QED BY <3>2, <3>4, <2>2, <1>3 DEF term_scroll
    <2>4. IsTerm(t1)
      <3>1. ASSUME NEW y \in Rows PROVE t1.screen[y] = [x \in Columns |-> t1.screen[y][x]]
        BY <2>3 DEF IsTerm, BlankRow
      <3> QED BY <3>1, <2>3 DEF IsTerm
    <2>5. ASSUME NEW y \in Rows, NEW k \in 1 .. n
          PROVE  /\ y \in RowsOf(n + 1, k) <=> y + f \in RowsOf(n, k)
                 /\ y - Top(n + 1, k) = y + f - Top(n, k)
      <3>1. PICK a, b : a \in Int /\ a = Top(n, k) /\ b = Top(n + 1, k) /\ b = a - f
        BY <2>1, <1>4
      <3>2. y \in Int /\ f \in Int
        BY <1>3 DEF Rows
      <3>3. y \in b .. b + f - 1 <=> y + f \in a .. a + f - 1
        <4>1. b \in Int /\ b + f - 1 \in Int /\ a + f - 1 \in Int /\ y + f \in Int
          BY <3>1, <3>2
        <4>2. (b <= y /\ y <= b + f - 1) <=> (a <= y + f /\ y + f <= a + f - 1)
          <5>1. b = a - f /\ a \in Int
            BY <3>1
          <5>2. b <= y <=> a <= y + f
            BY ONLY <5>1, <3>2
          <5>3. y <= b + f - 1 <=> y + f <= a + f - 1
            BY ONLY <5>1, <3>2
          <5> QED BY ONLY <5>2, <5>3
        <4>3. y \in b .. b + f - 1 <=> b <= y /\ y <= b + f - 1
          BY ONLY <3>2, <4>1
        <4>4. y + f \in a .. a + f - 1 <=> a <= y + f /\ y + f <= a + f - 1
          BY ONLY <3>1, <3>2
        <4> QED BY ONLY <4>2, <4>3, <4>4
      <3>4. y - b = y + f - a
        BY <3>1, <3>2
      <3> QED BY <3>1, <3>3, <3>4, <1>3 DEF RowsOf
    <2>6. ASSUME NEW y \in Rows
          PROVE  /\ y \in RowsOf(n + 1, n + 1) <=> y + f \notin Rows
                 /\ y + f \in Rows => t1.screen[y] = t.screen[y + f]
                 /\ y + f \notin Rows => t1.screen[y] = BlankRow
      <3>1. y \in RowsOf(n + 1, n + 1) <=> y + f \notin Rows
        BY <2>2, <1>3, <1>5 DEF RowsOf, Rows
      <3> QED BY <3>1, <2>3
    <2>7. ASSUME NEW y \in Rows, NEW k \in 1 .. n + 1, y \in RowsOf(n + 1, k)
          PROVE  t1.screen[y] = Drawn(l1[k], y - Top(n + 1, k))
      <3>1. CASE k = n + 1
        BY <3>1, <2>6, <2>7, <1>2, EmptyLine
      <3>2. CASE k # n + 1
        <4>1. k \in 1 .. n
          BY <3>2, <1>1
        <4>2. y \notin RowsOf(n + 1, n + 1)
          BY <3>2, <2>7, <1>1, OneLine
        <4>3. PICK z \in Rows : /\ z \in RowsOf(n, k) /\ z - Top(n, k) = y - Top(n + 1, k)
                                /\ t1.screen[y] = t.screen[z]
          <5>1. PICK z \in Int : z = y + f
            BY <1>3 DEF Rows
          <5>2. z \in Rows /\ t1.screen[y] = t.screen[z]
            BY <4>2, <5>1, <2>6
          <5>3. z \in RowsOf(n, k)
            BY <4>1, <5>1, <2>5, <2>7
          <5>4. z - Top(n, k) = y - Top(n + 1, k)
            BY <1>3, <1>4, <2>1, <4>1, <5>1 DEF Rows
          <5> QED BY ONLY <5>2, <5>3, <5>4
        <4>4. t.screen[z] = Drawn(lines[k], z - Top(n, k))
          BY <4>1, <4>3 DEF Placed
        <4> QED BY <4>1, <4>3, <4>4, <1>2
      <3> QED BY <3>1, <3>2
    <2>8. ASSUME NEW y \in Rows, \A k \in 1 .. n + 1 : y \notin RowsOf(n + 1, k)
          PROVE  t1.screen[y] = BlankRow
      <3>1. y + f \in Rows
        BY <2>6, <2>8, <1>1
      <3>2. ASSUME NEW k \in 1 .. n PROVE y + f \notin RowsOf(n, k)
        <4>1. k \in 1 .. n + 1
          BY <1>1
        <4> QED BY <4>1, <2>5, <2>8
      <3>3. t.screen[y + f] = BlankRow
        BY <3>1, <3>2 DEF Placed
      <3> QED BY <3>1, <3>3, <2>6
    <2> QED BY <2>3, <2>4, <2>7, <2>8 DEF Placed
  <1> QED BY <1>1, <1>3, <1>7, <1>8

\* a glyph at column x0 of the last line, and the cursor then at x1
Painted(t, x0, glyph, x1) == [Draw([t EXCEPT !.x = x0], glyph) EXCEPT !.x = x1]
PaintedPage(p, x0, glyph, x1) ==
    [lines |-> WithGlyph(p.lines, Len(p.lines), x0, glyph), col |-> x1, calm |-> TRUE]

\* A glyph drawn in the last line, at a column of the screen, shows the page
\* with that glyph.
LEMMA PaintShows ==
    ASSUME NEW t, NEW p, Shows(t, p), NEW x0 \in 0 .. COLS - 1, NEW x1 \in 0 .. COLS - 1, NEW glyph
    PROVE  Shows(Painted(t, x0, glyph, x1), PaintedPage(p, x0, glyph, x1))
  <1>1. PICK n \in Nat \ {0} : n = Len(p.lines)
    BY DEF Shows, AreLines
  <1>2. AreLines(p.lines, n) /\ IsTerm(t) /\ Placed(t.screen, p.lines, n) /\ t.y = DrawnAt(n)
    BY <1>1 DEF Shows
  <1>3. PICK b : b = [t EXCEPT !.x = x0]
    OBVIOUS
  <1>4. IsTerm(b) /\ b.x = x0 /\ b.y = DrawnAt(n) /\ Placed(b.screen, p.lines, n)
    BY <1>2, <1>3 DEF IsTerm
  <1>5. PICK d, l1 : d = Draw(b, glyph) /\ l1 = WithGlyph(p.lines, n, x0, glyph)
    OBVIOUS
  <1>6. IsTerm(d) /\ d.y = DrawnAt(n) /\ AreLines(l1, n) /\ Placed(d.screen, l1, n)
    BY ONLY <1>1, <1>2, <1>4, <1>5, DrawKeeps, x0 \in 0 .. COLS - 1
  <1>7. Len(l1) = n
    BY <1>1, <1>6, FunctionIsSeq DEF AreLines
  <1>8. PICK t1, p1 : t1 = Painted(t, x0, glyph, x1) /\ p1 = PaintedPage(p, x0, glyph, x1)
    OBVIOUS
  <1>9. t1 = [d EXCEPT !.x = x1] /\ p1 = [lines |-> l1, col |-> x1, calm |-> TRUE]
    BY <1>1, <1>3, <1>5, <1>8 DEF Painted, PaintedPage
  <1>10. IsTerm(t1) /\ t1.x = x1 /\ t1.y = DrawnAt(n) /\ t1.screen = d.screen
    BY <1>6, <1>9 DEF IsTerm
  <1>11. /\ p1.lines = l1 /\ p1.col = x1 /\ p1.calm = TRUE
         /\ p1 = [lines |-> p1.lines, col |-> p1.col, calm |-> p1.calm]
    BY <1>9
  <1>12. Shows(t1, p1)
    BY <1>6, <1>7, <1>10, <1>11 DEF Shows
  <1> QED BY <1>8, <1>12

\* the cursor at another column
LEMMA MoveShows ==
    ASSUME NEW t, NEW p, Shows(t, p), NEW x1 \in 0 .. COLS - 1
    PROVE  Shows([t EXCEPT !.x = x1], [lines |-> p.lines, col |-> x1, calm |-> TRUE])
  <1>1. PICK t1, p1 : t1 = [t EXCEPT !.x = x1] /\ p1 = [lines |-> p.lines, col |-> x1, calm |-> TRUE]
    OBVIOUS
  <1>2. IsTerm(t1) /\ t1.x = x1 /\ t1.y = t.y /\ t1.screen = t.screen
    BY <1>1 DEF IsTerm, Shows
  <1>3. /\ p1.lines = p.lines /\ p1.col = x1 /\ p1.calm = TRUE
        /\ p1 = [lines |-> p1.lines, col |-> p1.col, calm |-> p1.calm]
    BY <1>1
  <1>4. Shows(t1, p1)
    BY <1>2, <1>3 DEF Shows
  <1> QED BY <1>1, <1>4

\* a new line
LEMMA LineShows ==
    ASSUME NEW t, NEW p, Shows(t, p)
    PROVE  Shows(ln(t), [lines |-> Append(p.lines, NewLine), col |-> 0, calm |-> TRUE])
  <1>1. PICK n \in Nat \ {0} : n = Len(p.lines)
    BY DEF Shows, AreLines
  <1>2. AreLines(p.lines, n) /\ IsTerm(t) /\ Placed(t.screen, p.lines, n) /\ t.y = DrawnAt(n)
    BY <1>1 DEF Shows
  <1>3. PICK t1, l1 : t1 = ln(t) /\ l1 = Append(p.lines, NewLine)
    OBVIOUS
  <1>4. PICK p1 : p1 = [lines |-> l1, col |-> 0, calm |-> TRUE]
    OBVIOUS
  <1>5. AreLines(l1, n + 1) /\ Len(l1) = n + 1
    BY ONLY <1>1, <1>2, <1>3, AppendLine
  <1>6. IsTerm(t1) /\ t1.x = 0 /\ t1.y = DrawnAt(n + 1) /\ Placed(t1.screen, l1, n + 1)
    BY ONLY <1>1, <1>2, <1>3, LnKeeps
  <1>7. /\ p1.lines = l1 /\ p1.col = 0 /\ p1.calm = TRUE
        /\ p1 = [lines |-> p1.lines, col |-> p1.col, calm |-> p1.calm]
    BY <1>4
  <1>8. 0 \in 0 .. COLS - 1
    BY ConsoleAssumption
  <1>9. Shows(t1, p1)
    BY <1>5, <1>6, <1>7, <1>8 DEF Shows
  <1> QED BY <1>3, <1>4, <1>9

\* One character, on the screen and on the page.
LEMMA PutcharShows ==
    ASSUME NEW t, NEW p, p.calm => Shows(t, p), NEW c, NEW t1, t1 = Putchar(t, c),
           NEW p1, p1 = Written(p, c), p1.calm
    PROVE  Shows(t1, p1)
  <1>1. p.calm
    BY DEF Written
  <1>2. Shows(t, p)
    BY <1>1
  <1>3. PICK n \in Nat \ {0} : n = Len(p.lines)
    BY <1>2 DEF Shows, AreLines
  <1>4. COLS \in Nat \ {0} /\ p.col \in 0 .. COLS - 1 /\ t.x = p.col
    BY <1>2, ConsoleAssumption DEF Shows
  <1>5. /\ p = [lines |-> p.lines, col |-> p.col, calm |-> TRUE]
        /\ AreLines(p.lines, n) /\ IsTerm(t) /\ Placed(t.screen, p.lines, n)
        /\ t.y = DrawnAt(n)
    BY <1>2, <1>3 DEF Shows
  <1>6. t.y \in Nat /\ t.y <= HEIGHT - FONT_HEIGHT /\ HEIGHT \in Nat /\ FONT_HEIGHT \in Nat
    BY <1>3, <1>5, FirstRow, Sizes
  <1>7. ~BelowScreen(t.y)
    BY <1>6 DEF BelowScreen
  <1>10. CASE c = "CR"
    <2>1. t1 = [t EXCEPT !.x = 0]
      BY <1>10 DEF Putchar
    <2>2. p1 = [p EXCEPT !.col = 0]
      BY <1>1, <1>10 DEF Written
    <2>3. p1 = [lines |-> p.lines, col |-> 0, calm |-> TRUE]
      BY <2>2, <1>5
    <2>4. 0 \in 0 .. COLS - 1
      BY <1>4
    <2> QED BY ONLY <2>1, <2>3, <2>4, <1>2, MoveShows
  <1>11. CASE c = "LF"
    <2>1. t1 = ln(t)
      BY <1>11 DEF Putchar
    <2>2. p1 = [p EXCEPT !.lines = Append(@, NewLine), !.col = 0]
      BY <1>1, <1>11 DEF Written
    <2>3. p1 = [lines |-> Append(p.lines, NewLine), col |-> 0, calm |-> TRUE]
      BY <2>2, <1>5
    <2> QED BY ONLY <2>1, <2>3, <1>2, LineShows
  <1>12. CASE c = "BS"
    <2>1. PICK left : left = IF p.col > 0 THEN p.col - 1 ELSE 0
      OBVIOUS
    <2>2. left \in 0 .. COLS - 1 /\ (IF t.x >= 1 THEN t.x - 1 ELSE 0) = left
      BY <2>1, <1>4
    <2>3. t1 = Draw([t EXCEPT !.x = left], Blank)
      BY <1>12, <2>2 DEF Putchar, backspace
    <2>4. t1 = Painted(t, left, Blank, left)
      BY <2>3, <1>5 DEF Painted, Draw, IsTerm
    <2>5. p1 = [[p EXCEPT !.lines[n][left] = Blank] EXCEPT !.col = left]
      BY <1>1, <1>3, <1>12, <2>1 DEF Written
    <2>6. p1 = PaintedPage(p, left, Blank, left)
      BY <2>5, <1>3, <1>5 DEF PaintedPage, WithGlyph
    <2> QED BY ONLY <2>2, <2>4, <2>6, <1>2, PaintShows
  <1>13. CASE c = "TAB"
    <2>1. p1 = [p EXCEPT !.col = @ + 4, !.calm = @ /\ p.col + 5 <= COLS]
      BY <1>1, <1>13 DEF Written
    <2>2. p.col + 5 <= COLS
      BY <2>1, <1>5
    <2>3. PICK x1 \in 0 .. COLS - 1 : x1 = p.col + 4
      BY <2>2, <1>4
    <2>4. p1 = [lines |-> p.lines, col |-> x1, calm |-> TRUE]
      BY <2>1, <2>2, <2>3, <1>5
    <2>5. ~RightOfScreen(t.x + 4)
      BY <2>2, <1>4 DEF RightOfScreen
    <2>6. t1 = [t EXCEPT !.x = x1]
      BY <2>3, <2>5, <1>4, <1>13 DEF Putchar, tab
    <2> QED BY ONLY <2>3, <2>4, <2>6, <1>2, MoveShows
  <1>14. CASE c \notin {"CR", "LF", "BS", "TAB"}
    <2>1. p1 = [[p EXCEPT !.lines[n][p.col] = c] EXCEPT !.col = @ + 1, !.calm = @ /\ p.col + 2 <= COLS]
      BY <1>1, <1>3, <1>14 DEF Written
    <2>2. p.col + 2 <= COLS
      BY <2>1, <1>5
    <2>3. PICK x1 \in 0 .. COLS - 1 : x1 = p.col + 1
      BY <2>2, <1>4
    <2>4. p1 = PaintedPage(p, p.col, c, x1)
      BY <2>1, <2>2, <2>3, <1>3, <1>5 DEF PaintedPage, WithGlyph
    <2>5. PICK d : d = Draw(t, c)
      OBVIOUS
    <2>6. d.x = t.x /\ d.y = t.y /\ d = [screen |-> d.screen, x |-> d.x, y |-> d.y]
      BY <2>5, <1>5 DEF Draw, IsTerm
    <2>7. PICK e : e = [d EXCEPT !.x = @ + 1]
      OBVIOUS
    <2>8. e.x = x1 /\ e.y = t.y /\ e = [d EXCEPT !.x = x1]
      BY <2>3, <2>6, <2>7, <1>4
    <2>9. ~RightOfScreen(e.x) /\ ~BelowScreen(e.y)
      BY <2>2, <2>3, <2>8, <1>4, <1>7 DEF RightOfScreen
    <2>10. t1 = glyph_at_cursor(t, c)
      BY <1>14 DEF Putchar
    <2>11. t1 = e
      BY <2>5, <2>7, <2>9, <2>10 DEF glyph_at_cursor
    <2>12. t = [t EXCEPT !.x = p.col]
      BY <1>4, <1>5 DEF IsTerm
    <2>13. t1 = Painted(t, p.col, c, x1)
      BY <2>5, <2>8, <2>11, <2>12 DEF Painted
    <2> QED BY ONLY <2>3, <2>4, <2>13, <1>2, <1>4, PaintShows
  <1> QED BY <1>10, <1>11, <1>12, <1>13, <1>14

-----------------------------------------------------------------------------
(* A whole text.                                                           *)

\* g is the terminal after each of N characters
IsPut(g, s, text, N) ==
    /\ g = [i \in 0 .. N |-> g[i]]
    /\ g[0] = s /\ \A n \in 1 .. N : g[n] = Putchar(g[n - 1], text[n])

\* There is a function with the states Putchar goes through.
LEMMA PutExists ==
    ASSUME NEW s, NEW text, NEW N \in Nat
    PROVE  \E g : IsPut(g, s, text, N)
  <1> DEFINE Some(k) == \E g : IsPut(g, s, text, k)
             Bad == {k \in Nat : ~Some(k)}
  <1>1. Some(0)
    <2> DEFINE g == [i \in 0 .. 0 |-> s]
    <2>1. g = [i \in 0 .. 0 |-> g[i]]
      OBVIOUS
    <2>2. g[0] = s /\ \A n \in 1 .. 0 : g[n] = Putchar(g[n - 1], text[n])
      OBVIOUS
    <2> HIDE DEF g
    <2> QED BY <2>1, <2>2 DEF IsPut
  <1>2. ASSUME NEW k \in Nat \ {0}, Some(k - 1)
        PROVE  Some(k)
    <2>1. PICK g : /\ g = [i \in 0 .. (k - 1) |-> g[i]]
                   /\ g[0] = s /\ \A n \in 1 .. (k - 1) : g[n] = Putchar(g[n - 1], text[n])
      BY <1>2 DEF IsPut
    <2> DEFINE h == [i \in 0 .. k |-> IF i < k THEN g[i] ELSE Putchar(g[k - 1], text[k])]
    <2>2. h = [i \in 0 .. k |-> h[i]]
      OBVIOUS
    <2>3. h[0] = s
      BY <2>1
    <2>4. ASSUME NEW n \in 1 .. k PROVE h[n] = Putchar(h[n - 1], text[n])
      <3>1. CASE n < k
        <4>1. h[n] = g[n] /\ h[n - 1] = g[n - 1] /\ n \in 1 .. (k - 1)
          BY <3>1
        <4> QED BY <4>1, <2>1
      <3>2. CASE n = k
        BY <3>2
      <3> QED BY <3>1, <3>2
    <2> HIDE DEF h
    <2>5. IsPut(h, s, text, k)
      BY <2>2, <2>3, <2>4 DEF IsPut
    <2> QED BY <2>5
  <1> HIDE DEF Some
  <1>3. Bad = {}
    <2> SUFFICES ASSUME Bad # {} PROVE FALSE
      OBVIOUS
    <2>1. PICK k \in Bad : \A j \in Bad : k <= j
      BY LeastNumber
    <2>2. k \in Nat \ {0} /\ k - 1 \in Nat /\ k - 1 \notin Bad
      BY <2>1, <1>1
    <2> QED BY <2>1, <2>2, <1>2
  <1>4. Some(N)
    BY <1>3
  <1> QED BY <1>4 DEF Some

\* PutAll ends in the last of the states Putchar goes through.
LEMMA PutSteps ==
    ASSUME NEW s, NEW text, Len(text) \in Nat
    PROVE  \E f : IsPut(f, s, text, Len(text)) /\ PutAll(s, text) = f[Len(text)]
  <1>1. PICK N \in Nat : N = Len(text)
    OBVIOUS
  <1> DEFINE Rec(f) == [n \in 0 .. N |-> IF n = 0 THEN s ELSE Putchar(f[n - 1], text[n])]
  <1>2. PICK g : IsPut(g, s, text, N)
    BY PutExists
  <1>3. g = Rec(g)
    <2>1. ASSUME NEW n \in 0 .. N
          PROVE  g[n] = IF n = 0 THEN s ELSE Putchar(g[n - 1], text[n])
      <3>1. CASE n = 0
        BY <3>1, <1>2 DEF IsPut
      <3>2. CASE n # 0
        <4>1. n \in 1 .. N
          BY <3>2
        <4> QED BY <4>1, <3>2, <1>2 DEF IsPut
      <3> QED BY <3>1, <3>2
    <2> QED BY <2>1, <1>2 DEF IsPut
  <1>4. PICK f : f = CHOOSE g1 : g1 = Rec(g1)
    OBVIOUS
  <1>5. f = Rec(f)
    <2> HIDE DEF Rec
    <2> QED BY <1>3, <1>4
  <1>6. f[0] = s
    BY <1>5
  <1>7. ASSUME NEW n \in 1 .. N PROVE f[n] = Putchar(f[n - 1], text[n])
    <2>1. n \in 0 .. N /\ n # 0
      OBVIOUS
    <2> QED BY <2>1, <1>5
  <1>8. f = [i \in 0 .. N |-> f[i]]
    BY <1>5
  <1>9. PutAll(s, text) = f[Len(text)]
    BY <1>1, <1>4 DEF PutAll
  <1> HIDE DEF Rec
  <1>10. IsPut(f, s, text, Len(text))
    BY <1>1, <1>6, <1>7, <1>8 DEF IsPut
  <1> QED BY <1>9, <1>10

\* g is the page after each of N characters
IsWritten(g, s, text, N) ==
    /\ g = [i \in 0 .. N |-> g[i]]
    /\ g[0] = s /\ \A n \in 1 .. N : g[n] = Written(g[n - 1], text[n])

\* There is a function with the pages Written goes through.
LEMMA WrittenExists ==
    ASSUME NEW s, NEW text, NEW N \in Nat
    PROVE  \E g : IsWritten(g, s, text, N)
  <1> DEFINE Some(k) == \E g : IsWritten(g, s, text, k)
             Bad == {k \in Nat : ~Some(k)}
  <1>1. Some(0)
    <2> DEFINE g == [i \in 0 .. 0 |-> s]
    <2>1. g = [i \in 0 .. 0 |-> g[i]]
      OBVIOUS
    <2>2. g[0] = s /\ \A n \in 1 .. 0 : g[n] = Written(g[n - 1], text[n])
      OBVIOUS
    <2> HIDE DEF g
    <2> QED BY <2>1, <2>2 DEF IsWritten
  <1>2. ASSUME NEW k \in Nat \ {0}, Some(k - 1)
        PROVE  Some(k)
    <2>1. PICK g : /\ g = [i \in 0 .. (k - 1) |-> g[i]]
                   /\ g[0] = s /\ \A n \in 1 .. (k - 1) : g[n] = Written(g[n - 1], text[n])
      BY <1>2 DEF IsWritten
    <2> DEFINE h == [i \in 0 .. k |-> IF i < k THEN g[i] ELSE Written(g[k - 1], text[k])]
    <2>2. h = [i \in 0 .. k |-> h[i]]
      OBVIOUS
    <2>3. h[0] = s
      BY <2>1
    <2>4. ASSUME NEW n \in 1 .. k PROVE h[n] = Written(h[n - 1], text[n])
      <3>1. CASE n < k
        <4>1. h[n] = g[n] /\ h[n - 1] = g[n - 1] /\ n \in 1 .. (k - 1)
          BY <3>1
        <4> QED BY <4>1, <2>1
      <3>2. CASE n = k
        BY <3>2
      <3> QED BY <3>1, <3>2
    <2> HIDE DEF h
    <2>5. IsWritten(h, s, text, k)
      BY <2>2, <2>3, <2>4 DEF IsWritten
    <2> QED BY <2>5
  <1> HIDE DEF Some
  <1>3. Bad = {}
    <2> SUFFICES ASSUME Bad # {} PROVE FALSE
      OBVIOUS
    <2>1. PICK k \in Bad : \A j \in Bad : k <= j
      BY LeastNumber
    <2>2. k \in Nat \ {0} /\ k - 1 \in Nat /\ k - 1 \notin Bad
      BY <2>1, <1>1
    <2> QED BY <2>1, <2>2, <1>2
  <1>4. Some(N)
    BY <1>3
  <1> QED BY <1>4 DEF Some

\* WrittenAll ends in the last of the pages Written goes through.
LEMMA WrittenSteps ==
    ASSUME NEW s, NEW text, Len(text) \in Nat
    PROVE  \E f : /\ IsWritten(f, s, text, Len(text))
                  /\ WrittenAll(s, text) = IF f[Len(text)].calm THEN f[Len(text)] ELSE Forgotten
  <1>1. PICK N \in Nat : N = Len(text)
    OBVIOUS
  <1> DEFINE Rec(f) == [n \in 0 .. N |-> IF n = 0 THEN s ELSE Written(f[n - 1], text[n])]
  <1>2. PICK g : IsWritten(g, s, text, N)
    BY WrittenExists
  <1>3. g = Rec(g)
    <2>1. ASSUME NEW n \in 0 .. N
          PROVE  g[n] = IF n = 0 THEN s ELSE Written(g[n - 1], text[n])
      <3>1. CASE n = 0
        BY <3>1, <1>2 DEF IsWritten
      <3>2. CASE n # 0
        <4>1. n \in 1 .. N
          BY <3>2
        <4> QED BY <4>1, <3>2, <1>2 DEF IsWritten
      <3> QED BY <3>1, <3>2
    <2> QED BY <2>1, <1>2 DEF IsWritten
  <1>4. PICK f : f = CHOOSE g1 : g1 = Rec(g1)
    OBVIOUS
  <1>5. f = Rec(f)
    <2> HIDE DEF Rec
    <2> QED BY <1>3, <1>4
  <1>6. f[0] = s
    BY <1>5
  <1>7. ASSUME NEW n \in 1 .. N PROVE f[n] = Written(f[n - 1], text[n])
    <2>1. n \in 0 .. N /\ n # 0
      OBVIOUS
    <2> QED BY <2>1, <1>5
  <1>8. f = [i \in 0 .. N |-> f[i]]
    BY <1>5
  <1>9. WrittenAll(s, text) = IF f[Len(text)].calm THEN f[Len(text)] ELSE Forgotten
    BY <1>1, <1>4 DEF WrittenAll
  <1> HIDE DEF Rec
  <1>10. IsWritten(f, s, text, Len(text))
    BY <1>1, <1>6, <1>7, <1>8 DEF IsWritten
  <1> QED BY <1>9, <1>10

\* A text of any length, on the screen and on the page.
LEMMA TextShows ==
    ASSUME NEW t, NEW p, p.calm => Shows(t, p), NEW text, Len(text) \in Nat,
           NEW t1, t1 = PutAll(t, text), NEW p1, p1 = WrittenAll(p, text), p1.calm
    PROVE  Shows(t1, p1)
  <1>1. PICK N \in Nat : N = Len(text)
    OBVIOUS
  <1>2. PICK f : IsPut(f, t, text, N) /\ t1 = f[N]
    BY <1>1, PutSteps
  <1>3. PICK g : IsWritten(g, p, text, N) /\ p1 = IF g[N].calm THEN g[N] ELSE Forgotten
    BY <1>1, WrittenSteps
  <1>4. p1 = g[N] /\ g[N].calm
    BY <1>3 DEF Forgotten
  <1> DEFINE Bad == {n \in 0 .. N : ~(g[n].calm => Shows(f[n], g[n]))}
  <1>5. Bad = {}
    <2> SUFFICES ASSUME Bad # {} PROVE FALSE
      OBVIOUS
    <2>1. PICK n \in Bad : \A j \in Bad : n <= j
      <3>1. Bad \subseteq Nat
        OBVIOUS
      <3> HIDE DEF Bad
      <3> QED BY <3>1, LeastNumber
    <2>2. n # 0
      BY <2>1, <1>2, <1>3 DEF IsPut, IsWritten
    <2>3. n \in 1 .. N /\ n - 1 \in 0 .. N /\ n - 1 \notin Bad
      BY <2>1, <2>2
    <2>4. PICK a, b, c, d, ch : a = f[n - 1] /\ b = g[n - 1] /\ c = f[n] /\ d = g[n] /\ ch = text[n]
      OBVIOUS
    <2>5. c = Putchar(a, ch) /\ d = Written(b, ch)
      BY <2>3, <2>4, <1>2, <1>3 DEF IsPut, IsWritten
    <2>6. b.calm => Shows(a, b)
      BY <2>3, <2>4
    <2>7. ASSUME d.calm PROVE Shows(c, d)
      BY ONLY <2>5, <2>6, <2>7, PutcharShows, Zenon
    <2> QED BY <2>1, <2>4, <2>7
  <1>6. N \notin Bad /\ N \in 0 .. N
    BY <1>5
  <1> QED BY <1>2, <1>4, <1>6

-----------------------------------------------------------------------------
(* Numbers as text.                                                        *)

Digits == {hex_chars[k] : k \in Int}

\* the digits of v, given those of the numbers before
DigitsOf(g, v) == IF v < 10 THEN <<hex_chars[v + 1]>>
                  ELSE Append(g[v \div 10], hex_chars[(v % 10) + 1])

\* g has the digits of the numbers up to k
AreDigits(g, k) ==
    /\ g = [v \in 0 .. k |-> g[v]]
    /\ \A v \in 0 .. k : g[v] = DigitsOf(g, v)

\* The recursion of print_uint goes down.
LEMMA TenthIsLess ==
    ASSUME NEW v \in Nat, ~(v < 10)
    PROVE  v \div 10 \in Nat /\ v \div 10 < v
  OBVIOUS

\* There is a function that gives the digits of every number up to N.
LEMMA DigitsExist ==
    ASSUME NEW N \in Nat
    PROVE  \E g : AreDigits(g, N)
  <1> DEFINE Some(k) == \E g : AreDigits(g, k)
             Bad == {k \in Nat : ~Some(k)}
  <1>1. Some(0)
    <2> DEFINE g == [v \in 0 .. 0 |-> <<hex_chars[v + 1]>>]
    <2>1. g = [v \in 0 .. 0 |-> g[v]] /\ \A v \in 0 .. 0 : g[v] = DigitsOf(g, v)
      BY DEF DigitsOf
    <2> HIDE DEF g
    <2> QED BY <2>1 DEF AreDigits
  <1>2. ASSUME NEW k \in Nat \ {0}, Some(k - 1)
        PROVE  Some(k)
    <2>1. PICK g : /\ g = [v \in 0 .. (k - 1) |-> g[v]]
                   /\ \A v \in 0 .. (k - 1) : g[v] = DigitsOf(g, v)
      BY <1>2 DEF AreDigits
    <2> DEFINE h == [v \in 0 .. k |-> IF v < k THEN g[v] ELSE DigitsOf(g, k)]
    <2>2. h = [v \in 0 .. k |-> h[v]]
      OBVIOUS
    <2>3. ASSUME NEW v \in 0 .. k PROVE h[v] = DigitsOf(h, v)
      <3>1. h[v] = DigitsOf(g, v)
        <4>1. CASE v < k
          <5>1. v \in 0 .. (k - 1) /\ h[v] = g[v]
            BY <4>1
          <5> QED BY <5>1, <2>1
        <4>2. CASE v = k
          BY <4>2
        <4> QED BY <4>1, <4>2
      <3>2. DigitsOf(h, v) = DigitsOf(g, v)
        <4>1. CASE v < 10
          BY <4>1 DEF DigitsOf
        <4>2. CASE ~(v < 10)
          <5>1. PICK w \in Nat : w = v \div 10 /\ w < v
            BY <4>2, TenthIsLess
          <5>2. h[w] = g[w]
            BY <5>1
          <5> HIDE DEF h
          <5> QED BY <4>2, <5>1, <5>2 DEF DigitsOf
        <4> QED BY <4>1, <4>2
      <3> HIDE DEF h
      <3> QED BY <3>1, <3>2
    <2> HIDE DEF h
    <2>4. AreDigits(h, k)
      BY <2>2, <2>3 DEF AreDigits
    <2> QED BY <2>4
  <1> HIDE DEF Some
  <1>3. Bad = {}
    <2> SUFFICES ASSUME Bad # {} PROVE FALSE
      OBVIOUS
    <2>1. PICK k \in Bad : \A j \in Bad : k <= j
      BY LeastNumber
    <2>2. k \in Nat \ {0} /\ k - 1 \in Nat /\ k - 1 \notin Bad
      BY <2>1, <1>1
    <2> QED BY <2>1, <2>2, <1>2
  <1>4. Some(N)
    BY <1>3
  <1> QED BY <1>4 DEF Some

\* print_uint prints a sequence of digits.
LEMMA UintIsText ==
    ASSUME NEW value \in Nat
    PROVE  print_uint(value) \in Seq(Digits)
  <1> DEFINE Rec(f) == [v \in 0 .. value |-> DigitsOf(f, v)]
  <1>1. PICK g : AreDigits(g, value)
    BY DigitsExist
  <1>2. g = Rec(g)
    BY <1>1 DEF AreDigits
  <1>3. PICK f : f = CHOOSE g1 : g1 = Rec(g1)
    OBVIOUS
  <1>4. f = Rec(f)
    <2> HIDE DEF Rec
    <2> QED BY <1>2, <1>3
  <1>5. print_uint(value) = f[value]
    BY <1>3 DEF print_uint, DigitsOf
  <1>6. \A v \in 0 .. value : f[v] = DigitsOf(f, v)
    BY <1>4
  <1> HIDE DEF Rec
  <1> DEFINE Bad == {v \in 0 .. value : f[v] \notin Seq(Digits)}
  <1>7. \A k \in Int : hex_chars[k] \in Digits
    BY DEF Digits
  <1>8. Bad = {}
    <2> SUFFICES ASSUME Bad # {} PROVE FALSE
      OBVIOUS
    <2>1. PICK v \in Bad : \A j \in Bad : v <= j
      <3>1. Bad \subseteq Nat
        OBVIOUS
      <3> HIDE DEF Bad
      <3> QED BY <3>1, LeastNumber
    <2>2. v \in Nat /\ v \in 0 .. value /\ f[v] = DigitsOf(f, v) /\ f[v] \notin Seq(Digits)
      BY <2>1, <1>6
    <2> HIDE DEF Bad
    <2>3. CASE v < 10
      <3>1. PICK ch \in Digits : ch = hex_chars[v + 1]
        BY <2>2, <1>7
      <3>2. f[v] = <<ch>>
        BY <2>2, <2>3, <3>1 DEF DigitsOf
      <3>3. <<ch>> \in Seq(Digits)
        OBVIOUS
      <3> QED BY <2>2, <3>2, <3>3
    <2>4. CASE ~(v < 10)
      <3>1. PICK w \in Nat : w = v \div 10 /\ w < v
        BY <2>2, <2>4, TenthIsLess
      <3>2. w \in 0 .. value /\ w \notin Bad
        BY <2>1, <2>2, <3>1
      <3>3. f[w] \in Seq(Digits)
        BY <3>2 DEF Bad
      <3>4. PICK ch \in Digits : ch = hex_chars[(v % 10) + 1]
        BY <2>2, <1>7
      <3>5. f[v] = Append(f[w], ch)
        BY <2>2, <2>4, <3>1, <3>4 DEF DigitsOf
      <3>6. Append(f[w], ch) \in Seq(Digits)
        BY <3>3, AppendProperties
      <3> QED BY <2>2, <3>5, <3>6
    <2> QED BY <2>2, <2>3, <2>4
  <1> QED BY <1>5, <1>8

\* So do the others.
LEMMA IntIsText ==
    ASSUME NEW value \in Int
    PROVE  Len(print_int(value)) \in Nat
  <1>1. CASE value < 0
    <2>1. print_uint(-value) \in Seq(Digits)
      BY <1>1, UintIsText
    <2>2. PICK u : u = print_uint(-value)
      OBVIOUS
    <2>3. u \in Seq(Digits \cup {"-"}) /\ <<"-">> \in Seq(Digits \cup {"-"})
      BY <2>1, <2>2
    <2>4. <<"-">> \o u \in Seq(Digits \cup {"-"})
      BY <2>3, ConcatProperties
    <2>5. Len(<<"-">> \o u) \in Nat
      BY <2>4, LenProperties
    <2> QED BY <1>1, <2>2, <2>5 DEF print_int
  <1>2. CASE ~(value < 0)
    <2>1. print_uint(value) \in Seq(Digits)
      BY <1>2, UintIsText
    <2> QED BY <1>2, <2>1, LenProperties DEF print_int
  <1> QED BY <1>1, <1>2

\* What print_hex puts out is a text.
LEMMA HexIsText ==
    ASSUME NEW value
    PROVE  Len(print_hex(value)) \in Nat
  <1>1. PICK h : h = [i \in 1 .. HEX_DIGITS |->
                        hex_chars[((value \div 16 ^ (HEX_DIGITS - i)) % 16) + 1]]
    OBVIOUS
  <1>2. HEX_DIGITS \in Nat /\ h = [i \in 1 .. HEX_DIGITS |-> h[i]]
    BY <1>1, ConsoleAssumption
  <1>3. PICK S : S = {"0", "x"} \cup {h[i] : i \in 1 .. HEX_DIGITS}
    OBVIOUS
  <1>4. h \in [1 .. HEX_DIGITS -> S]
    BY <1>2, <1>3
  <1>5. h \in Seq(S)
    BY <1>2, <1>4, SeqDef
  <1>6. <<"0", "x">> \in Seq(S)
    BY <1>3
  <1>7. <<"0", "x">> \o h \in Seq(S)
    BY <1>5, <1>6, ConcatProperties
  <1>8. print_hex(value) = <<"0", "x">> \o h
    BY <1>1 DEF print_hex
  <1> QED BY <1>7, <1>8, LenProperties

-----------------------------------------------------------------------------
(* print.                                                                  *)

Percents(format) == {i \in DOMAIN format : format[i] = "%"}
Before(format, i) == {j \in Percents(format) : j < i}

\* an argument of the type the directive takes
Fits(letter, value) ==
    \/ letter = "d" /\ value \in Int
    \/ letter \in {"u", "n", "x"} /\ value \in Nat
    \/ letter = "s" /\ value \in Seq(STRING)

\* The calls the kernel's code makes: every % starts a directive that print
\* knows, a %lx has another character than % after it, and each directive has
\* an argument of its type.
PlainFormats ==
    \A c \in Prints :
        /\ c.format \in Seq(STRING)
        /\ Cardinality(Percents(c.format)) = Len(c.args)
        /\ \A i \in Percents(c.format) :
              LET value == c.args[Cardinality(Before(c.format, i)) + 1]
              IN  \/ i + 1 \in DOMAIN c.format /\ Fits(c.format[i + 1], value)
                  \/ /\ i + 3 \in DOMAIN c.format
                     /\ c.format[i + 1] = "l" /\ c.format[i + 2] = "x" /\ c.format[i + 3] # "%"
                     /\ value \in Nat

\* print has taken an argument for each % behind it.
InFormat ==
    /\ pos \in Nat
    /\ Printing => /\ call \in Prints
                   /\ pos <= Len(Format) + 1
                   /\ arg = Cardinality(Before(Format, pos))

\* The screen is as ScreenShowsTail says, and the page is a page.
OnScreen == page.calm => Shows(term, page)

IInv == InFormat /\ OnScreen

\* A format has finitely many %, and no more of them lie before a place.
LEMMA PercentsFinite ==
    ASSUME NEW format \in Seq(STRING), NEW i
    PROVE  /\ Percents(format) \subseteq Nat /\ IsFiniteSet(Percents(format))
           /\ IsFiniteSet(Before(format, i))
           /\ Cardinality(Before(format, i)) \in Nat
           /\ Cardinality(Before(format, i)) <= Cardinality(Percents(format))
  <1>1. PICK L \in Nat : L = Len(format) /\ DOMAIN format = 1 .. L
    BY LenProperties
  <1>2. IsFiniteSet(1 .. L) /\ Percents(format) \subseteq 1 .. L
    BY <1>1, FS_Interval DEF Percents
  <1>3. IsFiniteSet(Percents(format)) /\ Percents(format) \subseteq Nat
    BY <1>2, FS_Subset
  <1>4. Before(format, i) \subseteq Percents(format)
    BY DEF Before
  <1> QED BY <1>3, <1>4, FS_Subset, FS_CardinalityType

\* One more % behind print, or none.
LEMMA OneMorePercent ==
    ASSUME NEW format \in Seq(STRING), NEW i \in Percents(format), NEW k \in Nat, i < k,
           \A j \in Percents(format) : i < j => k <= j
    PROVE  Cardinality(Before(format, k)) = Cardinality(Before(format, i)) + 1
  <1>1. Percents(format) \subseteq Nat /\ IsFiniteSet(Before(format, i))
    BY PercentsFinite
  <1>2. Before(format, k) = Before(format, i) \cup {i} /\ i \notin Before(format, i)
    BY <1>1 DEF Before
  <1> QED BY <1>1, <1>2, FS_AddElement

\* What a directive puts out for an argument of its type is a text.
LEMMA ShownIsText ==
    ASSUME NEW letter, NEW value, Fits(letter, value)
    PROVE  Len(Shown(letter, value)) \in Nat
  <1>1. CASE letter = "d" /\ value \in Int
    BY <1>1, IntIsText DEF Shown
  <1>2. CASE letter \in {"u", "n"} /\ value \in Nat
    <2>1. Shown(letter, value) = print_uint(value)
      BY <1>2 DEF Shown
    <2>2. print_uint(value) \in Seq(Digits)
      BY <1>2, UintIsText
    <2> QED BY <2>1, <2>2, LenProperties
  <1>3. CASE letter = "x"
    <2>1. Shown(letter, value) = print_hex(value)
      BY <1>3 DEF Shown
    <2> QED BY <2>1, HexIsText
  <1>4. CASE letter = "s" /\ value \in Seq(STRING)
    <2>1. Shown(letter, value) = value
      BY <1>4 DEF Shown
    <2> QED BY <2>1, <1>4, LenProperties
  <1> QED BY <1>1, <1>2, <1>3, <1>4 DEF Fits

\* What a call in progress looks like.
LEMMA InCall ==
    ASSUME PlainFormats, InFormat, Printing
    PROVE  /\ Format \in Seq(STRING) /\ Len(Format) \in Nat /\ DOMAIN Format = 1 .. Len(Format)
           /\ pos \in 1 .. Len(Format) + 1 /\ arg \in Nat
           /\ Len(call.args) \in Nat /\ Cardinality(Percents(Format)) = Len(call.args)
           /\ Percents(Format) \subseteq Nat
  <1>1. call.format \in Seq(STRING) /\ Cardinality(Percents(call.format)) = Len(call.args)
    BY DEF InFormat, PlainFormats
  <1>2. Len(call.format) \in Nat /\ DOMAIN call.format = 1 .. Len(call.format)
    BY <1>1, LenProperties
  <1>3. /\ Cardinality(Before(call.format, pos)) \in Nat /\ Percents(call.format) \subseteq Nat
        /\ IsFiniteSet(Percents(call.format))
    BY <1>1, PercentsFinite
  <1>4. Len(call.args) \in Nat
    BY <1>1, <1>3, FS_CardinalityType
  <1> QED BY <1>1, <1>2, <1>3, <1>4 DEF InFormat, Printing, Format

\* print at a %.
LEMMA AtPercent ==
    ASSUME PlainFormats, InFormat, InDirective
    PROVE  /\ pos \in Percents(Format) /\ arg = Cardinality(Before(Format, pos))
           /\ \/ pos + 1 \in DOMAIN Format /\ Fits(Format[pos + 1], call.args[arg + 1])
              \/ /\ pos + 3 \in DOMAIN Format
                 /\ Format[pos + 1] = "l" /\ Format[pos + 2] = "x" /\ Format[pos + 3] # "%"
  <1>1. Printing /\ ~Ended /\ Format[pos] = "%"
    BY DEF InDirective
  <1>2. pos \in DOMAIN Format
    BY <1>1, InCall DEF Ended
  <1>3. pos \in Percents(Format)
    BY <1>1, <1>2 DEF Percents
  <1>4. call \in Prints /\ arg = Cardinality(Before(Format, pos))
    BY <1>1 DEF InFormat
  <1>5. PICK a, f : a = call.args /\ f = call.format
    OBVIOUS
  <1>6. LET value == a[Cardinality(Before(f, pos)) + 1]
        IN  \/ pos + 1 \in DOMAIN f /\ Fits(f[pos + 1], value)
            \/ /\ pos + 3 \in DOMAIN f
               /\ f[pos + 1] = "l" /\ f[pos + 2] = "x" /\ f[pos + 3] # "%"
               /\ value \in Nat
    BY <1>3, <1>4, <1>5 DEF PlainFormats, Format
  <1> QED BY <1>3, <1>4, <1>5, <1>6 DEF Format

\* Text that goes out keeps the screen and the page together.
LEMMA OutputsShows ==
    ASSUME OnScreen, NEW text, Len(text) \in Nat, NEW n, NEW a, Outputs(text, n, a)
    PROVE  OnScreen'
  <1>1. PICK t, p, t1, p1 : t = term /\ p = page /\ t1 = term' /\ p1 = page'
    OBVIOUS
  <1>2. t1 = PutAll(t, text) /\ p1 = WrittenAll(p, text)
    BY <1>1 DEF Outputs
  <1>3. p.calm => Shows(t, p)
    BY <1>1 DEF OnScreen
  <1>4. ASSUME p1.calm PROVE Shows(t1, p1)
    BY ONLY <1>2, <1>3, <1>4, Len(text) \in Nat, TextShows, Zenon
  <1> QED BY <1>1, <1>4 DEF OnScreen

\* Stepping over the directive takes its argument.
LEMMA OutputsDirective ==
    ASSUME PlainFormats, InFormat, InDirective, NEW text, NEW n \in 1 .. 4, Outputs(text, n, 1),
           pos + n <= Len(Format) + 1,
           \A j \in pos + 1 .. pos + n - 1 : Format[j] # "%"
    PROVE  InFormat'
  <1>1. Printing /\ pos \in Percents(Format) /\ arg = Cardinality(Before(Format, pos))
    BY AtPercent DEF InDirective
  <1>2. /\ Format \in Seq(STRING) /\ pos \in 1 .. Len(Format) + 1 /\ Len(Format) \in Nat
        /\ Percents(Format) \subseteq Nat
    BY <1>1, InCall
  <1>3. PICK k \in Nat : k = pos + n /\ pos < k
    BY <1>2
  <1>4. ASSUME NEW j \in Percents(Format), pos < j PROVE k <= j
    <2>1. j \in Nat /\ Format[j] = "%"
      BY <1>2 DEF Percents
    <2> QED BY <2>1, <1>2, <1>3, <1>4
  <1>5. Cardinality(Before(Format, k)) = arg + 1
    BY <1>1, <1>2, <1>3, <1>4, OneMorePercent
  <1>6. pos' = k /\ arg' = arg + 1 /\ call' = call
    BY <1>3 DEF Outputs
  <1>7. Format' = Format
    BY <1>6 DEF Format
  <1>8. call \in Prints
    BY <1>1 DEF InFormat
  <1> QED BY <1>2, <1>3, <1>5, <1>6, <1>7, <1>8 DEF InFormat, Printing

\* Every step of print, for the formats of the kernel's code.
LEMMA NextKeeps ==
    ASSUME PlainFormats, IInv, [Next]_vars
    PROVE  IInv'
  <1> USE DEF IInv
  <1>1. CASE Call
    <2>1. InFormat'
      <3>1. PICK c \in Prints : call' = c /\ pos' = 1 /\ arg' = 0
        BY <1>1 DEF Call
      <3>2. c.format \in Seq(STRING)
        BY <3>1 DEF PlainFormats
      <3>3. Len(c.format) \in Nat /\ Percents(c.format) \subseteq 1 .. Len(c.format)
        BY <3>2, LenProperties DEF Percents
      <3>4. Before(c.format, 1) = {}
        BY <3>3 DEF Before
      <3>5. Cardinality(Before(c.format, 1)) = 0
        BY <3>4, FS_EmptySet
      <3> QED BY <3>1, <3>3, <3>5 DEF InFormat, Printing, Format
    <2> QED BY <2>1, <1>1 DEF Call, OnScreen
  <1>2. CASE PrintText
    <2>1. Printing /\ ~Ended /\ Format[pos] # "%" /\ Outputs(<<Format[pos]>>, 1, 0)
      BY <1>2 DEF PrintText
    <2>2. Len(<<Format[pos]>>) \in Nat
      OBVIOUS
    <2>3. OnScreen'
      BY <2>1, <2>2, OutputsShows
    <2>4. /\ pos \in 1 .. Len(Format) /\ Len(Format) \in Nat /\ arg \in Nat
          /\ Percents(Format) \subseteq Nat
      BY <2>1, InCall DEF Ended
    <2>5. Before(Format, pos + 1) = Before(Format, pos)
      BY <2>1, <2>4 DEF Before, Percents
    <2>6. pos' = pos + 1 /\ arg' = arg /\ call' = call /\ Format' = Format
      BY <2>1, <2>4 DEF Outputs, Format
    <2> QED BY <2>1, <2>3, <2>4, <2>5, <2>6 DEF InFormat, Printing
  <1>3. CASE PrintArgument
    <2>1. InDirective /\ Letter \in {"d", "u", "n", "s", "x"} /\ Printing
      BY <1>3 DEF PrintArgument, InDirective
    <2>2. PICK text : text = Shown(Letter, call.args[arg + 1]) /\ Outputs(text, 2, 1)
      BY <1>3 DEF PrintArgument
    <2>3. pos \in 1 .. Len(Format) + 1 /\ Len(Format) \in Nat /\ DOMAIN Format = 1 .. Len(Format)
      BY <2>1, InCall
    <2>4. pos < Len(Format) /\ Letter = Format[pos + 1]
      BY <2>1, <2>3 DEF Letter
    <2>5. Fits(Letter, call.args[arg + 1])
      BY <2>1, <2>4, AtPercent
    <2>6. Len(text) \in Nat
      BY <2>2, <2>5, ShownIsText
    <2>7. \A j \in pos + 1 .. pos + 2 - 1 : Format[j] # "%"
      BY <2>1, <2>3, <2>4
    <2>8. InFormat'
      BY <2>1, <2>2, <2>3, <2>4, <2>7, OutputsDirective
    <2> QED BY <2>2, <2>6, <2>8, OutputsShows
  <1>4. CASE PrintLong
    <2>1. InDirective /\ Letter = "l" /\ Long /\ Printing
      BY <1>4 DEF PrintLong, InDirective
    <2>2. PICK text : text = print_hex(call.args[arg + 1]) /\ Outputs(text, 4, 1)
      BY <1>4 DEF PrintLong, AfterLong
    <2>3. pos \in 1 .. Len(Format) + 1 /\ Len(Format) \in Nat /\ DOMAIN Format = 1 .. Len(Format)
      BY <2>1, InCall
    <2>4. Letter = Format[pos + 1]
      BY <2>1 DEF Letter
    <2>5. ~Fits("l", call.args[arg + 1])
      BY DEF Fits
    <2>6. /\ pos + 3 \in DOMAIN Format
          /\ Format[pos + 1] = "l" /\ Format[pos + 2] = "x" /\ Format[pos + 3] # "%"
      BY <2>1, <2>4, <2>5, AtPercent
    <2>7. Len(text) \in Nat
      BY <2>2, HexIsText
    <2>8. ASSUME NEW j \in pos + 1 .. pos + 4 - 1 PROVE Format[j] # "%"
      <3>1. j = pos + 1 \/ j = pos + 2 \/ j = pos + 3
        BY <2>3
      <3> QED BY <3>1, <2>6
    <2>9. pos + 4 <= Len(Format) + 1
      BY <2>3, <2>6
    <2>10. InFormat'
      BY <2>1, <2>2, <2>8, <2>9, OutputsDirective
    <2> QED BY <2>2, <2>7, <2>10, OutputsShows
  <1>5. CASE PrintOther
    <2>1. InDirective /\ Printing
      BY <1>5 DEF PrintOther, InDirective
    <2>2. pos \in 1 .. Len(Format) + 1 /\ Len(Format) \in Nat /\ DOMAIN Format = 1 .. Len(Format)
      BY <2>1, InCall
    <2>3. \/ Letter \in {"d", "u", "n", "s", "x"}
          \/ Letter = "l" /\ Long
      <3>1. CASE pos + 1 \in DOMAIN Format /\ Fits(Format[pos + 1], call.args[arg + 1])
        BY <3>1, <2>2 DEF Fits, Letter
      <3>2. CASE pos + 3 \in DOMAIN Format /\ Format[pos + 1] = "l" /\ Format[pos + 2] = "x"
        BY <3>2, <2>2 DEF Letter, Long
      <3> QED BY <3>1, <3>2, <2>1, AtPercent
    <2> QED BY <2>3, <1>5 DEF PrintOther
  <1>6. CASE Return
    BY <1>6 DEF Return, InFormat, Printing, OnScreen
  <1>7. CASE Full \/ UNCHANGED vars
    BY <1>7 DEF Full, vars, InFormat, Printing, Format, OnScreen
  <1> QED BY <1>1, <1>2, <1>3, <1>4, <1>5, <1>6, <1>7 DEF Next

\* A blank screen is an empty page.
LEMMA InitShows ==
    ASSUME Init
    PROVE  IInv
  <1>1. InFormat
    BY DEF Init, InFormat, Printing
  <1>2. PICK t, p, l : t = term /\ p = page /\ l = <<NewLine>>
    OBVIOUS
  <1>3. /\ t = [screen |-> [y \in Rows |-> BlankRow], x |-> 0, y |-> 0]
        /\ p = [lines |-> l, col |-> 0, calm |-> TRUE]
    BY <1>2 DEF Init
  <1>4. l = [k \in 1 .. 1 |-> l[k]] /\ l[1] = NewLine /\ Len(l) = 1
    BY <1>2
  <1>5. AreLines(l, 1)
    BY <1>4, EmptyLine DEF AreLines
  <1>6. IsTerm(t) /\ \A y \in Rows : t.screen[y] = BlankRow
    BY <1>3 DEF IsTerm, BlankRow
  <1>7. Placed(t.screen, l, 1)
    <2>1. ASSUME NEW y \in Rows, NEW k \in 1 .. 1
          PROVE  t.screen[y] = Drawn(l[k], y - Top(1, k))
      BY <1>4, <1>6, EmptyLine
    <2> QED BY <2>1, <1>6 DEF Placed
  <1>8. DrawnAt(1) = 0
    BY Sizes, FirstRow
  <1>9. 0 \in 0 .. COLS - 1
    BY ConsoleAssumption
  <1>10. /\ p.lines = l /\ p.col = 0 /\ p.calm = TRUE
         /\ p = [lines |-> p.lines, col |-> p.col, calm |-> p.calm]
    BY <1>3
  <1>11. Shows(t, p)
    BY <1>3, <1>4, <1>5, <1>6, <1>7, <1>8, <1>9, <1>10 DEF Shows
  <1> QED BY <1>1, <1>2, <1>11 DEF IInv, OnScreen

\* For the formats of the kernel's code, print never steps past the end of its
\* format and takes each argument once, of the type its directive has: the
\* character that %lx swallows is never the terminating zero.
THEOREM PrintAlwaysStopsAtEnd ==
    ASSUME PlainFormats PROVE Spec => []PrintStopsAtEnd
  <1>1. IInv => PrintStopsAtEnd
    <2> SUFFICES ASSUME InFormat, Printing
                 PROVE  /\ pos <= Len(Format) + 1 /\ arg <= Len(call.args)
                        /\ Ended => arg = Len(call.args)
      BY DEF IInv, PrintStopsAtEnd
    <2>1. /\ Format \in Seq(STRING) /\ Len(Format) \in Nat /\ DOMAIN Format = 1 .. Len(Format)
          /\ pos \in 1 .. Len(Format) + 1
          /\ Cardinality(Percents(Format)) = Len(call.args)
      BY InCall
    <2>2. arg = Cardinality(Before(Format, pos))
      BY DEF InFormat
    <2>3. arg <= Len(call.args)
      BY <2>1, <2>2, PercentsFinite
    <2>4. ASSUME Ended PROVE arg = Len(call.args)
      <3>1. Before(Format, pos) = Percents(Format)
        BY <2>1, <2>4 DEF Before, Percents, Ended
      <3> QED BY <3>1, <2>1, <2>2
    <2> QED BY <2>1, <2>3, <2>4
  <1>2. IInv /\ [Next]_vars => IInv'
    BY NextKeeps
  <1> QED BY <1>1, <1>2, InitShows, PTL DEF Spec

\* For every height of the screen and the font, every width and every sequence
\* of calls whose lines stay off the right edge: the screen shows the end of the
\* text, each line whole and in order, and the cursor is where the next
\* character belongs.
THEOREM ScreenAlwaysShowsTail ==
    ASSUME PlainFormats PROVE Spec => []ScreenShowsTail
  <1>1. IInv => ScreenShowsTail
    <2> SUFFICES ASSUME OnScreen, page.calm
                 PROVE  /\ term.screen = Layout(page.lines)
                        /\ term.x = page.col /\ term.y = DrawnAt(Len(page.lines))
      BY DEF IInv, ScreenShowsTail
    <2>1. Shows(term, page)
      BY DEF OnScreen
    <2>2. PICK n \in Nat : n = Len(page.lines)
      BY <2>1 DEF Shows, AreLines
    <2>3. PICK screen : screen = term.screen
      OBVIOUS
    <2>4. screen = [y \in Rows |-> screen[y]] /\ Placed(screen, page.lines, n)
      BY <2>1, <2>2, <2>3 DEF Shows, IsTerm
    <2>5. PICK l : l = page.lines
      OBVIOUS
    <2>6. Len(l) = n /\ Placed(screen, l, n) /\ screen = [y \in Rows |-> screen[y]]
      BY <2>2, <2>4, <2>5
    <2>7. screen = Layout(l)
      BY ONLY <2>6, LayoutPlaced, n \in Nat
    <2> QED BY <2>1, <2>3, <2>5, <2>7 DEF Shows
  <1>2. IInv /\ [Next]_vars => IInv'
    BY NextKeeps
  <1> QED BY <1>1, <1>2, InitShows, PTL DEF Spec
============================================================================
