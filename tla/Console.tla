------------------------------ MODULE Console -------------------------------
(***************************************************************************)
(* The kernel's text output: print of lib/stdio.c, Putchar of              *)
(* graphics/terminal.c and put_pixel of graphics/graphics.c.               *)
(*                                                                         *)
(* The screen is kept row of pixels by row of pixels, because its height   *)
(* need not be a multiple of the font's; across, cursor_x is always a      *)
(* multiple of the font's width, so a column is one glyph wide.  A row of  *)
(* a glyph is the character and the number of the row.  term is the        *)
(* terminal's state; the operators return the one after the function of    *)
(* their name.  Beside it the history variable page keeps the text as      *)
(* somebody who never heard of pixels would.                               *)
(***************************************************************************)
EXTENDS Integers, Sequences

CONSTANTS
    HEIGHT,       \* of the frame buffer, in pixels
    COLS,         \* whole glyphs that fit next to each other
    FONT_HEIGHT,  \* of a glyph, in pixels
    HEX_DIGITS,   \* digits %x and %lx print (8 and 16)
    Prints,       \* the calls of print: a format and its arguments
    MAX_PRINTS    \* bound: calls of print

ASSUME ConsoleAssumption ==
    /\ FONT_HEIGHT \in Nat \ {0} /\ HEIGHT \in Nat /\ FONT_HEIGHT < HEIGHT
    /\ COLS \in Nat \ {0} /\ HEX_DIGITS \in Nat /\ MAX_PRINTS \in Nat

VARIABLES
    call,     \* the running print, or NoCall
    pos,      \* format: how far it has come, counted from 1; 0 outside print
    arg,      \* arguments taken so far
    prints,   \* calls of print so far
    term,     \* the frame buffer, cursor_x in columns, cursor_y in pixels
    page      \* history: the lines, the column, whether the text stayed calm

vars == <<call, pos, arg, prints, term, page>>

\* characters are one-letter names, but for LF, CR, BS and TAB; a column that
\* is cut off at the right, if there is one, is number COLS
Columns == 0 .. COLS
Rows == 0 .. HEIGHT - 1
Blank == "background"
Pixels(glyph, row) == IF glyph = Blank THEN <<Blank, 0>> ELSE <<glyph, row>>
BlankRow == [x \in Columns |-> Pixels(Blank, 0)]

-----------------------------------------------------------------------------
(* Putchar.                                                                *)

\* one glyph at the cursor, put_pixel leaving out what is off the screen
Draw(t, glyph) ==
    [t EXCEPT !.screen = [y \in Rows |->
        IF y \in t.y .. t.y + FONT_HEIGHT - 1
        THEN [x \in Columns |-> IF x = t.x THEN Pixels(glyph, y - t.y) ELSE @[y][x]]
        ELSE @[y]]]

\* mutant: the last line is not cleared
term_scroll_uncleared(t) ==
    [t EXCEPT !.screen = [y \in Rows |-> IF y + FONT_HEIGHT \in Rows THEN @[y + FONT_HEIGHT] ELSE @[y]]]

\* everything up by a line of text, the lowest one cleared
term_scroll(t) ==
    [t EXCEPT !.screen = [y \in Rows |-> IF y + FONT_HEIGHT \in Rows THEN @[y + FONT_HEIGHT] ELSE BlankRow]]

BelowScreen(y) == y + FONT_HEIGHT > HEIGHT
RightOfScreen(x) == x + 1 > COLS

ln(t) ==
    LET down == [t EXCEPT !.x = 0, !.y = @ + FONT_HEIGHT]
    IN  IF BelowScreen(down.y) THEN [term_scroll(down) EXCEPT !.y = HEIGHT - FONT_HEIGHT] ELSE down

backspace(t) ==
    LET back == [t EXCEPT !.x = IF @ >= 1 THEN @ - 1 ELSE 0]
    IN  Draw(back, Blank)

\* a tabulator over the right edge goes down a line and does not scroll
tab(t) ==
    IF RightOfScreen(t.x + 4) THEN [t EXCEPT !.x = 0, !.y = @ + FONT_HEIGHT] ELSE [t EXCEPT !.x = @ + 4]

\* at the right edge the screen scrolls and the cursor stays beyond it
glyph_at_cursor(t, c) ==
    LET drawn == [Draw(t, c) EXCEPT !.x = @ + 1]
        edge == IF RightOfScreen(drawn.x) THEN term_scroll(drawn) ELSE drawn
    IN  IF BelowScreen(edge.y) THEN term_scroll(edge) ELSE edge

Putchar(t, c) ==
    CASE c = "CR" -> [t EXCEPT !.x = 0]
      [] c = "LF" -> ln(t)
      [] c = "BS" -> backspace(t)
      [] c = "TAB" -> tab(t)
      [] OTHER -> glyph_at_cursor(t, c)

\* Putchar for one character after the other
PutAll(t, text) ==
    LET after[n \in 0 .. Len(text)] == IF n = 0 THEN t ELSE Putchar(after[n - 1], text[n])
    IN  after[Len(text)]

-----------------------------------------------------------------------------
(* The same text without a screen: lines of columns.  A text is calm as    *)
(* long as no glyph and no tabulator reaches the right edge.               *)

NewLine == [x \in 0 .. COLS - 1 |-> Blank]

Written(p, c) ==
    LET n == Len(p.lines)
        set(x, glyph) == [p EXCEPT !.lines[n][x] = glyph]
        left == IF p.col > 0 THEN p.col - 1 ELSE 0
    IN  CASE ~p.calm -> p
          [] p.calm /\ c = "CR" -> [p EXCEPT !.col = 0]
          [] p.calm /\ c = "LF" -> [p EXCEPT !.lines = Append(@, NewLine), !.col = 0]
          [] p.calm /\ c = "BS" -> [set(left, Blank) EXCEPT !.col = left]
          [] p.calm /\ c = "TAB" -> [p EXCEPT !.col = @ + 4, !.calm = @ /\ p.col + 5 <= COLS]
          [] OTHER -> [set(p.col, c) EXCEPT !.col = @ + 1, !.calm = @ /\ p.col + 2 <= COLS]

\* once it is not calm, nothing is known about the page
Forgotten == [lines |-> <<>>, col |-> 0, calm |-> FALSE]

WrittenAll(p, text) ==
    LET after[n \in 0 .. Len(text)] == IF n = 0 THEN p ELSE Written(after[n - 1], text[n])
        end == after[Len(text)]
    IN  IF end.calm THEN end ELSE Forgotten

-----------------------------------------------------------------------------
(* print.                                                                  *)

hex_chars == <<"0", "1", "2", "3", "4", "5", "6", "7", "8", "9", "A", "B", "C", "D", "E", "F">>

\* print_uint and print_u64, most significant digit first
print_uint(value) ==
    LET digits[v \in 0 .. value] ==
            IF v < 10 THEN <<hex_chars[v + 1]>>
            ELSE Append(digits[v \div 10], hex_chars[(v % 10) + 1])
    IN  digits[value]

print_int(value) == IF value < 0 THEN <<"-">> \o print_uint(-value) ELSE print_uint(value)

\* print_hex and print_u64_hex: a fixed number of digits
print_hex(value) ==
    <<"0", "x">> \o [i \in 1 .. HEX_DIGITS |-> hex_chars[((value \div 16 ^ (HEX_DIGITS - i)) % 16) + 1]]

\* what a directive with an argument prints
Shown(directive, value) ==
    CASE directive = "d" -> print_int(value)
      [] directive \in {"u", "n"} -> print_uint(value)
      [] directive = "s" -> value
      [] OTHER -> print_hex(value)

NoCall == [format |-> <<>>, args |-> <<>>]
Printing == pos > 0
Format == call.format
Ended == pos > Len(Format)

\* text goes to the terminal, the format by so many characters and arguments
\* further
Outputs(text, characters, arguments) ==
    /\ pos' = pos + characters
    /\ arg' = arg + arguments
    /\ term' = PutAll(term, text)
    /\ page' = WrittenAll(page, text)
    /\ UNCHANGED <<call, prints>>

PrintText == Printing /\ ~Ended /\ Format[pos] # "%" /\ Outputs(<<Format[pos]>>, 1, 0)

\* the character after the %, which may be missing
InDirective == Printing /\ ~Ended /\ Format[pos] = "%"
Letter == IF pos < Len(Format) THEN Format[pos + 1] ELSE "end"
Long == pos + 2 <= Len(Format) /\ Format[pos + 2] = "x"

PrintArgument ==
    /\ InDirective /\ Letter \in {"d", "u", "n", "s", "x"}
    /\ Outputs(Shown(Letter, call.args[arg + 1]), 2, 1)

\* mutant: over the next two characters
AfterLong_two == 5

\* format += 2 from the l, and the format++ of all directives: %lx and the
\* character after it
AfterLong == 4

PrintLong == InDirective /\ Letter = "l" /\ Long /\ Outputs(print_hex(call.args[arg + 1]), AfterLong, 1)

\* %l without x is printed, the character after it skipped; %% prints nothing;
\* an unknown directive is printed, the character after it skipped
PrintOther ==
    /\ InDirective
    /\ \/ Letter = "l" /\ ~Long /\ Outputs(<<"%", "l">>, 3, 0)
       \/ Letter = "%" /\ Outputs(<<>>, 2, 0)
       \/ Letter = "end" /\ Outputs(<<>>, 1, 0)
       \/ Letter \notin {"d", "u", "n", "s", "x", "l", "%", "end"}
          /\ Outputs(<<"%", Letter>>, 3, 0)

\* print returns
Return ==
    /\ Printing /\ Ended
    /\ call' = NoCall /\ pos' = 0 /\ arg' = 0
    /\ UNCHANGED <<prints, term, page>>

\* somebody calls print
Call ==
    /\ ~Printing /\ prints < MAX_PRINTS
    /\ call' \in Prints /\ pos' = 1 /\ arg' = 0
    /\ prints' = prints + 1
    /\ UNCHANGED <<term, page>>

\* the bound
Full == ~Printing /\ prints = MAX_PRINTS /\ UNCHANGED vars

\* init_graphics and term_init; the bootloader has filled the screen with the
\* background, its logo in the middle is left out
Init ==
    /\ call = NoCall /\ pos = 0 /\ arg = 0 /\ prints = 0
    /\ term = [screen |-> [y \in Rows |-> BlankRow], x |-> 0, y |-> 0]
    /\ page = [lines |-> <<NewLine>>, col |-> 0, calm |-> TRUE]

Next == Call \/ PrintText \/ PrintArgument \/ PrintLong \/ PrintOther \/ Return \/ Full

Spec == Init /\ [][Next]_vars

-----------------------------------------------------------------------------
(* Properties.                                                             *)

ROWS == HEIGHT \div FONT_HEIGHT
Least(a, b) == IF a <= b THEN a ELSE b

\* the pixel where line k is first drawn, and the scrolls there have been when
\* there are n lines
DrawnAt(k) == Least((k - 1) * FONT_HEIGHT, HEIGHT - FONT_HEIGHT)
Scrolls(n) == IF n <= ROWS THEN 0 ELSE n - ROWS

\* the screen on which each of the lines is where the scrolling since it was
\* drawn has taken it
Layout(lines) ==
    LET n == Len(lines)
        top(k) == DrawnAt(k) - FONT_HEIGHT * (Scrolls(n) - Scrolls(k))
        at(y) == {k \in 1 .. n : y \in top(k) .. top(k) + FONT_HEIGHT - 1}
        row(y, k) == [x \in Columns |-> Pixels(IF x = COLS THEN Blank ELSE lines[k][x], y - top(k))]
    IN  [y \in Rows |-> IF at(y) = {} THEN BlankRow ELSE row(y, CHOOSE k \in at(y) : TRUE)]

\* As long as no line reaches the right edge, the screen shows the end of the
\* text, every line whole and in order and nothing of older lines between
\* them, and the cursor is where the next character belongs, whether or not
\* the height is a multiple of the font's.  (A line that does reach the edge
\* scrolls the screen at every further character.)
ScreenShowsTail ==
    page.calm =>
        /\ term.screen = Layout(page.lines)
        /\ term.x = page.col
        /\ term.y = DrawnAt(Len(page.lines))

\* print stops at the end of its format, though it steps over the character
\* after %lx, and takes each of its arguments once: true for the formats the
\* kernel's code uses, all of which put a character after %lx.
PrintStopsAtEnd ==
    Printing =>
        /\ pos <= Len(Format) + 1
        /\ arg <= Len(call.args)
        /\ Ended => arg = Len(call.args)

=============================================================================
