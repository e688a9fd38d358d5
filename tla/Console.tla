------------------------------- MODULE Console -------------------------------
(***************************************************************************)
(* Text on the screen, kernel/drivers/vga.c: printc draws one character,   *)
(* prints and printsl a string.  The screen is a grid of cells of 8 by 16  *)
(* pixels; a cell holds the character it shows.  Colours are left out.     *)
(*                                                                         *)
(* The strings wrap when the column reaches fb_width, which is in pixels:  *)
(* a line is cut off at the edge of the screen long before it wraps, and   *)
(* the character at which it wraps is dropped.                             *)
(***************************************************************************)
EXTENDS Integers, Sequences, FiniteSets

CONSTANTS
  Width, Height,   \* the screen, in cells
  CellWidth,       \* pixels to a cell (8)
  Newline,         \* the character '\n'
  Negative,        \* the characters whose code is negative as a char
  Blank, Junk      \* the space, and what lies before the font

fb_width == Width * CellWidth

Columns == 0 .. (Width - 1)
Rows == 0 .. (Height - 1)

Empty == [y \in Rows |-> [x \in Columns |-> Blank]]

\* font_array + ch*16, ch a signed char.
Glyph(ch) == IF ch \in Negative THEN Junk ELSE ch

\* printc: pixel() draws nothing outside the screen.
printc(screen, x, y, ch) ==
  [r \in Rows |-> [c \in Columns |->
     IF r = y /\ c = x THEN Glyph(ch) ELSE screen[r][c]]]

\* A string being printed: what is left of it, and where the next character
\* goes.
Job(x, y, text) == [x |-> x, y |-> y, text |-> text]

Breaks(job) == Head(job.text) = Newline \/ job.x >= fb_width

\* Faulty variant: a new line starts where the string started.
NextJobIndented(job) ==
  Job(IF Breaks(job) THEN job.x ELSE job.x + 1,
      IF Breaks(job) THEN job.y + 1 ELSE job.y, Tail(job.text))

\* One round of the loop of prints and printsl.
NextJob(job) ==
  Job(IF Breaks(job) THEN 0 ELSE job.x + 1,
      IF Breaks(job) THEN job.y + 1 ELSE job.y, Tail(job.text))

Shown(screen, job) ==
  IF Breaks(job) THEN screen ELSE printc(screen, job.x, job.y, Head(job.text))

\* prints(x, y, text) as a whole.
prints(screen, x, y, text) ==
  LET after[n \in 0 .. Len(text)] ==
        IF n = 0 THEN [screen |-> screen, job |-> Job(x, y, text)]
        ELSE [screen |-> Shown(after[n - 1].screen, after[n - 1].job),
              job |-> NextJob(after[n - 1].job)]
  IN  after[Len(text)].screen

\* The reference for prints: a character belongs in the row of its line and the
\* column of its place in the line, if no line is longer than fb_width.
BreaksBefore(text, n) == {k \in 1 .. (n - 1) : text[k] = Newline}

LastOf(S) == CHOOSE k \in S : \A m \in S : m <= k

RowAt(y, text, n) == y + Cardinality(BreaksBefore(text, n))

ColumnAt(x, text, n) ==
  IF BreaksBefore(text, n) = {} THEN x + n - 1
  ELSE n - 1 - LastOf(BreaksBefore(text, n))

InPlace(screen, x, y, text) ==
  \A n \in DOMAIN text :
    /\ text[n] # Newline
    /\ RowAt(y, text, n) \in Rows
    /\ ColumnAt(x, text, n) \in Columns
    => screen[RowAt(y, text, n)][ColumnAt(x, text, n)] = Glyph(text[n])
=============================================================================
