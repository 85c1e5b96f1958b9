------------------------------- MODULE Console -------------------------------
(***************************************************************************)
(* The console of sys/kprintf.c: a cursor on the text rows of the VGA      *)
(* memory, with the status row behind them.  A cell holds a character; its *)
(* attribute byte is always white and is left out, so Columns is half of   *)
(* MAX_SCREEN_WIDTH.                                                       *)
(*                                                                         *)
(* kprintf is the sequence of the pieces of its format: plain characters   *)
(* and %c, newlines, and the runs of characters that %s, %d, %x and %p     *)
(* write.  Each piece first asks getCurrentAddress where the cursor is,    *)
(* which scrolls if the cursor has left the text rows.                     *)
(***************************************************************************)
EXTENDS Naturals, Sequences

CONSTANTS
  Columns,            \* characters to a row: 80
  MAX_SCREEN_HEIGHT,  \* text rows: 24; the status row is the next one
  Chars,              \* characters that are printed, NUL among them
  NUL,                \* what scrolling fills a row with
  Runs,               \* what the conversions write in one go
  Loader,             \* what the boot loader left in a cell
  MaxRows             \* bound: rows that are printed

ASSUME ConsoleAssumption ==
  /\ Columns \in Nat /\ Columns > 0
  /\ MAX_SCREEN_HEIGHT \in Nat /\ MAX_SCREEN_HEIGHT > 1
  /\ NUL \in Chars
  /\ \A r \in Runs : r \in Seq(Chars) /\ Len(r) <= Columns
  /\ MaxRows \in Nat /\ MaxRows > MAX_SCREEN_HEIGHT

VARIABLES
  screen,          \* the cells, row by row, from the first of row 0
  current_height,
  current_width,   \* in cells
  paper,           \* history: the cells of a console that need not scroll
  position,        \* history: the cursor on it
  spilled          \* history: a run has crossed the end of the text rows

consoleVars ==
  <<screen, current_height, current_width, paper, position, spilled>>

TextCells  == Columns * MAX_SCREEN_HEIGHT
Cells      == 0..(TextCells + Columns - 1)
StatusRow  == TextCells..(TextCells + Columns - 1)
PaperCells == 0..(Columns * (MaxRows + 1) - 1)

-----------------------------------------------------------------------------
(* kprintf.c.                                                              *)

\* Two mutants: the new row keeps the text that was scrolled; the status row
\* scrolls too.
Scrolled_unblanked(cells) ==
  [c \in Cells |-> IF c \in StatusRow \/ c + Columns \in StatusRow THEN cells[c]
                   ELSE cells[c + Columns]]

Scrolled_status(cells) ==
  [c \in Cells |-> IF c \in StatusRow THEN NUL ELSE cells[c + Columns]]

\* One row up; the last text row becomes blank.  The status row stays.
Scrolled(cells) ==
  [c \in Cells |-> IF c \in StatusRow THEN cells[c]
                   ELSE IF c + Columns \in StatusRow THEN NUL
                   ELSE cells[c + Columns]]

\* A mutant: the scroll comes one row too late.
getCurrentAddress_late(cells, h, w) ==
  IF h > MAX_SCREEN_HEIGHT
  THEN [cells |-> Scrolled(cells), at |-> (MAX_SCREEN_HEIGHT - 1) * Columns]
  ELSE [cells |-> cells, at |-> h * Columns + w]

\* The screen after the scroll that a cursor in row h may need, and the address
\* of the cursor on it.
getCurrentAddress(cells, h, w) ==
  IF h > MAX_SCREEN_HEIGHT - 1
  THEN [cells |-> Scrolled(cells), at |-> (MAX_SCREEN_HEIGHT - 1) * Columns]
  ELSE [cells |-> cells, at |-> h * Columns + w]

UpdateHeightWidth(at) ==
  /\ current_height' = at \div Columns
  /\ current_width'  = at % Columns

Here == getCurrentAddress(screen, current_height, current_width)

Overwritten(cells, at, run) ==
  [c \in DOMAIN cells |-> IF c \in at..(at + Len(run) - 1)
                          THEN run[c - at + 1] ELSE cells[c]]

\* Writing characters from the cursor on, without another look at it:
\* HandleString, HandleSignedInt, HandleUnsignedInt and HandleAddress (which
\* starts with a NUL), and with one character HandleChar and
\* HandleEverythingElse.
WriteRun(run) ==
  /\ position + Len(run) \in PaperCells
  /\ screen' = Overwritten(Here.cells, Here.at, run)
  /\ UpdateHeightWidth(Here.at + Len(run))
  /\ paper' = Overwritten(paper, position, run)
  /\ position' = position + Len(run)
  /\ spilled' = (spilled \/ Here.at + Len(run) > TextCells)

\* kprintf has asked for the cursor before the newline is looked at; the newline
\* asks again, for the scroll.
HandleNewLine ==
  LET below  == (position \div Columns + 1) * Columns
      scroll == getCurrentAddress(Here.cells, Here.at \div Columns + 1, 0)
  IN
  /\ below \in PaperCells
  /\ screen' = scroll.cells
  /\ UpdateHeightWidth(scroll.at)
  /\ position' = below
  /\ UNCHANGED <<paper, spilled>>

kprintf_piece ==
  \/ \E c \in Chars : WriteRun(<<c>>)
  \/ \E r \in Runs : WriteRun(r)
  \/ HandleNewLine

\* boot() sets attributes only: the loader's characters stay on the screen.
ConsoleInit ==
  /\ screen = [c \in Cells |-> Loader]
  /\ current_height = 0 /\ current_width = 0
  /\ paper = [c \in PaperCells |-> IF c < TextCells THEN Loader ELSE NUL]
  /\ position = 0
  /\ spilled = FALSE

ConsoleSpec == ConsoleInit /\ [][kprintf_piece]_consoleVars

-----------------------------------------------------------------------------
Content == Chars \cup {NUL, Loader}

\* The first row of the paper that is on the screen.
TopRow == position \div Columns - current_height

\* The text rows are a window on the paper: nothing printed is lost, doubled or
\* moved by the scrolling, whatever the mixture of characters, newlines and
\* runs, unless a run crosses the end of the last row.  And the window moves no
\* earlier than it must.
ScreenShowsPaper ==
  ~spilled =>
    /\ current_width = position % Columns
    /\ \A c \in Cells \ StatusRow : screen[c] = paper[TopRow * Columns + c]
    /\ TopRow > 0 => current_height >= MAX_SCREEN_HEIGHT - 1

\* The status row belongs to the clock and the keyboard: printing and scrolling
\* leave it alone, unless a run crosses the end of the last text row.
StatusRowKept ==
  [][~spilled' =>
       \A c \in StatusRow : screen'[c] = screen[c]]_consoleVars

\* A cursor that a run has left on the status row writes nothing there.  The next piece
\* begins at the start of the last text row and leaves the cursor on that row, unless it
\* is a run of a whole row, which leaves it at the start of the status row once more;
\* and the rows above the last are again as they were, one or two rows up.
CursorComesBack ==
  [][current_height = MAX_SCREEN_HEIGHT =>
       /\ \/ current_height' = MAX_SCREEN_HEIGHT - 1
          \/ /\ current_height' = MAX_SCREEN_HEIGHT /\ current_width' = 0
             /\ position' = position + Columns
       /\ \A c \in StatusRow : screen'[c] = screen[c]
       /\ \A c \in 0..(TextCells - 2 * Columns - 1) :
            screen'[c] \in {screen[c + Columns], screen[c + 2 * Columns]}]_consoleVars
=============================================================================
