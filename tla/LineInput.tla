----------------------------- MODULE LineInput -----------------------------
(***************************************************************************)
(* Lines from fgets, and what sbush does with them: main's loop on the     *)
(* standard input ("shell"), and executeFile, which opens its file twice,  *)
(* once to look at the first line and once to execute the others           *)
(* ("script").  fgets asks for a character at a time.                      *)
(*                                                                         *)
(* Some characters stand for text that is compared as a whole: "exit",     *)
(* "#!sbush" for the first line of a script of this shell, "#!other" for   *)
(* that of another one.  "xFF" is the byte that as a char equals EOF, "|"  *)
(* the bar between the commands of a pipe.                                 *)
(***************************************************************************)
EXTENDS HostRead

CONSTANTS
  BUFFER_SIZE,   \* room for a line of the shell
  LINE_SIZE      \* and of a script

\* A script's header, one character here, and its newline leave room in a line.
ASSUME LineAssumption ==
  /\ BUFFER_SIZE \in Nat \ {0, 1} /\ LINE_SIZE \in Nat \ 0..3
  /\ \A s \in Inputs : s.reader \in {"shell", "script"} /\ s.chars \in Seq(STRING)

VARIABLES
  source,    \* what is read, and by whom
  at,        \* characters taken
  buf,       \* characters of the call of fgets that is under way
  last,      \* what the last call returned
  pc,        \* what the caller will do with the line
  executed   \* the commands given to parseAndExecuteCommand

inputVars == <<source, at, buf, last, pc, executed>>

EOF == {"eot", "xFF"}

\* fgets returns no line without a character.
NULL == <<>>
Size == IF source.reader = "shell" THEN BUFFER_SIZE ELSE LINE_SIZE

-----------------------------------------------------------------------------
(* What the caller does with a line, or with NULL: where it goes on, and *)
(* whether it executes it.                                                 *)

Blank(line) == line = NULL \/ line[1] = "nl"

\* parsePipeCommand cuts a line at its first bar, in the buffer of its caller: here
\* nothing is left of it.
CutAway(line) == line # NULL /\ line[1] = "|"

shell_loop(line) ==
  /\ pc' = IF line = <<"exit", "nl">> THEN "exited" ELSE pc
  /\ executed' = IF Blank(line) \/ line = <<"exit", "nl">> THEN executed
                 ELSE Append(executed, line)

\* A mutant: blank lines are skipped where they end the script.
script_line_skip(line) ==
  /\ pc' = IF line = NULL \/ CutAway(line) THEN "done" ELSE pc
  /\ executed' = IF Blank(line) THEN executed ELSE Append(executed, line)

\* The loop looks at the line once more when it has been executed.
script_line(line) ==
  /\ pc' = IF Blank(line) \/ CutAway(line) THEN "done" ELSE pc
  /\ executed' = IF Blank(line) THEN executed ELSE Append(executed, line)

\* The first line without its last character; NULL is accessed.  For another shell's
\* script execve replaces this one, or fails.
script_header(line) ==
  /\ pc' \in CASE line = NULL -> {"crashed"}
               [] line # NULL /\ Front(line) = <<"#!sbush">> -> {"reopen"}
               [] line # NULL /\ Front(line) # <<"#!sbush">> ->
                    IF line[1] \in {"#!sbush", "#!other"} THEN {"replaced", "done"}
                    ELSE {"done"}
  /\ UNCHANGED executed

\* The first line again, which is passed over.
script_again(line) ==
  /\ pc' = IF Blank(line) THEN "done" ELSE "script"
  /\ UNCHANGED executed

Take(line) ==
  \/ pc = "prompt" /\ shell_loop(line)
  \/ pc = "header" /\ script_header(line)
  \/ pc = "again"  /\ script_again(line)
  \/ pc = "script" /\ script_line(line)

Return(line) == buf' = <<>> /\ last' = line /\ Take(line)

\* A mutant: what the end of the input cuts short is returned.
fgets_partial(c) ==
  IF c = <<>> \/ c[1] \in EOF THEN Return(buf)
  ELSE IF c[1] = "nl" \/ Len(buf) + 1 = Size - 1 THEN Return(buf \o c)
  ELSE buf' = buf \o c /\ UNCHANGED <<last, pc, executed>>

\* One round of its loop: what fgetc returned ends the line or is added to it.
fgets(c) ==
  IF c = <<>> \/ c[1] \in EOF THEN Return(NULL)
  ELSE IF c[1] = "nl" \/ Len(buf) + 1 = Size - 1 THEN Return(buf \o c)
  ELSE buf' = buf \o c /\ UNCHANGED <<last, pc, executed>>

fgetc ==
  /\ pc \in {"prompt", "header", "again", "script"}
  /\ \E c \in read(source, at, 1) : at' = at + Len(c) /\ fgets(c)
  /\ UNCHANGED source

Reopen ==
  /\ pc = "reopen" /\ pc' = "again"
  /\ at' = 0
  /\ UNCHANGED <<source, buf, last, executed>>

Init ==
  /\ source \in Inputs
  /\ at = 0 /\ buf = <<>> /\ last = <<"none">> /\ executed = <<>>
  /\ pc = IF source.reader = "shell" THEN "prompt" ELSE "header"

Next == fgetc \/ Reopen

Spec == Init /\ [][Next]_inputVars

-----------------------------------------------------------------------------
\* fgets keeps the promise of LineSource: it neither loses nor invents nor joins lines,
\* and drops what the end of the input cuts short.
Promise(size) == INSTANCE LineSource WITH
  Room <- size - 1, Enders <- EOF,
  input <- source.chars, rest <- Rest(source, at - Len(buf))

FgetsImplements ==
  /\ source.reader = "shell"  => Promise(BUFFER_SIZE)!Init
  /\ source.reader = "script" => Promise(LINE_SIZE)!Init
  /\ [][IF source.reader = "shell" THEN Promise(BUFFER_SIZE)!Next
                                   ELSE Promise(LINE_SIZE)!Next]_<<Rest(source, at - Len(buf)), last>>

\* Where the pieces of a text end, said of each place alone: at a newline, at what is
\* taken for the end, and at every Size - 1st character since.
Breaks == {"nl"} \cup EOF
PieceEnds(chars) ==
  {i \in DOMAIN chars :
     \/ chars[i] \in Breaks
     \/ \E j \in 0..i - 1 :
          /\ j = 0 \/ chars[j] \in Breaks
          /\ \A k \in j + 1..i - 1 : chars[k] \notin Breaks
          /\ (i - j) % (Size - 1) = 0}
PieceTo(chars, e) ==
  IF chars[e] \in EOF THEN NULL
  ELSE SubSeq(chars, Max({0} \cup {f \in PieceEnds(chars) : f < e}) + 1, e)

IsExit(line) == line = <<"exit", "nl">>

\* Where the lines end that are commands: of what is typed all up to exit that are not
\* blank, of a script all behind the first up to a blank one, and up to and including
\* one that begins with a bar.
Typed(chars) ==
  {e \in PieceEnds(chars) :
     /\ ~Blank(PieceTo(chars, e))
     /\ \A f \in PieceEnds(chars) : f <= e => ~IsExit(PieceTo(chars, f))}
Scripted(chars) ==
  {e \in PieceEnds(chars) :
     /\ \E f \in PieceEnds(chars) : f < e
     /\ \A f \in PieceEnds(chars) : f <= e => ~Blank(PieceTo(chars, f))
     /\ \A f \in PieceEnds(chars) : f < e => ~CutAway(PieceTo(chars, f))}

Till(ends, n) == {e \in ends : e <= n}

FirstEnd(chars, e) == e \in PieceEnds(chars) /\ \A f \in PieceEnds(chars) : e <= f
OwnScript ==
  \E e \in DOMAIN source.chars :
    FirstEnd(source.chars, e) /\ PieceTo(source.chars, e) = <<"#!sbush", "nl">>

\* The lines that end there have been executed, each once and in their order.
ExecutedAre(ends) ==
  /\ Len(executed) = Cardinality(ends)
  /\ \A e \in ends : executed[Cardinality(Till(ends, e))] = PieceTo(source.chars, e)

\* The shell has executed exactly the lines it has read, but for empty ones, up to exit;
\* a script of its own all of its lines up to an empty one, one that is cut short by the
\* end of the file, or the empty rest of a line that fills the buffer, and none behind one
\* that begins with a bar: the loop of executeFile looks at a line once more when it has
\* been executed, and finds it cut.  Any other file executes nothing, and one without a
\* first line ends the shell.  Nothing but exit ends the shell's loop: at the end of a
\* pipe, or behind a line that begins with a bar, it prompts again.
CommandsAreLines ==
  LET chars == source.chars
      begun == at - Len(buf)
  IN  /\ ExecutedAre(CASE source.reader = "shell"  -> Till(Typed(chars), begun)
                       [] pc = "script"            -> Till(Scripted(chars), begun)
                       [] pc = "done" /\ OwnScript -> Scripted(chars)
                       [] OTHER                    -> {})
      /\ pc = "crashed" =>
           \A e \in DOMAIN chars : FirstEnd(chars, e) => PieceTo(chars, e) = NULL
      /\ pc \in {"script", "again"} => OwnScript
      /\ source.reader = "shell" =>
           (pc = "exited" <=> \E e \in Till(PieceEnds(chars), begun) : IsExit(PieceTo(chars, e)))
=============================================================================
