------------------------------- MODULE Parser -------------------------------
(***************************************************************************)
(* How sbush takes a command line apart: parsePipeCommand at each '|',     *)
(* trim and parseInput into a command, its arguments and whether it ends   *)
(* in '&'.  An argument's buffer comes from malloc with the bytes of a     *)
(* heap header in it (Heap): as a string it is not empty, here JUNK, until *)
(* characters are written to it.                                           *)
(***************************************************************************)
EXTENDS Naturals, FiniteSetsExt, SequencesExt

CONSTANTS
  MAX_ARGUMENTS,   \* room in the array of arguments
  Inputs           \* lines: sequences of characters

VARIABLES
  input,    \* the line
  parsed    \* what becomes of it, and the commands that are executed

parserVars == <<input, parsed>>

JUNK == <<"junk">>

Fate(fate, commands) == [fate |-> fate, commands |-> commands]
Unread == Fate("unread", <<>>)

\* The sequence from its i-th to its j-th element, which may be before it.
Part(s, i, j) == IF i > j THEN <<>> ELSE SubSeq(s, i, j)

\* The first place of c in the string that begins at from, or 0; a newline ends the search.
strchr(s, from, c) ==
  LET found == {i \in from..Len(s) : s[i] = c /\ \A j \in from..i : s[j] # "nl"}
  IN  IF found = {} THEN 0 ELSE Min(found)

\* Blanks go at the left; blanks, newlines and '&' at the right.
trim(s) ==
  LET right(i) == \A j \in i + 1..Len(s) : s[j] \in {" ", "nl", "&"}
      left     == Min({i \in DOMAIN s : s[i] # " "} \cup {Len(s) + 1})
      last     == Max({i \in left..Len(s) : s[i] \notin {" ", "nl", "&"}} \cup {left - 1})
  IN  [text |-> Part(s, left, last),
       isBackground |-> \E j \in last + 1..Len(s) : s[j] = "&"]

\* A mutant: a separator behind a separator is passed over.
new_argument_word(c_arg) ==
  IF c_arg.arguments # <<>> /\ Last(c_arg.arguments) = JUNK THEN c_arg
  ELSE [c_arg EXCEPT !.arguments = Append(@, JUNK), !.named = TRUE]

\* A separator begins an argument, unless the one before it is an empty string, which a
\* new buffer is not.
new_argument(c_arg) ==
  IF c_arg.arguments # <<>> /\ Last(c_arg.arguments) = <<>> THEN c_arg
  ELSE [c_arg EXCEPT !.arguments = Append(@, JUNK), !.named = TRUE]

add_character(c_arg, ch) ==
  IF ~c_arg.named THEN [c_arg EXCEPT !.command = Append(@, ch)]
  ELSE [c_arg EXCEPT !.arguments[Len(c_arg.arguments)] =
                        IF @ = JUNK THEN <<ch>> ELSE Append(@, ch)]

\* The guard admits one argument more than there is room for.
parseInput(s) ==
  LET trimmed == trim(s)
      Next_character(c_arg, ch) ==
        IF c_arg.null THEN c_arg
        ELSE IF ch # " " THEN add_character(c_arg, ch)
        ELSE IF Len(c_arg.arguments) > MAX_ARGUMENTS THEN [c_arg EXCEPT !.null = TRUE]
        ELSE new_argument(c_arg)
  IN  FoldLeft(Next_character,
               [command |-> <<>>, arguments |-> <<>>, named |-> FALSE, null |-> FALSE,
                isBackground |-> trimmed.isBackground],
               trimmed.text)

countNumberOfPipes(s) == Cardinality({i \in DOMAIN s : s[i] = "|"})

\* Where the part behind each '|' begins.
parsePipeCommand(s) ==
  LET prev[k \in 0..countNumberOfPipes(s)] ==
        IF k = 0 THEN 1 ELSE strchr(s, prev[k - 1], "|") + 1
      end(k) == LET next == strchr(s, prev[k], "|") IN IF next = 0 THEN Len(s) ELSE next - 1
  IN  [k \in 1..countNumberOfPipes(s) + 1 |-> parseInput(Part(s, prev[k - 1], end(k - 1)))]

isValidateParsedPipeInput(c_args) == \A k \in DOMAIN c_args : c_args[k].command # <<>>

\* The argument behind the array lies on isBackground and argumentCount: its pointer sets
\* the one and loses half of itself to the other.
Overrun(c_arg) == Len(c_arg.arguments) = MAX_ARGUMENTS + 1

\* The vector for execve takes an entry behind the last argument for its end; if the array
\* is full that is isBackground and argumentCount.
Startable(c_arg) == Len(c_arg.arguments) < MAX_ARGUMENTS

\* A pointer that is NULL or lost ends the shell when it is used: the former unless an
\* empty command is met first, the latter when the arguments are freed.
Fatal(c_args) ==
  \E k \in DOMAIN c_args :
    \/ c_args[k].null /\ \A j \in 1..k - 1 : c_args[j].command # <<>>
    \/ ~c_args[k].null /\ Overrun(c_args[k])

parseAndExecuteCommand ==
  /\ parsed = Unread
  /\ LET pipe   == strchr(input, 1, "|") # 0
         c_args == IF pipe THEN parsePipeCommand(input) ELSE <<parseInput(input)>>
         Kept(c_arg) == [command |-> c_arg.command, arguments |-> c_arg.arguments,
                         isBackground |-> c_arg.isBackground, startable |-> Startable(c_arg)]
     IN  parsed' = IF Fatal(c_args) THEN Fate("crash", <<>>)
                   ELSE IF pipe /\ ~isValidateParsedPipeInput(c_args) THEN Fate("invalid", <<>>)
                   ELSE Fate("executed", [k \in DOMAIN c_args |-> Kept(c_args[k])])
  /\ UNCHANGED input

Init == input \in Inputs /\ parsed = Unread
Spec == Init /\ [][parseAndExecuteCommand]_parserVars

-----------------------------------------------------------------------------
(* The same, said of places in the line.                                   *)

Places(s, c)     == SelectSeq([i \in DOMAIN s |-> i], LAMBDA i : s[i] = c)
\* The texts between the places of c, the one before the first and behind the last too.
Between(s, c) ==
  LET cuts == <<0>> \o Places(s, c) \o <<Len(s) + 1>>
  IN  [k \in 1..Len(cuts) - 1 |-> Part(s, cuts[k] + 1, cuts[k + 1] - 1)]

\* A text without what is blank around it, and the '&' among that.
Meant(s) ==
  LET inner == {<<i, j>> \in (1..Len(s) + 1) \X (0..Len(s)) :
                  /\ i <= j + 1
                  /\ \A k \in 1..i - 1 : s[k] = " "
                  /\ \A k \in j + 1..Len(s) : s[k] \in {" ", "nl", "&"}}
      text(p) == Part(s, p[1], p[2])
      core    == CHOOSE p \in inner : \A q \in inner : Len(text(p)) <= Len(text(q))
      words   == Between(text(core), " ")
      n       == Len(words) - 1
  IN  [command      |-> words[1],
       arguments    |-> [k \in 1..n |-> IF words[k + 1] = <<>> THEN JUNK ELSE words[k + 1]],
       isBackground |-> \E k \in core[2] + 1..Len(s) : s[k] = "&",
       startable    |-> n < MAX_ARGUMENTS]

\* A line is taken apart at each '|' and each blank; blanks around a command and '&' at its
\* end do not matter, but of two blanks in a row the second begins an argument of its own,
\* which is what the buffer held.  A full array keeps the command from starting, one
\* argument more, or more than that in front of the first empty command, ends the shell.
ParsedAsWritten ==
  LET meant == [k \in DOMAIN Between(input, "|") |-> Meant(Between(input, "|")[k])]
      count(k) == Len(meant[k].arguments)
      empty == {k \in DOMAIN meant : meant[k].command = <<>>}
      fatal == \E k \in DOMAIN meant :
                 \/ count(k) = MAX_ARGUMENTS + 1
                 \/ count(k) > MAX_ARGUMENTS + 1 /\ \A j \in empty : k <= j
  IN  parsed # Unread =>
        parsed = IF fatal THEN Fate("crash", <<>>)
                 ELSE IF Len(meant) > 1 /\ empty # {} THEN Fate("invalid", <<>>)
                 ELSE Fate("executed", meant)
=============================================================================
