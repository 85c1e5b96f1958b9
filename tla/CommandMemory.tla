---------------------------- MODULE CommandMemory ----------------------------
(***************************************************************************)
(* The memory of the shell: what the parser takes from the heap for a      *)
(* command line and gives back, and what the environment keeps pointing    *)
(* at.  One command line goes through parseInput, executeCommand and       *)
(* freeCommandArgument; in between nothing else runs in this process.      *)
(*                                                                         *)
(* A word is its length and, if it has a '=', where that is, the key       *)
(* before it and the value behind it.  A command is its words and what     *)
(* getBuiltInCode makes of the first: "export", "assign", "file" (the two  *)
(* commands for which executeFile is called, on a file that is no script)  *)
(* or "plain".  A plain command at most has PATH put before its name, in   *)
(* the name's own buffer, which is neither the head of the heap's list nor *)
(* a value's.  A line of several commands is a pipe, whose commands run in *)
(* other processes.                                                        *)
(***************************************************************************)
EXTENDS Environ, SequencesExt

CONSTANTS
  Lines,      \* command lines: sequences of commands
  MaxLines    \* bound: lines of a session

MAX_ARGUMENTS == 20

NoKey == "no key"

\* The environment _start passes to main: PATH=/bin/.
envs == [len |-> 10, at |-> 4, key |-> "PATH", value |-> "/bin/"]

Words == {w \in [len : Nat, at : Nat, key : STRING, value : STRING] :
            w.key # NoKey => w.at < w.len}
Commands ==
  {c \in [kind : {"export", "assign", "file", "plain"}, words : Seq(Words) \ {<<>>}] :
     c.kind = "assign" <=> c.words[1].key # NoKey}

ASSUME LinesAssumption ==
  \A line \in Lines :
    /\ line \in Seq(Commands) /\ line # <<>>
    /\ \A i \in DOMAIN line : Len(line[i].words) - 1 < MAX_ARGUMENTS

VARIABLES
  mem,      \* heap, environ_vars, text of the buffers, fault: a wild access
  c_args,   \* the parsed commands
  stage,    \* "prompt", "parsed", "executed", "dead" or "exited"
  line,     \* the last line
  count,    \* lines so far
  given,    \* history: the value each key was last given
  wiped     \* history: keys whose value the line that set them has cleared

commandVars == <<mem, c_args, stage, line, count, given, wiped>>

TextLength(command) ==
  LET words == command.words
  IN  FoldLeft(LAMBDA n, w : n + w.len, Len(words) - 1, words)

\* A buffer: the word in it, whether its '=' was overwritten, and how many of its
\* first characters were.
Put(m, ptr, word) ==
  [m EXCEPT !.heap = Written(@, ptr, word.len),
            !.text = [b \in DOMAIN @ \cup {BlockOf(ptr)} |->
                        IF b = BlockOf(ptr)
                        THEN [word |-> word, cut |-> FALSE, cleared |-> 0]
                        ELSE @[b]]]

strlen(m, ptr) ==
  LET buffer == m.text[BlockOf(ptr)]
  IN  IF buffer.cleared > 0 THEN 0
      ELSE IF buffer.cut THEN buffer.word.at ELSE buffer.word.len

-----------------------------------------------------------------------------
(* The parser.                                                             *)

\* A mutant: the buffer for the trimmed input is not cleared.
trim_unclean(m, command) ==
  LET arg     == malloc(m.heap)
      name    == malloc(arg.heap)
      trimmed == malloc(Zeroed(name.heap, name.ptr, 20))
      heap    == Written(trimmed.heap, trimmed.ptr, TextLength(command))
  IN  [mem |-> [m EXCEPT !.heap = Stored(heap, arg.ptr, trimmed.ptr,
                                         heap.blocks[BlockOf(arg.ptr)].next)],
       arg |-> [self |-> arg.ptr, trimmedInput |-> trimmed.ptr, command |-> name.ptr,
                arguments |-> <<>>]]

trim(m, command) ==
  LET arg     == malloc(m.heap)
      name    == malloc(arg.heap)
      trimmed == malloc(Zeroed(name.heap, name.ptr, 20))
      heap    == Written(Zeroed(trimmed.heap, trimmed.ptr, 500), trimmed.ptr,
                         TextLength(command))
  IN  [mem |-> [m EXCEPT !.heap = Stored(heap, arg.ptr, trimmed.ptr,
                                         heap.blocks[BlockOf(arg.ptr)].next)],
       arg |-> [self |-> arg.ptr, trimmedInput |-> trimmed.ptr, command |-> name.ptr,
                arguments |-> <<>>]]

\* An argument gets a buffer; the pointer to the first lies where the header of
\* the record it is kept in has its next.
parse_argument(parsed, word) ==
  LET new  == malloc(parsed.mem.heap)
      self == parsed.arg.self
      heap == IF parsed.arg.arguments = <<>>
              THEN Stored(new.heap, self, parsed.arg.trimmedInput, new.ptr)
              ELSE new.heap
  IN  [mem |-> Put([parsed.mem EXCEPT !.heap = heap], new.ptr, word),
       arg |-> [parsed.arg EXCEPT !.arguments = Append(@, new.ptr)]]

parseInput(m, command) ==
  LET trimmed == trim(m, command)
      named   == [trimmed EXCEPT !.mem = Put(@, trimmed.arg.command, command.words[1])]
  IN  FoldLeft(parse_argument, named, Tail(command.words))

\* Accessing what is no longer mapped, and a wild pointer, end the process.
Guarded(m, ptr, after) ==
  IF m.fault THEN m ELSE IF Mapped(m.heap, ptr) THEN after ELSE [m EXCEPT !.fault = TRUE]

Free(m, ptr) ==
  IF m.fault THEN m
  ELSE LET freed == free(m.heap, ptr)
       IN  [m EXCEPT !.heap = freed.heap, !.fault = freed.fault]

\* memset(command, '\0', n).
Clear(m, command, n) ==
  Guarded(m, command,
    [m EXCEPT !.heap = Zeroed(@, command, n),
              !.text[BlockOf(command)].cleared = IF n > @ THEN n ELSE @])

\* The command is cleared as far as each argument is long, then the argument freed.
free_argument(m, command, argument) ==
  Guarded(m, argument, Free(Clear(m, command, strlen(m, argument)), argument))

\* The record itself is not freed.
freeCommandArgument(m, arg) ==
  LET input   == Free(m, arg.trimmedInput)
      command == Guarded(input, arg.command,
                   Free(Clear(input, arg.command, strlen(input, arg.command)),
                        arg.command))
  IN  FoldLeft(LAMBDA n, a : free_argument(n, arg.command, a), command, arg.arguments)

-----------------------------------------------------------------------------
(* The built-in commands.                                                  *)

\* The address that lies offset characters behind a pointer.
Inside(ptr, offset) == <<"inside", ptr, offset>>

\* KEY=value: the '=' is overwritten, and the environment keeps a pointer to what
\* is behind it.
assign(m, ptr) ==
  LET word == m.text[BlockOf(ptr)].word
  IN  IF word.key = NoKey THEN m
      ELSE setenv([m EXCEPT !.text[BlockOf(ptr)].cut = TRUE], word.key, word.at,
                  Inside(ptr, word.at + 1))

executeBuiltInExport(m, arg) == FoldLeft(assign, m, arg.arguments)

executeBuiltInWithoutExport(m, arg) ==
  executeBuiltInExport(assign(m, arg.command), arg)

\* A file that is no script: fopen's FILE, four bytes long, and a cleared line of 150.
executeFile(m) ==
  LET stream  == malloc(m.heap)
      newLine == malloc(Written(stream.heap, stream.ptr, 4))
  IN  [m EXCEPT !.heap = Zeroed(newLine.heap, newLine.ptr, 150)]

\* argv: the loop copies an entry behind the last argument, to end the vector.  Of a
\* command without arguments that entry lies in the header of the block of its record.
setExecutionArguments(m, arg) ==
  <<arg.command>> \o arg.arguments \o
  <<IF arg.arguments = <<>> THEN m.heap.blocks[BlockOf(arg.self)].next ELSE NULL>>

execute(m, command, arg) ==
  CASE command.kind = "export" -> executeBuiltInExport(m, arg)
    [] command.kind = "assign" -> executeBuiltInWithoutExport(m, arg)
    [] command.kind = "file"   -> executeFile(m)
    [] command.kind = "plain"  -> m

\* What the user means by a command: which of its words assign.
Sets(command, i) ==
  /\ command.words[i].key # NoKey
  /\ command.kind = "assign" \/ (command.kind = "export" /\ i > 1)

\* Freeing an argument longer than the key clears the value behind the key.
Clears(command) ==
  /\ command.kind = "assign"
  /\ \E i \in 2..Len(command.words) :
       LET w == command.words[i]
       IN  (IF w.key = NoKey THEN w.len ELSE w.at) > command.words[1].at + 1

Noted(history, word, clears) ==
  [given |-> [k \in DOMAIN history.given \cup {word.key} |->
                IF k = word.key THEN word.value ELSE history.given[k]],
   wiped |-> IF clears THEN history.wiped \cup {word.key} ELSE history.wiped \ {word.key}]

Remembered(command) ==
  LET Note(history, i) ==
        IF Sets(command, i) THEN Noted(history, command.words[i], i = 1 /\ Clears(command))
        ELSE history
  IN  FoldLeftDomain(Note, [given |-> given, wiped |-> wiped], command.words)

-----------------------------------------------------------------------------
\* main: the first word of the environment is executed as a command whose
\* record takes the first block and is never freed.
Init ==
  /\ LET empty == [heap |-> [ROOT |-> NULL, blocks |-> <<>>],
                   environ_vars |-> <<>>, text |-> <<>>, fault |-> FALSE]
         arg   == malloc(empty.heap)
         name  == malloc(arg.heap)
         start == [empty EXCEPT !.heap = Zeroed(name.heap, name.ptr, envs.len + 1)]
     IN  mem = assign(Put(start, name.ptr, envs), name.ptr)
  /\ given = [k \in {envs.key} |-> envs.value]
  /\ c_args = <<>> /\ stage = "prompt" /\ line = <<>> /\ count = 0 /\ wiped = {}

\* The commands of a line are parsed one after the other.
ParseLine ==
  /\ stage = "prompt" /\ count < MaxLines
  /\ \E l \in Lines :
       LET Parse(all, command) ==
             LET parsed == parseInput(all.mem, command)
             IN  [mem |-> parsed.mem, args |-> Append(all.args, parsed.arg)]
           all == FoldLeft(Parse, [mem |-> mem, args |-> <<>>], l)
       IN  /\ mem' = all.mem /\ c_args' = all.args /\ line' = l
  /\ stage' = "parsed" /\ count' = count + 1
  /\ UNCHANGED <<given, wiped>>

\* A single command is executed here, the commands of a pipe in other processes.
ExecuteCommand ==
  /\ stage = "parsed" /\ stage' = "executed"
  /\ IF Len(line) = 1
     THEN /\ mem' = execute(mem, line[1], c_args[1])
          /\ given' = Remembered(line[1]).given
          /\ wiped' = Remembered(line[1]).wiped
     ELSE UNCHANGED <<mem, given, wiped>>
  /\ UNCHANGED <<c_args, line, count>>

FreeCommandArguments ==
  /\ stage = "executed"
  /\ mem' = FoldLeft(freeCommandArgument, mem, c_args)
  /\ stage' = IF mem'.fault THEN "dead" ELSE "prompt"
  /\ UNCHANGED <<c_args, line, count, given, wiped>>

\* exit, as a line of its own.
Exit ==
  /\ stage = "prompt" /\ stage' = "exited"
  /\ UNCHANGED <<mem, c_args, line, count, given, wiped>>

Ended == stage \in {"dead", "exited"} /\ UNCHANGED commandVars

Next == ParseLine \/ ExecuteCommand \/ FreeCommandArguments \/ Exit \/ Ended

Spec == Init /\ [][Next]_commandVars

-----------------------------------------------------------------------------
\* The shell survives the release of a line if and only if the last command of
\* the line is at most 16 characters long: a longer one is written over the next
\* of its own buffer's header, which the buffers taken after it inherit and free
\* follows.  Only executeFile, whose last buffer is cleared, hides that.
Overlong ==
  LET last == line[Len(line)]
  IN  TextLength(last) > 16 /\ ~(Len(line) = 1 /\ last.kind = "file")
FaultsIffOverlong ==
  /\ stage = "dead" => Overlong
  /\ stage = "prompt" /\ count > 0 => ~Overlong

\* The vector of arguments that a program is started with ends, and so is one that
\* execve accepts, unless the command is without arguments and behind an overlong one in
\* a pipe, whose text the header of its record takes over.
VectorsEnd ==
  stage = "parsed" =>
    \A i \in DOMAIN c_args :
      Last(setExecutionArguments(mem, c_args[i])) # NULL <=>
        i > 1 /\ TextLength(line[i - 1]) > 16 /\ Len(line[i].words) = 1

\* The environment points into buffers that freeCommandArgument has given back:
\* they must still be mapped.
ValuesMapped ==
  \A i \in DOMAIN mem.environ_vars : Mapped(mem.heap, mem.environ_vars[i].value[2])

\* The value a reader of the environment finds.
ValueOf(key) ==
  LET value == getenv(mem.environ_vars, key)
      text  == mem.text[BlockOf(value[2])]
  IN  IF text.cleared > value[3] THEN "" ELSE text.word.value

\* Between two lines every variable has the value it was last given, unless the
\* line that set it had an argument that cleared it, or the table was full when
\* its key was new; the table never grows beyond its room.
VariablesKept ==
  /\ Len(mem.environ_vars) <= ENVIRON_DATA_SIZE
  /\ stage = "prompt" =>
       \A key \in DOMAIN given :
         IF getenv(mem.environ_vars, key) = NULL
         THEN Len(mem.environ_vars) = ENVIRON_DATA_SIZE
         ELSE ValueOf(key) = IF key \in wiped THEN "" ELSE given[key]
=============================================================================
