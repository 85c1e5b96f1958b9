-------------------------------- MODULE Shell --------------------------------
(***************************************************************************)
(* The processes of sbush: command lines, pipelines, background commands,  *)
(* and the programs they start.  A line is a sequence of stages; a stage   *)
(* is a program and whether its text ended in '&'.  The programs: "cat" of *)
(* bin/cat, which always copies the file "Makefile"; "filter" and "head",  *)
(* foreign programs that copy their input, all of it or one item; "ls" of  *)
(* bin/ls, which does nothing; "missing", for which execve fails, as it    *)
(* does for a built-in in a pipeline; "empty", no command at all.          *)
(*                                                                         *)
(* fork, pipe, execve, waitpid, read, write and exit are the host's; a     *)
(* call that fails returns a negative number other than -1.                *)
(***************************************************************************)
EXTENDS Naturals, FiniteSets, SequencesExt

CONSTANTS
  Sessions,  \* what users type: sequences of lines, sequences of [program, background]
  Makefile,  \* what cat writes, a sequence of items: the file, or that it cannot be opened
  Capacity,  \* items a pipe holds
  Procs,     \* bound: the slots 1..n of the host's process table
  MaxLost    \* bound: lines of which a fork fails while slots are free

Stage == [program : {"cat", "filter", "head", "ls", "missing", "empty"}, background : BOOLEAN]

ASSUME ShellAssumption ==
  /\ Procs \subseteq Nat \ {0} /\ 1 \in Procs /\ IsFiniteSet(Procs)
  /\ Sessions \subseteq Seq(Seq(Stage) \ {<<>>})

\* No item is the empty string, which stands for the end of a file.  What reads
\* the terminal competes with the shell for it and is not modelled; an empty line is not
\* executed, and '&' alone is a command that is missing.
ASSUME LinesAssumption ==
  /\ Makefile \in Seq(Range(Makefile)) /\ "" \notin Range(Makefile)
  /\ \A s \in Sessions : \A n \in DOMAIN s :
       /\ s[n][1].program \notin {"filter", "head"}
       /\ Len(s[n]) = 1 => s[n][1].program # "empty"

VARIABLES
  proc,      \* process table
  pipe,      \* content of the pipe behind a stage of a line
  screen,    \* what was written to the terminal, each item with its line
  lines,     \* the lines typed so far
  lost       \* history: lines of which a fork failed

shellVars == <<proc, pipe, screen, lines, lost>>

Tty            == <<"tty">>
ReadEnd(n, i)  == <<"read", n, i>>
WriteEnd(n, i) == <<"write", n, i>>

Pipes == UNION {UNION {{<<n, i>> : i \in DOMAIN s[n]} : n \in DOMAIN s} : s \in Sessions}

Free == [pc |-> "free", ret |-> "exit", line |-> 0, stage |-> 0, in |-> Tty, out |-> Tty,
         held |-> {}, born |-> 0, parent |-> 0, child |-> 0, copied |-> 0, word |-> ""]

Alive(p)   == proc[p].pc \notin {"free", "zombie"}
Ends(p)    == {proc[p].in, proc[p].out} \cup proc[p].held
Open(end)  == \E p \in Procs : Alive(p) /\ end \in Ends(p)
Command(p) == lines[proc[p].line][proc[p].stage]

-----------------------------------------------------------------------------
(* The host.                                                               *)

\* p ends: its descriptors are closed, its children pass to init, which reaps them.
Exited(table, p) ==
  [q \in Procs |->
     IF q = p
     THEN IF table[p].parent = 0 THEN Free
          ELSE [Free EXCEPT !.pc = "zombie", !.parent = table[p].parent, !.born = table[p].born]
     ELSE IF table[q].parent # p THEN table[q]
     ELSE IF table[q].pc = "zombie" THEN Free
     ELSE [table[q] EXCEPT !.parent = 0]]

\* The parent goes on as if there were a child, and waits for it if it wants to,
\* also when there is none: -1 and 0 are the only results it looks for.
Fork(p, child, parent, waits) ==
  LET free == {c \in Procs : proc[c].pc = "free"}
  IN  \/ /\ free # {}
         /\ LET c == CHOOSE c \in free : \A d \in free : c <= d
            IN  proc' = [proc EXCEPT ![c] = [child EXCEPT !.parent = p, !.child = 0,
                                                              !.born = child.line],
                                     ![p] = [parent EXCEPT !.child = IF waits THEN c ELSE 0]]
         /\ UNCHANGED lost
      \/ /\ free = {} \/ Cardinality(lost) < MaxLost
         /\ proc' = [proc EXCEPT ![p] = [parent EXCEPT !.child = 0]]
         /\ lost' = lost \cup {proc[p].line}

\* write: a full pipe blocks, a pipe without readers kills.
Write(p, item, next) ==
  LET out == proc[p].out
      i   == <<out[2], out[3]>>
  IN  \/ /\ out = Tty
         /\ screen' = Append(screen, [line |-> proc[p].line, item |-> item])
         /\ proc' = [proc EXCEPT ![p] = next] /\ UNCHANGED pipe
      \/ /\ out # Tty /\ Open(ReadEnd(out[2], out[3])) /\ Len(pipe[i]) < Capacity
         /\ pipe' = [pipe EXCEPT ![i] = Append(@, item)]
         /\ proc' = [proc EXCEPT ![p] = next] /\ UNCHANGED screen
      \/ /\ out # Tty /\ ~Open(ReadEnd(out[2], out[3]))
         /\ proc' = Exited(proc, p) /\ UNCHANGED <<pipe, screen>>

-----------------------------------------------------------------------------
(* The shell.                                                              *)

\* A mutant: the numbers are swapped.
duplicateFileDescriptors_swapped(q, old_fd, new_fd) ==
  IF old_fd = Tty THEN q
  ELSE [q EXCEPT ![IF new_fd = "in" THEN "out" ELSE "in"] = old_fd, !.held = @ \ {old_fd}]

\* dup2(old_fd, new_fd) and close(old_fd), but for old_fd = new_fd.
duplicateFileDescriptors(q, old_fd, new_fd) ==
  IF old_fd = Tty THEN q ELSE [q EXCEPT ![new_fd] = old_fd, !.held = @ \ {old_fd}]

\* The descriptor a stage reads: that of the terminal, or of the pipe before it.
file_desc(q) == IF q.stage = 1 THEN Tty ELSE ReadEnd(q.line, q.stage - 1)

\* fgets, and a look for '|'.
ReadLine(p) ==
  /\ proc[p].pc = "prompt"
  /\ \E s \in Sessions :
       /\ IsStrictPrefix(lines, s)
       /\ lines' = Append(lines, s[Len(lines) + 1])
       /\ proc' = [proc EXCEPT ![p].line = Len(lines) + 1, ![p].stage = 1,
                               ![p].pc = IF Len(Last(lines')) = 1 THEN "binary" ELSE "line"]
  /\ UNCHANGED <<pipe, screen, lost>>

isValidateParsedPipeInput(job) == \A i \in DOMAIN job : job[i].program # "empty"

\* A line with pipes gets a process of its own, unless a command of it is empty.
parseAndExecuteCommand(p) ==
  LET q == proc[p]
      job == lines[q.line]
  IN  /\ q.pc = "line"
      /\ IF isValidateParsedPipeInput(job)
         THEN Fork(p, [q EXCEPT !.pc = "piping", !.ret = "exit"], [q EXCEPT !.pc = "wait"], TRUE)
         ELSE proc' = [proc EXCEPT ![p].pc = "prompt"] /\ UNCHANGED lost
      /\ UNCHANGED <<pipe, screen, lines>>

\* A mutant: close(fd[1]) is missing.
after_fork_open(q) ==
  [q EXCEPT !.stage = @ + 1, !.held = @ \cup {ReadEnd(q.line, q.stage), WriteEnd(q.line, q.stage)}]

\* What the process of the pipeline keeps after it forked a stage: the read end, for
\* the stages to come; fd[1] it closes.
after_fork(q) ==
  [q EXCEPT !.stage = @ + 1, !.held = @ \cup {ReadEnd(q.line, q.stage)}]

\* runPiping: a pipe and a child for each stage, but the last, which this process
\* executes itself.
runPiping(p) ==
  LET q == proc[p]
  IN  /\ q.pc = "piping"
      /\ IF q.stage = Len(lines[q.line])
         THEN /\ proc' = [proc EXCEPT ![p] = duplicateFileDescriptors(
                                               [q EXCEPT !.pc = "binary"], file_desc(q), "in")]
              /\ UNCHANGED lost
         ELSE Fork(p, [q EXCEPT !.pc = "stage",
                                !.held = @ \cup {ReadEnd(q.line, q.stage), WriteEnd(q.line, q.stage)}],
                      after_fork(q), FALSE)
      /\ UNCHANGED <<pipe, screen, lines>>

\* A mutant: close(fd[0]) is missing.
redirected_open(q) ==
  duplicateFileDescriptors(duplicateFileDescriptors(q, file_desc(q), "in"),
                           WriteEnd(q.line, q.stage), "out")

\* close(fd[0]), input from the pipe before, output to the new one.
redirected(q) ==
  duplicateFileDescriptors(
    duplicateFileDescriptors([q EXCEPT !.held = @ \ {ReadEnd(q.line, q.stage)}],
                             file_desc(q), "in"),
    WriteEnd(q.line, q.stage), "out")

\* case 0 of runPiping.
run_stage(p) ==
  /\ proc[p].pc = "stage"
  /\ proc' = [proc EXCEPT ![p] = redirected([@ EXCEPT !.pc = "binary"])]
  /\ UNCHANGED <<pipe, screen, lines, lost>>

\* A mutant: nobody waits.
executeBinary_nowait(p) ==
  LET q == proc[p]
  IN  /\ q.pc = "binary"
      /\ Fork(p, [q EXCEPT !.pc = "exec"], [q EXCEPT !.pc = "wait"], FALSE)
      /\ UNCHANGED <<pipe, screen, lines>>

\* executeBinary: a child for the command, which a foreground command waits for.
executeBinary(p) ==
  LET q == proc[p]
  IN  /\ q.pc = "binary"
      /\ Fork(p, [q EXCEPT !.pc = "exec"], [q EXCEPT !.pc = "wait"], ~Command(p).background)
      /\ UNCHANGED <<pipe, screen, lines>>

\* execvpe writes the PATH to the standard output before it calls execve.
execvpe(p) ==
  /\ proc[p].pc = "exec"
  /\ Write(p, "PATH", [proc[p] EXCEPT
                         !.pc = IF Command(p).program = "missing" THEN "refused" ELSE "program"])
  /\ UNCHANGED <<lines, lost>>

\* A mutant: exit(0) is missing.
refused_return(q, background) == [q EXCEPT !.pc = "wait", !.child = 0]

\* After its message a child of the foreground exits; one of the background returns to
\* where its parent would have gone on.
refused(q, background) ==
  [q EXCEPT !.pc = "wait", !.child = 0, !.ret = IF background THEN @ ELSE "exit"]

not_executed(p) ==
  LET background == Command(p).background
  IN  /\ proc[p].pc = "refused"
      /\ Write(p, IF background THEN "Unable to run in bg" ELSE "Command not found.",
               refused(proc[p], background))
      /\ UNCHANGED <<lines, lost>>

\* waitpid until the child has ended, if there is one; then back to the prompt, or,
\* in a process of a pipeline, gracefulExit.
waitForProcessExecution(p) ==
  LET q      == proc[p]
      reaped == IF q.child = 0 THEN proc
                ELSE [proc EXCEPT ![q.child] = Free, ![p].child = 0]
  IN  /\ q.pc = "wait"
      /\ q.child # 0 => proc[q.child].pc = "zombie"
      /\ proc' = IF q.ret = "prompt" THEN [reaped EXCEPT ![p].pc = "prompt"]
                 ELSE Exited(reaped, p)
      /\ UNCHANGED <<pipe, screen, lines, lost>>

\* "exit" is typed.
Exit(p) ==
  /\ proc[p].pc = "prompt"
  /\ proc' = Exited(proc, p)
  /\ UNCHANGED <<pipe, screen, lines, lost>>

-----------------------------------------------------------------------------
(* The programs: a loop that reads an item and writes it.                  *)

from_pipe(p) == <<proc[p].in[2], proc[p].in[3]>>

\* What the program would read next, if that is decided: an item, or "" for the end.
Next_item(p) ==
  LET q == proc[p]
      program == Command(p).program
  IN  CASE program = "cat" -> IF q.copied < Len(Makefile) THEN {Makefile[q.copied + 1]} ELSE {""}
        [] program = "ls" \/ (program = "head" /\ q.copied = 1) -> {""}
        [] OTHER -> IF pipe[from_pipe(p)] # <<>> THEN {Head(pipe[from_pipe(p)])}
                    ELSE IF Open(WriteEnd(q.in[2], q.in[3])) THEN {} ELSE {""}

read(p) ==
  /\ proc[p].pc = "program" /\ proc[p].word = ""
  /\ \E item \in Next_item(p) :
       IF item = "" THEN proc' = Exited(proc, p) /\ UNCHANGED pipe
       ELSE /\ proc' = [proc EXCEPT ![p].word = item, ![p].copied = @ + 1]
            /\ IF Command(p).program = "cat" THEN UNCHANGED pipe
               ELSE pipe' = [pipe EXCEPT ![from_pipe(p)] = Tail(@)]
  /\ UNCHANGED <<screen, lines, lost>>

write(p) ==
  /\ proc[p].pc = "program" /\ proc[p].word # ""
  /\ Write(p, proc[p].word, [proc[p] EXCEPT !.word = ""])
  /\ UNCHANGED <<lines, lost>>

-----------------------------------------------------------------------------
Init ==
  /\ proc = [p \in Procs |-> IF p = 1 THEN [Free EXCEPT !.pc = "prompt", !.ret = "prompt"]
                             ELSE Free]
  /\ pipe = [i \in Pipes |-> <<>>]
  /\ screen = <<>> /\ lines = <<>> /\ lost = {}

Step(p) ==
  \/ parseAndExecuteCommand(p) \/ runPiping(p) \/ run_stage(p) \/ executeBinary(p)
  \/ execvpe(p) \/ not_executed(p) \/ waitForProcessExecution(p)
  \/ read(p) \/ write(p)

Next == \E p \in Procs : Step(p) \/ ReadLine(p) \/ Exit(p)

\* The host schedules every process; the user may stop typing.
Spec == Init /\ [][Next]_shellVars /\ \A p \in Procs : WF_shellVars(Step(p))

-----------------------------------------------------------------------------
\* The shape of the table: inputs are read ends, outputs write ends, a zombie has a
\* living parent, and whoever waits waits for a child of its own.
ShellTypeOK ==
  \A p \in Procs :
    LET q == proc[p]
    IN  /\ q.in = Tty \/ q.in[1] = "read"
        /\ q.out = Tty \/ q.out[1] = "write"
        /\ q.pc = "zombie" => Alive(q.parent)
        /\ q.child # 0 => q.pc = "wait" /\ proc[q.child].pc # "free" /\ proc[q.child].parent = p

\* What a stage makes of its input when it alone decides.
Output(input, stage) ==
  LET background == stage.background
  IN  <<"PATH">> \o
      CASE stage.program = "cat"     -> Makefile
        [] stage.program = "filter"  -> input
        [] stage.program = "head"    -> IF input = <<>> THEN <<>> ELSE <<Head(input)>>
        [] stage.program = "ls"      -> <<>>
        [] stage.program = "missing" -> IF background THEN <<"Unable to run in bg">>
                                        ELSE <<"Command not found.">>

\* What each stage of a line makes when there is nothing before the first.
Composition(job) ==
  LET made[i \in 0..Len(job)] == IF i = 0 THEN <<>> ELSE Output(made[i - 1], job[i])
  IN  made
Composed(job) == IF isValidateParsedPipeInput(job) THEN Composition(job)[Len(job)] ELSE <<>>

\* Of the first k items on a screen those of line n; those of the line are the given ones.
OfLine(shown, n, k) == {j \in 1..k : shown[j].line = n}
Shows(shown, n, items) ==
  /\ Cardinality(OfLine(shown, n, Len(shown))) = Len(items)
  /\ \A k \in DOMAIN shown :
       shown[k].line = n => shown[k].item = items[Cardinality(OfLine(shown, n, k))]

\* The processes in the shell's own loop.
Shells == {p \in Procs : proc[p].ret = "prompt" /\ proc[p].pc \in {"prompt", "line", "binary", "wait"}}

\* A line is over for its user: the shell prompts again, and if the last command was put
\* into the background, it has ended too.
Over(n) ==
  /\ \A p \in Shells : proc[p].line = n => proc[p].pc = "prompt"
  /\ Last(lines[n]).background =>
       \A p \in Procs : Alive(p) /\ proc[p].line = n => proc[p].pc = "prompt"

\* However the processes of a pipeline are scheduled, what it shows is the composition
\* of its programs, complete when the shell prompts again; unless a fork failed.
OutputIsComposed ==
  \A n \in DOMAIN lines : Over(n) /\ n \notin lost => Shows(screen, n, Composed(lines[n]))

\* Descriptors do not leak where they would keep a pipeline from ending: only the
\* processes of a stage can write into its pipe, so that its reader sees the end, and
\* none of them reads from it, so that a writer without readers is told.
EndsConfined ==
  \A p \in Procs : \A end \in Ends(p) :
    end # Tty =>
      LET own == proc[p].line = end[2] /\ proc[p].stage = end[3]
      IN  IF end[1] = "write" THEN own ELSE own => proc[p].pc = "stage"

\* A second shell reads the terminal only if a background command could not be
\* executed, one for each of them.
ShellsAccounted ==
  Cardinality(Shells) <=
    1 + Cardinality({n \in DOMAIN lines : lines[n] = <<[program |-> "missing", background |-> TRUE]>>})

\* At the prompt a shell's only children, running or not reaped, are background commands.
ForegroundReaped ==
  \A p, c \in Procs :
    proc[p].pc = "prompt" /\ proc[c].pc # "free" /\ proc[c].parent = p =>
      Len(lines[proc[c].born]) = 1 /\ lines[proc[c].born][1].background

\* Whatever process a line starts ends, and the shell prompts again; also if a reader
\* ends early, a command is missing, or a fork fails.
CommandsEnd ==
  \A p \in Procs :
    proc[p].pc \notin {"free", "zombie", "prompt"} ~> proc[p].pc \in {"free", "zombie", "prompt"}
=============================================================================
