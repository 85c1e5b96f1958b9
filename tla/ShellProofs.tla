----------------------------- MODULE ShellProofs -----------------------------
(***************************************************************************)
(* The processes of the shell, for every session, every size of the        *)
(* process table and of the pipes and every number of forks that fail:     *)
(* who waits for whom, which ends of pipes a process can hold, how many    *)
(* shells read the terminal, and, from "What the stages of a line make"    *)
(* on, what a line shows there when it is over.                            *)
(*                                                                         *)
(* The invariants speak of a table T and the lines ls rather than of the   *)
(* variables, so that what fork, exit and wait do to a table can be said   *)
(* once, and two of them one after the other.                              *)
(***************************************************************************)
EXTENDS Shell, SequenceTheorems, FiniteSetTheorems, WellFoundedInduction, TLAPS

Nobody == 0
Dead   == {"free", "zombie"}

ReadEnds(n, stages) == {ReadEnd(n, i) : i \in stages}
AnyEnd == {Tty} \cup {ReadEnd(n, i) : n, i \in Nat} \cup {WriteEnd(n, i) : n, i \in Nat}

Process(words) ==
  [pc : Dead \cup {"prompt", "line", "piping", "stage", "binary", "exec", "program",
                   "refused", "wait"},
   ret : {"prompt", "exit"}, line : Nat, stage : Nat, in : AnyEnd, out : AnyEnd,
   held : SUBSET AnyEnd, born : Nat, parent : Nat, child : Nat, copied : Nat, word : words]

NoWord == {""}
Words(T) == {T[p].word : p \in Procs}
IsTable(T) == T \in [Procs -> Process(Words(T))]

\* A process reads a pipe of an earlier stage or the terminal, writes the pipe of its own
\* stage or the terminal, and keeps read ends of earlier stages.  Between fork and the
\* redirection it has both ends of its own.
Plugged(q) ==
  LET earlier == ReadEnds(q.line, 1..(q.stage - 1))
      own     == {ReadEnd(q.line, q.stage), WriteEnd(q.line, q.stage)}
  IN  /\ q.in \in {Tty} \cup earlier
      /\ q.out \in {Tty, WriteEnd(q.line, q.stage)}
      /\ q.held \subseteq earlier \cup (IF q.pc = "stage" THEN own ELSE {})
      /\ q.pc = "piping" => q.out = Tty
      /\ q.ret = "prompt" \/ q.pc \in Dead => q.in = Tty /\ q.out = Tty /\ q.held = {}

\* What a process knows of its line, and what its line says of it.
Single(ls, n)     == n \in 1..Len(ls) /\ Len(ls[n]) = 1
Background(ls, n) == Single(ls, n) /\ ls[n][1].background
Missing == [program |-> "missing", background |-> TRUE]
Forsaken(ls, n) == n \in 1..Len(ls) /\ ls[n] = <<Missing>>

Informed(q, ls) ==
  /\ q.line \in 0..Len(ls) /\ q.born \in 0..Len(ls)
  /\ q.pc \notin Dead \cup {"prompt"} => q.line # 0 /\ q.stage # 0
  /\ q.pc \in Dead => q.ret = "exit"
  /\ q.pc \in {"prompt", "line"} => q.ret = "prompt"
  /\ q.pc \in {"piping", "stage"} => q.ret = "exit"
  /\ q.ret = "prompt" =>
       /\ q.pc \in {"binary", "exec", "program", "refused"} =>
            q.stage = 1 /\ Single(ls, q.line)
       /\ q.pc \in {"exec", "program", "refused"} => q.born = q.line
       /\ q.pc = "refused" => ls[q.line][1].program = "missing"
       /\ q.pc \in {"prompt", "line", "binary", "wait"} => q.born = 0 \/ Forsaken(ls, q.born)

\* A parent is alive, a zombie has one, whoever waits waits for a child of its own; what
\* a shell does not wait for is in the background.
Kin(T, ls, p) ==
  /\ T[p].pc = "free" => T[p].parent = Nobody
  /\ T[p].pc = "zombie" => T[p].parent # Nobody
  /\ T[p].parent # Nobody =>
       /\ T[p].parent \in Procs \ {p} /\ T[T[p].parent].pc \notin Dead
       /\ T[T[p].parent].ret = "prompt" =>
            T[T[p].parent].child = p \/ Background(ls, T[p].born)
  /\ T[p].child # Nobody =>
       /\ T[p].pc = "wait" /\ T[p].child \in Procs
       /\ T[T[p].child].pc # "free" /\ T[T[p].child].parent = p

Related(T, ls) == \A p \in Procs : Kin(T, ls, p)

\* Of a line at most one process goes on to a prompt, and none before its shell has
\* forked.
Distinct(T) ==
  \A p, q \in Procs :
    T[p].ret = "prompt" /\ T[q].ret = "prompt" =>
      /\ p # q => T[p].born # T[q].born
      /\ T[p].pc = "binary" =>
           /\ T[q].born # T[p].line
           /\ p # q /\ T[q].pc = "binary" => T[p].line # T[q].line

Sound(T, ls) ==
  /\ IsTable(T) /\ ls \in Seq(Seq(Stage) \ {<<>>})
  /\ \A p \in Procs : Plugged(T[p]) /\ Informed(T[p], ls)
  /\ Related(T, ls)
  /\ Distinct(T)

ShellInv == Sound(proc, lines)

-----------------------------------------------------------------------------
(* Ends, and tables of processes.                                          *)

LEMMA EndsDiffer ==
  \A m, n, i, j :
    /\ Tty # ReadEnd(n, i) /\ Tty # WriteEnd(n, i) /\ ReadEnd(m, i) # WriteEnd(n, j)
    /\ ReadEnd(m, i) = ReadEnd(n, j) <=> m = n /\ i = j
    /\ ReadEnd(n, i)[1] = "read" /\ ReadEnd(n, i)[2] = n /\ ReadEnd(n, i)[3] = i
    /\ WriteEnd(n, i)[1] = "write" /\ WriteEnd(n, i)[2] = n /\ WriteEnd(n, i)[3] = i
BY DEF Tty, ReadEnd, WriteEnd

\* The word a process has read is whatever it is.
LEMMA Recast ==
  ASSUME NEW V, NEW W, NEW q \in Process(V), q.word \in W
  PROVE  q \in Process(W)
BY DEF Process

LEMMA IsTableIf ==
  ASSUME NEW T, T = [p \in Procs |-> T[p]], \A p \in Procs : \E W : T[p] \in Process(W)
  PROVE  IsTable(T)
<1>1. ASSUME NEW p \in Procs PROVE T[p] \in Process(Words(T))
  <2>1. PICK W : T[p] \in Process(W)
    OBVIOUS
  <2>2. T[p].word \in Words(T)
    BY DEF Words
  <2> QED
    BY <2>1, <2>2, Recast
<1> QED
  BY <1>1 DEF IsTable

LEMMA FreeProcess ==
  /\ Free \in Process(NoWord) /\ Free.pc = "free" /\ Free.ret = "exit" /\ Free.parent = Nobody
  /\ Free.child = Nobody /\ Free.in = Tty /\ Free.out = Tty /\ Free.held = {}
  /\ Free.line = 0 /\ Free.born = 0 /\ Free.stage = 0
BY DEF Free, Process, AnyEnd, Dead, Nobody, NoWord

Zombie(parent, born) == [Free EXCEPT !.pc = "zombie", !.parent = parent, !.born = born]

LEMMA ZombieProcess ==
  \A i, j \in Nat :
    /\ Zombie(i, j) \in Process(NoWord) /\ Zombie(i, j).pc = "zombie"
    /\ Zombie(i, j).ret = "exit" /\ Zombie(i, j).parent = i
    /\ Zombie(i, j).child = Nobody /\ Zombie(i, j).in = Tty
    /\ Zombie(i, j).out = Tty /\ Zombie(i, j).held = {}
    /\ Zombie(i, j).line = 0 /\ Zombie(i, j).born = j
<1>1. Free.held = {} /\ Free.ret = "exit" /\ Free.child = Nobody /\ Free.line = 0
  BY FreeProcess
<1> QED
  BY <1>1, FreeProcess DEF Zombie, Process, Dead

\* Who has lost its parent, or the child it waited for, is otherwise what it was.
Orphan(q)    == [q EXCEPT !.parent = Nobody]
Childless(q) == [q EXCEPT !.child = Nobody]

SameButKin(r, q) ==
  /\ r.pc = q.pc /\ r.ret = q.ret /\ r.in = q.in /\ r.out = q.out /\ r.held = q.held
  /\ r.line = q.line /\ r.stage = q.stage /\ r.born = q.born

LEMMA KinProcess ==
  ASSUME NEW W, NEW q \in Process(W)
  PROVE  /\ Orphan(q) \in Process(W) /\ SameButKin(Orphan(q), q)
         /\ Orphan(q).parent = Nobody /\ Orphan(q).child = q.child
         /\ Childless(q) \in Process(W) /\ SameButKin(Childless(q), q)
         /\ Childless(q).child = Nobody /\ Childless(q).parent = q.parent
BY DEF Orphan, Childless, SameButKin, Process, Nobody

LEMMA KinKeeps ==
  ASSUME NEW r, NEW q, NEW ls, SameButKin(r, q)
  PROVE  /\ Plugged(q) => Plugged(r)
         /\ Informed(q, ls) => Informed(r, ls)
BY DEF SameButKin, Plugged, Informed

\* The dead hold nothing and know nothing.
LEMMA DeadKeeps ==
  ASSUME NEW q, NEW ls \in Seq(Seq(Stage) \ {<<>>}),
         q.pc \in Dead, q.ret = "exit", q.in = Tty, q.out = Tty, q.held = {},
         q.line = 0, q.born \in 0..Len(ls)
  PROVE  Plugged(q) /\ Informed(q, ls)
<1>1. 0 \in 0..Len(ls)
  BY LenProperties
<1> QED
  BY <1>1 DEF Plugged, Informed, Dead

-----------------------------------------------------------------------------
(* What the changes of a table preserve.                                   *)

\* A process goes on: its relations stay as they are.
LEMMA ChangeSound ==
  ASSUME NEW T, NEW ls, Sound(T, ls), NEW p \in Procs, NEW W, NEW r \in Process(W),
         T[p].pc \notin Dead, r.pc \notin Dead,
         r.parent = T[p].parent, r.born = T[p].born, r.child = T[p].child,
         r.child # Nobody => r.pc = "wait",
         r.ret = T[p].ret \/ r.ret = "exit",
         Plugged(r), Informed(r, ls),
         r.ret = "prompt" /\ r.pc = "binary" =>
           \A q \in Procs : T[q].ret = "prompt" =>
             /\ T[q].born # r.line
             /\ p # q /\ T[q].pc = "binary" => T[q].line # r.line
  PROVE  Sound([T EXCEPT ![p] = r], ls)
<1> DEFINE U == [T EXCEPT ![p] = r]
<1>1. T \in [Procs -> Process(Words(T))]
  BY DEF Sound, IsTable
<1>2. U[p] = r /\ \A q \in Procs \ {p} : U[q] = T[q]
  BY <1>1
<1>3. IsTable(U)
  <2>1. U = [q \in Procs |-> U[q]]
    BY <1>1
  <2>2. \A q \in Procs : \E V : U[q] \in Process(V)
    BY <1>1, <1>2
  <2> HIDE DEF U
  <2> QED
    BY <2>1, <2>2, IsTableIf
<1> HIDE DEF U
<1>4. \A q \in Procs : Plugged(U[q]) /\ Informed(U[q], ls)
  BY <1>2 DEF Sound
<1>5. Related(U, ls)
  <2>1. Related(T, ls)
    BY DEF Sound
  <2>2. \A q \in Procs : /\ U[q].parent = T[q].parent /\ U[q].child = T[q].child
                         /\ U[q].born = T[q].born
                         /\ U[q].pc \in Dead <=> T[q].pc \in Dead
                         /\ U[q].pc \in Dead => U[q].pc = T[q].pc
                         /\ U[q].ret = "prompt" => T[q].ret = "prompt"
                         /\ q # p => U[q].pc = T[q].pc
    BY <1>2
  <2>3. U[p].child # Nobody => U[p].pc = "wait"
    BY <1>2
  <2> QED
    BY <2>1, <2>2, <2>3 DEF Related, Kin, Dead
<1>6. Distinct(U)
  BY <1>2 DEF Sound, Distinct
<1> QED
  BY <1>3, <1>4, <1>5, <1>6 DEF Sound, U

\* A process forks.
LEMMA ForkSound ==
  ASSUME NEW T, NEW ls, Sound(T, ls), NEW p \in Procs, NEW c \in Procs,
         T[c].pc = "free", T[p].pc \notin Dead, T[p].child = Nobody,
         NEW V, NEW child \in Process(V), NEW W, NEW parent \in Process(W),
         child.pc \notin Dead, parent.pc \notin Dead,
         child.parent = p, child.child = Nobody, child.born = child.line,
         parent.parent = T[p].parent, parent.born = T[p].born, parent.ret = T[p].ret,
         parent.child = Nobody \/ (parent.child = c /\ parent.pc = "wait"),
         Plugged(child), Informed(child, ls), Plugged(parent), Informed(parent, ls),
         T[p].ret = "prompt" =>
           parent.pc = "wait" /\ (parent.child = c \/ Background(ls, child.born)),
         child.ret = "prompt" =>
           /\ T[p].ret = "prompt" /\ T[p].pc = "binary"
           /\ child.line = T[p].line /\ child.pc # "binary"
  PROVE  Sound([T EXCEPT ![c] = child, ![p] = parent], ls)
<1> DEFINE U == [T EXCEPT ![c] = child, ![p] = parent]
<1>1. T \in [Procs -> Process(Words(T))] /\ c # p
  BY DEF Sound, IsTable, Dead
<1>2. U[p] = parent /\ U[c] = child /\ \A q \in Procs \ {p, c} : U[q] = T[q]
  BY <1>1
<1>3. IsTable(U)
  <2>1. U = [q \in Procs |-> U[q]]
    BY <1>1
  <2>2. \A q \in Procs : \E X : U[q] \in Process(X)
    BY <1>1, <1>2
  <2> HIDE DEF U
  <2> QED
    BY <2>1, <2>2, IsTableIf
<1> HIDE DEF U
<1>4. \A q \in Procs : Plugged(U[q]) /\ Informed(U[q], ls)
  BY <1>2 DEF Sound
<1>5. T[c].parent = Nobody /\ (\A q \in Procs : T[q].parent # c /\ T[q].child # c)
  BY ShellAssumption DEF Sound, Related, Kin, Dead, Nobody
<1>6. Related(U, ls)
  <2>1. Related(T, ls) /\ p # Nobody /\ c # Nobody
    BY ShellAssumption DEF Sound, Nobody
  <2> SUFFICES ASSUME NEW q \in Procs PROVE Kin(U, ls, q)
    BY DEF Related
  <2>2. Kin(T, ls, q) /\ q # Nobody
    BY <2>1, ShellAssumption DEF Related, Nobody
  <2>3. CASE q = c
    BY <1>1, <1>2, <2>1, <2>3 DEF Kin, Dead, Nobody
  <2>4. CASE q = p
    BY <1>1, <1>2, <1>5, <2>1, <2>2, <2>4 DEF Kin, Dead, Nobody
  <2>5. CASE q \notin {p, c}
    <3>1. U[q] = T[q]
      BY <1>2, <2>5
    <3>2. CASE T[q].parent # Nobody
      <4>1. U[T[q].parent].pc \notin Dead
        BY <1>2, <1>5, <2>2, <3>2 DEF Kin
      <4>2. U[T[q].parent].ret = "prompt" => U[T[q].parent].child = q \/ Background(ls, T[q].born)
        BY <1>2, <1>5, <2>1, <2>2, <2>5, <3>2 DEF Kin
      <4> QED
        BY <1>2, <1>5, <2>2, <3>1, <3>2, <4>1, <4>2 DEF Kin, Dead
    <3>3. CASE T[q].parent = Nobody
      BY <1>2, <1>5, <2>2, <3>1, <3>3 DEF Kin, Dead
    <3> QED
      BY <3>2, <3>3
  <2> QED
    BY <2>3, <2>4, <2>5
<1>7. Distinct(U)
  BY <1>1, <1>2 DEF Sound, Distinct
<1> QED
  BY <1>3, <1>4, <1>6, <1>7 DEF Sound, U

\* A process ends.
LEMMA ExitSound ==
  ASSUME NEW T, NEW ls, Sound(T, ls), NEW p \in Procs, T[p].pc \notin Dead, T[p].child = Nobody
  PROVE  Sound(Exited(T, p), ls)
<1> DEFINE U == Exited(T, p)
           zombie == Zombie(T[p].parent, T[p].born)
<1>1. T \in [Procs -> Process(Words(T))] /\ ls \in Seq(Seq(Stage) \ {<<>>})
  BY DEF Sound, IsTable
<1>2. /\ U[p] = IF T[p].parent = Nobody THEN Free ELSE zombie
      /\ \A q \in Procs \ {p} :
           U[q] = IF T[q].parent # p THEN T[q]
                  ELSE IF T[q].pc = "zombie" THEN Free ELSE Orphan(T[q])
  BY DEF Exited, Nobody, Zombie, Orphan
<1>3. /\ zombie \in Process(NoWord) /\ zombie.pc = "zombie" /\ zombie.ret = "exit"
      /\ zombie.parent = T[p].parent /\ zombie.child = Nobody /\ zombie.in = Tty
      /\ zombie.out = Tty /\ zombie.held = {} /\ zombie.line = 0 /\ zombie.born = T[p].born
  <2>1. T[p].parent \in Nat /\ T[p].born \in Nat
    BY <1>1 DEF Process
  <2> QED
    BY <2>1, ZombieProcess
<1> HIDE DEF zombie
<1>4. \A q \in Procs : /\ Orphan(T[q]) \in Process(Words(T)) /\ SameButKin(Orphan(T[q]), T[q])
                       /\ Orphan(T[q]).parent = Nobody /\ Orphan(T[q]).child = T[q].child
  BY <1>1, KinProcess
<1>5. IsTable(U)
  <2>1. U = [q \in Procs |-> U[q]]
    BY DEF Exited
  <2> HIDE DEF U
  <2>2. \A q \in Procs : U[q] \in {Free, zombie, T[q], Orphan(T[q])}
    BY <1>2
  <2>3. ASSUME NEW q \in Procs PROVE \E V : U[q] \in Process(V)
    BY <1>1, <1>3, <1>4, <2>2, FreeProcess
  <2> QED
    BY <2>1, <2>3, IsTableIf
<1> HIDE DEF U
<1>6. ASSUME NEW q \in Procs PROVE Plugged(U[q]) /\ Informed(U[q], ls)
  <2>1. Informed(T[p], ls) /\ 0 \in 0..Len(ls)
    BY <1>1, LenProperties DEF Sound
  <2>2. CASE U[q] = T[q]
    BY <2>2 DEF Sound
  <2>3. CASE U[q] = Orphan(T[q])
    BY <1>4, <2>3, KinKeeps DEF Sound
  <2>4. CASE U[q] = Free
    BY <1>1, <2>1, <2>4, FreeProcess, DeadKeeps DEF Dead
  <2>5. CASE U[q] = zombie
    <3>1. zombie.born \in 0..Len(ls)
      BY <1>3, <2>1 DEF Informed
    <3> QED
      BY <1>1, <1>3, <2>5, <3>1, DeadKeeps DEF Dead
  <2> QED
    BY <1>2, <2>2, <2>3, <2>4, <2>5
<1>7. \A q \in Procs \ {p} :
        IF T[q].parent = p /\ T[q].pc = "zombie" THEN U[q] = Free
        ELSE /\ U[q].pc = T[q].pc /\ U[q].ret = T[q].ret /\ U[q].child = T[q].child
             /\ U[q].born = T[q].born /\ U[q].line = T[q].line
             /\ U[q].parent = IF T[q].parent = p THEN Nobody ELSE T[q].parent
  BY <1>2, <1>4 DEF SameButKin
<1>8. /\ U[p].pc \in Dead /\ U[p].child = Nobody /\ U[p].parent = T[p].parent
      /\ U[p].pc = "zombie" <=> T[p].parent # Nobody
      /\ U[p].born = T[p].born \/ U[p].parent = Nobody
      /\ U[p].ret = "exit"
  BY <1>2, <1>3, FreeProcess DEF Dead
<1>9. Related(U, ls)
  <2>1. Related(T, ls)
    BY DEF Sound
  <2> SUFFICES ASSUME NEW q \in Procs PROVE Kin(U, ls, q)
    BY DEF Related
  <2>2. /\ Kin(T, ls, q) /\ Kin(T, ls, p) /\ p # Nobody /\ q # Nobody
        /\ T[q].parent # Nobody => Kin(T, ls, T[q].parent)
        /\ T[q].child # Nobody => Kin(T, ls, T[q].child)
    BY <2>1, ShellAssumption DEF Related, Kin, Nobody
  <2>3. CASE q = p
    <3>1. CASE T[p].parent = Nobody
      BY <1>8, <2>3, <3>1 DEF Kin, Dead
    <3>2. CASE T[p].parent # Nobody
      <4>1. /\ T[p].parent \in Procs \ {p} /\ T[T[p].parent].pc \notin Dead
            /\ T[T[p].parent].parent # p \/ T[T[p].parent].pc # "zombie"
            /\ T[T[p].parent].ret = "prompt" =>
                 T[T[p].parent].child = p \/ Background(ls, T[p].born)
        BY <2>2, <3>2 DEF Kin, Dead
      <4>2. /\ U[T[p].parent].pc = T[T[p].parent].pc /\ U[T[p].parent].ret = T[T[p].parent].ret
            /\ U[T[p].parent].child = T[T[p].parent].child
        BY <1>7, <4>1
      <4> QED
        BY <1>8, <2>3, <3>2, <4>1, <4>2 DEF Kin, Dead
    <3> QED
      BY <3>1, <3>2
  <2>4. CASE q # p /\ T[q].parent = p
    <3>1. CASE T[q].pc = "zombie"
      BY <1>7, <2>4, <3>1, FreeProcess DEF Kin
    <3>2. CASE T[q].pc # "zombie"
      <4>1. /\ U[q].pc = T[q].pc /\ U[q].child = T[q].child /\ U[q].parent = Nobody
        BY <1>7, <2>4, <3>2
      <4>2. T[q].child # Nobody =>
              /\ T[q].pc = "wait" /\ T[q].child \in Procs
              /\ T[T[q].child].pc # "free" /\ T[T[q].child].parent = q
        BY <2>2, <2>4, <3>2 DEF Kin
      <4>3. T[q].child # Nobody =>
              U[T[q].child].pc # "free" /\ U[T[q].child].parent = q
        BY <1>7, <1>8, <2>2, <2>4, <4>2 DEF Dead
      <4> QED
        BY <3>2, <4>1, <4>2, <4>3 DEF Kin
    <3> QED
      BY <3>1, <3>2
  <2>5. CASE q # p /\ T[q].parent # p
    <3>1. /\ U[q].pc = T[q].pc /\ U[q].child = T[q].child /\ U[q].parent = T[q].parent
          /\ U[q].born = T[q].born
      BY <1>7, <2>5
    <3>2. U[q].child # Nobody =>
            /\ U[q].pc = "wait" /\ U[q].child \in Procs
            /\ U[U[q].child].pc # "free" /\ U[U[q].child].parent = q
      <4> SUFFICES ASSUME T[q].child # Nobody
                   PROVE  /\ T[q].pc = "wait" /\ T[q].child \in Procs
                          /\ U[T[q].child].pc # "free" /\ U[T[q].child].parent = q
        BY <3>1
      <4>1. /\ T[q].pc = "wait" /\ T[q].child \in Procs
            /\ T[T[q].child].pc # "free" /\ T[T[q].child].parent = q
        BY <2>2 DEF Kin
      <4>2. U[T[q].child].pc # "free" /\ U[T[q].child].parent = q
        BY <1>7, <1>8, <2>2, <2>5, <4>1 DEF Dead
      <4> QED
        BY <4>1, <4>2
    <3>3. U[q].parent # Nobody =>
            /\ U[q].parent \in Procs \ {q} /\ U[U[q].parent].pc \notin Dead
            /\ U[U[q].parent].ret = "prompt" =>
                 U[U[q].parent].child = q \/ Background(ls, U[q].born)
      <4> SUFFICES ASSUME T[q].parent # Nobody
                   PROVE  /\ T[q].parent \in Procs \ {q} /\ U[T[q].parent].pc \notin Dead
                          /\ U[T[q].parent].ret = "prompt" =>
                               U[T[q].parent].child = q \/ Background(ls, T[q].born)
        BY <3>1
      <4>1. /\ T[q].parent \in Procs \ {q, p} /\ T[T[q].parent].pc \notin Dead
            /\ T[T[q].parent].ret = "prompt" =>
                 T[T[q].parent].child = q \/ Background(ls, T[q].born)
        BY <2>2, <2>5 DEF Kin
      <4>2. /\ U[T[q].parent].pc = T[T[q].parent].pc
            /\ U[T[q].parent].ret = T[T[q].parent].ret
            /\ U[T[q].parent].child = T[T[q].parent].child
        BY <1>7, <4>1 DEF Dead
      <4> QED
        BY <4>1, <4>2
    <3> QED
      BY <2>2, <3>1, <3>2, <3>3 DEF Kin
  <2> QED
    BY <2>3, <2>4, <2>5
<1>10. Distinct(U)
  <2>1. \A q \in Procs : U[q].ret = "prompt" =>
          /\ T[q].ret = "prompt" /\ U[q].pc = T[q].pc
          /\ U[q].born = T[q].born /\ U[q].line = T[q].line
    BY <1>7, <1>8, FreeProcess
  <2>2. Distinct(T)
    BY DEF Sound
  <2> QED
    BY <2>1, <2>2 DEF Distinct
<1> QED
  BY <1>1, <1>5, <1>6, <1>9, <1>10 DEF Sound, U

\* A zombie is waited for.
Reaped(T, p) == [T EXCEPT ![T[p].child] = Free, ![p].child = Nobody]

LEMMA ReapSound ==
  ASSUME NEW T, NEW ls, Sound(T, ls), NEW p \in Procs,
         T[p].child # Nobody, T[T[p].child].pc = "zombie"
  PROVE  /\ Sound(Reaped(T, p), ls)
         /\ Reaped(T, p)[p] = Childless(T[p])
<1> DEFINE U == Reaped(T, p)
           c == T[p].child
<1>1. T \in [Procs -> Process(Words(T))] /\ ls \in Seq(Seq(Stage) \ {<<>>})
  BY DEF Sound, IsTable
<1>2. c \in Procs \ {p} /\ T[c].parent = p /\ T[c].pc = "zombie"
  BY DEF Sound, Related, Kin
<1>3. T[p].child = c
  OBVIOUS
<1> HIDE DEF c
<1>4. /\ U[c] = Free /\ U[p] = Childless(T[p])
      /\ \A q \in Procs \ {p, c} : U[q] = T[q]
  BY <1>1, <1>2 DEF Reaped, c, Childless
<1>5. /\ Childless(T[p]) \in Process(Words(T)) /\ SameButKin(Childless(T[p]), T[p])
      /\ Childless(T[p]).child = Nobody /\ Childless(T[p]).parent = T[p].parent
  BY <1>1, KinProcess
<1>6. IsTable(U)
  <2>1. U = [q \in Procs |-> U[q]]
    BY <1>1 DEF Reaped
  <2> HIDE DEF U
  <2>2. \A q \in Procs : U[q] \in {Free, T[q], Childless(T[p])}
    BY <1>4
  <2>3. ASSUME NEW q \in Procs PROVE \E V : U[q] \in Process(V)
    BY <1>1, <1>5, <2>2, FreeProcess
  <2> QED
    BY <2>1, <2>3, IsTableIf
<1> HIDE DEF U
<1>7. ASSUME NEW q \in Procs PROVE Plugged(U[q]) /\ Informed(U[q], ls)
  <2>1. CASE q = p
    BY <1>4, <1>5, <2>1, KinKeeps DEF Sound
  <2>2. CASE q = c
    <3>1. 0 \in 0..Len(ls)
      BY <1>1, LenProperties
    <3> QED
      BY <1>1, <1>4, <2>2, <3>1, FreeProcess, DeadKeeps DEF Dead
  <2> QED
    BY <1>4, <2>1, <2>2 DEF Sound
<1>8. \A q \in Procs \ {c} :
        /\ U[q].pc = T[q].pc /\ U[q].ret = T[q].ret /\ U[q].parent = T[q].parent
        /\ U[q].born = T[q].born /\ U[q].line = T[q].line
        /\ U[q].child = IF q = p THEN Nobody ELSE T[q].child
  BY <1>4, <1>5 DEF SameButKin
<1>9. Related(U, ls)
  <2>1. Related(T, ls)
    BY DEF Sound
  <2>2. \A q \in Procs : T[q].parent # c /\ (q # p => T[q].child # c)
    <3> SUFFICES ASSUME NEW q \in Procs PROVE T[q].parent # c /\ (q # p => T[q].child # c)
      OBVIOUS
    <3>1. Kin(T, ls, q) /\ c # Nobody
      BY <1>2, <2>1, ShellAssumption DEF Related, Nobody
    <3> QED
      BY <1>2, <3>1 DEF Kin, Dead
  <2> SUFFICES ASSUME NEW q \in Procs PROVE Kin(U, ls, q)
    BY DEF Related
  <2>3. Kin(T, ls, q) /\ p # Nobody /\ q # Nobody /\ c # Nobody
    BY <1>2, <2>1, ShellAssumption DEF Related, Nobody
  <2>4. CASE q = c
    BY <1>4, <2>4, FreeProcess DEF Kin, Dead, Nobody
  <2>5. CASE q # c
    BY <1>2, <1>3, <1>4, <1>8, <2>2, <2>3, <2>5 DEF Kin, Dead, Nobody
  <2> QED
    BY <2>4, <2>5
<1>10. Distinct(U)
  <2>1. \A q \in Procs : U[q].ret = "prompt" =>
          /\ T[q].ret = "prompt" /\ U[q].pc = T[q].pc
          /\ U[q].born = T[q].born /\ U[q].line = T[q].line
    BY <1>4, <1>8, FreeProcess
  <2>2. Distinct(T)
    BY DEF Sound
  <2> QED
    BY <2>1, <2>2 DEF Distinct
<1> QED
  BY <1>1, <1>4, <1>6, <1>7, <1>9, <1>10 DEF Sound, U


-----------------------------------------------------------------------------
(* The first process is sound, and typing a line changes nothing of what   *)
(* the lines before say.                                                   *)

LEMMA LongerLines ==
  ASSUME NEW T, NEW ls, Sound(T, ls), NEW l \in Seq(Stage) \ {<<>>}
  PROVE  Sound(T, Append(ls, l))
<1> DEFINE longer == Append(ls, l)
<1>1. ls \in Seq(Seq(Stage) \ {<<>>})
  BY DEF Sound
<1>2. /\ longer \in Seq(Seq(Stage) \ {<<>>}) /\ Len(longer) = Len(ls) + 1 /\ Len(ls) \in Nat
      /\ \A i \in 1..Len(ls) : longer[i] = ls[i]
  BY <1>1, AppendProperties, LenProperties
<1> HIDE DEF longer
<1>3. \A n : /\ Single(ls, n) => Single(longer, n)
             /\ Background(ls, n) => Background(longer, n)
             /\ Forsaken(ls, n) => Forsaken(longer, n)
  BY <1>2 DEF Single, Background, Forsaken
<1>4. ASSUME NEW p \in Procs PROVE Informed(T[p], longer)
  <2>1. Informed(T[p], ls)
    BY DEF Sound
  <2>2. 0..Len(ls) \subseteq 0..Len(longer)
    BY <1>2
  <2>3. T[p].line # 0 => longer[T[p].line] = ls[T[p].line]
    BY <1>2, <2>1 DEF Informed
  <2> QED
    BY <1>3, <2>1, <2>2, <2>3 DEF Informed
<1>5. Related(T, longer)
  <2>1. Related(T, ls)
    BY DEF Sound
  <2> QED
    BY <1>3, <2>1 DEF Related, Kin
<1> QED
  BY <1>2, <1>4, <1>5 DEF Sound, longer

LEMMA InitInv == Init => ShellInv
<1> SUFFICES ASSUME Init PROVE Sound(proc, <<>>) /\ lines = <<>>
  BY DEF ShellInv, Init
<1> DEFINE first == [Free EXCEPT !.pc = "prompt", !.ret = "prompt"]
           none  == <<>>
<1>1. /\ proc = [p \in Procs |-> IF p = 1 THEN first ELSE Free]
      /\ lines = <<>>
  BY DEF Init
<1>2. /\ first \in Process(NoWord) /\ first.pc = "prompt" /\ first.ret = "prompt"
      /\ first.parent = Nobody /\ first.child = Nobody /\ first.in = Tty /\ first.out = Tty
      /\ first.held = {} /\ first.line = 0 /\ first.born = 0
  BY FreeProcess DEF Process
<1> HIDE DEF first
<1>3. none \in Seq(Seq(Stage) \ {<<>>}) /\ 0 \in 0..Len(none)
  BY EmptySeq
<1> HIDE DEF none
<1>4. \A p \in Procs : proc[p] \in {first, Free} /\ (proc[p] = first => p = 1)
  BY <1>1, <1>2, FreeProcess
<1>5. IsTable(proc)
  <2>1. proc = [p \in Procs |-> proc[p]]
    BY <1>1
  <2> QED
    BY <1>2, <1>4, <2>1, FreeProcess, IsTableIf
<1>6. ASSUME NEW p \in Procs PROVE Plugged(proc[p]) /\ Informed(proc[p], none)
  <2>1. CASE proc[p] = Free
    BY <1>3, <2>1, FreeProcess, DeadKeeps DEF Dead
  <2>2. CASE proc[p] = first
    BY <1>2, <1>3, <2>2 DEF Plugged, Informed, Dead
  <2> QED
    BY <1>4, <2>1, <2>2
<1>7. Related(proc, none)
  BY <1>2, <1>4, FreeProcess DEF Related, Kin
<1>8. Distinct(proc)
  BY <1>2, <1>4, FreeProcess DEF Distinct
<1> QED
  BY <1>1, <1>3, <1>5, <1>6, <1>7, <1>8 DEF Sound, none

-----------------------------------------------------------------------------
(* The calls of the host.                                                  *)

\* Of any numbers one is the least.
LEMMA LeastNumber ==
  ASSUME NEW S \in SUBSET Nat, S # {}
  PROVE  \E n \in S : \A m \in S : n <= m
<1>1. PICK n \in S : \A m \in S : <<m, n>> \notin OpToRel(<, Nat)
  BY NatLessThanWellFounded, WFMin
<1>2. \A m \in S : ~(m < n)
  BY <1>1 DEF OpToRel
<1> QED
  BY <1>2

\* Who does not wait has no child to wait for.
LEMMA Going ==
  ASSUME ShellInv, NEW p \in Procs, proc[p].pc \notin Dead
  PROVE  /\ proc[p] \in Process(Words(proc)) /\ Plugged(proc[p]) /\ Informed(proc[p], lines)
         /\ proc[p].pc # "wait" => proc[p].child = Nobody
         /\ p # Nobody /\ p \in Nat
BY ShellAssumption DEF ShellInv, Sound, IsTable, Related, Kin, Nobody

\* fork, whether it succeeds or not.
LEMMA ForkInv ==
  ASSUME ShellInv, NEW p \in Procs, proc[p].pc \notin Dead \cup {"wait"},
         NEW V, NEW child \in Process(V), NEW W, NEW parent \in Process(W), NEW waits \in BOOLEAN,
         Fork(p, child, parent, waits), UNCHANGED lines,
         child.pc \notin Dead, parent.pc \notin Dead,
         parent.parent = proc[p].parent, parent.born = proc[p].born, parent.ret = proc[p].ret,
         waits \/ proc[p].ret = "prompt" => parent.pc = "wait",
         parent.pc # "binary",
         Plugged(child), Plugged(parent), Informed(parent, lines),
         Informed([child EXCEPT !.born = child.line], lines),
         proc[p].ret = "prompt" => waits \/ Background(lines, child.line),
         child.ret = "prompt" =>
           /\ proc[p].ret = "prompt" /\ proc[p].pc = "binary"
           /\ child.line = proc[p].line /\ child.pc # "binary"
  PROVE  ShellInv'
<1> DEFINE free == {c \in Procs : proc[c].pc = "free"}
           goes_on(c) == [parent EXCEPT !.child = c]
<1>1. \A c \in Nat :
        /\ goes_on(c) \in Process(W) /\ goes_on(c).child = c
        /\ goes_on(c).pc = parent.pc /\ goes_on(c).ret = parent.ret
        /\ goes_on(c).parent = parent.parent /\ goes_on(c).born = parent.born
        /\ goes_on(c).in = parent.in /\ goes_on(c).out = parent.out
        /\ goes_on(c).held = parent.held /\ goes_on(c).line = parent.line
        /\ goes_on(c).stage = parent.stage
  BY DEF Process
<1>2. \A c \in Nat : Plugged(goes_on(c)) /\ Informed(goes_on(c), lines)
  BY <1>1 DEF Plugged, Informed
<1>3. CASE proc' = [proc EXCEPT ![p] = goes_on(0)]
  <2> HIDE DEF goes_on
  <2>1. Sound([proc EXCEPT ![p] = goes_on(0)], lines)
    BY <1>1, <1>2, Going, ChangeSound DEF ShellInv, Nobody
  <2> QED
    BY <1>3, <2>1 DEF ShellInv
<1>4. ASSUME free # {},
             LET c == CHOOSE c \in free : \A d \in free : c <= d
             IN  proc' = [proc EXCEPT ![c] = [child EXCEPT !.parent = p, !.child = 0,
                                                           !.born = child.line],
                                      ![p] = goes_on(IF waits THEN c ELSE 0)]
      PROVE  ShellInv'
  <2>1. PICK c \in free :
          proc' = [proc EXCEPT ![c] = [child EXCEPT !.parent = p, !.child = 0,
                                                    !.born = child.line],
                               ![p] = goes_on(IF waits THEN c ELSE 0)]
    <3>1. free \subseteq Nat
      BY ShellAssumption
    <3>2. \E c \in free : \A d \in free : c <= d
      BY <1>4, <3>1, LeastNumber
    <3> QED
      BY <1>4, <3>2
  <2> DEFINE started == [child EXCEPT !.parent = p, !.child = 0, !.born = child.line]
             next == goes_on(IF waits THEN c ELSE 0)
  <2>2. /\ started \in Process(V) /\ started.pc = child.pc /\ started.ret = child.ret
        /\ started.parent = p /\ started.child = Nobody /\ started.born = child.line
        /\ started.line = child.line /\ started.stage = child.stage
        /\ started.in = child.in /\ started.out = child.out /\ started.held = child.held
    BY Going DEF Process, Nobody
  <2>3. Plugged(started) /\ Informed(started, lines)
    <3> DEFINE born == [child EXCEPT !.born = child.line]
    <3>1. /\ born.pc = child.pc /\ born.ret = child.ret /\ born.line = child.line
          /\ born.stage = child.stage /\ born.born = child.line
      BY DEF Process
    <3> HIDE DEF born, started
    <3>2. Informed(born, lines)
      BY DEF born
    <3> QED
      BY <2>2, <3>1, <3>2 DEF Plugged, Informed
  <2> HIDE DEF started
  <2>4. c \in Procs /\ proc[c].pc = "free" /\ c \in Nat
    BY ShellAssumption
  <2>5. Sound([proc EXCEPT ![c] = started, ![p] = next], lines)
    <3>1. next.child = IF waits THEN c ELSE 0
      BY <1>1, <2>4
    <3>2. /\ next \in Process(W) /\ next.pc = parent.pc /\ next.ret = parent.ret
          /\ next.parent = parent.parent /\ next.born = parent.born
          /\ Plugged(next) /\ Informed(next, lines)
      BY <1>1, <1>2, <2>4
    <3> HIDE DEF next, goes_on
    <3>3. /\ next.child = Nobody \/ (next.child = c /\ next.pc = "wait")
          /\ proc[p].ret = "prompt" =>
               next.pc = "wait" /\ (next.child = c \/ Background(lines, started.born))
      BY <2>2, <3>1, <3>2 DEF Nobody
    <3>4. proc[p].child = Nobody /\ Sound(proc, lines)
      BY Going DEF ShellInv
    <3> QED
      BY <2>2, <2>3, <2>4, <3>2, <3>3, <3>4, ForkSound
  <2> QED
    BY <2>1, <2>5 DEF ShellInv, started
<1> QED
  BY <1>3, <1>4 DEF Fork

\* write, whether it is carried out or kills.
LEMMA WriteInv ==
  ASSUME ShellInv, NEW p \in Procs, proc[p].pc \notin Dead \cup {"wait"},
         NEW item, NEW W, NEW next \in Process(W), Write(p, item, next), UNCHANGED lines,
         next.pc \notin Dead, next.pc # "binary",
         next.parent = proc[p].parent, next.born = proc[p].born, next.child = Nobody,
         next.ret = proc[p].ret \/ next.ret = "exit",
         Plugged(next), Informed(next, lines)
  PROVE  ShellInv'
<1>1. proc[p].child = Nobody /\ Sound(proc, lines)
  BY Going DEF ShellInv
<1>2. CASE proc' = [proc EXCEPT ![p] = next]
  <2>1. Sound([proc EXCEPT ![p] = next], lines)
    BY <1>1, ChangeSound
  <2> QED
    BY <1>2, <2>1 DEF ShellInv
<1>3. CASE proc' = Exited(proc, p)
  BY <1>1, <1>3, ExitSound DEF ShellInv
<1> QED
  BY <1>2, <1>3 DEF Write

-----------------------------------------------------------------------------
(* The actions.                                                            *)

\* A line is typed: it is new, so nobody was born for it or runs it.
LEMMA ReadLineInv ==
  ASSUME ShellInv, NEW p \in Procs, ReadLine(p)
  PROVE  ShellInv'
<1> DEFINE q == proc[p]
           n == Len(lines) + 1
<1>1. PICK s \in Sessions :
        /\ IsStrictPrefix(lines, s) /\ lines' = Append(lines, s[n])
        /\ proc' = [proc EXCEPT ![p].line = n, ![p].stage = 1,
                                ![p].pc = IF Len(Last(lines')) = 1 THEN "binary" ELSE "line"]
  BY DEF ReadLine
<1>2. lines \in Seq(Seq(Stage) \ {<<>>}) /\ Len(lines) \in Nat
  BY LenProperties DEF ShellInv, Sound
<1>3. s[n] \in Seq(Stage) \ {<<>>}
  <2>1. s \in Seq(Seq(Stage) \ {<<>>}) /\ Len(s) \in Nat
    BY ShellAssumption, LenProperties
  <2>2. Len(lines) <= Len(s) /\ SubSeq(lines, 1, Len(lines)) = SubSeq(s, 1, Len(lines)) /\ lines # s
    BY <1>1 DEF IsStrictPrefix, IsPrefix
  <2>3. SubSeq(lines, 1, Len(lines)) = lines /\ SubSeq(s, 1, Len(s)) = s
    BY <1>2, <2>1, SubSeqFull
  <2>4. Len(lines) # Len(s)
    BY <2>2, <2>3
  <2>5. n \in 1..Len(s)
    BY <1>2, <2>1, <2>2, <2>4
  <2> QED
    BY <2>1, <2>5, ElementOfSeq
<1>4. /\ Sound(proc, lines') /\ Len(lines') = n /\ lines'[n] = s[n]
      /\ Last(lines') = lines'[n]
  BY <1>1, <1>2, <1>3, LongerLines, AppendProperties DEF ShellInv, Last
<1> PICK pc \in {"binary", "line"} : pc = IF Len(lines'[n]) = 1 THEN "binary" ELSE "line"
  OBVIOUS
<1> DEFINE r == [q EXCEPT !.line = n, !.stage = 1, !.pc = pc]
<1>5. q.pc = "prompt" /\ q.pc \notin Dead
  BY DEF ReadLine, Dead
<1>6. /\ q \in Process(Words(proc)) /\ Plugged(q) /\ Informed(q, lines) /\ q.child = Nobody
  BY <1>5, Going
<1>7. proc' = [proc EXCEPT ![p] = r]
  BY <1>1, <1>4
<1> HIDE DEF q, n
<1>8. /\ r \in Process(Words(proc)) /\ r.line = n /\ r.stage = 1 /\ r.pc = pc
      /\ r.ret = q.ret /\ r.in = q.in /\ r.out = q.out /\ r.held = q.held /\ r.born = q.born
      /\ r.parent = q.parent /\ r.child = q.child
  <2>1. n \in Nat /\ pc # "free"
    BY <1>2 DEF n
  <2> QED
    BY <1>6, <2>1 DEF Process, Dead
<1> HIDE DEF r
<1> USE DEF q, n
<1>9. q.ret = "prompt" /\ q.in = Tty /\ q.out = Tty /\ q.held = {}
  BY <1>5, <1>6 DEF Informed, Plugged, Dead
<1>10. Plugged(r)
  BY <1>8, <1>9 DEF Plugged
<1>11. Informed(r, lines')
  <2>1. Informed(q, lines')
    BY <1>4 DEF Sound
  <2>2. n \in 0..Len(lines') /\ n \in 1..Len(lines') /\ n # 0
    BY <1>2, <1>4
  <2> QED
    BY <1>5, <1>8, <1>9, <2>1, <2>2 DEF Informed, Single, Dead
<1>12. \A o \in Procs : proc[o].born # n /\ proc[o].line # n
  <2>1. \A o \in Procs : proc[o].born \in 0..Len(lines) /\ proc[o].line \in 0..Len(lines)
    BY DEF ShellInv, Sound, Informed
  <2> QED
    BY <1>2, <2>1
<1>13. r.pc \notin Dead
  BY <1>8 DEF Dead
<1>14. Sound([proc EXCEPT ![p] = r], lines')
  BY <1>4, <1>5, <1>6, <1>8, <1>10, <1>11, <1>12, <1>13, ChangeSound
<1> QED
  BY <1>7, <1>14 DEF ShellInv

\* The shell of a line with pipes waits for the process of the pipeline.
LEMMA PipelineInv ==
  ASSUME ShellInv, NEW p \in Procs, parseAndExecuteCommand(p)
  PROVE  ShellInv'
<1> DEFINE q == proc[p]
           child  == [q EXCEPT !.pc = "piping", !.ret = "exit"]
           parent == [q EXCEPT !.pc = "wait"]
           back   == [q EXCEPT !.pc = "prompt"]
<1>1. q.pc = "line" /\ UNCHANGED lines /\ q.pc \notin Dead \cup {"wait"}
  BY DEF parseAndExecuteCommand, Dead
<1>2. q \in Process(Words(proc)) /\ Plugged(q) /\ Informed(q, lines) /\ q.child = Nobody
  BY <1>1, Going
<1>3. /\ q.ret = "prompt" /\ q.in = Tty /\ q.out = Tty /\ q.held = {}
      /\ q.line # 0 /\ q.stage # 0
  BY <1>1, <1>2 DEF Informed, Plugged, Dead
<1>4. /\ back \in Process(Words(proc)) /\ back.pc = "prompt" /\ back.ret = q.ret
      /\ back.in = q.in /\ back.out = q.out /\ back.held = q.held /\ back.line = q.line
      /\ back.stage = q.stage /\ back.born = q.born /\ back.parent = q.parent
      /\ back.child = q.child
  BY <1>2 DEF Process
<1>5. /\ parent \in Process(Words(proc)) /\ parent.pc = "wait" /\ parent.ret = q.ret
      /\ parent.in = q.in /\ parent.out = q.out /\ parent.held = q.held
      /\ parent.line = q.line /\ parent.stage = q.stage /\ parent.born = q.born
      /\ parent.parent = q.parent
  BY <1>2 DEF Process
<1>6. /\ child \in Process(Words(proc)) /\ child.pc = "piping" /\ child.ret = "exit"
      /\ child.in = q.in /\ child.out = q.out /\ child.held = q.held
      /\ child.line = q.line /\ child.stage = q.stage
      /\ [child EXCEPT !.born = child.line].pc = "piping"
      /\ [child EXCEPT !.born = child.line].ret = "exit"
      /\ [child EXCEPT !.born = child.line].line = q.line
      /\ [child EXCEPT !.born = child.line].stage = q.stage
      /\ [child EXCEPT !.born = child.line].born = q.line
  BY <1>2 DEF Process
<1> HIDE DEF back, parent, child
<1>7. CASE Fork(p, child, parent, TRUE)
  <2>1. Plugged(child) /\ Plugged(parent)
    BY <1>2, <1>3, <1>5, <1>6 DEF Plugged, Dead
  <2>2. Informed(parent, lines) /\ Informed([child EXCEPT !.born = child.line], lines)
    BY <1>1, <1>2, <1>3, <1>5, <1>6 DEF Informed, Dead
  <2> QED
    BY <1>1, <1>2, <1>5, <1>6, <1>7, <2>1, <2>2, ForkInv DEF Dead
<1>8. CASE proc' = [proc EXCEPT ![p] = back]
  <2>1. Plugged(back) /\ Informed(back, lines)
    BY <1>1, <1>2, <1>3, <1>4 DEF Plugged, Informed, Dead
  <2>2. Sound([proc EXCEPT ![p] = back], lines)
    BY <1>1, <1>2, <1>3, <1>4, <2>1, ChangeSound DEF ShellInv, Dead
  <2> QED
    BY <1>1, <1>8, <2>2 DEF ShellInv
<1>9. proc' = [proc EXCEPT ![p].pc = "prompt"] => proc' = [proc EXCEPT ![p] = back]
  BY DEF back
<1> QED
  BY <1>7, <1>8, <1>9 DEF parseAndExecuteCommand, child, parent

\* What a process is but for what it does next.
SameButPc(r, q) ==
  /\ r.ret = q.ret /\ r.line = q.line /\ r.stage = q.stage /\ r.in = q.in /\ r.out = q.out
  /\ r.held = q.held /\ r.born = q.born /\ r.parent = q.parent /\ r.child = q.child

Moved(q, pc) == [q EXCEPT !.pc = pc]
Left(q, pc)  == [q EXCEPT !.pc = pc, !.ret = "exit"]

LEMMA MovedProcess ==
  ASSUME NEW W, NEW q \in Process(W),
         NEW pc \in {"prompt", "line", "binary", "exec", "program", "refused", "wait"}
  PROVE  Moved(q, pc) \in Process(W) /\ Moved(q, pc).pc = pc /\ SameButPc(Moved(q, pc), q)
BY DEF Process, Moved, SameButPc

\* The process of a pipeline connects the last stage to the pipe before it.
LEMMA LastStage ==
  ASSUME NEW W, NEW q \in Process(W), NEW ls, Plugged(q), Informed(q, ls), q.pc = "piping"
  PROVE  LET r == duplicateFileDescriptors([q EXCEPT !.pc = "binary"], file_desc(q), "in")
         IN  /\ r \in Process(W) /\ r.pc = "binary" /\ r.ret = q.ret /\ r.born = q.born
             /\ r.parent = q.parent /\ r.child = q.child
             /\ Plugged(r) /\ Informed(r, ls)
<1> DEFINE r == duplicateFileDescriptors([q EXCEPT !.pc = "binary"], file_desc(q), "in")
           before == ReadEnd(q.line, q.stage - 1)
<1>1. /\ q.ret = "exit" /\ q.line # 0 /\ q.stage # 0 /\ q.stage \in Nat /\ q.line \in Nat
      /\ q.out = Tty
  BY DEF Informed, Plugged, Process, Dead
<1>2. CASE q.stage = 1
  <2>1. r = [q EXCEPT !.pc = "binary"]
    BY <1>2 DEF file_desc, duplicateFileDescriptors
  <2> HIDE DEF r
  <2>2. /\ r \in Process(W) /\ r.pc = "binary" /\ SameButPc(r, q)
    BY <2>1, MovedProcess DEF Moved
  <2> QED
    BY <1>1, <2>2 DEF SameButPc, Plugged, Informed, Dead, r
<1>3. CASE q.stage # 1
  <2>1. before \in AnyEnd /\ before # Tty /\ before \in ReadEnds(q.line, 1..(q.stage - 1))
    BY <1>1, <1>3, EndsDiffer DEF AnyEnd, ReadEnds
  <2>2. r = [q EXCEPT !.pc = "binary", !.in = before, !.held = q.held \ {before}]
    BY <1>3, <2>1 DEF file_desc, duplicateFileDescriptors, Process
  <2> HIDE DEF r, before
  <2>3. /\ r \in Process(W) /\ r.pc = "binary" /\ r.ret = q.ret /\ r.line = q.line
        /\ r.stage = q.stage /\ r.in = before /\ r.out = q.out /\ r.held = q.held \ {before}
        /\ r.born = q.born /\ r.parent = q.parent /\ r.child = q.child
    BY <2>1, <2>2 DEF Process
  <2>4. Plugged(r)
    BY <1>1, <2>1, <2>3 DEF Plugged, Dead
  <2>5. Informed(r, ls)
    BY <1>1, <2>3 DEF Informed, Dead
  <2> QED
    BY <2>3, <2>4, <2>5 DEF r
<1> QED
  BY <1>2, <1>3

\* It keeps the read end of a new pipe, and the child it forks has both ends of it.
LEMMA NextStage ==
  ASSUME NEW W, NEW q \in Process(W), NEW ls, Plugged(q), Informed(q, ls), q.pc = "piping"
  PROVE  LET child == [q EXCEPT !.pc = "stage",
                                !.held = @ \cup {ReadEnd(q.line, q.stage), WriteEnd(q.line, q.stage)}]
             parent == after_fork(q)
         IN  /\ child \in Process(W) /\ child.pc = "stage" /\ child.ret = "exit"
             /\ parent \in Process(W) /\ parent.pc = "piping" /\ parent.ret = q.ret
             /\ parent.parent = q.parent /\ parent.born = q.born
             /\ Plugged(child) /\ Plugged(parent)
             /\ Informed([child EXCEPT !.born = child.line], ls) /\ Informed(parent, ls)
<1> DEFINE own == {ReadEnd(q.line, q.stage), WriteEnd(q.line, q.stage)}
           earlier == ReadEnds(q.line, 1..(q.stage - 1))
           child == [q EXCEPT !.pc = "stage", !.held = @ \cup own]
           parent == after_fork(q)
           started == [child EXCEPT !.born = child.line]
<1>1. /\ q.ret = "exit" /\ q.line # 0 /\ q.stage # 0 /\ q.stage \in Nat /\ q.line \in Nat
      /\ q.out = Tty /\ q.in \in {Tty} \cup earlier /\ q.held \subseteq earlier
      /\ q.line \in 0..Len(ls) /\ q.born \in 0..Len(ls) /\ q.held \subseteq AnyEnd
  BY DEF Informed, Plugged, Process, Dead
<1>2. own \subseteq AnyEnd /\ ReadEnd(q.line, q.stage) \in AnyEnd
  BY <1>1 DEF AnyEnd
<1>3. ReadEnds(q.line, 1..(q.stage + 1 - 1)) = earlier \cup {ReadEnd(q.line, q.stage)}
  BY <1>1 DEF ReadEnds
<1> HIDE DEF own, earlier
<1>4. /\ child \in Process(W) /\ child.pc = "stage" /\ child.ret = "exit"
      /\ child.held = q.held \cup own /\ child.in = q.in /\ child.out = q.out
      /\ child.line = q.line /\ child.stage = q.stage
  BY <1>1, <1>2 DEF Process
<1>5. /\ started.pc = "stage" /\ started.ret = "exit" /\ started.line = q.line
      /\ started.stage = q.stage /\ started.born = q.line
  BY <1>1 DEF Process
<1>6. /\ parent \in Process(W) /\ parent.pc = "piping" /\ parent.ret = q.ret
      /\ parent.parent = q.parent /\ parent.born = q.born /\ parent.line = q.line
      /\ parent.stage = q.stage + 1 /\ parent.in = q.in /\ parent.out = q.out
      /\ parent.held = q.held \cup {ReadEnd(q.line, q.stage)}
  <2>1. parent = [q EXCEPT !.stage = q.stage + 1, !.held = q.held \cup {ReadEnd(q.line, q.stage)}]
    BY DEF after_fork, Process
  <2> HIDE DEF parent
  <2>2. q.stage + 1 \in Nat
    BY <1>1
  <2> QED
    BY <1>1, <1>2, <2>1, <2>2 DEF Process
<1> HIDE DEF child, parent, started
<1>7. Plugged(child)
  BY <1>1, <1>4 DEF Plugged, earlier, own, Dead
<1>8. Plugged(parent)
  <2>1. parent.stage - 1 = q.stage + 1 - 1
    BY <1>1, <1>6
  <2>2. ReadEnds(parent.line, 1..(parent.stage - 1)) = earlier \cup {ReadEnd(q.line, q.stage)}
    BY <1>3, <1>6, <2>1
  <2> QED
    BY <1>1, <1>6, <2>2 DEF Plugged, Dead
<1>9. Informed(started, ls) /\ Informed(parent, ls)
  BY <1>1, <1>5, <1>6 DEF Informed, Dead
<1> QED
  BY <1>4, <1>6, <1>7, <1>8, <1>9 DEF child, parent, started, own

\* A stage has its output in the pipe behind it and neither end of it open otherwise.
LEMMA RedirectedStage ==
  ASSUME NEW W, NEW q \in Process(W), NEW ls, Plugged(q), Informed(q, ls), q.pc = "stage"
  PROVE  LET r == redirected([q EXCEPT !.pc = "binary"])
         IN  /\ r \in Process(W) /\ r.pc = "binary" /\ r.ret = q.ret /\ r.born = q.born
             /\ r.parent = q.parent /\ r.child = q.child
             /\ Plugged(r) /\ Informed(r, ls)
<1> DEFINE first  == [q EXCEPT !.pc = "binary", !.held = q.held \ {ReadEnd(q.line, q.stage)}]
           middle == duplicateFileDescriptors(first, file_desc(q), "in")
           last   == duplicateFileDescriptors(middle, WriteEnd(q.line, q.stage), "out")
           before == ReadEnd(q.line, q.stage - 1)
           behind == WriteEnd(q.line, q.stage)
           earlier == ReadEnds(q.line, 1..(q.stage - 1))
<1>1. /\ q.ret = "exit" /\ q.line # 0 /\ q.stage # 0 /\ q.stage \in Nat /\ q.line \in Nat
      /\ q.in \in {Tty} \cup earlier
      /\ q.held \subseteq earlier \cup {ReadEnd(q.line, q.stage), behind}
      /\ q.held \subseteq AnyEnd
  BY DEF Informed, Plugged, Process, Dead
<1>2. redirected([q EXCEPT !.pc = "binary"]) = last
  BY DEF redirected, file_desc, Process
<1>3. behind \in AnyEnd /\ behind # Tty
  BY <1>1, EndsDiffer DEF AnyEnd
<1>4. /\ first \in Process(W) /\ first.pc = "binary" /\ first.ret = q.ret
      /\ first.line = q.line /\ first.stage = q.stage /\ first.in = q.in
      /\ first.out = q.out /\ first.held = q.held \ {ReadEnd(q.line, q.stage)}
      /\ first.born = q.born /\ first.parent = q.parent /\ first.child = q.child
  BY <1>1 DEF Process
<1> HIDE DEF first, behind
<1>5. /\ middle \in Process(W) /\ middle.pc = "binary" /\ middle.ret = q.ret
      /\ middle.line = q.line /\ middle.stage = q.stage /\ middle.in \in {Tty} \cup earlier
      /\ middle.out = q.out /\ middle.held \subseteq first.held
      /\ middle.born = q.born /\ middle.parent = q.parent /\ middle.child = q.child
  <2>1. CASE q.stage = 1
    BY <1>1, <1>4, <2>1 DEF file_desc, duplicateFileDescriptors
  <2>2. CASE q.stage # 1
    <3>1. before \in AnyEnd /\ before # Tty /\ before \in earlier
      BY <1>1, <2>2, EndsDiffer DEF AnyEnd, ReadEnds
    <3>2. middle = [first EXCEPT !.in = before, !.held = first.held \ {before}]
      BY <1>4, <2>2, <3>1 DEF file_desc, duplicateFileDescriptors, Process
    <3> HIDE DEF middle, before, earlier
    <3> QED
      BY <1>4, <3>1, <3>2 DEF Process
  <2> QED
    BY <2>1, <2>2
<1> HIDE DEF middle
<1>6. /\ last \in Process(W) /\ last.pc = "binary" /\ last.ret = q.ret
      /\ last.line = q.line /\ last.stage = q.stage /\ last.in \in {Tty} \cup earlier
      /\ last.out = behind /\ last.held = middle.held \ {behind}
      /\ last.born = q.born /\ last.parent = q.parent /\ last.child = q.child
  <2>1. last = [middle EXCEPT !.out = behind, !.held = middle.held \ {behind}]
    BY <1>3, <1>5 DEF duplicateFileDescriptors, Process, behind
  <2> HIDE DEF last, earlier
  <2> QED
    BY <1>3, <1>5, <2>1 DEF Process
<1> HIDE DEF last, earlier
<1>7. last.held \subseteq earlier
  BY <1>1, <1>4, <1>5, <1>6
<1>8. Plugged(last)
  BY <1>1, <1>6, <1>7 DEF Plugged, Dead, behind, earlier
<1>9. Informed(last, ls)
  BY <1>1, <1>6 DEF Informed, Dead
<1> QED
  BY <1>2, <1>6, <1>8, <1>9

LEMMA RunPipingInv ==
  ASSUME ShellInv, NEW p \in Procs, runPiping(p)
  PROVE  ShellInv'
<1> DEFINE q == proc[p]
           r == duplicateFileDescriptors([q EXCEPT !.pc = "binary"], file_desc(q), "in")
           child == [q EXCEPT !.pc = "stage",
                              !.held = @ \cup {ReadEnd(q.line, q.stage), WriteEnd(q.line, q.stage)}]
           parent == after_fork(q)
<1>1. q.pc = "piping" /\ UNCHANGED lines /\ q.pc \notin Dead \cup {"wait"}
  BY DEF runPiping, Dead
<1>2. /\ q \in Process(Words(proc)) /\ Plugged(q) /\ Informed(q, lines) /\ q.child = Nobody
  BY <1>1, Going
<1>3. q.ret = "exit"
  BY <1>1, <1>2 DEF Informed
<1>4. CASE proc' = [proc EXCEPT ![p] = r]
  <2>1. /\ r \in Process(Words(proc)) /\ r.pc = "binary" /\ r.ret = q.ret /\ r.born = q.born
        /\ r.parent = q.parent /\ r.child = q.child
        /\ Plugged(r) /\ Informed(r, lines)
    BY <1>1, <1>2, LastStage
  <2> HIDE DEF r
  <2>2. Sound([proc EXCEPT ![p] = r], lines)
    BY <1>1, <1>2, <1>3, <2>1, ChangeSound DEF ShellInv, Dead
  <2> QED
    BY <1>1, <1>4, <2>2 DEF ShellInv
<1>5. CASE Fork(p, child, parent, FALSE)
  <2>1. /\ child \in Process(Words(proc)) /\ child.pc = "stage" /\ child.ret = "exit"
        /\ parent \in Process(Words(proc)) /\ parent.pc = "piping" /\ parent.ret = q.ret
        /\ parent.parent = q.parent /\ parent.born = q.born
        /\ Plugged(child) /\ Plugged(parent)
        /\ Informed([child EXCEPT !.born = child.line], lines) /\ Informed(parent, lines)
    BY <1>1, <1>2, NextStage
  <2> HIDE DEF child, parent
  <2> QED
    BY <1>1, <1>3, <1>5, <2>1, ForkInv DEF Dead
<1> QED
  BY <1>4, <1>5 DEF runPiping

LEMMA RunStageInv ==
  ASSUME ShellInv, NEW p \in Procs, run_stage(p)
  PROVE  ShellInv'
<1> DEFINE q == proc[p]
           r == redirected([q EXCEPT !.pc = "binary"])
<1>1. q.pc = "stage" /\ UNCHANGED lines /\ q.pc \notin Dead \cup {"wait"}
  BY DEF run_stage, Dead
<1>2. q \in Process(Words(proc)) /\ Plugged(q) /\ Informed(q, lines) /\ q.child = Nobody
  BY <1>1, Going
<1>3. q.ret = "exit"
  BY <1>1, <1>2 DEF Informed
<1>4. proc' = [proc EXCEPT ![p] = r]
  BY <1>2 DEF run_stage, ShellInv, Sound, IsTable
<1>5. /\ r \in Process(Words(proc)) /\ r.pc = "binary" /\ r.ret = q.ret /\ r.born = q.born
      /\ r.parent = q.parent /\ r.child = q.child
      /\ Plugged(r) /\ Informed(r, lines)
  BY <1>1, <1>2, RedirectedStage
<1> HIDE DEF r
<1>6. Sound([proc EXCEPT ![p] = r], lines)
  BY <1>1, <1>2, <1>3, <1>5, ChangeSound DEF ShellInv, Dead
<1> QED
  BY <1>1, <1>4, <1>6 DEF ShellInv

\* A shell that does not wait for the child has put it into the background.
LEMMA ExecuteBinaryInv ==
  ASSUME ShellInv, NEW p \in Procs, executeBinary(p)
  PROVE  ShellInv'
<1> DEFINE q == proc[p]
           child  == [q EXCEPT !.pc = "exec"]
           parent == [q EXCEPT !.pc = "wait"]
           started == [child EXCEPT !.born = child.line]
<1>1. q.pc = "binary" /\ UNCHANGED lines /\ q.pc \notin Dead \cup {"wait"}
  BY DEF executeBinary, Dead
<1>2. q \in Process(Words(proc)) /\ Plugged(q) /\ Informed(q, lines) /\ q.child = Nobody
  BY <1>1, Going
<1>3. /\ q.line # 0 /\ q.line \in 0..Len(lines) /\ q.stage # 0
      /\ q.ret = "prompt" =>
           /\ q.stage = 1 /\ Single(lines, q.line)
           /\ q.born = 0 \/ Forsaken(lines, q.born)
  BY <1>1, <1>2 DEF Informed, Dead
<1> PICK waits \in BOOLEAN : waits = ~Command(p).background
  OBVIOUS
<1>4. Fork(p, child, parent, waits)
  BY DEF executeBinary
<1>5. q.ret = "prompt" => waits \/ Background(lines, q.line)
  BY <1>3 DEF Command, Background
<1>6. /\ parent \in Process(Words(proc)) /\ parent.pc = "wait" /\ SameButPc(parent, q)
      /\ child \in Process(Words(proc)) /\ child.pc = "exec" /\ SameButPc(child, q)
  BY <1>2, MovedProcess DEF Moved
<1>7. /\ started.pc = "exec" /\ started.ret = q.ret /\ started.line = q.line
      /\ started.stage = q.stage /\ started.born = q.line
  BY <1>2, <1>6 DEF Process, SameButPc
<1> HIDE DEF child, parent, started
<1>8. Plugged(child) /\ Plugged(parent)
  BY <1>1, <1>2, <1>6 DEF Plugged, SameButPc, Dead
<1>9. Informed(parent, lines) /\ Informed(started, lines)
  BY <1>1, <1>2, <1>3, <1>6, <1>7 DEF Informed, SameButPc, Dead
<1>10. /\ child.pc \notin Dead /\ parent.pc \notin Dead /\ parent.pc # "binary"
       /\ child.pc # "binary" /\ child.line = q.line /\ child.ret = q.ret
       /\ parent.ret = q.ret /\ parent.born = q.born /\ parent.parent = q.parent
  BY <1>6 DEF SameButPc, Dead
<1>11. Informed([child EXCEPT !.born = child.line], lines)
  BY <1>9 DEF started
<1> QED
  BY <1>1, <1>4, <1>5, <1>6, <1>8, <1>9, <1>10, <1>11, ForkInv

LEMMA ExecvpeInv ==
  ASSUME ShellInv, NEW p \in Procs, execvpe(p)
  PROVE  ShellInv'
<1> DEFINE q == proc[p]
<1> PICK pc \in {"refused", "program"} :
      pc = IF Command(p).program = "missing" THEN "refused" ELSE "program"
  OBVIOUS
<1> DEFINE r == [q EXCEPT !.pc = pc]
<1>1. q.pc = "exec" /\ UNCHANGED lines /\ q.pc \notin Dead \cup {"wait"}
  BY DEF execvpe, Dead
<1>2. q \in Process(Words(proc)) /\ Plugged(q) /\ Informed(q, lines) /\ q.child = Nobody
  BY <1>1, Going
<1>3. Write(p, "PATH", r)
  BY DEF execvpe
<1>4. r \in Process(Words(proc)) /\ r.pc = pc /\ SameButPc(r, q)
  <2>1. r = Moved(q, pc)
    BY DEF Moved
  <2> HIDE DEF r
  <2> QED
    BY <1>2, <2>1, MovedProcess
<1> HIDE DEF r
<1>5. Plugged(r)
  BY <1>1, <1>2, <1>4 DEF Plugged, SameButPc, Dead
<1>6. Informed(r, lines)
  BY <1>1, <1>2, <1>4 DEF Informed, SameButPc, Dead, Command
<1>7. /\ r.pc \notin Dead /\ r.pc # "binary" /\ r.parent = q.parent /\ r.born = q.born
      /\ r.child = Nobody /\ r.ret = q.ret
  BY <1>2, <1>4 DEF SameButPc, Dead
<1> QED
  BY <1>1, <1>3, <1>4, <1>5, <1>6, <1>7, WriteInv

\* The child of a background command that cannot be executed becomes a shell, and the
\* line says that it was forsaken.
LEMMA NotExecutedInv ==
  ASSUME ShellInv, NEW p \in Procs, not_executed(p)
  PROVE  ShellInv'
<1> DEFINE q == proc[p]
<1> PICK ret \in {q.ret, "exit"} : ret = IF Command(p).background THEN q.ret ELSE "exit"
  OBVIOUS
<1> DEFINE r == [q EXCEPT !.pc = "wait", !.child = 0, !.ret = ret]
<1>1. q.pc = "refused" /\ UNCHANGED lines /\ q.pc \notin Dead \cup {"wait"}
  BY DEF not_executed, Dead
<1>2. /\ q \in Process(Words(proc)) /\ Plugged(q) /\ Informed(q, lines) /\ q.child = Nobody
      /\ lines \in Seq(Seq(Stage) \ {<<>>})
  BY <1>1, Going DEF ShellInv, Sound
<1>3. PICK item : Write(p, item, r)
  BY DEF not_executed, refused
<1>4. /\ r \in Process(Words(proc)) /\ r.pc = "wait" /\ r.ret = ret /\ r.child = Nobody
      /\ r.line = q.line /\ r.stage = q.stage /\ r.in = q.in /\ r.out = q.out
      /\ r.held = q.held /\ r.born = q.born /\ r.parent = q.parent
  BY <1>2 DEF Process, Dead, Nobody
<1> HIDE DEF r
<1>5. Plugged(r)
  BY <1>1, <1>2, <1>4 DEF Plugged, Dead
<1>6. ASSUME ret = "prompt" PROVE Forsaken(lines, q.born)
  <2>1. /\ q.ret = "prompt" /\ q.born = q.line /\ q.stage = 1 /\ Single(lines, q.line)
        /\ lines[q.line][1].program = "missing"
    BY <1>1, <1>2, <1>6 DEF Informed
  <2>2. /\ lines[q.line] \in Seq(Stage) /\ Len(lines[q.line]) = 1
        /\ lines[q.line] = <<lines[q.line][1]>> /\ lines[q.line][1] \in Stage
    <3>1. lines[q.line] \in Seq(Stage) /\ Len(lines[q.line]) = 1
      BY <1>2, <2>1, ElementOfSeq DEF Single
    <3> QED
      BY <3>1
  <2>3. lines[q.line][1].background = TRUE
    BY <1>6, <2>1, <2>2 DEF Command, Stage
  <2>4. lines[q.line][1] = Missing
    BY <2>1, <2>2, <2>3 DEF Stage, Missing
  <2> QED
    BY <2>1, <2>2, <2>4 DEF Forsaken, Single
<1>7. Informed(r, lines)
  BY <1>1, <1>2, <1>4, <1>6 DEF Informed, Dead
<1>8. r.pc \notin Dead /\ r.pc # "binary"
  BY <1>4 DEF Dead
<1> QED
  BY <1>1, <1>3, <1>4, <1>5, <1>7, <1>8, WriteInv

\* Who waited reaps its child, and goes back to the prompt or ends.
LEMMA WaitInv ==
  ASSUME ShellInv, NEW p \in Procs, waitForProcessExecution(p)
  PROVE  ShellInv'
<1> DEFINE q == proc[p]
           reaped == IF q.child = 0 THEN proc ELSE Reaped(proc, p)
           r == [reaped[p] EXCEPT !.pc = "prompt"]
<1>1. /\ q.pc = "wait" /\ UNCHANGED lines /\ q.pc \notin Dead
      /\ q.child # 0 => proc[q.child].pc = "zombie"
      /\ proc' = IF q.ret = "prompt" THEN [reaped EXCEPT ![p].pc = "prompt"]
                 ELSE Exited(reaped, p)
  BY DEF waitForProcessExecution, Dead, Reaped, Nobody
<1>2. q \in Process(Words(proc)) /\ Plugged(q) /\ Informed(q, lines)
  BY <1>1, Going
<1>3. Sound(reaped, lines) /\ reaped[p].child = Nobody /\ SameButKin(reaped[p], q)
  <2>1. CASE q.child = 0
    BY <1>2, <2>1 DEF ShellInv, SameButKin, Nobody
  <2>2. CASE q.child # 0
    <3>1. Sound(Reaped(proc, p), lines) /\ Reaped(proc, p)[p] = Childless(q)
      BY <1>1, <2>2, ReapSound DEF ShellInv, Nobody
    <3>2. SameButKin(Childless(q), q) /\ Childless(q).child = Nobody
      BY <1>2, KinProcess
    <3> QED
      BY <2>2, <3>1, <3>2
  <2> QED
    BY <2>1, <2>2
<1> HIDE DEF reaped
<1>4. reaped[p] \in Process(Words(reaped)) /\ Plugged(reaped[p]) /\ Informed(reaped[p], lines)
  BY <1>3 DEF Sound, IsTable
<1>5. reaped[p].pc \notin Dead /\ reaped[p].ret = q.ret /\ reaped[p].pc = "wait"
  BY <1>1, <1>3 DEF SameButKin
<1>6. CASE q.ret = "prompt"
  <2>1. proc' = [reaped EXCEPT ![p] = r]
    BY <1>1, <1>6
  <2>2. r \in Process(Words(reaped)) /\ r.pc = "prompt" /\ SameButPc(r, reaped[p])
    BY <1>4, MovedProcess DEF Moved
  <2> HIDE DEF r
  <2>3. Plugged(r) /\ Informed(r, lines)
    BY <1>4, <1>5, <1>6, <2>2 DEF Plugged, Informed, SameButPc, Dead
  <2>4. /\ r.pc \notin Dead /\ r.pc # "binary" /\ r.parent = reaped[p].parent
        /\ r.born = reaped[p].born /\ r.child = reaped[p].child /\ r.ret = reaped[p].ret
    BY <2>2 DEF SameButPc, Dead
  <2>5. Sound([reaped EXCEPT ![p] = r], lines)
    BY <1>3, <1>5, <2>2, <2>3, <2>4, ChangeSound
  <2> QED
    BY <1>1, <2>1, <2>5 DEF ShellInv
<1>7. CASE q.ret # "prompt"
  <2>1. Sound(Exited(reaped, p), lines)
    BY <1>3, <1>5, ExitSound
  <2> QED
    BY <1>1, <1>7, <2>1 DEF ShellInv
<1> QED
  BY <1>6, <1>7

LEMMA ExitInv ==
  ASSUME ShellInv, NEW p \in Procs, Exit(p)
  PROVE  ShellInv'
<1>1. proc[p].pc = "prompt" /\ proc[p].pc \notin Dead /\ UNCHANGED lines
  BY DEF Exit, Dead
<1>2. proc[p].child = Nobody
  BY <1>1, Going
<1> QED
  BY <1>1, <1>2, ExitSound DEF ShellInv, Exit

\* A program reads, or ends.
LEMMA ProgramReadInv ==
  ASSUME ShellInv, NEW p \in Procs, read(p)
  PROVE  ShellInv'
<1> DEFINE q == proc[p]
<1>1. q.pc = "program" /\ UNCHANGED lines /\ q.pc \notin Dead \cup {"wait"}
  BY DEF read, Dead
<1>2. /\ q \in Process(Words(proc)) /\ Plugged(q) /\ Informed(q, lines) /\ q.child = Nobody
  BY <1>1, Going
<1>3. CASE proc' = Exited(proc, p)
  BY <1>1, <1>2, <1>3, ExitSound DEF ShellInv
<1>4. ASSUME NEW item, proc' = [proc EXCEPT ![p].word = item, ![p].copied = @ + 1]
      PROVE  ShellInv'
  <2> DEFINE r == [q EXCEPT !.word = item, !.copied = q.copied + 1]
  <2>1. proc' = [proc EXCEPT ![p] = r]
    BY <1>2, <1>4 DEF ShellInv, Sound, IsTable
  <2>2. q.copied \in Nat
    BY <1>2 DEF Process
  <2> PICK words : item \in words
    <3>1. item \in {item}
      OBVIOUS
    <3> QED
      BY <3>1
  <2>3. r \in Process(words) /\ r.pc = q.pc /\ SameButPc(r, q)
    <3>1. q.copied + 1 \in Nat
      BY <2>2
    <3> QED
      BY <1>2, <3>1 DEF Process, SameButPc
  <2> HIDE DEF r
  <2>4. Plugged(r) /\ Informed(r, lines)
    BY <1>2, <2>3 DEF Plugged, Informed, SameButPc
  <2>5. /\ r.pc \notin Dead /\ r.pc # "binary" /\ r.parent = q.parent
        /\ r.born = q.born /\ r.child = q.child /\ r.ret = q.ret
    BY <1>1, <2>3 DEF SameButPc, Dead
  <2>6. Sound([proc EXCEPT ![p] = r], lines)
    BY <1>1, <1>2, <2>3, <2>4, <2>5, ChangeSound DEF ShellInv
  <2> QED
    BY <1>1, <2>1, <2>6 DEF ShellInv
<1> QED
  BY <1>3, <1>4 DEF read

LEMMA ProgramWriteInv ==
  ASSUME ShellInv, NEW p \in Procs, write(p)
  PROVE  ShellInv'
<1> DEFINE q == proc[p]
           r == [q EXCEPT !.word = ""]
<1>1. q.pc = "program" /\ UNCHANGED lines /\ q.pc \notin Dead \cup {"wait"}
  BY DEF write, Dead
<1>2. /\ q \in Process(Words(proc)) /\ Plugged(q) /\ Informed(q, lines) /\ q.child = Nobody
  BY <1>1, Going
<1>3. Write(p, q.word, r)
  BY DEF write
<1>4. r \in Process(NoWord) /\ r.pc = q.pc /\ SameButPc(r, q)
  BY <1>2 DEF Process, SameButPc, NoWord
<1> HIDE DEF r
<1>5. Plugged(r) /\ Informed(r, lines)
  BY <1>2, <1>4 DEF Plugged, Informed, SameButPc
<1>6. /\ r.pc \notin Dead /\ r.pc # "binary" /\ r.parent = q.parent /\ r.born = q.born
      /\ r.child = Nobody /\ r.ret = q.ret
  BY <1>1, <1>2, <1>4 DEF SameButPc, Dead
<1> QED
  BY <1>1, <1>3, <1>4, <1>5, <1>6, WriteInv

LEMMA ShellStep == ShellInv /\ [Next]_shellVars => ShellInv'
<1> SUFFICES ASSUME ShellInv, [Next]_shellVars PROVE ShellInv'
  OBVIOUS
<1>1. CASE UNCHANGED shellVars
  BY <1>1 DEF shellVars, ShellInv
<1>2. ASSUME NEW p \in Procs, Step(p) \/ ReadLine(p) \/ Exit(p) PROVE ShellInv'
  BY <1>2, PipelineInv, RunPipingInv, RunStageInv, ExecuteBinaryInv, ExecvpeInv, NotExecutedInv,
     WaitInv, ProgramReadInv, ProgramWriteInv, ReadLineInv, ExitInv DEF Step
<1> QED
  BY <1>1, <1>2 DEF Next

\* The processes of the shell keep their invariant.
THEOREM ShellInvariance == Spec => []ShellInv
BY InitInv, ShellStep, PTL DEF Spec

-----------------------------------------------------------------------------
(* The properties.                                                         *)

LEMMA InvShellTypeOK == ShellInv => ShellTypeOK
<1> SUFFICES ASSUME ShellInv, NEW p \in Procs
             PROVE  /\ proc[p].in = Tty \/ proc[p].in[1] = "read"
                    /\ proc[p].out = Tty \/ proc[p].out[1] = "write"
                    /\ proc[p].pc = "zombie" => Alive(proc[p].parent)
                    /\ proc[p].child # 0 =>
                         /\ proc[p].pc = "wait"
                         /\ proc[proc[p].child].pc # "free" /\ proc[proc[p].child].parent = p
  BY DEF ShellTypeOK
<1>1. Plugged(proc[p]) /\ Kin(proc, lines, p)
  BY DEF ShellInv, Sound, Related
<1>2. proc[p].in = Tty \/ proc[p].in[1] = "read"
  BY <1>1, EndsDiffer DEF Plugged, ReadEnds
<1>3. proc[p].out = Tty \/ proc[p].out[1] = "write"
  BY <1>1, EndsDiffer DEF Plugged
<1> QED
  BY <1>1, <1>2, <1>3 DEF Kin, Alive, Dead, Nobody

\* Inputs are read ends and outputs write ends, a zombie has a living parent that can reap
\* it, and whoever waits in waitForProcessExecution waits for a child of its own.
THEOREM ShellTypeAlways == Spec => []ShellTypeOK
BY ShellInvariance, InvShellTypeOK, PTL

LEMMA InvEndsConfined == ShellInv => EndsConfined
<1> SUFFICES ASSUME ShellInv, NEW p \in Procs, NEW end \in Ends(p), end # Tty
             PROVE  LET own == proc[p].line = end[2] /\ proc[p].stage = end[3]
                    IN  IF end[1] = "write" THEN own ELSE own => proc[p].pc = "stage"
  BY DEF EndsConfined
<1> DEFINE q == proc[p]
           earlier == ReadEnds(q.line, 1..(q.stage - 1))
<1>1. Plugged(q) /\ q.stage \in Nat
  BY DEF ShellInv, Sound, IsTable, Process
<1>2. \/ end \in earlier
      \/ end = WriteEnd(q.line, q.stage)
      \/ end = ReadEnd(q.line, q.stage) /\ q.pc = "stage"
  BY <1>1 DEF Plugged, Ends
<1>3. CASE end \in earlier
  <2>1. PICK i \in 1..(q.stage - 1) : end = ReadEnd(q.line, i)
    BY <1>3 DEF ReadEnds
  <2>2. end[1] = "read" /\ end[3] = i /\ i # q.stage
    BY <1>1, <2>1, EndsDiffer
  <2> QED
    BY <2>2
<1>4. CASE end = WriteEnd(q.line, q.stage)
  BY <1>4, EndsDiffer
<1>5. CASE end = ReadEnd(q.line, q.stage) /\ q.pc = "stage"
  BY <1>5, EndsDiffer
<1> QED
  BY <1>2, <1>3, <1>4, <1>5

\* Whatever the pipelines of a session and however many forks fail in them: only the
\* processes of a stage hold the write end of the pipe behind it, and none of them, once
\* redirected, its read end; so duplicateFileDescriptors and the close calls of runPiping
\* let every reader see the end of its input.
THEOREM EndsConfinedAlways == Spec => []EndsConfined
BY ShellInvariance, InvEndsConfined, PTL

LEMMA InvForegroundReaped == ShellInv => ForegroundReaped
<1> SUFFICES ASSUME ShellInv, NEW p \in Procs, NEW c \in Procs,
                    proc[p].pc = "prompt", proc[c].pc # "free", proc[c].parent = p
             PROVE  Background(lines, proc[c].born)
  BY DEF ForegroundReaped, Background, Single
<1>1. proc[p].child = Nobody /\ Informed(proc[p], lines) /\ p # Nobody
  BY Going DEF Dead
<1>2. Kin(proc, lines, c) /\ c # Nobody
  BY ShellAssumption DEF ShellInv, Sound, Related, Nobody
<1> QED
  BY <1>1, <1>2 DEF Informed, Kin, Nobody

\* When a shell prompts, every process it started for a command of the foreground, the
\* process of a pipeline included, has been reaped by waitForProcessExecution.
THEOREM ForegroundReapedAlways == Spec => []ForegroundReaped
BY ShellInvariance, InvForegroundReaped, PTL

LEMMA InvShellsAccounted == ShellInv => ShellsAccounted
<1> SUFFICES ASSUME ShellInv PROVE ShellsAccounted
  OBVIOUS
<1> DEFINE forsaken == {n \in DOMAIN lines :
                          lines[n] = <<[program |-> "missing", background |-> TRUE]>>}
           origins == forsaken \cup {0}
           born == [p \in Shells |-> proc[p].born]
<1>1. lines \in Seq(Seq(Stage) \ {<<>>}) /\ Len(lines) \in Nat /\ DOMAIN lines = 1..Len(lines)
  BY LenProperties DEF ShellInv, Sound
<1>2. IsFiniteSet(forsaken) /\ 0 \notin forsaken
  <2>1. forsaken \in SUBSET (1..Len(lines))
    BY <1>1
  <2>2. IsFiniteSet(1..Len(lines))
    BY <1>1, FS_Interval
  <2> HIDE DEF forsaken
  <2>3. IsFiniteSet(forsaken)
    BY <2>1, <2>2, FS_Subset
  <2>4. 0 \notin forsaken
    BY <1>1, <2>1
  <2> QED
    BY <2>3, <2>4
<1>3. IsFiniteSet(Shells)
  <2>1. Shells \in SUBSET Procs
    BY DEF Shells
  <2> QED
    BY <2>1, ShellAssumption, FS_Subset
<1>4. \A p \in Shells : born[p] \in origins
  <2> SUFFICES ASSUME NEW p \in Shells PROVE proc[p].born \in origins
    OBVIOUS
  <2>1. Informed(proc[p], lines) /\ proc[p].ret = "prompt"
        /\ proc[p].pc \in {"prompt", "line", "binary", "wait"}
    BY DEF ShellInv, Sound, Shells
  <2>2. proc[p].born = 0 \/ Forsaken(lines, proc[p].born)
    BY <2>1 DEF Informed
  <2> QED
    BY <1>1, <2>2 DEF Forsaken, Missing
<1>5. \A p, q \in Shells : p # q => born[p] # born[q]
  BY DEF ShellInv, Sound, Distinct, Shells
<1> HIDE DEF forsaken
<1>6. /\ IsFiniteSet(origins) /\ Cardinality(origins) = Cardinality(forsaken) + 1
      /\ Cardinality(forsaken) \in Nat
  BY <1>2, FS_AddElement, FS_CardinalityType
<1>7. born \in [Shells -> origins]
  BY <1>4
<1> HIDE DEF origins, born
<1>8. ~(Cardinality(origins) < Cardinality(Shells))
  BY <1>3, <1>5, <1>6, <1>7, FS_PigeonHole
<1>9. Cardinality(Shells) <= 1 + Cardinality(forsaken)
  BY <1>3, <1>6, <1>8, FS_CardinalityType
<1> QED
  BY <1>9 DEF ShellsAccounted, forsaken

\* However many commands are typed, forked and refused: the terminal has one shell more
\* at most than there were background commands that could not be executed, because every
\* shell but the first was born for such a line, and for no line two of them.
THEOREM ShellsAccountedAlways == Spec => []ShellsAccounted
BY ShellInvariance, InvShellsAccounted, PTL
-----------------------------------------------------------------------------
(* What the stages of a line make.                                         *)

LEMMA CompositionExists ==
  ASSUME NEW job, NEW m \in Nat
  PROVE  \E f : f = [i \in 0..m |-> IF i = 0 THEN <<>> ELSE Output(f[i - 1], job[i])]
<1> DEFINE Is(f, n) == f = [i \in 0..n |-> IF i = 0 THEN <<>> ELSE Output(f[i - 1], job[i])]
           without == {n \in Nat : ~\E f : Is(f, n)}
<1>1. CASE without = {}
  BY <1>1
<1>2. CASE without # {}
  <2>1. PICK n \in without : \A k \in without : n <= k
    BY <1>2, LeastNumber
  <2>2. CASE n = 0
    <3> DEFINE f == [i \in 0..0 |-> <<>>]
    <3>1. Is(f, 0)
      <4>1. \A i \in 0..0 : i = 0
        OBVIOUS
      <4>2. f = [i \in 0..0 |-> IF i = 0 THEN <<>> ELSE Output(f[i - 1], job[i])]
        BY <4>1
      <4> QED
        BY <4>2
    <3> QED
      BY <2>1, <2>2, <3>1
  <2>3. CASE n # 0
    <3>1. n - 1 \in Nat /\ ~(n <= n - 1)
      BY <2>1, <2>3
    <3>2. PICK g : Is(g, n - 1)
      <4> HIDE DEF Is
      <4> QED
        BY <2>1, <3>1
    <3> DEFINE f == [i \in 0..n |-> IF i = n THEN Output(g[n - 1], job[n]) ELSE g[i]]
    <3>3. Is(f, n)
      <4> DEFINE value(i) == IF i = 0 THEN <<>> ELSE Output(f[i - 1], job[i])
      <4>1. \A i \in 0..n - 1 : g[i] = IF i = 0 THEN <<>> ELSE Output(g[i - 1], job[i])
        BY <3>2
      <4>2. \A i \in 0..n - 1 : f[i] = g[i]
        BY <2>1
      <4>3. ASSUME NEW i \in 0..n PROVE f[i] = value(i)
        <5>1. CASE i = n
          BY <2>1, <2>3, <4>2, <5>1
        <5>2. CASE i # n
          <6>1. i \in 0..n - 1 /\ (i # 0 => i - 1 \in 0..n - 1)
            BY <2>1, <5>2
          <6> QED
            BY <4>1, <4>2, <6>1
        <5> QED
          BY <5>1, <5>2
      <4>4. f = [i \in 0..n |-> f[i]]
        OBVIOUS
      <4> HIDE DEF f
      <4>5. f = [i \in 0..n |-> value(i)]
        BY <4>3, <4>4
      <4> QED
        BY <4>5
    <3> QED
      BY <2>1, <3>3
  <2> QED
    BY <2>2, <2>3
<1> QED
  BY <1>1, <1>2

Unfolds(f, job) ==
  f = [i \in 0..Len(job) |-> IF i = 0 THEN <<>> ELSE Output(f[i - 1], job[i])]

LEMMA CompositionUnfolds ==
  ASSUME NEW job \in Seq(Stage)
  PROVE  Unfolds(Composition(job), job)
<1>1. \E f : Unfolds(f, job)
  BY CompositionExists, LenProperties DEF Unfolds
<1>2. Composition(job) = CHOOSE f : Unfolds(f, job)
  BY DEF Composition, Unfolds
<1> QED
  BY <1>1, <1>2

Texts == {"PATH", "Unable to run in bg", "Command not found."}
Item  == Texts \cup Range(Makefile)

LEMMA ItemsAreTexts == Makefile \in Seq(Item) /\ Texts \subseteq Item /\ "" \notin Item
<1>1. Makefile \in Seq(Range(Makefile)) /\ "" \notin Range(Makefile)
  BY LinesAssumption
<1>2. Range(Makefile) \subseteq Item /\ Texts \subseteq Item
  BY DEF Item
<1>3. "" \notin Item
  BY <1>1 DEF Item, Texts
<1>4. Makefile \in Seq(Item)
  BY <1>1, <1>2, SeqMonotonic
<1> QED
  BY <1>2, <1>3, <1>4

\* What is put behind the PATH.
Behind(input, stage) ==
  CASE stage.program = "cat"     -> Makefile
    [] stage.program = "filter"  -> input
    [] stage.program = "head"    -> IF input = <<>> THEN <<>> ELSE <<Head(input)>>
    [] stage.program = "ls"      -> <<>>
    [] stage.program = "missing" -> IF stage.background THEN <<"Unable to run in bg">>
                                    ELSE <<"Command not found.">>

LEMMA OutputIs ==
  ASSUME NEW input \in Seq(Item), NEW stage \in Stage, stage.program # "empty"
  PROVE  LET made == Output(input, stage)
             rest == Behind(input, stage)
         IN  /\ rest \in Seq(Item) /\ made \in Seq(Item) /\ Len(made) = Len(rest) + 1
             /\ made[1] = "PATH" /\ \A k \in 1..Len(rest) : made[k + 1] = rest[k]
<1> DEFINE rest == Behind(input, stage)
<1>1. rest \in Seq(Item)
  <2>1. "Unable to run in bg" \in Item /\ "Command not found." \in Item
    BY ItemsAreTexts DEF Texts
  <2>2. input # <<>> => Head(input) \in Item
    BY HeadTailProperties
  <2>3. CASE stage.program = "cat"
    BY <2>3, ItemsAreTexts DEF Behind
  <2>4. CASE stage.program = "filter"
    BY <2>4 DEF Behind
  <2>5. CASE stage.program = "head"
    BY <2>2, <2>5 DEF Behind
  <2>6. CASE stage.program = "ls"
    BY <2>6 DEF Behind
  <2>7. CASE stage.program = "missing"
    <3>1. rest = <<"Unable to run in bg">> \/ rest = <<"Command not found.">>
      BY <2>7 DEF Behind
    <3>2. \A text \in Item : <<text>> \in Seq(Item)
      OBVIOUS
    <3>3. <<"Unable to run in bg">> \in Seq(Item) /\ <<"Command not found.">> \in Seq(Item)
      BY <2>1, <3>2
    <3> HIDE DEF rest
    <3> QED
      BY <3>1, <3>3
  <2> QED
    BY <2>3, <2>4, <2>5, <2>6, <2>7 DEF Stage
<1>2. Output(input, stage) = <<"PATH">> \o rest
  BY DEF Output, Behind
<1>3. <<"PATH">> \in Seq(Item)
  <2>1. "PATH" \in Item
    BY ItemsAreTexts DEF Texts
  <2> QED
    BY <2>1
<1> HIDE DEF rest
<1>4. Len(<<"PATH">>) = 1 /\ <<"PATH">>[1] = "PATH" /\ Len(rest) \in Nat
  BY <1>1, LenProperties
<1> QED
  BY <1>1, <1>2, <1>3, <1>4, ConcatProperties DEF rest

LEMMA CompositionIs ==
  ASSUME NEW job \in Seq(Stage), isValidateParsedPipeInput(job)
  PROVE  /\ \A i \in 0..Len(job) : Composition(job)[i] \in Seq(Item)
         /\ Composition(job)[0] = <<>>
         /\ \A i \in 1..Len(job) : Composition(job)[i] = Output(Composition(job)[i - 1], job[i])
<1> PICK C : C = Composition(job)
  OBVIOUS
<1>1. Len(job) \in Nat /\ \A i \in 1..Len(job) : job[i] \in Stage /\ job[i].program # "empty"
  BY ElementOfSeq, LenProperties DEF isValidateParsedPipeInput
<1>2. \A i \in 0..Len(job) : C[i] = IF i = 0 THEN <<>> ELSE Output(C[i - 1], job[i])
  <2>1. C = [i \in 0..Len(job) |-> IF i = 0 THEN <<>> ELSE Output(C[i - 1], job[i])]
    BY CompositionUnfolds DEF Unfolds
  <2> QED
    BY <2>1
<1>3. C[0] = <<>> /\ \A i \in 1..Len(job) : C[i] = Output(C[i - 1], job[i])
  BY <1>1, <1>2
<1> DEFINE untyped == {i \in 0..Len(job) : C[i] \notin Seq(Item)}
<1>4. untyped = {}
  <2> SUFFICES ASSUME untyped # {} PROVE FALSE
    OBVIOUS
  <2>1. PICK i \in untyped : \A j \in untyped : i <= j
    <3>1. untyped \in SUBSET Nat
      BY <1>1
    <3> QED
      BY <3>1, LeastNumber
  <2>2. C[0] \in Seq(Item)
    BY <1>3
  <2>3. i \in 1..Len(job) /\ i - 1 \in 0..Len(job) /\ ~(i <= i - 1)
    BY <1>1, <2>2
  <2>4. C[i - 1] \in Seq(Item)
    BY <2>1, <2>3
  <2>5. Output(C[i - 1], job[i]) \in Seq(Item)
    BY <1>1, <2>3, <2>4, OutputIs
  <2> QED
    BY <1>3, <2>3, <2>5
<1> QED
  BY <1>3, <1>4

-----------------------------------------------------------------------------
(* For every stage of a line there is at most one process that executes it *)
(* or will, alone or with the stages behind it; how far the stage has come *)
(* is in that process.  The pipe behind a stage holds what it has written  *)
(* and the next one has not read.                                          *)

Working == {"stage", "binary", "exec", "refused", "program"}
Started == {"binary", "exec", "refused", "program"}

Carries(q, n, i) ==
  /\ q.line = n
  /\ \/ q.pc = "line"
     \/ q.pc = "piping" /\ q.stage <= i
     \/ q.pc \in Working /\ q.stage = i
Carriers(T, n, i) == {p \in Procs : Carries(T[p], n, i)}
Alone(T) ==
  \A p, q \in Procs : \A n, i \in Nat : Carries(T[p], n, i) /\ Carries(T[q], n, i) => p = q

\* The ends of a process are where they belong, and only a program keeps a count.
Wired(q, job) ==
  LET n == q.line
      i == q.stage
      before == ReadEnd(n, i - 1)
  IN  /\ q.pc \in Working \cup {"piping"} =>
           i \in 1..Len(job) /\ isValidateParsedPipeInput(job)
      /\ q.pc \in {"piping", "stage"} /\ i # 1 => before \in q.held
      /\ q.pc = "stage" => i # Len(job) /\ WriteEnd(n, i) \in q.held
      /\ q.pc \in Started =>
           /\ q.in = IF i = 1 THEN Tty ELSE before
           /\ q.out = IF i = Len(job) THEN Tty ELSE WriteEnd(n, i)
      /\ q.pc = "refused" => job[i].program = "missing"
      /\ q.pc = "program" => job[i].program # "missing"
      /\ q.pc # "program" => q.copied = 0 /\ q.word = ""
      /\ q.pc = "line" => i = 1

\* The last stage of a line is waited for: the process of a pipeline by a shell, and a
\* command in the foreground by one of the two.
Held(T, p, n) == \E s \in Procs : T[s].child = p /\ T[s].line = n /\ T[s].ret = "prompt"
HeldBehind(T, p, n) == \E s \in Procs : T[s].child = p /\ T[s].line = n /\ Held(T, s, n)
Awaited(T, p, job) ==
  LET q == T[p]
      n == q.line
      last == q.stage = Len(job)
  IN  /\ q.pc = "piping" \/ (q.pc = "binary" /\ last /\ q.ret = "exit") => Held(T, p, n)
      /\ q.pc \in {"exec", "refused", "program"} /\ last /\ ~job[q.stage].background =>
           Held(T, p, n) \/ HeldBehind(T, p, n)

\* What a program has read is the next thing to write.
Advanced(q, job) ==
  q.pc = "program" =>
    LET made == Composition(job)[q.stage]
    IN  /\ q.copied + 1 <= Len(made)
        /\ q.word # "" => q.copied # 0 /\ q.word = made[q.copied + 1]

\* How many items of its stage a process has written; all that were to be written once
\* there is no process.
Count(q) ==
  IF q.pc = "refused" THEN 1
  ELSE IF q.pc # "program" THEN 0
  ELSE IF q.word = "" THEN q.copied + 1 ELSE q.copied
Given(T, n, i, made) ==
  {Count(T[p]) : p \in Carriers(T, n, i)} \cup {e \in {Len(made)} : Carriers(T, n, i) = {}}

Flows(T, n, i, made, items) ==
  \A r \in Carriers(T, n, i + 1) : \A e \in Given(T, n, i, made) :
    LET eaten == T[r].copied
    IN  /\ eaten <= e /\ e <= Len(made) /\ Len(items) = e - eaten
        /\ \A k \in 1..e - eaten : items[k] = made[eaten + k]
\* What is on the screen of a line is the beginning of what its last stage makes.
Begun(T, n, i, made, shown) ==
  \A e \in Given(T, n, i, made) :
    /\ e <= Len(made) /\ Cardinality(OfLine(shown, n, Len(shown))) = e
    /\ \A k \in DOMAIN shown :
         shown[k].line = n => shown[k].item = made[Cardinality(OfLine(shown, n, k))]

Reads(job, i) == job[i].program \in {"filter", "head"}
LineFlows(T, n, job, pipes, shown) ==
  LET made(i) == Composition(job)[i]
  IN  /\ Begun(T, n, Len(job), made(Len(job)), shown)
      /\ \A i \in 1..Len(job) - 1 :
           Reads(job, i + 1) => Flows(T, n, i, made(i), pipes[<<n, i>>])

Valid(ls, n) == n \in 1..Len(ls) /\ isValidateParsedPipeInput(ls[n])
Flowing(T, ls, kept, pipes, shown) ==
  \A n \in kept : Valid(ls, n) => LineFlows(T, n, ls[n], pipes, shown)

Tidy(T, ls, kept) ==
  /\ Alone(T)
  /\ \A p \in Procs : T[p].pc \notin Dead => Wired(T[p], ls[T[p].line])
  /\ \A p \in Procs : T[p].pc \notin Dead /\ T[p].line \in kept =>
       Awaited(T, p, ls[T[p].line]) /\ Advanced(T[p], ls[T[p].line])

\* What the lines are, what items are, and that nothing is in the pipes of a line not
\* typed yet nor on its screen, as nothing is of an invalid one.
LinesFit(ls) ==
  \A n \in 1..Len(ls) :
    /\ \A i \in 1..Len(ls[n]) : <<n, i>> \in Pipes
    /\ ls[n][1].program \notin {"filter", "head"}
    /\ Len(ls[n]) = 1 => ls[n][1].program # "empty"
ItemsFit(T, pipes, shown) ==
  /\ pipes \in [Pipes -> Seq(Item)]
  /\ shown \in Seq([line : Nat, item : Item])
  /\ \A p \in Procs : T[p].pc = "program" => T[p].word \in Item \cup {""}
NotBefore(ls, pipes, shown) ==
  /\ \A n, i \in Nat : <<n, i>> \in Pipes /\ n > Len(ls) => pipes[<<n, i>>] = <<>>
  /\ \A k \in DOMAIN shown : Valid(ls, shown[k].line)

Kept == Nat \ lost
Composing ==
  /\ Tidy(proc, lines, Kept)
  /\ Flowing(proc, lines, Kept, pipe, screen)
  /\ LinesFit(lines) /\ ItemsFit(proc, pipe, screen) /\ NotBefore(lines, pipe, screen)
OutputInv == ShellInv /\ Composing

-----------------------------------------------------------------------------
(* A process acts, alone or with one it forks: the others stay what they   *)
(* are but for their parents, and for zombies that are reaped.             *)

Alike(r, q) ==
  /\ r.pc \in Dead <=> q.pc \in Dead
  /\ q.pc \notin Dead =>
       /\ r.pc = q.pc /\ r.ret = q.ret /\ r.line = q.line /\ r.stage = q.stage
       /\ r.in = q.in /\ r.out = q.out /\ r.held = q.held /\ r.child = q.child
       /\ r.copied = q.copied /\ r.word = q.word

Turn(T, U, x, c) ==
  /\ x \in Procs /\ c \in Procs /\ T[x].pc \notin Dead /\ (c # x => T[c].pc \in Dead)
  /\ \A y \in Procs \ {x, c} : Alike(U[y], T[y])

LEMMA DeadCarry == \A q, n, i : Carries(q, n, i) => q.pc \notin Dead
BY DEF Carries, Dead, Working

LEMMA AlikeCarry ==
  ASSUME NEW r, NEW q, Alike(r, q)
  PROVE  /\ \A n, i : Carries(r, n, i) <=> Carries(q, n, i)
         /\ r.pc \notin Dead => Count(r) = Count(q) /\ r.copied = q.copied
         /\ \A job : Wired(q, job) /\ r.pc \notin Dead => Wired(r, job)
         /\ \A job : Advanced(q, job) => Advanced(r, job)
<1>1. \A n, i : Carries(r, n, i) <=> Carries(q, n, i)
  BY DEF Alike, Carries, Dead, Working
<1>2. r.pc \notin Dead => Count(r) = Count(q) /\ r.copied = q.copied
  BY DEF Alike, Count
<1>3. \A job : Wired(q, job) /\ r.pc \notin Dead => Wired(r, job)
  <2> SUFFICES ASSUME NEW job, Wired(q, job), r.pc \notin Dead PROVE Wired(r, job)
    OBVIOUS
  <2>1. /\ r.pc = q.pc /\ r.line = q.line /\ r.stage = q.stage /\ r.in = q.in /\ r.out = q.out
        /\ r.held = q.held /\ r.copied = q.copied /\ r.word = q.word
    BY DEF Alike
  <2> QED
    BY <2>1 DEF Wired
<1>4. \A job : Advanced(q, job) => Advanced(r, job)
  BY DEF Alike, Advanced, Dead
<1> QED
  BY <1>1, <1>2, <1>3, <1>4

\* Who carries a stage gives it to one only.
Hands(T, U, x, c) ==
  /\ \A n, i \in Nat : Carries(U[x], n, i) \/ Carries(U[c], n, i) => Carries(T[x], n, i)
  /\ c # x => \A n, i \in Nat : ~(Carries(U[x], n, i) /\ Carries(U[c], n, i))

LEMMA AloneTurn ==
  ASSUME NEW T, NEW U, NEW x, NEW c, Turn(T, U, x, c), Alone(T), Hands(T, U, x, c)
  PROVE  Alone(U)
<1> SUFFICES ASSUME NEW p \in Procs, NEW q \in Procs, NEW n \in Nat, NEW i \in Nat,
                    Carries(U[p], n, i), Carries(U[q], n, i)
             PROVE  p = q
  BY DEF Alone
<1>1. ASSUME NEW y \in Procs, Carries(U[y], n, i)
      PROVE  IF y \in {x, c} THEN Carries(T[x], n, i) ELSE Carries(T[y], n, i)
  BY <1>1, AlikeCarry DEF Turn, Hands
<1>2. \A y \in Procs : Carries(T[y], n, i) /\ Carries(T[x], n, i) => y = x
  BY DEF Alone, Turn
<1>3. \A y, z \in Procs : Carries(T[y], n, i) /\ Carries(T[z], n, i) => y = z
  BY DEF Alone
<1> QED
  BY <1>1, <1>2, <1>3 DEF Hands, Turn

\* Nobody who is waited for loses who waits for it while it lives.
LEMMA HeldTurn ==
  ASSUME NEW T, NEW U, NEW ls, NEW x, NEW c, Turn(T, U, x, c), Sound(T, ls),
         T[x].child = Nobody \/ T[T[x].child].pc = "zombie",
         NEW p \in Procs, NEW n, T[p].pc \notin Dead
  PROVE  /\ Held(T, p, n) => Held(U, p, n)
         /\ HeldBehind(T, p, n) => HeldBehind(U, p, n)
<1>1. ASSUME NEW s \in Procs, NEW y \in Procs, T[s].child = y, T[y].pc \notin Dead
      PROVE  T[s].pc \notin Dead /\ U[s].child = y /\ U[s].line = T[s].line /\ U[s].ret = T[s].ret
  <2>1. y # Nobody
    BY ShellAssumption DEF Nobody
  <2>2. T[s].pc = "wait"
    BY <1>1, <2>1 DEF Sound, Related, Kin
  <2>3. s # x /\ s # c
    BY <1>1, <2>1, <2>2 DEF Turn, Dead
  <2> QED
    BY <1>1, <2>2, <2>3 DEF Turn, Alike, Dead
<1>2. \A y \in Procs : T[y].pc \notin Dead /\ Held(T, y, n) => Held(U, y, n)
  BY <1>1 DEF Held
<1>3. HeldBehind(T, p, n) => HeldBehind(U, p, n)
  <2> SUFFICES ASSUME HeldBehind(T, p, n) PROVE HeldBehind(U, p, n)
    OBVIOUS
  <2>1. PICK s \in Procs : T[s].child = p /\ T[s].line = n /\ Held(T, s, n)
    BY DEF HeldBehind
  <2>2. T[s].pc \notin Dead /\ U[s].child = p /\ U[s].line = n
    BY <1>1, <2>1
  <2> QED
    BY <1>2, <2>1, <2>2 DEF HeldBehind
<1> QED
  BY <1>2, <1>3

\* So much has to be said of the two themselves.
Orderly(U, ls, kept, y) ==
  U[y].pc \notin Dead =>
    /\ Wired(U[y], ls[U[y].line])
    /\ U[y].line \in kept => Awaited(U, y, ls[U[y].line]) /\ Advanced(U[y], ls[U[y].line])

LEMMA TidyTurn ==
  ASSUME NEW T, NEW U, NEW ls, NEW kept, NEW still \in SUBSET kept, NEW x, NEW c,
         Turn(T, U, x, c), Sound(T, ls), T[x].child = Nobody \/ T[T[x].child].pc = "zombie",
         Tidy(T, ls, kept), Hands(T, U, x, c), Orderly(U, ls, still, x), Orderly(U, ls, still, c)
  PROVE  Tidy(U, ls, still)
<1>1. Alone(U)
  BY AloneTurn DEF Tidy
<1>2. ASSUME NEW y \in Procs \ {x, c}, U[y].pc \notin Dead
      PROVE  /\ T[y].pc \notin Dead /\ U[y].line = T[y].line
             /\ Wired(U[y], ls[U[y].line])
             /\ U[y].line \in still =>
                  Awaited(U, y, ls[U[y].line]) /\ Advanced(U[y], ls[U[y].line])
  <2>1. Alike(U[y], T[y])
    BY DEF Turn
  <2>2. T[y].pc \notin Dead /\ U[y].line = T[y].line
    BY <1>2, <2>1 DEF Alike
  <2>3. Wired(U[y], ls[U[y].line])
    BY <1>2, <2>1, <2>2, AlikeCarry DEF Tidy
  <2>4. ASSUME U[y].line \in still
        PROVE  Awaited(T, y, ls[U[y].line]) /\ Advanced(U[y], ls[U[y].line])
    BY <2>1, <2>2, <2>4, AlikeCarry DEF Tidy
  <2>5. \A n : /\ Held(T, y, n) => Held(U, y, n)
               /\ HeldBehind(T, y, n) => HeldBehind(U, y, n)
    BY <2>2, HeldTurn
  <2>6. \A job : Awaited(T, y, job) => Awaited(U, y, job)
    BY <1>2, <2>1, <2>2, <2>5 DEF Awaited, Alike
  <2> QED
    BY <2>2, <2>3, <2>4, <2>6
<1> QED
  BY <1>1, <1>2 DEF Tidy, Orderly

-----------------------------------------------------------------------------
(* Steps that write and read nothing.                                      *)

LEMMA GivenElsewhere ==
  ASSUME NEW T, NEW U, NEW x, NEW c, Turn(T, U, x, c), NEW n, NEW i,
         ~Carries(T[x], n, i), ~Carries(U[x], n, i), ~Carries(U[c], n, i)
  PROVE  /\ Carriers(U, n, i) = Carriers(T, n, i)
         /\ \A r \in Carriers(U, n, i) : U[r].copied = T[r].copied
         /\ \A made : Given(U, n, i, made) = Given(T, n, i, made)
<1>1. ~Carries(T[c], n, i)
  BY DeadCarry DEF Turn
<1>2. \A y \in Procs : Carries(U[y], n, i) <=> Carries(T[y], n, i)
  BY <1>1, AlikeCarry DEF Turn
<1>3. Carriers(U, n, i) = Carriers(T, n, i)
  BY <1>2 DEF Carriers
<1>4. ASSUME NEW r \in Carriers(U, n, i)
      PROVE  U[r].copied = T[r].copied /\ Count(U[r]) = Count(T[r])
  <2>1. r \in Procs \ {x, c} /\ Carries(U[r], n, i)
    BY DEF Carriers
  <2>2. Alike(U[r], T[r]) /\ U[r].pc \notin Dead
    BY <2>1, DeadCarry DEF Turn
  <2> QED
    BY <2>2, AlikeCarry
<1> QED
  BY <1>3, <1>4 DEF Given

LEMMA GivenAlone ==
  ASSUME NEW T, Alone(T), NEW y \in Procs, NEW n \in Nat, NEW i \in Nat, Carries(T[y], n, i)
  PROVE  /\ Carriers(T, n, i) = {y}
         /\ \A made : Given(T, n, i, made) = {Count(T[y])}
<1>1. Carriers(T, n, i) = {y}
  BY DEF Carriers, Alone
<1> QED
  BY <1>1 DEF Given

LEMMA GivenEnded ==
  ASSUME NEW T, NEW n, NEW i, Carriers(T, n, i) = {}
  PROVE  \A made : Given(T, n, i, made) = {Len(made)}
BY DEF Given

\* Whoever executes a stage now has read as much as who did before.
Follows(T, U, n, i) ==
  \A r \in Carriers(U, n, i) : \E o \in Carriers(T, n, i) : T[o].copied = U[r].copied

LEMMA FlowsKeep ==
  ASSUME NEW T, NEW U, NEW n, NEW i, NEW made, NEW items, Flows(T, n, i, made, items),
         Follows(T, U, n, i + 1),
         Given(U, n, i, made) \subseteq Given(T, n, i, made) \/ Carriers(U, n, i + 1) = {}
  PROVE  Flows(U, n, i, made, items)
<1> SUFFICES ASSUME NEW r \in Carriers(U, n, i + 1), NEW e \in Given(U, n, i, made)
             PROVE  LET eaten == U[r].copied
                    IN  /\ eaten <= e /\ e <= Len(made) /\ Len(items) = e - eaten
                        /\ \A k \in 1..e - eaten : items[k] = made[eaten + k]
  BY DEF Flows
<1>1. e \in Given(T, n, i, made)
  OBVIOUS
<1>2. PICK o \in Carriers(T, n, i + 1) : T[o].copied = U[r].copied
  BY DEF Follows
<1>3. LET eaten == T[o].copied
      IN  /\ eaten <= e /\ e <= Len(made) /\ Len(items) = e - eaten
          /\ \A k \in 1..e - eaten : items[k] = made[eaten + k]
  BY <1>1, <1>2 DEF Flows
<1> QED
  BY <1>2, <1>3

LEMMA LineKeeps ==
  ASSUME NEW T, NEW U, NEW n, NEW job \in Seq(Stage), Len(job) # 0, NEW pipes, NEW shown,
         LineFlows(T, n, job, pipes, shown),
         \A i \in 1..Len(job) :
           /\ Reads(job, i) => Follows(T, U, n, i)
           /\ \/ \A made : Given(U, n, i, made) \subseteq Given(T, n, i, made)
              \/ i # Len(job) /\ Carriers(U, n, i + 1) = {}
  PROVE  LineFlows(U, n, job, pipes, shown)
<1> DEFINE made(i) == Composition(job)[i]
<1>1. Len(job) \in 1..Len(job)
  BY LenProperties
<1>2. Begun(U, n, Len(job), made(Len(job)), shown)
  <2>1. Given(U, n, Len(job), made(Len(job))) \subseteq Given(T, n, Len(job), made(Len(job)))
    BY <1>1
  <2>2. Begun(T, n, Len(job), made(Len(job)), shown)
    BY DEF LineFlows
  <2> HIDE DEF made
  <2> QED
    BY <2>1, <2>2 DEF Begun
<1>3. ASSUME NEW i \in 1..Len(job) - 1, Reads(job, i + 1)
      PROVE  Flows(U, n, i, made(i), pipes[<<n, i>>])
  <2>1. i \in 1..Len(job) /\ i + 1 \in 1..Len(job)
    BY <1>1
  <2>2. Follows(T, U, n, i + 1)
    BY <1>3, <2>1
  <2>3. Given(U, n, i, made(i)) \subseteq Given(T, n, i, made(i)) \/ Carriers(U, n, i + 1) = {}
    BY <2>1
  <2>4. Flows(T, n, i, made(i), pipes[<<n, i>>])
    BY <1>3 DEF LineFlows
  <2> HIDE DEF made
  <2> QED
    BY <2>2, <2>3, <2>4, FlowsKeep
<1> QED
  BY <1>2, <1>3 DEF LineFlows

\* Who has written and read nothing hands its stages on, or all of its line is given up.
Untouched(q) == q.pc \notin Dead => Count(q) = 0 /\ q.copied = 0

LEMMA HandedFlow ==
  ASSUME NEW T, NEW U, NEW ls \in Seq(Seq(Stage) \ {<<>>}), NEW kept \in SUBSET Nat,
         NEW still \in SUBSET kept, NEW x, NEW c, NEW pipes, NEW shown,
         Turn(T, U, x, c), Alone(T), Hands(T, U, x, c),
         Untouched(T[x]), Untouched(U[x]), Untouched(U[c]),
         \A n \in still : Valid(ls, n) =>
           \A i \in 1..Len(ls[n]) :
             Carries(T[x], n, i) => Carries(U[x], n, i) \/ Carries(U[c], n, i),
         Flowing(T, ls, kept, pipes, shown)
  PROVE  Flowing(U, ls, still, pipes, shown)
<1> SUFFICES ASSUME NEW n \in still, Valid(ls, n) PROVE LineFlows(U, n, ls[n], pipes, shown)
  BY DEF Flowing
<1> DEFINE job == ls[n]
<1>1. job \in Seq(Stage) /\ Len(job) # 0 /\ Len(job) \in Nat /\ n \in Nat
  <2>1. n \in 1..Len(ls)
    BY DEF Valid
  <2>2. job \in Seq(Stage) \ {<<>>}
    BY <2>1, ElementOfSeq
  <2> QED
    BY <2>2, LenProperties, EmptySeq
<1>2. LineFlows(T, n, job, pipes, shown)
  BY DEF Flowing
<1>3. Alone(U)
  BY AloneTurn
<1>4. ASSUME NEW i \in 1..Len(job)
      PROVE  /\ Follows(T, U, n, i)
             /\ \A made : Given(U, n, i, made) \subseteq Given(T, n, i, made)
  <2>1. i \in Nat
    BY <1>1
  <2>2. CASE ~Carries(T[x], n, i)
    <3>1. ~Carries(U[x], n, i) /\ ~Carries(U[c], n, i)
      BY <1>1, <2>1, <2>2 DEF Hands
    <3>2. /\ Carriers(U, n, i) = Carriers(T, n, i)
          /\ \A r \in Carriers(U, n, i) : U[r].copied = T[r].copied
          /\ \A made : Given(U, n, i, made) = Given(T, n, i, made)
      BY <2>2, <3>1, GivenElsewhere
    <3> QED
      BY <3>2 DEF Follows
  <2>3. CASE Carries(T[x], n, i)
    <3>1. PICK y \in {x, c} : Carries(U[y], n, i)
      BY <2>3
    <3>2. y \in Procs /\ x \in Procs
      BY DEF Turn
    <3>3. Count(T[x]) = 0 /\ T[x].copied = 0 /\ Count(U[y]) = 0 /\ U[y].copied = 0
      BY <2>3, <3>1, DeadCarry DEF Untouched
    <3>4. /\ Carriers(T, n, i) = {x} /\ \A made : Given(T, n, i, made) = {Count(T[x])}
          /\ Carriers(U, n, i) = {y} /\ \A made : Given(U, n, i, made) = {Count(U[y])}
      BY <1>1, <1>3, <2>1, <2>3, <3>1, <3>2, GivenAlone
    <3> QED
      BY <3>3, <3>4 DEF Follows
  <2> QED
    BY <2>2, <2>3
<1> HIDE DEF job
<1>5. LineFlows(U, n, job, pipes, shown)
  BY <1>1, <1>2, <1>4, LineKeeps
<1> QED
  BY <1>5 DEF job

LEMMA KeptTyped == Kept \in SUBSET Nat /\ (lost \subseteq lost' => Kept' \subseteq Kept)
BY DEF Kept

LEMMA HandedComposes ==
  ASSUME OutputInv, NEW x, NEW c, Turn(proc, proc', x, c), Hands(proc, proc', x, c),
         proc[x].child = Nobody \/ proc[proc[x].child].pc = "zombie",
         UNCHANGED <<pipe, screen, lines>>, lost \subseteq lost',
         {proc[x].pc, proc'[x].pc, proc'[c].pc} \cap {"program", "refused"} = {},
         Orderly(proc', lines, Kept', x), Orderly(proc', lines, Kept', c),
         \A n \in Kept' : Valid(lines, n) =>
           \A i \in 1..Len(lines[n]) :
             Carries(proc[x], n, i) => Carries(proc'[x], n, i) \/ Carries(proc'[c], n, i)
  PROVE  Composing'
<1>1. /\ Tidy(proc, lines, Kept) /\ Flowing(proc, lines, Kept, pipe, screen)
      /\ Sound(proc, lines) /\ lines \in Seq(Seq(Stage) \ {<<>>})
  BY DEF OutputInv, Composing, ShellInv, Sound
<1>2. Kept \in SUBSET Nat /\ Kept' \in SUBSET Kept
  BY KeptTyped
<1>3. Tidy(proc', lines, Kept')
  BY <1>1, <1>2, TidyTurn
<1>4. Untouched(proc[x]) /\ Untouched(proc'[x]) /\ Untouched(proc'[c])
  BY <1>1 DEF Untouched, Count, Tidy, Wired, Orderly, Turn
<1>5. Flowing(proc', lines, Kept', pipe, screen)
  <2>1. Alone(proc)
    BY <1>1 DEF Tidy
  <2> QED
    BY <1>1, <1>2, <1>4, <2>1, HandedFlow
<1>6. ItemsFit(proc', pipe, screen)
  <2>1. ItemsFit(proc, pipe, screen)
    BY DEF OutputInv, Composing
  <2>2. ASSUME NEW y \in Procs, proc'[y].pc = "program"
        PROVE  proc[y].pc = "program" /\ proc'[y].word = proc[y].word
    BY <2>2 DEF Turn, Alike, Dead
  <2> QED
    BY <2>1, <2>2 DEF ItemsFit
<1>7. LinesFit(lines) /\ NotBefore(lines, pipe, screen)
  BY DEF OutputInv, Composing
<1> QED
  BY <1>3, <1>5, <1>6, <1>7 DEF Composing

-----------------------------------------------------------------------------
(* What fork and exit do.                                                  *)

SameTask(r, q) ==
  /\ r.pc = q.pc /\ r.ret = q.ret /\ r.line = q.line /\ r.stage = q.stage
  /\ r.in = q.in /\ r.out = q.out /\ r.held = q.held
  /\ r.copied = q.copied /\ r.word = q.word

LEMMA SameCarry ==
  ASSUME NEW r, NEW q, SameTask(r, q)
  PROVE  /\ \A n, i : Carries(r, n, i) <=> Carries(q, n, i)
         /\ \A job : Wired(q, job) => Wired(r, job)
<1>1. \A n, i : Carries(r, n, i) <=> Carries(q, n, i)
  BY DEF SameTask, Carries
<1>2. ASSUME NEW job, Wired(q, job) PROVE Wired(r, job)
  BY <1>2 DEF SameTask, Wired
<1> QED
  BY <1>1, <1>2

LEMMA ExitedTurn ==
  ASSUME NEW T, IsTable(T), NEW p \in Procs, T[p].pc \notin Dead
  PROVE  Exited(T, p)[p].pc \in Dead /\ Turn(T, Exited(T, p), p, p)
<1> DEFINE U == Exited(T, p)
<1>1. T \in [Procs -> Process(Words(T))]
  BY DEF IsTable
<1>2. U[p].pc \in Dead
  <2>1. Free.pc = "free" /\ Zombie(T[p].parent, T[p].born).pc = "zombie"
    <3>1. T[p].parent \in Nat /\ T[p].born \in Nat
      BY <1>1 DEF Process
    <3> QED
      BY <3>1, FreeProcess, ZombieProcess
  <2>2. U[p] = IF T[p].parent = 0 THEN Free ELSE Zombie(T[p].parent, T[p].born)
    BY DEF Exited, Zombie
  <2> QED
    BY <2>1, <2>2 DEF Dead
<1>3. ASSUME NEW y \in Procs \ {p} PROVE Alike(U[y], T[y])
  <2>1. U[y] = IF T[y].parent # p THEN T[y]
               ELSE IF T[y].pc = "zombie" THEN Free ELSE Orphan(T[y])
    BY DEF Exited, Orphan, Nobody
  <2>2. CASE U[y] = T[y]
    BY <2>2 DEF Alike
  <2>3. CASE T[y].pc = "zombie" /\ U[y] = Free
    BY <2>3, FreeProcess DEF Alike, Dead
  <2>4. CASE U[y] = Orphan(T[y])
    BY <1>1, <2>4 DEF Alike, Orphan, Process
  <2> QED
    BY <2>1, <2>2, <2>3, <2>4
<1> QED
  BY <1>2, <1>3 DEF Turn

LEMMA ForkTurn ==
  ASSUME ShellInv, NEW p \in Procs, proc[p].pc \notin Dead,
         NEW V, NEW child \in Process(V), NEW W, NEW parent \in Process(W), NEW waits \in BOOLEAN,
         Fork(p, child, parent, waits)
  PROVE  \E c \in Procs :
           /\ Turn(proc, proc', p, c) /\ SameTask(proc'[p], parent)
           /\ IF c = p THEN lost' = lost \cup {proc[p].line}
              ELSE /\ lost' = lost /\ SameTask(proc'[c], child)
                   /\ proc'[p].child = IF waits THEN c ELSE 0
<1>1. proc \in [Procs -> Process(Words(proc))]
  BY DEF ShellInv, Sound, IsTable
<1>2. \A c \in Nat : LET r == [parent EXCEPT !.child = c] IN SameTask(r, parent) /\ r.child = c
  BY DEF SameTask, Process
<1>3. \A y \in Procs : Alike(proc[y], proc[y])
  BY DEF Alike
<1>4. CASE proc' = [proc EXCEPT ![p] = [parent EXCEPT !.child = 0]]
           /\ lost' = lost \cup {proc[p].line}
  <2>1. proc'[p] = [parent EXCEPT !.child = 0] /\ \A y \in Procs \ {p} : proc'[y] = proc[y]
    BY <1>1, <1>4
  <2>2. Turn(proc, proc', p, p)
    BY <1>3, <2>1 DEF Turn
  <2> QED
    BY <1>2, <1>4, <2>1, <2>2
<1> DEFINE free == {c \in Procs : proc[c].pc = "free"}
           started == [child EXCEPT !.parent = p, !.child = 0, !.born = child.line]
           goes_on(c) == [parent EXCEPT !.child = IF waits THEN c ELSE 0]
<1>5. ASSUME free # {}, lost' = lost,
             LET c == CHOOSE c \in free : \A d \in free : c <= d
             IN  proc' = [proc EXCEPT ![c] = started, ![p] = goes_on(c)]
      PROVE  \E c \in Procs \ {p} : /\ Turn(proc, proc', p, c) /\ SameTask(proc'[p], parent)
                                    /\ SameTask(proc'[c], child)
                                    /\ proc'[p].child = IF waits THEN c ELSE 0
  <2>1. PICK c \in free : proc' = [proc EXCEPT ![c] = started, ![p] = goes_on(c)]
    <3>1. free \subseteq Nat
      BY ShellAssumption
    <3>2. \E c \in free : \A d \in free : c <= d
      BY <1>5, <3>1, LeastNumber
    <3> HIDE DEF started, goes_on
    <3> QED
      BY <1>5, <3>2
  <2>2. c \in Procs \ {p} /\ c \in Nat /\ proc[c].pc \in Dead
    BY ShellAssumption DEF Dead
  <2>3. SameTask(started, child)
    BY DEF SameTask, Process
  <2>4. SameTask(goes_on(c), parent) /\ goes_on(c).child = IF waits THEN c ELSE 0
    BY <1>2, <2>2
  <2> HIDE DEF started, goes_on
  <2>5. /\ proc'[p] = goes_on(c) /\ proc'[c] = started
        /\ \A y \in Procs \ {p, c} : proc'[y] = proc[y]
    BY <1>1, <2>1, <2>2
  <2>6. Turn(proc, proc', p, c)
    BY <1>3, <2>2, <2>5 DEF Turn
  <2> QED
    BY <2>2, <2>3, <2>4, <2>5, <2>6
<1> QED
  BY <1>4, <1>5 DEF Fork

\* A fork shares the stages out, and who is to be waited for is; or the line is given up.
LEMMA ForkComposes ==
  ASSUME OutputInv, NEW p \in Procs, proc[p].pc \in {"line", "piping", "binary"},
         NEW V, NEW child \in Process(V), NEW W, NEW parent \in Process(W), NEW waits \in BOOLEAN,
         Fork(p, child, parent, waits), UNCHANGED <<pipe, screen, lines>>,
         NEW L, L = proc[p].line, NEW job, job = lines[L],
         child.pc \in {"piping", "stage", "exec"}, parent.pc \in {"wait", "piping"},
         child.line = L, parent.line = L, Wired(child, job), Wired(parent, job),
         \A n, i \in Nat :
           /\ Carries(child, n, i) \/ Carries(parent, n, i) => Carries(proc[p], n, i)
           /\ ~(Carries(child, n, i) /\ Carries(parent, n, i)),
         \A i \in 1..Len(job) :
           Carries(proc[p], L, i) => Carries(child, L, i) \/ Carries(parent, L, i),
         child.pc = "piping" => waits /\ parent.ret = "prompt",
         child.pc = "exec" /\ child.stage = Len(job) =>
           /\ ~job[child.stage].background => waits
           /\ L \in Kept => parent.ret = "prompt" \/ Held(proc, p, L),
         parent.pc = "piping" /\ L \in Kept => Held(proc, p, L)
  PROVE  Composing'
<1> PICK U : U = proc'
  OBVIOUS
<1>1. /\ ShellInv /\ Sound(proc, lines) /\ proc[p].pc \notin Dead /\ proc[p].child = Nobody
  BY Going DEF OutputInv, ShellInv, Dead
<1>2. PICK c \in Procs :
        /\ Turn(proc, U, p, c) /\ SameTask(U[p], parent)
        /\ IF c = p THEN lost' = lost \cup {proc[p].line}
           ELSE /\ lost' = lost /\ SameTask(U[c], child)
                /\ U[p].child = IF waits THEN c ELSE 0
  BY <1>1, ForkTurn
<1>3. /\ U[p].pc = parent.pc /\ U[p].line = L /\ Wired(U[p], job)
      /\ \A n, i : Carries(U[p], n, i) <=> Carries(parent, n, i)
  BY <1>2, SameCarry DEF SameTask
<1>4. U[p].pc \notin {"program", "refused"} /\ U[p].pc \notin Dead /\ proc[p].pc \notin {"program", "refused"}
  BY <1>3 DEF Dead
<1>5. lost \subseteq lost' /\ Kept' \subseteq Kept
  <2>1. lost \subseteq lost'
    BY <1>2
  <2> QED
    BY <2>1, KeptTyped
<1>6. Advanced(U[p], job)
  BY <1>4 DEF Advanced
<1>7. CASE c = p
  <2>1. L \notin Kept'
    BY <1>2, <1>7 DEF Kept
  <2>2. Orderly(U, lines, Kept', p)
    BY <1>3, <2>1 DEF Orderly
  <2>3. Hands(proc, U, p, p)
    BY <1>3 DEF Hands
  <2>4. ASSUME NEW n \in Kept', NEW i PROVE ~Carries(proc[p], n, i)
    BY <2>1 DEF Carries
  <2>5. {proc[p].pc, U[p].pc} \cap {"program", "refused"} = {}
    BY <1>4
  <2> QED
    BY <1>1, <1>2, <1>5, <1>7, <2>2, <2>3, <2>4, <2>5, HandedComposes
<1>8. CASE c # p
  <2>1. /\ lost' = lost /\ Kept' = Kept /\ U[p].child = IF waits THEN c ELSE 0
        /\ SameTask(U[c], child)
    BY <1>2, <1>8 DEF Kept
  <2>2. /\ U[c].pc = child.pc /\ U[c].line = L /\ U[c].stage = child.stage /\ Wired(U[c], job)
        /\ \A n, i : Carries(U[c], n, i) <=> Carries(child, n, i)
    BY <2>1, SameCarry DEF SameTask
  <2>3. U[p].ret = parent.ret
    BY <1>2 DEF SameTask
  <2>4. Held(proc, p, L) => Held(U, p, L)
    BY <1>1, <1>2, HeldTurn
  <2>5. Orderly(U, lines, Kept', p)
    <3>1. L \in Kept => Awaited(U, p, job)
      BY <1>3, <2>4 DEF Awaited
    <3> QED
      BY <1>3, <1>6, <2>1, <3>1 DEF Orderly
  <2>6. Orderly(U, lines, Kept', c)
    <3>1. Advanced(U[c], job)
      BY <2>2 DEF Advanced
    <3>2. waits /\ parent.ret = "prompt" => Held(U, c, L)
      BY <1>3, <2>1, <2>3 DEF Held
    <3>3. waits /\ Held(U, p, L) => HeldBehind(U, c, L)
      BY <1>3, <2>1 DEF HeldBehind
    <3>4. L \in Kept => Awaited(U, c, job)
      BY <2>2, <2>4, <3>2, <3>3 DEF Awaited
    <3> QED
      BY <2>1, <2>2, <3>1, <3>4 DEF Orderly
  <2>7. Hands(proc, U, p, c)
    BY <1>3, <2>2 DEF Hands
  <2>8. {proc[p].pc, U[p].pc, U[c].pc} \cap {"program", "refused"} = {}
    BY <1>4, <2>2
  <2>9. ASSUME NEW n \in Kept', NEW i \in 1..Len(lines[n]), Carries(proc[p], n, i)
        PROVE  Carries(U[p], n, i) \/ Carries(U[c], n, i)
    <3>1. n = L
      BY <2>9 DEF Carries
    <3> QED
      BY <1>3, <2>2, <2>9, <3>1
  <2> QED
    BY <1>1, <1>2, <1>5, <2>5, <2>6, <2>7, <2>8, <2>9, HandedComposes
<1> QED
  BY <1>7, <1>8

-----------------------------------------------------------------------------
(* The actions that only hand stages on.                                   *)

\* What a process that acts knows.
LEMMA Knows ==
  ASSUME OutputInv, NEW p \in Procs, proc[p].pc \notin Dead \cup {"wait", "prompt"}
  PROVE  LET q == proc[p]
             job == lines[q.line]
         IN  /\ q \in Process(Words(proc)) /\ Plugged(q) /\ Informed(q, lines)
             /\ q.child = Nobody /\ q.line \in 1..Len(lines) /\ q.line \in Nat /\ q.stage \in Nat
             /\ job \in Seq(Stage) /\ Len(job) \in Nat \ {0}
             /\ Wired(q, job)
             /\ q.line \in Kept => Awaited(proc, p, job) /\ Advanced(q, job)
<1> DEFINE q == proc[p]
           job == lines[q.line]
<1>1. /\ q \in Process(Words(proc)) /\ Plugged(q) /\ Informed(q, lines) /\ q.child = Nobody
      /\ lines \in Seq(Seq(Stage) \ {<<>>}) /\ Len(lines) \in Nat
  BY Going, LenProperties DEF OutputInv, ShellInv, Sound
<1>2. q.line \in 1..Len(lines) /\ q.line \in Nat /\ q.stage \in Nat
  BY <1>1 DEF Informed, Process
<1>3. job \in Seq(Stage) \ {<<>>}
  BY <1>1, <1>2, ElementOfSeq
<1>4. job \in Seq(Stage) /\ Len(job) \in Nat \ {0}
  BY <1>3, LenProperties, EmptySeq
<1>5. Wired(q, job) /\ (q.line \in Kept => Awaited(proc, p, job) /\ Advanced(q, job))
  BY DEF OutputInv, Composing, Tidy
<1> QED
  BY <1>1, <1>2, <1>4, <1>5

LEMMA PipelineComposes ==
  ASSUME OutputInv, NEW p \in Procs, parseAndExecuteCommand(p)
  PROVE  Composing'
<1> DEFINE q == proc[p]
           L == q.line
           job == lines[L]
           child  == [q EXCEPT !.pc = "piping", !.ret = "exit"]
           parent == [q EXCEPT !.pc = "wait"]
           back   == [q EXCEPT !.pc = "prompt"]
<1>1. /\ q.pc = "line" /\ q.pc \notin Dead \cup {"wait", "prompt"}
      /\ UNCHANGED <<pipe, screen, lines>>
      /\ \/ isValidateParsedPipeInput(job) /\ Fork(p, child, parent, TRUE)
         \/ /\ ~isValidateParsedPipeInput(job) /\ UNCHANGED lost
            /\ proc' = [proc EXCEPT ![p].pc = "prompt"]
  BY DEF parseAndExecuteCommand, Dead
<1>2. /\ q \in Process(Words(proc)) /\ q.child = Nobody /\ Informed(q, lines)
      /\ Len(job) \in Nat \ {0} /\ Wired(q, job) /\ ShellInv /\ Sound(proc, lines)
  BY <1>1, Knows DEF OutputInv, ShellInv
<1>3. q.ret = "prompt" /\ q.stage = 1 /\ q.copied = 0 /\ q.word = ""
  BY <1>1, <1>2 DEF Informed, Wired
<1>4. /\ child.pc = "piping" /\ child.line = L /\ child.stage = 1
      /\ child.copied = 0 /\ child.word = "" /\ child \in Process(Words(proc))
  BY <1>2, <1>3 DEF Process
<1>5. /\ parent.pc = "wait" /\ parent.line = L /\ parent.ret = "prompt"
      /\ parent.copied = 0 /\ parent.word = "" /\ parent \in Process(Words(proc))
  BY <1>2, <1>3 DEF Process, Dead
<1>6. back.pc = "prompt" /\ back.line = L /\ back.copied = 0 /\ back.word = ""
  BY <1>2, <1>3 DEF Process
<1>7. CASE isValidateParsedPipeInput(job) /\ Fork(p, child, parent, TRUE)
  <2> HIDE DEF child, parent, back
  <2>1. Wired(child, job) /\ Wired(parent, job)
    <3>1. 1 \in 1..Len(job) /\ isValidateParsedPipeInput(job)
      BY <1>2, <1>7
    <3> HIDE DEF q, L, job
    <3>2. Wired(child, job)
      BY <1>4, <3>1 DEF Wired, Working, Started
    <3>3. Wired(parent, job)
      BY <1>5 DEF Wired, Working, Started
    <3> QED
      BY <3>2, <3>3
  <2>2. ASSUME NEW n \in Nat, NEW i \in Nat
        PROVE  /\ Carries(child, n, i) \/ Carries(parent, n, i) => Carries(q, n, i)
               /\ ~(Carries(child, n, i) /\ Carries(parent, n, i))
    <3>1. q.pc = "line" /\ child.line = q.line /\ parent.pc = "wait"
      BY <1>1, <1>4, <1>5
    <3> HIDE DEF q
    <3> QED
      BY <3>1 DEF Carries, Working
  <2>3. \A i \in 1..Len(job) : Carries(child, L, i)
    <3>1. Len(job) \in Nat
      BY <1>2
    <3>2. child.pc = "piping" /\ child.line = L /\ child.stage = 1
      BY <1>4
    <3> HIDE DEF q, L, job
    <3> SUFFICES ASSUME NEW i \in 1..Len(job) PROVE Carries(child, L, i)
      OBVIOUS
    <3>3. child.stage <= i
      BY <3>1, <3>2
    <3> QED
      BY <3>2, <3>3 DEF Carries
  <2> HIDE DEF q, L, job
  <2> QED
    BY <1>1, <1>4, <1>5, <1>7, <2>1, <2>2, <2>3, ForkComposes DEF q, L, job
<1>8. CASE /\ ~isValidateParsedPipeInput(job) /\ UNCHANGED lost
           /\ proc' = [proc EXCEPT ![p].pc = "prompt"]
  <2>1. proc'[p] = back /\ \A y \in Procs \ {p} : proc'[y] = proc[y]
    BY <1>2, <1>8 DEF Sound, IsTable
  <2> HIDE DEF child, parent, back
  <2>2. Turn(proc, proc', p, p)
    BY <1>1, <2>1 DEF Turn, Alike
  <2>3. Hands(proc, proc', p, p)
    BY <1>6, <2>1 DEF Hands, Carries, Working
  <2>4. Orderly(proc', lines, Kept', p)
    BY <1>6, <2>1 DEF Orderly, Wired, Awaited, Advanced, Working, Started
  <2>5. ASSUME NEW n \in Kept', Valid(lines, n), NEW i PROVE ~Carries(q, n, i)
    BY <1>8, <2>5 DEF Carries, Valid
  <2>6. lost \subseteq lost' /\ {proc[p].pc, proc'[p].pc} \cap {"program", "refused"} = {}
    BY <1>1, <1>6, <1>8, <2>1
  <2> QED
    BY <1>1, <1>2, <2>2, <2>3, <2>4, <2>5, <2>6, HandedComposes
<1> QED
  BY <1>1, <1>7, <1>8

LEMMA DuplicatedIs ==
  ASSUME NEW W, NEW q \in Process(W), NEW old \in AnyEnd
  PROVE  /\ LET r == duplicateFileDescriptors(q, old, "in")
            IN  /\ r \in Process(W) /\ r.in = (IF old = Tty THEN q.in ELSE old) /\ r.out = q.out
                /\ r.pc = q.pc /\ r.ret = q.ret /\ r.line = q.line /\ r.stage = q.stage
                /\ r.copied = q.copied /\ r.word = q.word /\ r.child = q.child
         /\ LET r == duplicateFileDescriptors(q, old, "out")
            IN  /\ r \in Process(W) /\ r.out = (IF old = Tty THEN q.out ELSE old) /\ r.in = q.in
                /\ r.pc = q.pc /\ r.ret = q.ret /\ r.line = q.line /\ r.stage = q.stage
                /\ r.copied = q.copied /\ r.word = q.word /\ r.child = q.child
<1>1. CASE old = Tty
  BY <1>1 DEF duplicateFileDescriptors
<1>2. CASE old # Tty
  <2>1. duplicateFileDescriptors(q, old, "in") = [q EXCEPT !.in = old, !.held = q.held \ {old}]
    BY <1>2 DEF duplicateFileDescriptors, Process
  <2>2. duplicateFileDescriptors(q, old, "out") = [q EXCEPT !.out = old, !.held = q.held \ {old}]
    BY <1>2 DEF duplicateFileDescriptors, Process
  <2>3. q.held \ {old} \in SUBSET AnyEnd
    BY DEF Process
  <2> HIDE DEF AnyEnd
  <2>4. \A r : r = [q EXCEPT !.in = old, !.held = q.held \ {old}] =>
          /\ r \in Process(W) /\ r.in = old /\ r.out = q.out
          /\ r.pc = q.pc /\ r.ret = q.ret /\ r.line = q.line /\ r.stage = q.stage
          /\ r.copied = q.copied /\ r.word = q.word /\ r.child = q.child
    BY <2>3 DEF Process
  <2>5. \A r : r = [q EXCEPT !.out = old, !.held = q.held \ {old}] =>
          /\ r \in Process(W) /\ r.out = old /\ r.in = q.in
          /\ r.pc = q.pc /\ r.ret = q.ret /\ r.line = q.line /\ r.stage = q.stage
          /\ r.copied = q.copied /\ r.word = q.word /\ r.child = q.child
    BY <2>3 DEF Process
  <2> QED
    BY ONLY <1>2, <2>1, <2>2, <2>4, <2>5
<1> QED
  BY <1>1, <1>2

\* The descriptor of the input is that of the pipe before the stage.
LEMMA InputIs ==
  ASSUME NEW W, NEW q \in Process(W), Plugged(q), q.stage \in Nat \ {0}
  PROVE  /\ file_desc(q) \in AnyEnd
         /\ file_desc(q) = Tty <=> q.stage = 1
         /\ q.stage # 1 => file_desc(q) = ReadEnd(q.line, q.stage - 1)
         /\ q.stage = 1 => q.in = Tty
<1>1. q.line \in Nat /\ (q.stage # 1 => q.stage - 1 \in Nat)
  BY DEF Process
<1>2. Tty \in AnyEnd /\ (q.stage # 1 => ReadEnd(q.line, q.stage - 1) \in AnyEnd)
  BY <1>1 DEF AnyEnd
<1>3. Tty # ReadEnd(q.line, q.stage - 1)
  BY EndsDiffer
<1>4. q.stage = 1 => q.in = Tty
  BY DEF Plugged, ReadEnds
<1> QED
  BY <1>2, <1>3, <1>4 DEF file_desc

LEMMA LastStageComposes ==
  ASSUME OutputInv, NEW p \in Procs, proc[p].pc = "piping",
         proc[p].stage = Len(lines[proc[p].line]), UNCHANGED <<pipe, screen, lines, lost>>,
         proc' = [proc EXCEPT ![p] = duplicateFileDescriptors(
                    [proc[p] EXCEPT !.pc = "binary"], file_desc(proc[p]), "in")]
  PROVE  Composing'
<1> DEFINE q == proc[p]
           L == q.line
           job == lines[L]
           moved == [q EXCEPT !.pc = "binary"]
           r == duplicateFileDescriptors(moved, file_desc(q), "in")
<1>1. /\ q \in Process(Words(proc)) /\ Plugged(q) /\ q.child = Nobody /\ L \in Nat
      /\ q.stage \in Nat /\ Len(job) \in Nat \ {0} /\ Wired(q, job)
      /\ (L \in Kept => Awaited(proc, p, job)) /\ ShellInv /\ Sound(proc, lines)
      /\ q.pc \notin Dead
  BY Knows DEF OutputInv, ShellInv, Dead
<1>2. /\ moved \in Process(Words(proc)) /\ moved.pc = "binary" /\ SameButPc(moved, q)
      /\ moved.copied = q.copied /\ moved.word = q.word
  <2>1. moved = Moved(q, "binary")
    BY DEF Moved
  <2>2. moved.copied = q.copied /\ moved.word = q.word
    BY <1>1 DEF Process
  <2> HIDE DEF moved
  <2> QED
    BY <1>1, <2>1, <2>2, MovedProcess
<1> HIDE DEF moved
<1>3. /\ file_desc(q) \in AnyEnd
      /\ file_desc(q) = Tty <=> q.stage = 1
      /\ q.stage # 1 => file_desc(q) = ReadEnd(L, q.stage - 1)
      /\ q.stage = 1 => q.in = Tty
  BY <1>1, InputIs
<1>4. /\ r.in = (IF file_desc(q) = Tty THEN q.in ELSE file_desc(q)) /\ r.out = q.out
      /\ r.pc = "binary" /\ r.line = L /\ r.stage = q.stage
      /\ r.copied = q.copied /\ r.word = q.word
  BY <1>2, <1>3, DuplicatedIs DEF SameButPc
<1>5. proc'[p] = r /\ \A y \in Procs \ {p} : proc'[y] = proc[y]
  BY <1>1 DEF Sound, IsTable, moved
<1> HIDE DEF r
<1>6. Turn(proc, proc', p, p)
  BY <1>1, <1>5 DEF Turn, Alike
<1>7. Hands(proc, proc', p, p)
  <2>1. q.stage <= q.stage
    BY <1>1
  <2> QED
    BY <1>4, <1>5, <2>1 DEF Hands, Carries, Working
<1>8. Orderly(proc', lines, Kept', p)
  <2>1. q.out = Tty /\ q.copied = 0 /\ q.word = "" /\ q.stage = Len(job)
        /\ q.stage \in 1..Len(job) /\ isValidateParsedPipeInput(job)
    <3>1. q.out = Tty
      BY <1>1 DEF Plugged
    <3>2. q.copied = 0 /\ q.word = "" /\ q.stage \in 1..Len(job) /\ isValidateParsedPipeInput(job)
      BY <1>1 DEF Wired
    <3> QED
      BY <3>1, <3>2
  <2>2. r.in = IF q.stage = 1 THEN Tty ELSE ReadEnd(L, q.stage - 1)
    BY <1>3, <1>4
  <2>3. Wired(r, job)
    BY <1>4, <2>1, <2>2 DEF Wired, Working, Started
  <2>4. L \in Kept => Held(proc, p, L)
    BY <1>1 DEF Awaited
  <2>5. Held(proc, p, L) => Held(proc', p, L)
    BY <1>1, <1>6, HeldTurn
  <2>6. Kept' = Kept
    BY DEF Kept
  <2>7. Advanced(r, job)
    BY <1>4 DEF Advanced
  <2>8. L \in Kept => Awaited(proc', p, job)
    BY <1>4, <1>5, <2>4, <2>5 DEF Awaited
  <2> QED
    BY <1>4, <1>5, <2>3, <2>6, <2>7, <2>8 DEF Orderly
<1>9. ASSUME NEW n \in Kept', NEW i \in 1..Len(lines[n]), Carries(q, n, i)
      PROVE  Carries(proc'[p], n, i)
  <2>1. n = L /\ q.stage <= i
    BY <1>9 DEF Carries, Working
  <2>2. i = q.stage
    BY <1>1, <1>9, <2>1
  <2> QED
    BY <1>4, <1>5, <2>1, <2>2 DEF Carries, Working
<1>10. {q.pc, proc'[p].pc} \cap {"program", "refused"} = {}
  BY <1>4, <1>5
<1> QED
  BY <1>1, <1>6, <1>7, <1>8, <1>9, <1>10, HandedComposes

LEMMA RunPipingComposes ==
  ASSUME OutputInv, NEW p \in Procs, runPiping(p)
  PROVE  Composing'
<1> DEFINE q == proc[p]
           L == q.line
           i == q.stage
           job == lines[L]
           own == {ReadEnd(L, i), WriteEnd(L, i)}
           child == [q EXCEPT !.pc = "stage", !.held = @ \cup own]
           parent == after_fork(q)
<1>1. q.pc = "piping" /\ UNCHANGED <<pipe, screen, lines>> /\ q.pc \notin Dead \cup {"wait", "prompt"}
  BY DEF runPiping, Dead
<1>2. /\ q \in Process(Words(proc)) /\ Plugged(q) /\ Informed(q, lines) /\ L \in Nat /\ i \in Nat
      /\ Len(job) \in Nat /\ Wired(q, job) /\ (L \in Kept => Awaited(proc, p, job))
  BY <1>1, Knows
<1>3. CASE q.stage = Len(job)
  BY <1>1, <1>3, LastStageComposes DEF runPiping
<1>4. CASE q.stage # Len(job)
  <2>1. Fork(p, child, parent, FALSE)
    BY <1>4 DEF runPiping
  <2>2. child \in Process(Words(proc)) /\ parent \in Process(Words(proc))
    BY <1>1, <1>2, NextStage
  <2>3. /\ child.pc = "stage" /\ child.line = L /\ child.stage = i /\ child.held = q.held \cup own
        /\ child.copied = q.copied /\ child.word = q.word
    BY <1>2 DEF Process
  <2>4. /\ parent.pc = "piping" /\ parent.line = L /\ parent.stage = i + 1
        /\ parent.held = q.held \cup {ReadEnd(L, i)}
        /\ parent.copied = q.copied /\ parent.word = q.word
    BY <1>1, <1>2 DEF after_fork, Process
  <2> HIDE DEF child, parent
  <2>5. /\ i \in 1..Len(job) /\ isValidateParsedPipeInput(job) /\ q.copied = 0 /\ q.word = ""
        /\ i # 1 => ReadEnd(L, i - 1) \in q.held
    BY <1>1, <1>2 DEF Wired
  <2>6. Wired(child, job)
    BY <1>4, <2>3, <2>5 DEF Wired, Working, Started, own
  <2>7. Wired(parent, job)
    <3>1. i + 1 \in 1..Len(job) /\ (i + 1) - 1 = i
      <4>1. i \in Nat /\ Len(job) \in Nat /\ i \in 1..Len(job) /\ i # Len(job)
        BY <1>2, <1>4, <2>5
      <4> HIDE DEF i, job
      <4> QED
        BY <4>1
    <3>2. ReadEnd(L, (i + 1) - 1) \in parent.held
      BY <2>4, <3>1
    <3> HIDE DEF q, L, i, job
    <3> QED
      BY <2>4, <2>5, <3>1, <3>2 DEF Wired, Working, Started
  <2>8. ASSUME NEW n \in Nat, NEW k \in Nat
        PROVE  /\ Carries(child, n, k) \/ Carries(parent, n, k) => Carries(q, n, k)
               /\ ~(Carries(child, n, k) /\ Carries(parent, n, k))
    <3>1. i \in Nat /\ (i = k => i <= k) /\ (i + 1 <= k => i <= k /\ i # k)
      BY <1>2
    <3> QED
      BY <1>1, <2>3, <2>4, <3>1 DEF Carries, Working
  <2>9. ASSUME NEW k \in 1..Len(job), Carries(q, L, k)
        PROVE  Carries(child, L, k) \/ Carries(parent, L, k)
    <3>1. i <= k
      BY <1>1, <2>9 DEF Carries, Working
    <3>2. i = k \/ i + 1 <= k
      BY <1>2, <3>1
    <3> QED
      BY <2>3, <2>4, <3>2 DEF Carries, Working
  <2>10. L \in Kept => Held(proc, p, L)
    BY <1>1, <1>2 DEF Awaited
  <2> HIDE DEF q, L, i, job
  <2> QED
    BY <1>1, <2>1, <2>2, <2>3, <2>4, <2>6, <2>7, <2>8, <2>9, <2>10, ForkComposes DEF q, L, job
<1> QED
  BY <1>3, <1>4

LEMMA RunStageComposes ==
  ASSUME OutputInv, NEW p \in Procs, run_stage(p)
  PROVE  Composing'
<1> DEFINE q == proc[p]
           L == q.line
           i == q.stage
           job == lines[L]
           first == [q EXCEPT !.pc = "binary", !.held = q.held \ {ReadEnd(L, i)}]
           middle == duplicateFileDescriptors(first, file_desc(q), "in")
           r == duplicateFileDescriptors(middle, WriteEnd(L, i), "out")
<1>1. /\ q.pc = "stage" /\ UNCHANGED <<pipe, screen, lines, lost>>
      /\ q.pc \notin Dead \cup {"wait", "prompt"}
  BY DEF run_stage, Dead
<1>2. /\ q \in Process(Words(proc)) /\ Plugged(q) /\ q.child = Nobody /\ L \in Nat /\ i \in Nat
      /\ Len(job) \in Nat /\ Wired(q, job) /\ ShellInv /\ Sound(proc, lines)
  BY <1>1, Knows DEF OutputInv, ShellInv
<1>3. /\ i \in 1..Len(job) /\ i # Len(job) /\ isValidateParsedPipeInput(job)
      /\ q.copied = 0 /\ q.word = ""
  BY <1>1, <1>2 DEF Wired, Working
<1>4. /\ file_desc(q) \in AnyEnd
      /\ file_desc(q) = Tty <=> i = 1
      /\ i # 1 => file_desc(q) = ReadEnd(L, i - 1)
      /\ i = 1 => q.in = Tty
  <2>1. i \in Nat \ {0}
    <3>1. i \in Nat /\ i \in 1..Len(job) /\ Len(job) \in Nat
      BY <1>2, <1>3
    <3> HIDE DEF i, job
    <3> QED
      BY <3>1
  <2> QED
    BY <1>2, <2>1, InputIs
<1>5. /\ first \in Process(Words(proc)) /\ first.pc = "binary" /\ first.line = L
      /\ first.stage = i /\ first.in = q.in /\ first.copied = 0 /\ first.word = ""
  BY <1>2, <1>3 DEF Process
<1>6. proc'[p] = r /\ \A y \in Procs \ {p} : proc'[y] = proc[y]
  <2>1. redirected([q EXCEPT !.pc = "binary"]) = r
    BY <1>2 DEF redirected, file_desc, Process
  <2>2. proc' = [proc EXCEPT ![p] = redirected([@ EXCEPT !.pc = "binary"])]
    BY DEF run_stage
  <2> HIDE DEF r
  <2> QED
    BY <1>2, <2>1, <2>2 DEF Sound, IsTable
<1> HIDE DEF first
<1>7. /\ middle \in Process(Words(proc)) /\ middle.pc = "binary" /\ middle.line = L
      /\ middle.stage = i /\ middle.in = (IF i = 1 THEN Tty ELSE ReadEnd(L, i - 1))
      /\ middle.copied = 0 /\ middle.word = ""
  <2>1. /\ middle \in Process(Words(proc))
        /\ middle.in = (IF file_desc(q) = Tty THEN first.in ELSE file_desc(q))
        /\ middle.pc = first.pc /\ middle.line = first.line /\ middle.stage = first.stage
        /\ middle.copied = first.copied /\ middle.word = first.word
    <3>1. file_desc(q) \in AnyEnd /\ first \in Process(Words(proc))
      BY <1>4, <1>5
    <3> HIDE DEF q, L, i
    <3> QED
      BY ONLY <3>1, DuplicatedIs DEF middle
  <2> HIDE DEF middle, q, L, i
  <2> QED
    BY <1>4, <1>5, <2>1
<1> HIDE DEF middle
<1>8. WriteEnd(L, i) \in AnyEnd /\ WriteEnd(L, i) # Tty
  <2>1. WriteEnd(L, i) \in AnyEnd
    BY <1>2 DEF AnyEnd
  <2> QED
    BY <2>1, EndsDiffer
<1>9. /\ r.pc = "binary" /\ r.line = L /\ r.stage = i /\ r.copied = 0 /\ r.word = ""
      /\ r.in = (IF i = 1 THEN Tty ELSE ReadEnd(L, i - 1)) /\ r.out = WriteEnd(L, i)
  <2> PICK behind \in AnyEnd : behind = WriteEnd(L, i) /\ behind # Tty
    BY <1>8
  <2> DEFINE s == duplicateFileDescriptors(middle, behind, "out")
  <2>1. /\ s.out = (IF behind = Tty THEN middle.out ELSE behind) /\ s.in = middle.in
        /\ s.pc = middle.pc /\ s.ret = middle.ret /\ s.line = middle.line
        /\ s.stage = middle.stage /\ s.copied = middle.copied /\ s.word = middle.word
    <3> HIDE DEF q, L, i, job
    <3>1. middle \in Process(Words(proc))
      BY <1>7
    <3> QED
      BY <3>1, DuplicatedIs
  <2> HIDE DEF s
  <2>2. r = s
    BY DEF s
  <2> HIDE DEF r
  <2> HIDE DEF q, L, i
  <2> QED
    BY <1>7, <2>1, <2>2
<1> HIDE DEF r
<1>10. Turn(proc, proc', p, p)
  BY <1>1, <1>6 DEF Turn, Alike
<1>11. \A n, k : Carries(proc'[p], n, k) <=> Carries(q, n, k)
  BY <1>1, <1>6, <1>9 DEF Carries, Working
<1>12. Hands(proc, proc', p, p)
  BY <1>11 DEF Hands
<1>13. Orderly(proc', lines, Kept', p)
  <2>1. Wired(r, job)
    BY <1>3, <1>9 DEF Wired, Working, Started
  <2>2. Advanced(r, job) /\ Awaited(proc', p, job)
    BY <1>3, <1>6, <1>9 DEF Advanced, Awaited
  <2> QED
    BY <1>6, <1>9, <2>1, <2>2 DEF Orderly
<1>14. {q.pc, proc'[p].pc} \cap {"program", "refused"} = {}
  BY <1>1, <1>6, <1>9
<1> HIDE DEF L, i, job
<1> QED
  BY <1>1, <1>2, <1>10, <1>11, <1>12, <1>13, <1>14, HandedComposes

LEMMA ExecuteBinaryComposes ==
  ASSUME OutputInv, NEW p \in Procs, executeBinary(p)
  PROVE  Composing'
<1> PICK q : q = proc[p]
  OBVIOUS
<1> PICK L : L = q.line
  OBVIOUS
<1> PICK job : job = lines[L]
  OBVIOUS
<1> DEFINE child  == [q EXCEPT !.pc = "exec"]
           parent == [q EXCEPT !.pc = "wait"]
<1>1. q.pc = "binary" /\ UNCHANGED <<pipe, screen, lines>> /\ q.pc \notin Dead \cup {"wait", "prompt"}
  BY DEF executeBinary, Dead
<1>2. /\ q \in Process(Words(proc)) /\ Plugged(q) /\ L \in Nat /\ q.stage \in Nat
      /\ Wired(q, job) /\ (L \in Kept => Awaited(proc, p, job)) /\ q.ret \in {"prompt", "exit"}
  BY <1>1, Knows DEF Process
<1> PICK waits \in BOOLEAN : waits = ~job[q.stage].background
  OBVIOUS
<1>3. Fork(p, child, parent, waits)
  BY DEF executeBinary, Command
<1>4. /\ child.pc = "exec" /\ child.line = L /\ child.stage = q.stage /\ child.in = q.in
      /\ child.out = q.out /\ child.copied = q.copied /\ child.word = q.word
      /\ child \in Process(Words(proc))
  BY <1>2 DEF Process
<1>5. /\ parent.pc = "wait" /\ parent.line = L /\ parent.ret = q.ret
      /\ parent.copied = q.copied /\ parent.word = q.word /\ parent \in Process(Words(proc))
  BY <1>2 DEF Process, Dead
<1> HIDE DEF child, parent
<1>6. Wired(child, job)
  <2>1. /\ q.stage \in 1..Len(job) /\ isValidateParsedPipeInput(job) /\ q.copied = 0 /\ q.word = ""
        /\ q.in = IF q.stage = 1 THEN Tty ELSE ReadEnd(L, q.stage - 1)
        /\ q.out = IF q.stage = Len(job) THEN Tty ELSE WriteEnd(L, q.stage)
    BY <1>1, <1>2 DEF Wired, Working, Started
  <2> QED
    BY <1>4, <2>1 DEF Wired, Working, Started
<1>7. Wired(parent, job)
  <2>1. q.copied = 0 /\ q.word = ""
    BY <1>1, <1>2 DEF Wired
  <2> QED
    BY <1>5, <2>1 DEF Wired, Working, Started
<1>8. \A n, k : /\ Carries(child, n, k) <=> Carries(q, n, k)
                /\ ~Carries(parent, n, k)
  BY <1>1, <1>4, <1>5 DEF Carries, Working
<1>9. q.stage = Len(job) /\ L \in Kept => parent.ret = "prompt" \/ Held(proc, p, L)
  BY <1>1, <1>2, <1>5 DEF Awaited
<1>10. /\ ~job[q.stage].background => waits
       /\ proc[p].pc \in {"line", "piping", "binary"} /\ L = proc[p].line /\ job = lines[L]
       /\ UNCHANGED <<pipe, screen, lines>>
  BY <1>1
<1>11. /\ child.pc \in {"piping", "stage", "exec"} /\ child.pc # "piping"
       /\ parent.pc \in {"wait", "piping"} /\ parent.pc # "piping"
       /\ child.line = L /\ parent.line = L
       /\ child.stage = Len(job) =>
            /\ ~job[child.stage].background => waits
            /\ L \in Kept => parent.ret = "prompt" \/ Held(proc, p, L)
  BY <1>4, <1>5, <1>9, <1>10
<1>12. \A n, k : /\ Carries(child, n, k) \/ Carries(parent, n, k) => Carries(proc[p], n, k)
                 /\ ~(Carries(child, n, k) /\ Carries(parent, n, k))
                 /\ Carries(proc[p], n, k) => Carries(child, n, k) \/ Carries(parent, n, k)
  BY <1>8
<1> QED
  BY ONLY OutputInv, p \in Procs, waits \in BOOLEAN, <1>3, <1>4, <1>5, <1>6, <1>7, <1>10, <1>11,
          <1>12, ForkComposes

\* Who ends or returns to the prompt without a stage leaves all as it is.
LEMMA LeavesComposes ==
  ASSUME OutputInv, NEW p \in Procs, proc[p].pc \in {"wait", "prompt"},
         proc[p].child = Nobody \/ proc[proc[p].child].pc = "zombie",
         Turn(proc, proc', p, p), UNCHANGED <<pipe, screen, lines, lost>>,
         proc'[p].pc \in Dead \/ /\ proc'[p].pc = "prompt"
                                 /\ proc'[p].copied = 0 /\ proc'[p].word = ""
  PROVE  Composing'
<1>1. \A n, i : ~Carries(proc[p], n, i) /\ ~Carries(proc'[p], n, i)
  BY DEF Carries, Working, Dead
<1>2. Hands(proc, proc', p, p)
  BY <1>1 DEF Hands
<1>3. Orderly(proc', lines, Kept', p)
  BY DEF Orderly, Wired, Awaited, Advanced, Working, Started
<1>4. {proc[p].pc, proc'[p].pc} \cap {"program", "refused"} = {}
  BY DEF Dead
<1> QED
  BY <1>1, <1>2, <1>3, <1>4, HandedComposes

LEMMA WaitComposes ==
  ASSUME OutputInv, NEW p \in Procs, waitForProcessExecution(p)
  PROVE  Composing'
<1> DEFINE q == proc[p]
           reaped == IF q.child = 0 THEN proc ELSE Reaped(proc, p)
<1>1. /\ q.pc = "wait" /\ UNCHANGED <<pipe, screen, lines, lost>> /\ q.pc \notin Dead
      /\ q.child # 0 => proc[q.child].pc = "zombie"
      /\ proc' = IF q.ret = "prompt" THEN [reaped EXCEPT ![p].pc = "prompt"]
                 ELSE Exited(reaped, p)
  BY DEF waitForProcessExecution, Dead, Reaped, Nobody
<1>2. q \in Process(Words(proc)) /\ Sound(proc, lines) /\ q.copied = 0 /\ q.word = ""
  <2>1. Wired(q, lines[q.line])
    BY <1>1 DEF OutputInv, Composing, Tidy
  <2>2. q.copied = 0 /\ q.word = ""
    BY <1>1, <2>1 DEF Wired
  <2> QED
    BY <1>1, <2>2, Going DEF OutputInv, ShellInv
<1>3. /\ Sound(reaped, lines) /\ reaped[p].pc = "wait" /\ reaped[p].copied = 0
      /\ reaped[p].word = "" /\ \A y \in Procs \ {p} : Alike(reaped[y], proc[y])
  <2>1. CASE q.child = 0
    BY <1>1, <1>2, <2>1 DEF Alike
  <2>2. CASE q.child # 0
    <3>1. Sound(Reaped(proc, p), lines) /\ Reaped(proc, p)[p] = Childless(q)
      BY <1>1, <1>2, <2>2, ReapSound DEF Nobody
    <3>2. Childless(q).pc = "wait" /\ Childless(q).copied = 0 /\ Childless(q).word = ""
      BY <1>1, <1>2 DEF Childless, Process
    <3>3. ASSUME NEW y \in Procs \ {p} PROVE Alike(Reaped(proc, p)[y], proc[y])
      <4>1. proc \in [Procs -> Process(Words(proc))]
        BY <1>2 DEF Sound, IsTable
      <4>2. CASE y = q.child
        <5>1. Reaped(proc, p)[y] = Free
          BY <4>1, <4>2 DEF Reaped
        <5> QED
          BY <1>1, <2>2, <4>2, <5>1, FreeProcess DEF Alike, Dead
      <4>3. CASE y # q.child
        <5>1. Reaped(proc, p)[y] = proc[y]
          BY <4>1, <4>3 DEF Reaped
        <5> QED
          BY <5>1 DEF Alike
      <4> QED
        BY <4>2, <4>3
    <3> QED
      BY <2>2, <3>1, <3>2, <3>3
  <2> QED
    BY <2>1, <2>2
<1> HIDE DEF reaped
<1>4. IsTable(reaped) /\ reaped[p].pc \notin Dead
  BY <1>1, <1>3 DEF Sound
<1>5. CASE q.ret = "prompt"
  <2>1. /\ proc'[p] = [reaped[p] EXCEPT !.pc = "prompt"]
        /\ \A y \in Procs \ {p} : proc'[y] = reaped[y]
    BY <1>1, <1>4, <1>5 DEF IsTable
  <2>2. reaped[p] \in Process(Words(reaped))
    BY <1>4 DEF IsTable
  <2>3. proc'[p].pc = "prompt" /\ proc'[p].copied = 0 /\ proc'[p].word = ""
    BY <1>3, <2>1, <2>2 DEF Process
  <2>4. Turn(proc, proc', p, p)
    BY <1>1, <1>3, <2>1 DEF Turn
  <2> QED
    BY <1>1, <2>3, <2>4, LeavesComposes DEF Nobody
<1>6. CASE q.ret # "prompt"
  <2>1. Exited(reaped, p)[p].pc \in Dead /\ Turn(reaped, Exited(reaped, p), p, p)
    BY <1>4, ExitedTurn
  <2>2. proc' = Exited(reaped, p)
    BY <1>1, <1>6
  <2>3. \A y \in Procs \ {p} : Alike(proc'[y], reaped[y]) /\ Alike(reaped[y], proc[y])
    BY <1>3, <2>1, <2>2 DEF Turn
  <2>4. Turn(proc, proc', p, p)
    BY <1>1, <2>3 DEF Turn, Alike
  <2> QED
    BY <1>1, <2>1, <2>2, <2>4, LeavesComposes DEF Nobody
<1> QED
  BY <1>5, <1>6

LEMMA ExitComposes ==
  ASSUME OutputInv, NEW p \in Procs, Exit(p)
  PROVE  Composing'
<1>1. /\ proc[p].pc = "prompt" /\ proc[p].pc \notin Dead /\ UNCHANGED <<pipe, screen, lines, lost>>
      /\ proc' = Exited(proc, p)
  BY DEF Exit, Dead
<1>2. proc[p].child = Nobody /\ IsTable(proc)
  BY <1>1, Going DEF OutputInv, ShellInv, Sound
<1>3. proc'[p].pc \in Dead /\ Turn(proc, proc', p, p)
  BY <1>1, <1>2, ExitedTurn
<1> QED
  BY <1>1, <1>2, <1>3, LeavesComposes

-----------------------------------------------------------------------------
(* Steps of a stage that writes or reads.                                  *)

\* A step of one process leaves the streams of the other stages alone.
Steady(T, U, n, i) ==
  /\ Carriers(U, n, i) = Carriers(T, n, i)
  /\ \A r \in Carriers(U, n, i) : U[r].copied = T[r].copied
  /\ \A made : Given(U, n, i, made) = Given(T, n, i, made)

LEMMA SteadyFollows ==
  ASSUME NEW T, NEW U, NEW n, NEW i, Steady(T, U, n, i)
  PROVE  /\ Follows(T, U, n, i)
         /\ \A made : Given(U, n, i, made) \subseteq Given(T, n, i, made)
BY DEF Steady, Follows

\* A line none of whose streams changes, in its pipes or on the screen.
LEMMA OtherLine ==
  ASSUME NEW T, NEW U, NEW n, NEW job \in Seq(Stage), Len(job) # 0,
         NEW pipes, NEW shown, NEW after, NEW seen,
         LineFlows(T, n, job, pipes, shown),
         \A i \in 1..Len(job) : Steady(T, U, n, i),
         \A i \in 1..Len(job) - 1 : after[<<n, i>>] = pipes[<<n, i>>],
         \A i, made : Begun(U, n, i, made, shown) => Begun(U, n, i, made, seen)
  PROVE  LineFlows(U, n, job, after, seen)
<1>1. LineFlows(U, n, job, pipes, shown)
  <2>1. ASSUME NEW i \in 1..Len(job)
        PROVE  /\ Follows(T, U, n, i)
               /\ \A made : Given(U, n, i, made) \subseteq Given(T, n, i, made)
    BY SteadyFollows
  <2> QED
    BY <2>1, LineKeeps
<1> QED
  BY <1>1 DEF LineFlows

\* The screen is one item longer: on it the line of the item has one more.
LEMMA ShownMore ==
  ASSUME NEW Row, NEW shown \in Seq(Row), NEW row \in Row, NEW n
  PROVE  LET seen == Append(shown, row)
         IN  /\ Len(seen) = Len(shown) + 1
             /\ \A k \in 0..Len(shown) : OfLine(seen, n, k) = OfLine(shown, n, k)
             /\ Cardinality(OfLine(seen, n, Len(seen))) =
                  Cardinality(OfLine(shown, n, Len(shown))) + (IF row.line = n THEN 1 ELSE 0)
             /\ Cardinality(OfLine(shown, n, Len(shown))) \in Nat
<1> DEFINE m == Len(shown)
           seen == Append(shown, row)
<1>1. /\ Len(seen) = m + 1 /\ m \in Nat /\ seen[m + 1] = row
      /\ \A k \in 1..m : seen[k] = shown[k]
  BY AppendProperties, LenProperties
<1> HIDE DEF seen, m
<1>2. \A k \in 0..m : OfLine(seen, n, k) = OfLine(shown, n, k)
  BY <1>1 DEF OfLine
<1>3. OfLine(seen, n, m + 1) = OfLine(shown, n, m) \cup {k \in {m + 1} : row.line = n}
  BY <1>1 DEF OfLine
<1>4. IsFiniteSet(OfLine(shown, n, m)) /\ m + 1 \notin OfLine(shown, n, m)
  <2>1. IsFiniteSet(1..m) /\ OfLine(shown, n, m) \subseteq 1..m
    BY <1>1, FS_Interval DEF OfLine
  <2>2. m + 1 \notin 1..m
    BY <1>1
  <2> QED
    BY <2>1, <2>2, FS_Subset
<1>5. Cardinality(OfLine(shown, n, m)) \in Nat
  BY <1>4, FS_CardinalityType
<1>6. CASE row.line = n
  <2>1. OfLine(seen, n, m + 1) = OfLine(shown, n, m) \cup {m + 1}
    BY <1>3, <1>6
  <2>2. Cardinality(OfLine(seen, n, m + 1)) = Cardinality(OfLine(shown, n, m)) + 1
    BY <1>4, <2>1, FS_AddElement
  <2> QED
    BY <1>1, <1>2, <1>5, <1>6, <2>2 DEF seen, m
<1>7. CASE row.line # n
  <2>1. OfLine(seen, n, m + 1) = OfLine(shown, n, m)
    BY <1>3, <1>7
  <2> QED
    BY <1>1, <1>2, <1>5, <1>7, <2>1 DEF seen, m
<1> QED
  BY <1>6, <1>7

LEMMA BegunElsewhere ==
  ASSUME NEW Row, NEW shown \in Seq(Row), NEW row \in Row, NEW U, NEW n, row.line # n,
         NEW i, NEW made, Begun(U, n, i, made, shown)
  PROVE  Begun(U, n, i, made, Append(shown, row))
<1> DEFINE seen == Append(shown, row)
<1>1. /\ Len(seen) = Len(shown) + 1 /\ Len(shown) \in Nat
      /\ \A k \in 0..Len(shown) : OfLine(seen, n, k) = OfLine(shown, n, k)
      /\ Cardinality(OfLine(seen, n, Len(seen))) = Cardinality(OfLine(shown, n, Len(shown)))
  BY ShownMore, LenProperties
<1>2. /\ DOMAIN seen = 1..Len(shown) + 1 /\ DOMAIN shown = 1..Len(shown)
      /\ seen[Len(shown) + 1] = row /\ \A k \in 1..Len(shown) : seen[k] = shown[k]
  BY AppendProperties, LenProperties
<1> HIDE DEF seen
<1>3. \A k \in DOMAIN seen : seen[k].line = n =>
        k \in DOMAIN shown /\ seen[k] = shown[k] /\ OfLine(seen, n, k) = OfLine(shown, n, k)
  BY <1>1, <1>2
<1>4. \A e \in Given(U, n, i, made) :
        /\ e <= Len(made) /\ Cardinality(OfLine(seen, n, Len(seen))) = e
        /\ \A k \in DOMAIN seen :
             seen[k].line = n => seen[k].item = made[Cardinality(OfLine(seen, n, k))]
  BY <1>1, <1>3 DEF Begun
<1> QED
  BY <1>4 DEF Begun, seen

\* The stage writes the next of its items to the screen, or to its pipe.
LEMMA BegunMore ==
  ASSUME NEW Row, NEW shown \in Seq(Row), NEW row \in Row, NEW T, NEW U, NEW n, row.line = n,
         NEW i, NEW made, NEW e \in Nat, Begun(T, n, i, made, shown), e \in Given(T, n, i, made),
         Given(U, n, i, made) \subseteq {e + 1}, e + 1 <= Len(made), row.item = made[e + 1]
  PROVE  Begun(U, n, i, made, Append(shown, row))
<1> DEFINE seen == Append(shown, row)
<1>1. /\ Len(seen) = Len(shown) + 1 /\ Len(shown) \in Nat
      /\ \A k \in 0..Len(shown) : OfLine(seen, n, k) = OfLine(shown, n, k)
      /\ Cardinality(OfLine(seen, n, Len(seen))) = Cardinality(OfLine(shown, n, Len(shown))) + 1
  BY ShownMore, LenProperties
<1>2. /\ DOMAIN seen = 1..Len(shown) + 1 /\ DOMAIN shown = 1..Len(shown)
      /\ seen[Len(shown) + 1] = row /\ \A k \in 1..Len(shown) : seen[k] = shown[k]
  BY AppendProperties, LenProperties
<1> HIDE DEF seen
<1>3. /\ Cardinality(OfLine(shown, n, Len(shown))) = e
      /\ \A k \in DOMAIN shown :
           shown[k].line = n => shown[k].item = made[Cardinality(OfLine(shown, n, k))]
  BY DEF Begun
<1>4. ASSUME NEW k \in DOMAIN seen, seen[k].line = n
      PROVE  seen[k].item = made[Cardinality(OfLine(seen, n, k))]
  <2>1. CASE k = Len(shown) + 1
    BY <1>1, <1>2, <1>3, <2>1
  <2>2. CASE k # Len(shown) + 1
    <3>1. k \in 1..Len(shown) /\ k \in 0..Len(shown)
      BY <1>1, <1>2, <2>2
    <3>2. seen[k] = shown[k] /\ OfLine(seen, n, k) = OfLine(shown, n, k) /\ k \in DOMAIN shown
      BY <1>1, <1>2, <3>1
    <3> QED
      BY <1>3, <1>4, <3>2
  <2> QED
    BY <2>1, <2>2
<1>5. Cardinality(OfLine(seen, n, Len(seen))) = e + 1
  BY <1>1, <1>3
<1> QED
  BY <1>4, <1>5 DEF Begun, seen

\* The items between the first e made and the first of them that were eaten.
Stream(made, items, e, eaten) ==
  /\ eaten <= e /\ Len(items) = e - eaten
  /\ \A k \in 1..e - eaten : items[k] = made[eaten + k]

LEMMA StreamMore ==
  ASSUME NEW made, NEW items \in Seq(Item), NEW item \in Item, NEW e \in Nat, NEW eaten \in Nat,
         Stream(made, items, e, eaten), item = made[e + 1]
  PROVE  Stream(made, Append(items, item), e + 1, eaten)
<1> SUFFICES ASSUME eaten <= e, Len(items) = e - eaten,
                    \A k \in 1..e - eaten : items[k] = made[eaten + k]
             PROVE  LET more == Append(items, item)
                    IN  /\ eaten <= e + 1 /\ Len(more) = (e + 1) - eaten
                        /\ \A k \in 1..(e + 1) - eaten : more[k] = made[eaten + k]
  BY DEF Stream
<1> PICK m \in Nat : m = Len(items)
  BY LenProperties
<1> PICK more : more = Append(items, item)
  OBVIOUS
<1>1. /\ Len(more) = m + 1 /\ more[m + 1] = item
      /\ \A k \in 1..m : more[k] = items[k]
  BY ONLY items \in Seq(Item), item \in Item, m = Len(items), more = Append(items, item),
          AppendProperties
<1>2. e = eaten + m /\ (e + 1) - eaten = m + 1 /\ e - eaten = m
  OBVIOUS
<1>3. ASSUME NEW k \in 1..m + 1 PROVE more[k] = made[eaten + k]
  <2>1. CASE k = m + 1
    <3>1. eaten + k = e + 1
      BY <1>2, <2>1
    <3> QED
      BY <1>1, <2>1, <3>1
  <2>2. CASE k # m + 1
    <3>1. k \in 1..m
      BY <2>2
    <3> QED
      BY <1>1, <1>2, <3>1
  <2> QED
    BY <2>1, <2>2
<1>4. eaten <= e + 1
  OBVIOUS
<1> QED
  BY <1>1, <1>2, <1>3, <1>4

LEMMA StreamLess ==
  ASSUME NEW made, NEW items \in Seq(Item), items # <<>>, NEW e \in Nat, NEW eaten \in Nat,
         Stream(made, items, e, eaten)
  PROVE  Stream(made, Tail(items), e, eaten + 1) /\ Head(items) = made[eaten + 1]
<1> SUFFICES ASSUME eaten <= e, Len(items) = e - eaten,
                    \A k \in 1..e - eaten : items[k] = made[eaten + k]
             PROVE  LET less == Tail(items)
                    IN  /\ eaten + 1 <= e /\ Len(less) = e - (eaten + 1)
                        /\ Head(items) = made[eaten + 1]
                        /\ \A k \in 1..e - (eaten + 1) : less[k] = made[eaten + 1 + k]
  BY DEF Stream
<1> PICK m \in Nat : m = Len(items)
  BY LenProperties
<1> PICK less : less = Tail(items)
  OBVIOUS
<1>1. m # 0 /\ Len(less) = m - 1 /\ \A k \in 1..m - 1 : less[k] = items[k + 1]
  BY HeadTailProperties, LenProperties, EmptySeq
<1>2. e = eaten + m /\ e - (eaten + 1) = m - 1 /\ e - eaten = m /\ eaten + 1 <= e
  BY <1>1
<1>3. ASSUME NEW k \in 1..m - 1 PROVE less[k] = made[eaten + 1 + k]
  <2>1. k + 1 \in 1..m /\ eaten + (k + 1) = eaten + 1 + k
    BY <1>1
  <2>2. items[k + 1] = made[eaten + (k + 1)]
    BY <1>2, <2>1
  <2> QED
    BY <1>1, <2>1, <2>2
<1>4. Head(items) = made[eaten + 1]
  <2>1. Head(items) = items[1] /\ 1 \in 1..m
    BY <1>1, HeadTailProperties
  <2> QED
    BY <1>2, <2>1
<1> QED
  BY <1>1, <1>2, <1>3, <1>4

LEMMA FlowsMore ==
  ASSUME NEW T, NEW U, NEW n, NEW i, NEW made, NEW items \in Seq(Item), NEW item \in Item,
         NEW e \in Nat, e \in Given(T, n, i, made), Flows(T, n, i, made, items),
         Given(U, n, i, made) \subseteq {e + 1}, e + 1 <= Len(made), item = made[e + 1],
         Follows(T, U, n, i + 1), \A r \in Carriers(U, n, i + 1) : U[r].copied \in Nat
  PROVE  Flows(U, n, i, made, Append(items, item))
<1>1. ASSUME NEW r \in Carriers(U, n, i + 1)
      PROVE  LET eaten == U[r].copied
             IN  /\ eaten <= e + 1 /\ Len(Append(items, item)) = (e + 1) - eaten
                 /\ \A k \in 1..(e + 1) - eaten : Append(items, item)[k] = made[eaten + k]
  <2> PICK eaten \in Nat : eaten = U[r].copied
    OBVIOUS
  <2>1. PICK o \in Carriers(T, n, i + 1) : T[o].copied = eaten
    BY DEF Follows
  <2>2. Stream(made, items, e, eaten)
    BY <2>1 DEF Flows, Stream
  <2>3. /\ items \in Seq(Item) /\ item \in Item /\ e \in Nat /\ eaten \in Nat
        /\ item = made[e + 1]
    OBVIOUS
  <2>4. Stream(made, Append(items, item), e + 1, eaten)
    BY ONLY <2>2, <2>3, StreamMore
  <2> QED
    BY <2>4 DEF Stream
<1> QED
  BY <1>1 DEF Flows

\* The stage behind reads the next of them.
LEMMA FlowsLess ==
  ASSUME NEW T, NEW U, NEW n, NEW i, NEW made, NEW items \in Seq(Item), items # <<>>,
         Flows(T, n, i, made, items), \A e \in Given(T, n, i, made) : e \in Nat,
         Given(U, n, i, made) \subseteq Given(T, n, i, made), NEW o \in Carriers(T, n, i + 1),
         T[o].copied \in Nat, \A r \in Carriers(U, n, i + 1) : U[r].copied = T[o].copied + 1
  PROVE  /\ Flows(U, n, i, made, Tail(items))
         /\ \A e \in Given(T, n, i, made) : e <= Len(made) /\ T[o].copied + 1 <= e
         /\ Given(T, n, i, made) # {} => Head(items) = made[T[o].copied + 1]
<1> PICK eaten \in Nat : eaten = T[o].copied
  OBVIOUS
<1>1. ASSUME NEW e \in Given(T, n, i, made)
      PROVE  /\ e <= Len(made) /\ eaten + 1 <= e /\ Len(Tail(items)) = e - (eaten + 1)
             /\ \A k \in 1..e - (eaten + 1) : Tail(items)[k] = made[eaten + 1 + k]
             /\ Head(items) = made[eaten + 1]
  <2>1. e <= Len(made) /\ Stream(made, items, e, eaten)
    BY DEF Flows, Stream
  <2>2. items \in Seq(Item) /\ items # <<>> /\ e \in Nat /\ eaten \in Nat
    OBVIOUS
  <2>3. Stream(made, Tail(items), e, eaten + 1) /\ Head(items) = made[eaten + 1]
    BY ONLY <2>1, <2>2, StreamLess
  <2> QED
    BY ONLY <2>1, <2>3 DEF Stream
<1>2. ASSUME NEW r \in Carriers(U, n, i + 1), NEW e \in Given(U, n, i, made)
      PROVE  /\ U[r].copied <= e /\ e <= Len(made) /\ Len(Tail(items)) = e - U[r].copied
             /\ \A k \in 1..e - U[r].copied : Tail(items)[k] = made[U[r].copied + k]
  <2>1. U[r].copied = eaten + 1 /\ e \in Given(T, n, i, made)
    OBVIOUS
  <2> QED
    BY <1>1, <2>1
<1>3. Flows(U, n, i, made, Tail(items))
  BY <1>2 DEF Flows
<1> QED
  BY <1>1, <1>3

-----------------------------------------------------------------------------
(* A process that carries one stage and no other acts alone.               *)

Alters(T, U, x, n, i) ==
  /\ Turn(T, U, x, x) /\ Alone(T) /\ n \in Nat /\ i \in Nat
  /\ \A m, k : Carries(T[x], m, k) <=> m = n /\ k = i
  /\ \A m, k : Carries(U[x], m, k) => m = n /\ k = i

LEMMA AlterSteady ==
  ASSUME NEW T, NEW U, NEW x, NEW n, NEW i, Alters(T, U, x, n, i)
  PROVE  \A m, k : m # n \/ k # i => Steady(T, U, m, k)
<1> SUFFICES ASSUME NEW m, NEW k, m # n \/ k # i PROVE Steady(T, U, m, k)
  OBVIOUS
<1>1. ~Carries(T[x], m, k) /\ ~Carries(U[x], m, k)
  BY DEF Alters
<1>2. Turn(T, U, x, x)
  BY DEF Alters
<1> QED
  BY <1>1, <1>2, GivenElsewhere DEF Steady

LEMMA AlterGiven ==
  ASSUME NEW T, NEW U, NEW x, NEW n, NEW i, Alters(T, U, x, n, i)
  PROVE  /\ x \in Procs /\ Carriers(T, n, i) = {x}
         /\ \A made : Given(T, n, i, made) = {Count(T[x])}
         /\ Carries(U[x], n, i) =>
              /\ Carriers(U, n, i) = {x}
              /\ \A made : Given(U, n, i, made) = {Count(U[x])}
         /\ ~Carries(U[x], n, i) =>
              /\ Carriers(U, n, i) = {}
              /\ \A made : Given(U, n, i, made) = {Len(made)}
<1>1. /\ Turn(T, U, x, x) /\ Alone(T) /\ n \in Nat /\ i \in Nat /\ x \in Procs
      /\ Carries(T[x], n, i)
  BY DEF Alters, Turn
<1>2. Hands(T, U, x, x)
  BY DEF Alters, Hands
<1>3. Alone(U)
  BY <1>1, <1>2, AloneTurn
<1>4. Carriers(T, n, i) = {x} /\ \A made : Given(T, n, i, made) = {Count(T[x])}
  BY <1>1, GivenAlone
<1>5. ASSUME Carries(U[x], n, i)
      PROVE  Carriers(U, n, i) = {x} /\ \A made : Given(U, n, i, made) = {Count(U[x])}
  BY <1>1, <1>3, <1>5, GivenAlone
<1>6. ASSUME ~Carries(U[x], n, i)
      PROVE  Carriers(U, n, i) = {} /\ \A made : Given(U, n, i, made) = {Len(made)}
  <2>1. ASSUME NEW y \in Procs PROVE ~Carries(U[y], n, i)
    <3>1. CASE y = x
      BY <1>6, <3>1
    <3>2. CASE y # x
      <4>1. ~Carries(T[y], n, i)
        BY <1>1, <3>2 DEF Alone
      <4>2. Alike(U[y], T[y])
        BY <1>1, <3>2 DEF Turn
      <4> QED
        BY <4>1, <4>2, AlikeCarry
    <3> QED
      BY <3>1, <3>2
  <2>2. Carriers(U, n, i) = {}
    BY <2>1 DEF Carriers
  <2> QED
    BY <2>2, GivenEnded
<1> QED
  BY <1>1, <1>4, <1>5, <1>6

\* So only the streams of that stage have to be looked at: what it writes and what it reads.
\* What becomes of the pipes on both sides of its stage, and of the screen.
Altered(U, n, i, job, pipes, shown, after, seen) ==
  /\ \A k \in 1..Len(job) - 1 : k # i /\ k + 1 # i => after[<<n, k>>] = pipes[<<n, k>>]
  /\ IF i = Len(job) THEN Begun(U, n, i, Composition(job)[i], seen)
     ELSE /\ seen = shown
          /\ Reads(job, i + 1) => Flows(U, n, i, Composition(job)[i], after[<<n, i>>])
  /\ i # 1 /\ Reads(job, i) =>
       Flows(U, n, i - 1, Composition(job)[i - 1], after[<<n, i - 1>>])

LEMMA LineFlowsAt ==
  ASSUME NEW T, NEW n, NEW job, NEW pipes, NEW shown, LineFlows(T, n, job, pipes, shown),
         NEW k \in 1..Len(job) - 1, Reads(job, k + 1)
  PROVE  Flows(T, n, k, Composition(job)[k], pipes[<<n, k>>])
BY DEF LineFlows

LEMMA LineAlters ==
  ASSUME NEW T, NEW U, NEW x, NEW n, NEW i, Alters(T, U, x, n, i),
         NEW job \in Seq(Stage), i \in 1..Len(job),
         NEW pipes, NEW shown, NEW after, NEW seen, LineFlows(T, n, job, pipes, shown),
         Altered(U, n, i, job, pipes, shown, after, seen)
  PROVE  LineFlows(U, n, job, after, seen)
<1> SUFFICES ASSUME
           \A k \in 1..Len(job) - 1 : k # i /\ k + 1 # i => after[<<n, k>>] = pipes[<<n, k>>],
           IF i = Len(job) THEN Begun(U, n, i, Composition(job)[i], seen)
           ELSE /\ seen = shown
                /\ Reads(job, i + 1) => Flows(U, n, i, Composition(job)[i], after[<<n, i>>]),
           i # 1 /\ Reads(job, i) =>
             Flows(U, n, i - 1, Composition(job)[i - 1], after[<<n, i - 1>>])
    PROVE  LineFlows(U, n, job, after, seen)
  BY DEF Altered
<1>1. i \in Nat /\ Len(job) \in Nat
  BY LenProperties DEF Alters
<1> PICK m : m = Len(job)
  OBVIOUS
<1> PICK made : made = Composition(job)
  OBVIOUS
<1>2. \A k : k # i => Steady(T, U, n, k)
  BY AlterSteady
<1>3. Begun(U, n, m, made[m], seen)
  <2>1. CASE i = m
    BY <2>1
  <2>2. CASE i # m
    <3>1. seen = shown
      BY <2>2
    <3>2. Steady(T, U, n, m) /\ Begun(T, n, m, made[m], shown)
      BY <1>2, <2>2 DEF LineFlows
    <3> QED
      BY <3>1, <3>2 DEF Begun, Steady
  <2> QED
    BY <2>1, <2>2
<1>4. ASSUME NEW k \in 1..m - 1, Reads(job, k + 1)
      PROVE  Flows(U, n, k, made[k], after[<<n, k>>])
  <2>1. CASE k = i
    <3>1. i # m
      BY <1>1, <2>1
    <3> QED
      BY <1>4, <2>1, <3>1
  <2>2. CASE k + 1 = i
    <3>1. i # 1 /\ k = i - 1
      BY <1>1, <2>2
    <3> QED
      BY <1>4, <2>2, <3>1
  <2>3. CASE k # i /\ k + 1 # i
    <3>1. Steady(T, U, n, k) /\ Steady(T, U, n, k + 1)
      BY <1>2, <2>3
    <3>2. after[<<n, k>>] = pipes[<<n, k>>]
      BY <2>3
    <3>3. Flows(T, n, k, made[k], pipes[<<n, k>>])
      BY <1>4 DEF LineFlows
    <3>4. Follows(T, U, n, k + 1) /\ Given(U, n, k, made[k]) \subseteq Given(T, n, k, made[k])
      BY <3>1, SteadyFollows
    <3> QED
      BY <3>2, <3>3, <3>4, FlowsKeep
  <2> QED
    BY <2>1, <2>2, <2>3
<1> QED
  BY <1>3, <1>4 DEF LineFlows

-----------------------------------------------------------------------------
(* The process that is to execute a command, and the command it executes.  *)

Busy == {"exec", "refused", "program"}

Tasked(p, L, i, job) ==
  /\ proc[p] \in Process(Words(proc)) /\ proc[p].child = Nobody /\ proc[p].pc \notin Dead
  /\ L \in 1..Len(lines) /\ L \in Nat /\ i \in 1..Len(job) /\ i \in Nat
  /\ job \in Seq(Stage) /\ Len(job) \in Nat /\ job[i] \in Stage /\ job[i].program # "empty"
  /\ isValidateParsedPipeInput(job) /\ Valid(lines, L)
  /\ Wired(proc[p], job)
  /\ L \in Kept =>
       /\ Awaited(proc, p, job) /\ Advanced(proc[p], job)
       /\ LineFlows(proc, L, job, pipe, screen)
  /\ \A n, k : Carries(proc[p], n, k) <=> n = L /\ k = i

LEMMA AtWork ==
  ASSUME OutputInv, NEW p \in Procs, proc[p].pc \in Busy,
         NEW L, L = proc[p].line, NEW i, i = proc[p].stage, NEW job, job = lines[L]
  PROVE  Tasked(p, L, i, job)
<1>1. /\ proc[p] \in Process(Words(proc)) /\ proc[p].child = Nobody
      /\ proc[p].pc \notin Dead \cup {"wait", "prompt"}
      /\ L \in 1..Len(lines) /\ L \in Nat /\ i \in Nat
      /\ job \in Seq(Stage) /\ Len(job) \in Nat \ {0}
      /\ Wired(proc[p], job)
      /\ L \in Kept => Awaited(proc, p, job) /\ Advanced(proc[p], job)
  <2>1. proc[p].pc \notin Dead \cup {"wait", "prompt"}
    BY DEF Busy, Dead
  <2> QED
    BY <2>1, Knows
<1>2. i \in 1..Len(job) /\ isValidateParsedPipeInput(job)
  BY <1>1 DEF Wired, Busy, Working
<1>3. job[i] \in Stage /\ job[i].program # "empty"
  BY <1>1, <1>2, ElementOfSeq DEF isValidateParsedPipeInput
<1>4. Valid(lines, L)
  BY <1>1, <1>2 DEF Valid
<1>5. L \in Kept => LineFlows(proc, L, job, pipe, screen)
  BY <1>4 DEF OutputInv, Composing, Flowing
<1>6. \A n, k : Carries(proc[p], n, k) <=> n = L /\ k = i
  BY DEF Carries, Working, Busy
<1> QED
  BY <1>1, <1>2, <1>3, <1>4, <1>5, <1>6 DEF Tasked

\* As long as somebody is to read what the stage writes, its pipe is open to be read.
LEMMA ReaderOpen ==
  ASSUME OutputInv, NEW p \in Procs, proc[p].pc \in Busy,
         NEW L, L = proc[p].line, NEW i, i = proc[p].stage,
         Carriers(proc, L, i + 1) # {}
  PROVE  Open(ReadEnd(L, i))
<1> PICK job : job = lines[L]
  OBVIOUS
<1>1. /\ L \in Nat /\ i \in Nat /\ i # 0 /\ Len(job) \in Nat
      /\ \A n, k : Carries(proc[p], n, k) <=> n = L /\ k = i
  <2>1. Tasked(p, L, i, job)
    BY AtWork
  <2> QED
    BY <2>1 DEF Tasked
<1>2. PICK r \in Procs : Carries(proc[r], L, i + 1)
  BY DEF Carriers
<1>3. proc[r].pc \notin Dead /\ proc[r].line = L /\ proc[r].stage \in Nat /\ Wired(proc[r], job)
  <2>1. proc[r].pc \notin Dead /\ proc[r].line = L
    BY <1>2, DeadCarry DEF Carries
  <2>2. Wired(proc[r], job)
    BY <2>1 DEF OutputInv, Composing, Tidy
  <2> QED
    BY <2>1, <2>2, Going DEF OutputInv, Process
<1>4. ~Carries(proc[r], L, i)
  <2>1. r # p
    BY <1>1, <1>2
  <2> QED
    BY <1>1, <2>1 DEF OutputInv, Composing, Tidy, Alone
<1>5. proc[r].stage = i + 1 /\ proc[r].pc \in Working \cup {"piping"}
  <2>1. proc[r].pc # "line"
    BY <1>3, <1>4 DEF Carries
  <2>2. CASE proc[r].pc = "piping"
    <3>1. proc[r].stage <= i + 1 /\ ~(proc[r].stage <= i)
      BY <1>2, <1>3, <1>4, <2>2 DEF Carries, Working
    <3> QED
      BY <1>1, <1>3, <2>2, <3>1
  <2> QED
    BY <1>2, <2>1, <2>2 DEF Carries
<1>6. i + 1 # 1 /\ (i + 1) - 1 = i
  BY <1>1
<1>7. ReadEnd(L, i) \in Ends(r)
  <2>1. CASE proc[r].pc \in {"piping", "stage"}
    BY <1>3, <1>5, <1>6, <2>1 DEF Wired, Ends
  <2>2. CASE proc[r].pc \in Started
    BY <1>3, <1>5, <1>6, <2>2 DEF Wired, Ends
  <2> QED
    BY <1>5, <2>1, <2>2 DEF Working, Started
<1> QED
  BY <1>3, <1>7 DEF Open, Alive, Dead

\* As long as somebody is to write what it reads, its pipe is open to be written.
LEMMA WriterOpen ==
  ASSUME OutputInv, NEW p \in Procs, proc[p].pc \in Busy,
         NEW L, L = proc[p].line, NEW i, i = proc[p].stage, i # 1,
         Carriers(proc, L, i - 1) # {}
  PROVE  Open(WriteEnd(L, i - 1))
<1> PICK job : job = lines[L]
  OBVIOUS
<1>1. /\ L \in Nat /\ i \in Nat /\ i \in 1..Len(job) /\ Len(job) \in Nat
      /\ \A n, k : Carries(proc[p], n, k) <=> n = L /\ k = i
  <2>1. Tasked(p, L, i, job)
    BY AtWork
  <2> QED
    BY <2>1 DEF Tasked
<1>2. PICK r \in Procs : Carries(proc[r], L, i - 1)
  BY DEF Carriers
<1>3. proc[r].pc \notin Dead /\ proc[r].line = L /\ proc[r].stage \in Nat /\ Wired(proc[r], job)
  <2>1. proc[r].pc \notin Dead /\ proc[r].line = L
    BY <1>2, DeadCarry DEF Carries
  <2>2. Wired(proc[r], job)
    BY <2>1 DEF OutputInv, Composing, Tidy
  <2> QED
    BY <2>1, <2>2, Going DEF OutputInv, Process
<1>4. ~Carries(proc[r], L, i)
  <2>1. i - 1 # i
    BY <1>1
  <2>2. r # p
    BY <1>1, <1>2, <2>1
  <2> QED
    BY <1>1, <2>2 DEF OutputInv, Composing, Tidy, Alone
<1>5. proc[r].stage = i - 1 /\ proc[r].pc \in Working
  <2>1. proc[r].pc # "line"
    BY <1>3, <1>4 DEF Carries
  <2>2. ~(proc[r].pc = "piping" /\ proc[r].stage <= i)
    BY <1>3, <1>4 DEF Carries
  <2>3. proc[r].stage <= i - 1 => proc[r].stage <= i
    BY <1>1, <1>3
  <2> QED
    BY <1>2, <2>1, <2>2, <2>3 DEF Carries
<1>6. i - 1 # Len(job)
  BY <1>1
<1>7. WriteEnd(L, i - 1) \in Ends(r)
  <2>1. CASE proc[r].pc = "stage"
    BY <1>3, <1>5, <2>1 DEF Wired, Ends
  <2>2. CASE proc[r].pc \in Started
    BY <1>3, <1>5, <1>6, <2>2 DEF Wired, Ends
  <2> QED
    BY <1>5, <2>1, <2>2 DEF Working, Started
<1> QED
  BY <1>3, <1>7 DEF Open, Alive, Dead

Row == [line : Nat, item : Item]

\* What such a process does concerns its own line only.
Works(p, L, i, job) ==
  /\ Alters(proc, proc', p, L, i)
  /\ proc'[p].pc \notin Dead =>
       /\ proc'[p].line = L /\ proc'[p].stage = i /\ proc'[p].pc \in {"refused", "program", "wait"}
       /\ Wired(proc'[p], job) /\ (L \in Kept => Advanced(proc'[p], job))
  /\ proc'[p].pc = "program" => proc'[p].word \in Item \cup {""}
  /\ pipe' \in [Pipes -> Seq(Item)]
  /\ \A n, k : <<n, k>> \in Pipes /\ n # L => pipe'[<<n, k>>] = pipe[<<n, k>>]
  /\ screen' = screen \/ \E row \in Row : row.line = L /\ screen' = Append(screen, row)

LEMMA WorkerComposes ==
  ASSUME OutputInv, NEW p \in Procs, proc[p].pc \in Busy,
         NEW L, L = proc[p].line, NEW i, i = proc[p].stage, NEW job, job = lines[L],
         UNCHANGED <<lines, lost>>, Works(p, L, i, job),
         L \in Kept => LineFlows(proc', L, job, pipe', screen')
  PROVE  Composing'
<1> PICK T : T = proc
  OBVIOUS
<1> PICK U : U = proc'
  OBVIOUS
<1> PICK ls : ls = lines
  OBVIOUS
<1> PICK kept : kept = Kept
  OBVIOUS
<1>1. /\ Kept' = kept /\ lines' = ls /\ kept \in SUBSET Nat
      /\ Tidy(T, ls, kept) /\ Flowing(T, ls, kept, pipe, screen)
      /\ LinesFit(ls) /\ ItemsFit(T, pipe, screen) /\ NotBefore(ls, pipe, screen)
      /\ Sound(T, ls) /\ ls \in Seq(Seq(Stage) \ {<<>>})
  BY KeptTyped DEF OutputInv, Composing, ShellInv, Sound, Kept
<1>2. /\ T[p].child = Nobody /\ L \in 1..Len(ls) /\ L \in Nat /\ Valid(ls, L)
      /\ L \in kept => Awaited(T, p, job)
      /\ \A n, k : Carries(T[p], n, k) <=> n = L /\ k = i
  <2>1. Tasked(p, L, i, job)
    BY AtWork
  <2> QED
    BY <2>1 DEF Tasked
<1>3. Alters(T, U, p, L, i) /\ Turn(T, U, p, p)
  BY DEF Works, Alters
<1>4. Hands(T, U, p, p)
  BY <1>3 DEF Alters, Hands
<1>5. Orderly(U, ls, kept, p)
  <2> SUFFICES ASSUME U[p].pc \notin Dead PROVE Orderly(U, ls, kept, p)
    BY DEF Orderly
  <2>1. /\ U[p].line = L /\ U[p].stage = i /\ U[p].pc \in {"refused", "program", "wait"}
        /\ Wired(U[p], job) /\ (L \in kept => Advanced(U[p], job))
    BY DEF Works
  <2>2. T[p].pc \notin Dead
    BY <1>3 DEF Turn
  <2>3. /\ Held(T, p, L) => Held(U, p, L)
        /\ HeldBehind(T, p, L) => HeldBehind(U, p, L)
    BY <1>1, <1>2, <1>3, <2>2, HeldTurn
  <2>4. L \in kept => Awaited(U, p, job)
    <3>1. T[p].line = L /\ T[p].stage = i /\ T[p].pc \in {"exec", "refused", "program"}
      BY DEF Busy
    <3> QED
      BY <1>2, <2>1, <2>3, <3>1 DEF Awaited
  <2> QED
    BY <2>1, <2>4 DEF Orderly
<1>6. Tidy(U, ls, kept)
  <2>1. kept \in SUBSET kept
    OBVIOUS
  <2> QED
    BY <1>1, <1>2, <1>3, <1>4, <1>5, <2>1, TidyTurn
<1>7. /\ pipe' \in [Pipes -> Seq(Item)]
      /\ \A n, k : <<n, k>> \in Pipes /\ n # L => pipe'[<<n, k>>] = pipe[<<n, k>>]
      /\ screen' = screen \/ \E row \in Row : row.line = L /\ screen' = Append(screen, row)
      /\ U[p].pc = "program" => U[p].word \in Item \cup {""}
  BY DEF Works
<1>8. screen \in Seq(Row)
  BY <1>1 DEF ItemsFit, Row
<1>9. ASSUME NEW n \in kept, Valid(ls, n) PROVE LineFlows(U, n, ls[n], pipe', screen')
  <2>1. CASE n = L
    BY <1>9, <2>1
  <2>2. CASE n # L
    <3> PICK other : other = ls[n]
      OBVIOUS
    <3>1. n \in 1..Len(ls) /\ n \in Nat
      BY <1>1, <1>9 DEF Valid
    <3>2. other \in Seq(Stage) /\ Len(other) # 0 /\ Len(other) \in Nat
      <4>1. other \in Seq(Stage) \ {<<>>}
        BY <1>1, <3>1, ElementOfSeq
      <4> QED
        BY <4>1, LenProperties, EmptySeq
    <3>3. LineFlows(T, n, other, pipe, screen)
      BY <1>1, <1>9 DEF Flowing
    <3>4. \A k \in 1..Len(other) : Steady(T, U, n, k)
      BY <1>3, <2>2, AlterSteady
    <3>5. \A k \in 1..Len(other) - 1 : pipe'[<<n, k>>] = pipe[<<n, k>>]
      <4>1. \A k \in 1..Len(other) : <<n, k>> \in Pipes
        BY <1>1, <3>1 DEF LinesFit
      <4>2. \A k \in 1..Len(other) - 1 : k \in 1..Len(other)
        BY <3>2
      <4> QED
        BY <1>7, <2>2, <4>1, <4>2
    <3>6. \A k, made : Begun(U, n, k, made, screen) => Begun(U, n, k, made, screen')
      <4>1. CASE screen' = screen
        BY <4>1
      <4>2. ASSUME NEW row \in Row, row.line = L, screen' = Append(screen, row)
            PROVE  \A k, made : Begun(U, n, k, made, screen) => Begun(U, n, k, made, screen')
        BY <1>8, <2>2, <4>2, BegunElsewhere
      <4> QED
        BY <1>7, <4>1, <4>2
    <3> QED
      BY <3>2, <3>3, <3>4, <3>5, <3>6, OtherLine
  <2> QED
    BY <2>1, <2>2
<1>10. Flowing(U, ls, kept, pipe', screen')
  BY <1>9 DEF Flowing
<1>11. ItemsFit(U, pipe', screen')
  <2>1. ASSUME NEW y \in Procs, U[y].pc = "program" PROVE U[y].word \in Item \cup {""}
    <3>1. CASE y = p
      BY <1>7, <2>1, <3>1
    <3>2. CASE y # p
      <4>1. Alike(U[y], T[y])
        BY <1>3, <3>2 DEF Turn
      <4>2. T[y].pc = "program" /\ U[y].word = T[y].word
        BY <2>1, <4>1 DEF Alike, Dead
      <4> QED
        BY <1>1, <4>2 DEF ItemsFit
    <3> QED
      BY <3>1, <3>2
  <2>2. screen' \in Seq(Row)
    <3>1. \A row \in Row : Append(screen, row) \in Seq(Row)
      BY <1>8, AppendProperties
    <3> QED
      BY <1>7, <1>8, <3>1
  <2> QED
    BY <1>7, <2>1, <2>2 DEF ItemsFit, Row
<1>12. NotBefore(ls, pipe', screen')
  <2>1. ASSUME NEW n \in Nat, NEW k \in Nat, <<n, k>> \in Pipes, n > Len(ls)
        PROVE  pipe'[<<n, k>>] = <<>>
    <3>1. n # L
      BY <1>1, <1>2, <2>1, LenProperties
    <3> QED
      BY <1>1, <1>7, <2>1, <3>1 DEF NotBefore
  <2>2. ASSUME NEW k \in DOMAIN screen' PROVE Valid(ls, screen'[k].line)
    <3>1. CASE screen' = screen
      BY <1>1, <2>2, <3>1 DEF NotBefore
    <3>2. ASSUME NEW row \in Row, row.line = L, screen' = Append(screen, row)
          PROVE  Valid(ls, screen'[k].line)
      <4>1. (k \in DOMAIN screen /\ screen'[k] = screen[k]) \/ screen'[k] = row
        BY <1>8, <2>2, <3>2, AppendProperties, LenProperties
      <4> QED
        BY <1>1, <1>2, <3>2, <4>1 DEF NotBefore
    <3> QED
      BY <1>7, <3>1, <3>2
  <2> QED
    BY <2>1, <2>2 DEF NotBefore
<1> QED
  BY <1>1, <1>6, <1>10, <1>11, <1>12 DEF Composing

\* Who ends has written all there was to write, or nobody is to read it.
LEMMA EndedComposes ==
  ASSUME OutputInv, NEW p \in Procs, proc[p].pc \in Busy,
         NEW L, L = proc[p].line, NEW i, i = proc[p].stage, NEW job, job = lines[L],
         UNCHANGED <<pipe, screen, lines, lost>>, proc' = Exited(proc, p),
         L \in Kept => \/ Count(proc[p]) = Len(Composition(job)[i])
                       \/ i # Len(job) /\ Carriers(proc, L, i + 1) = {}
  PROVE  Composing'
<1> PICK T : T = proc
  OBVIOUS
<1> PICK U : U = proc'
  OBVIOUS
<1> PICK made : made = Composition(job)
  OBVIOUS
<1>1. Tasked(p, L, i, job)
  BY AtWork
<1>2. /\ L \in Nat /\ i \in Nat /\ i \in 1..Len(job) /\ Len(job) \in Nat /\ job \in Seq(Stage)
      /\ \A n, k : Carries(T[p], n, k) <=> n = L /\ k = i
      /\ T[p].pc \notin Dead /\ (L \in Kept => LineFlows(T, L, job, pipe, screen))
  BY <1>1 DEF Tasked
<1>3. U[p].pc \in Dead /\ Turn(T, U, p, p)
  BY <1>2, ExitedTurn DEF OutputInv, ShellInv, Sound
<1>4. \A n, k : ~Carries(U[p], n, k)
  BY <1>3, DeadCarry
<1>5. Alters(T, U, p, L, i)
  BY <1>2, <1>3, <1>4 DEF Alters, OutputInv, Composing, Tidy
<1>6. /\ \A items : Given(T, L, i, items) = {Count(T[p])}
      /\ Carriers(U, L, i) = {} /\ \A items : Given(U, L, i, items) = {Len(items)}
  BY <1>4, <1>5, AlterGiven
<1>7. Works(p, L, i, job)
  <2>1. pipe \in [Pipes -> Seq(Item)]
    BY DEF OutputInv, Composing, ItemsFit
  <2>2. Alters(proc, proc', p, L, i) /\ proc'[p].pc \in Dead
    BY <1>3, <1>5
  <2> QED
    BY <2>1, <2>2 DEF Works, Dead
<1>8. ASSUME L \in Kept PROVE LineFlows(U, L, job, pipe, screen)
  <2>1. Carriers(U, L, i + 1) = Carriers(T, L, i + 1) /\ Steady(T, U, L, i + 1)
    <3>1. i + 1 # i
      BY <1>2
    <3>2. Steady(T, U, L, i + 1)
      BY <1>5, <3>1, AlterSteady
    <3> QED
      BY <3>2 DEF Steady
  <2>2. CASE Count(T[p]) = Len(made[i])
    <3>1. Given(U, L, i, made[i]) = Given(T, L, i, made[i])
      BY <1>6, <2>2
    <3>2. i = Len(job) => Begun(U, L, i, made[i], screen)
      BY <1>2, <1>8, <3>1 DEF LineFlows, Begun
    <3>3. ASSUME i # Len(job), Reads(job, i + 1)
          PROVE  Flows(U, L, i, made[i], pipe[<<L, i>>])
      <4>1. i \in 1..Len(job) - 1
        BY <1>2, <3>3
      <4>2. Flows(T, L, i, made[i], pipe[<<L, i>>])
        BY <1>2, <1>8, <3>3, <4>1 DEF LineFlows
      <4>3. Follows(T, U, L, i + 1)
        BY <2>1, SteadyFollows
      <4> QED
        BY <3>1, <4>2, <4>3, FlowsKeep
    <3>4. i # 1 => Flows(U, L, i - 1, made[i - 1], pipe[<<L, i - 1>>])
      <4>1. (i - 1) + 1 = i
        BY <1>2
      <4> QED
        BY <1>6, <4>1 DEF Flows
    <3>8. Altered(U, L, i, job, pipe, screen, pipe, screen)
      BY <3>2, <3>3, <3>4 DEF Altered
    <3>9. LineFlows(T, L, job, pipe, screen) /\ job \in Seq(Stage) /\ i \in 1..Len(job)
      BY <1>2, <1>8
    <3> QED
      BY ONLY <1>5, <3>8, <3>9, LineAlters
  <2>3. CASE i # Len(job) /\ Carriers(T, L, i + 1) = {}
    <3>1. Flows(U, L, i, made[i], pipe[<<L, i>>])
      BY <2>1, <2>3 DEF Flows
    <3>2. i # 1 => Flows(U, L, i - 1, made[i - 1], pipe[<<L, i - 1>>])
      <4>1. (i - 1) + 1 = i
        BY <1>2
      <4> QED
        BY <1>6, <4>1 DEF Flows
    <3>8. Altered(U, L, i, job, pipe, screen, pipe, screen)
      BY <2>3, <3>1, <3>2 DEF Altered
    <3>9. LineFlows(T, L, job, pipe, screen) /\ job \in Seq(Stage) /\ i \in 1..Len(job)
      BY <1>2, <1>8
    <3> QED
      BY ONLY <1>5, <3>8, <3>9, LineAlters
  <2> QED
    BY <1>8, <2>2, <2>3
<1> QED
  BY <1>7, <1>8, WorkerComposes

\* What a process that has written goes on as: what it wrote was the next of its items,
\* and if it goes on to end, the last.
Continues(q, next, job) ==
  /\ next.line = q.line /\ next.stage = q.stage /\ next.pc \in {"refused", "program", "wait"}
  /\ Wired(next, job) /\ (next.pc = "program" => next.word = "")
  /\ next.pc # "wait" => next.copied = q.copied
Correct(q, next, item, job, made) ==
  /\ Advanced(next, job)
  /\ Count(q) + 1 <= Len(made) /\ item = made[Count(q) + 1]
  /\ (IF next.pc = "wait" THEN Len(made) ELSE Count(next)) = Count(q) + 1

\* The item goes to the screen from the last stage, from another into its pipe.
Delivers(L, i, job, item) ==
  IF i = Len(job)
  THEN screen' = Append(screen, [line |-> L, item |-> item]) /\ UNCHANGED pipe
  ELSE pipe' = [pipe EXCEPT ![<<L, i>>] = Append(@, item)] /\ UNCHANGED screen

LEMMA WrittenComposes ==
  ASSUME OutputInv, NEW p \in Procs, proc[p].pc \in Busy,
         NEW L, L = proc[p].line, NEW i, i = proc[p].stage, NEW job, job = lines[L],
         NEW made, made = Composition(job),
         UNCHANGED <<lines, lost>>, NEW item \in Item, NEW next,
         proc' = [proc EXCEPT ![p] = next],
         Continues(proc[p], next, job),
         L \in Kept => Correct(proc[p], next, item, job, made[i]),
         Delivers(L, i, job, item)
  PROVE  Composing'
<1> PICK T : T = proc
  OBVIOUS
<1> PICK U : U = proc'
  OBVIOUS
<1> PICK q : q = proc[p]
  OBVIOUS
<1>1. Tasked(p, L, i, job)
  BY AtWork
<1>2. /\ L \in Nat /\ i \in Nat /\ i \in 1..Len(job) /\ Len(job) \in Nat /\ job \in Seq(Stage)
      /\ \A n, k : Carries(T[p], n, k) <=> n = L /\ k = i
      /\ T[p].pc \notin Dead /\ (L \in Kept => LineFlows(T, L, job, pipe, screen))
      /\ q \in Process(Words(proc)) /\ L \in 1..Len(lines)
  BY <1>1 DEF Tasked
<1>3. /\ pipe \in [Pipes -> Seq(Item)] /\ screen \in Seq(Row) /\ <<L, i>> \in Pipes
  BY <1>2 DEF OutputInv, Composing, ItemsFit, LinesFit, Row
<1>4. U[p] = next /\ \A y \in Procs \ {p} : U[y] = T[y]
  BY DEF OutputInv, ShellInv, Sound, IsTable
<1>5. Turn(T, U, p, p)
  BY <1>2, <1>4 DEF Turn, Alike
<1>6. /\ next.line = L /\ next.stage = i /\ next.pc \in {"refused", "program", "wait"}
      /\ Wired(next, job) /\ (next.pc = "program" => next.word = "")
      /\ next.pc # "wait" => next.copied = q.copied
  BY DEF Continues
<1>7. \A n, k : Carries(next, n, k) <=> next.pc # "wait" /\ n = L /\ k = i
  BY <1>6 DEF Carries, Working
<1>8. Alters(T, U, p, L, i)
  BY <1>2, <1>4, <1>5, <1>7 DEF Alters, OutputInv, Composing, Tidy
<1>9. /\ \A items : Given(T, L, i, items) = {Count(q)}
      /\ Carriers(U, L, i) \subseteq {p}
      /\ \A items : Given(U, L, i, items) =
           {IF next.pc = "wait" THEN Len(items) ELSE Count(next)}
      /\ Carriers(T, L, i) = {p} /\ (next.pc = "wait" => Carriers(U, L, i) = {})
  <2>1. Carries(U[p], L, i) <=> next.pc # "wait"
    BY <1>4, <1>7
  <2>2. Carriers(T, L, i) = {p} /\ \A items : Given(T, L, i, items) = {Count(q)}
    BY <1>8, AlterGiven
  <2>3. CASE next.pc = "wait"
    <3>1. Carriers(U, L, i) = {} /\ \A items : Given(U, L, i, items) = {Len(items)}
      <4>1. ~Carries(U[p], L, i)
        BY <2>1, <2>3
      <4> QED
        BY ONLY <1>8, <4>1, AlterGiven
    <3> QED
      BY <2>2, <2>3, <3>1
  <2>4. CASE next.pc # "wait"
    <3>1. Carriers(U, L, i) = {p} /\ \A items : Given(U, L, i, items) = {Count(next)}
      <4>1. Carries(U[p], L, i)
        BY <2>1, <2>4
      <4>2. Carriers(U, L, i) = {p} /\ \A items : Given(U, L, i, items) = {Count(U[p])}
        BY ONLY <1>8, <4>1, AlterGiven
      <4> QED
        BY <1>4, <4>2
    <3> QED
      BY <2>2, <2>4, <3>1
  <2> QED
    BY <2>3, <2>4
<1>10. [line |-> L, item |-> item] \in Row
  BY <1>2 DEF Row
<1>11. Works(p, L, i, job)
  <2>1. pipe' \in [Pipes -> Seq(Item)]
    <3>1. Append(pipe[<<L, i>>], item) \in Seq(Item)
      BY <1>3, AppendProperties
    <3> QED
      BY <1>3, <3>1 DEF Delivers
  <2>2. \A n, k : <<n, k>> \in Pipes /\ n # L => pipe'[<<n, k>>] = pipe[<<n, k>>]
    BY <1>3 DEF Delivers
  <2>3. screen' = screen \/ \E row \in Row : row.line = L /\ screen' = Append(screen, row)
    BY <1>10 DEF Delivers
  <2>4. Alters(proc, proc', p, L, i) /\ proc'[p] = next
    BY <1>4, <1>8
  <2>5. L \in Kept => Advanced(next, job)
    BY DEF Correct
  <2> QED
    BY <1>6, <2>1, <2>2, <2>3, <2>4, <2>5 DEF Works
<1>12. Count(q) \in Nat /\ \A r \in Procs : T[r].pc \notin Dead => T[r].copied \in Nat
  <2>1. q.copied \in Nat /\ q.copied + 1 \in Nat
    BY <1>2 DEF Process
  <2>2. \A r \in Procs : T[r].copied \in Nat
    BY DEF OutputInv, ShellInv, Sound, IsTable, Process
  <2> QED
    BY <2>1, <2>2 DEF Count
<1>13. ASSUME L \in Kept PROVE LineFlows(U, L, job, pipe', screen')
  <2> PICK e \in Nat : e = Count(q)
    BY <1>12
  <2>1. /\ e + 1 <= Len(made[i]) /\ item = made[i][e + 1]
        /\ (IF next.pc = "wait" THEN Len(made[i]) ELSE Count(next)) = e + 1
    BY <1>13 DEF Correct
  <2>2. e \in Given(T, L, i, made[i]) /\ Given(U, L, i, made[i]) \subseteq {e + 1}
    BY <1>9, <2>1
  <2>3. i # 1 /\ Reads(job, i) => Flows(U, L, i - 1, made[i - 1], pipe'[<<L, i - 1>>])
    <3> SUFFICES ASSUME i # 1, Reads(job, i)
                 PROVE  Flows(U, L, i - 1, made[i - 1], pipe'[<<L, i - 1>>])
      OBVIOUS
    <3>1. i - 1 \in 1..Len(job) - 1 /\ i - 1 \in 1..Len(job) /\ (i - 1) + 1 = i /\ i - 1 # i
      <4>1. i \in Nat /\ Len(job) \in Nat /\ i \in 1..Len(job) /\ i # 1
        BY <1>2
      <4> QED
        BY ONLY <4>1
    <3>2. Flows(T, L, i - 1, made[i - 1], pipe[<<L, i - 1>>])
      BY <1>2, <1>13, <3>1 DEF LineFlows
    <3>3. pipe'[<<L, i - 1>>] = pipe[<<L, i - 1>>]
      <4>1. <<L, i - 1>> \in Pipes
        BY <1>2, <3>1 DEF OutputInv, Composing, LinesFit
      <4> QED
        BY <1>3, <3>1, <4>1 DEF Delivers
    <3>4. Given(U, L, i - 1, made[i - 1]) \subseteq Given(T, L, i - 1, made[i - 1])
      <4>1. Steady(T, U, L, i - 1)
        BY <1>8, <3>1, AlterSteady
      <4> QED
        BY <4>1 DEF Steady
    <3>5. Follows(T, U, L, i)
      <4>1. \A r \in Carriers(U, L, i) : r = p /\ next.pc # "wait"
        BY <1>9
      <4>2. next.pc # "wait" => U[p].copied = T[p].copied
        BY <1>4, <1>6
      <4> QED
        BY <1>9, <4>1, <4>2 DEF Follows
    <3> QED
      BY <3>1, <3>2, <3>3, <3>4, <3>5, FlowsKeep
  <2>4. CASE i = Len(job)
    <3> PICK row \in Row : row = [line |-> L, item |-> item]
      BY <1>10
    <3>1. Begun(T, L, i, made[i], screen)
      BY <1>2, <1>13, <2>4 DEF LineFlows
    <3>2. screen' = Append(screen, row) /\ row.line = L /\ row.item = made[i][e + 1]
      BY <2>1, <2>4 DEF Delivers
    <3>3. Begun(U, L, i, made[i], screen')
      BY <1>3, <2>1, <2>2, <3>1, <3>2, BegunMore
    <3> PICK after : after = pipe' /\ after = pipe
      BY <2>4 DEF Delivers
    <3> PICK seen : seen = screen'
      OBVIOUS
    <3>4. LineFlows(T, L, job, pipe, screen) /\ job \in Seq(Stage) /\ i \in 1..Len(job)
      BY <1>2, <1>13
    <3>5. i # 1 /\ Reads(job, i) =>
            Flows(U, L, i - 1, Composition(job)[i - 1], after[<<L, i - 1>>])
      BY <2>3
    <3>6. Begun(U, L, i, Composition(job)[i], seen)
      BY <3>3
    <3>7. LineFlows(U, L, job, after, seen)
      <4>1. \A k \in 1..Len(job) - 1 : k # i /\ k + 1 # i => after[<<L, k>>] = pipe[<<L, k>>]
        OBVIOUS
      <4>2. IF i = Len(job) THEN Begun(U, L, i, Composition(job)[i], seen)
            ELSE /\ seen = screen
                 /\ Reads(job, i + 1) => Flows(U, L, i, Composition(job)[i], after[<<L, i>>])
        BY <2>4, <3>6
      <4>3. Altered(U, L, i, job, pipe, screen, after, seen)
        BY ONLY <3>5, <4>1, <4>2 DEF Altered
      <4> QED
        BY ONLY <1>8, <3>4, <4>3, LineAlters
    <3> QED
      BY <3>7
  <2>5. CASE i # Len(job)
    <3>1. /\ pipe'[<<L, i>>] = Append(pipe[<<L, i>>], item) /\ screen' = screen
          /\ \A k : <<L, k>> \in Pipes /\ k # i => pipe'[<<L, k>>] = pipe[<<L, k>>]
      BY <1>3, <2>5 DEF Delivers
    <3>2. \A k \in 1..Len(job) - 1 : k # i => pipe'[<<L, k>>] = pipe[<<L, k>>]
      <4>1. \A k \in 1..Len(job) - 1 : k \in 1..Len(job)
        BY <1>2
      <4>2. \A k \in 1..Len(job) : <<L, k>> \in Pipes
        BY <1>2 DEF OutputInv, Composing, LinesFit
      <4> QED
        BY <3>1, <4>1, <4>2
    <3>3. ASSUME Reads(job, i + 1) PROVE Flows(U, L, i, made[i], pipe'[<<L, i>>])
      <4>1. i \in 1..Len(job) - 1 /\ i + 1 # i
        BY <1>2, <2>5
      <4>2. Flows(T, L, i, made[i], pipe[<<L, i>>])
        BY <1>2, <1>13, <3>3, <4>1 DEF LineFlows
      <4>3. Steady(T, U, L, i + 1)
        BY <1>8, <4>1, AlterSteady
      <4>4. Follows(T, U, L, i + 1)
        BY <4>3, SteadyFollows
      <4>5. \A r \in Carriers(U, L, i + 1) : U[r].copied \in Nat
        <5>1. Carriers(U, L, i + 1) = Carriers(T, L, i + 1)
              /\ \A r \in Carriers(U, L, i + 1) : U[r].copied = T[r].copied
          BY <4>3 DEF Steady
        <5>2. \A r \in Carriers(T, L, i + 1) : T[r].copied \in Nat
          BY <1>12, DeadCarry DEF Carriers
        <5> QED
          BY <5>1, <5>2
      <4>6. pipe[<<L, i>>] \in Seq(Item)
        BY <1>3
      <4>7. Flows(U, L, i, made[i], Append(pipe[<<L, i>>], item))
        BY <2>1, <2>2, <4>2, <4>4, <4>5, <4>6, FlowsMore
      <4> QED
        BY <3>1, <4>7
    <3> PICK after : after = pipe'
      OBVIOUS
    <3>4. LineFlows(T, L, job, pipe, screen) /\ job \in Seq(Stage) /\ i \in 1..Len(job)
      BY <1>2, <1>13
    <3>5. i # 1 /\ Reads(job, i) =>
            Flows(U, L, i - 1, Composition(job)[i - 1], after[<<L, i - 1>>])
      BY <2>3
    <3>6. Reads(job, i + 1) => Flows(U, L, i, Composition(job)[i], after[<<L, i>>])
      BY <3>3
    <3>7. \A k \in 1..Len(job) - 1 : k # i /\ k + 1 # i => after[<<L, k>>] = pipe[<<L, k>>]
      BY <3>2
    <3>8. LineFlows(U, L, job, after, screen)
      <4>1. IF i = Len(job) THEN Begun(U, L, i, Composition(job)[i], screen)
            ELSE /\ screen = screen
                 /\ Reads(job, i + 1) => Flows(U, L, i, Composition(job)[i], after[<<L, i>>])
        BY <2>5, <3>6
      <4>2. Altered(U, L, i, job, pipe, screen, after, screen)
        BY ONLY <3>5, <3>7, <4>1 DEF Altered
      <4> QED
        BY ONLY <1>8, <3>4, <4>2, LineAlters
    <3> QED
      BY <3>1, <3>8
  <2> QED
    BY <2>4, <2>5
<1> QED
  BY <1>11, <1>13, WorkerComposes

LEMMA WriteComposes ==
  ASSUME OutputInv, NEW p \in Procs, proc[p].pc \in Busy,
         NEW L, L = proc[p].line, NEW i, i = proc[p].stage, NEW job, job = lines[L],
         NEW made, made = Composition(job),
         UNCHANGED <<lines, lost>>, NEW item \in Item, NEW next, Write(p, item, next),
         Continues(proc[p], next, job),
         L \in Kept => Correct(proc[p], next, item, job, made[i])
  PROVE  Composing'
<1> PICK out : out = proc[p].out
  OBVIOUS
<1>1. Tasked(p, L, i, job)
  BY AtWork
<1>2. out = IF i = Len(job) THEN Tty ELSE WriteEnd(L, i)
  BY <1>1 DEF Tasked, Wired, Busy, Started
<1>3. out = Tty <=> i = Len(job)
  BY <1>2, EndsDiffer
<1>4. i # Len(job) => out[2] = L /\ out[3] = i
  BY <1>2, EndsDiffer
<1>5. \/ /\ out = Tty
         /\ screen' = Append(screen, [line |-> L, item |-> item])
         /\ proc' = [proc EXCEPT ![p] = next] /\ UNCHANGED pipe
      \/ /\ out # Tty
         /\ pipe' = [pipe EXCEPT ![<<out[2], out[3]>>] = Append(@, item)]
         /\ proc' = [proc EXCEPT ![p] = next] /\ UNCHANGED screen
      \/ /\ out # Tty /\ ~Open(ReadEnd(out[2], out[3]))
         /\ proc' = Exited(proc, p) /\ UNCHANGED <<pipe, screen>>
  BY DEF Write
<1>6. CASE /\ out = Tty
           /\ screen' = Append(screen, [line |-> L, item |-> item])
           /\ proc' = [proc EXCEPT ![p] = next] /\ UNCHANGED pipe
  <2>1. Delivers(L, i, job, item)
    BY <1>3, <1>6 DEF Delivers
  <2> QED
    BY <1>6, <2>1, WrittenComposes
<1>7. CASE /\ out # Tty
           /\ pipe' = [pipe EXCEPT ![<<out[2], out[3]>>] = Append(@, item)]
           /\ proc' = [proc EXCEPT ![p] = next] /\ UNCHANGED screen
  <2>1. Delivers(L, i, job, item)
    BY <1>3, <1>4, <1>7 DEF Delivers
  <2> QED
    BY <1>7, <2>1, WrittenComposes
<1>8. CASE /\ out # Tty /\ ~Open(ReadEnd(out[2], out[3]))
           /\ proc' = Exited(proc, p) /\ UNCHANGED <<pipe, screen>>
  <2>1. i # Len(job) /\ Carriers(proc, L, i + 1) = {}
    BY <1>3, <1>4, <1>8, ReaderOpen
  <2> QED
    BY <1>8, <2>1, EndedComposes
<1> QED
  BY <1>5, <1>6, <1>7, <1>8

\* The PATH, and behind it the rest.
Heads(made, rest) ==
  /\ rest \in Seq(Item) /\ Len(rest) \in Nat
  /\ Len(made) = Len(rest) + 1 /\ made[1] = "PATH"
  /\ \A k \in 1..Len(rest) : made[k + 1] = rest[k]

LEMMA OutputHeads ==
  ASSUME NEW input \in Seq(Item), NEW stage \in Stage, stage.program # "empty"
  PROVE  Heads(Output(input, stage), Behind(input, stage))
<1>1. Behind(input, stage) \in Seq(Item)
  BY OutputIs
<1> QED
  BY <1>1, OutputIs, LenProperties DEF Heads

LEMMA MadeIs ==
  ASSUME NEW job \in Seq(Stage), isValidateParsedPipeInput(job), NEW i \in 1..Len(job),
         NEW made, made = Composition(job)
  PROVE  made[i - 1] \in Seq(Item) /\ Heads(made[i], Behind(made[i - 1], job[i]))
<1>1. /\ \A k \in 0..Len(job) : made[k] \in Seq(Item)
      /\ \A k \in 1..Len(job) : made[k] = Output(made[k - 1], job[k])
  BY CompositionIs
<1>2. i - 1 \in 0..Len(job) /\ job[i] \in Stage /\ job[i].program # "empty"
  BY LenProperties, ElementOfSeq DEF isValidateParsedPipeInput
<1>3. made[i - 1] \in Seq(Item)
  BY <1>1, <1>2
<1>4. Heads(Output(made[i - 1], job[i]), Behind(made[i - 1], job[i]))
  BY <1>2, <1>3, OutputHeads
<1> QED
  BY <1>1, <1>3, <1>4

LEMMA ExecvpeComposes ==
  ASSUME OutputInv, NEW p \in Procs, execvpe(p)
  PROVE  Composing'
<1> PICK q : q = proc[p]
  OBVIOUS
<1> PICK L : L = q.line
  OBVIOUS
<1> PICK i : i = q.stage
  OBVIOUS
<1> PICK job : job = lines[L]
  OBVIOUS
<1> PICK made : made = Composition(job)
  OBVIOUS
<1> PICK pc \in {"refused", "program"} :
      pc = IF job[i].program = "missing" THEN "refused" ELSE "program"
  OBVIOUS
<1>1. q.pc = "exec" /\ q.pc \in Busy /\ UNCHANGED <<lines, lost>>
  BY DEF execvpe, Busy
<1>2. Tasked(p, L, i, job)
  BY <1>1, AtWork
<1>3. /\ q \in Process(Words(proc)) /\ i \in 1..Len(job) /\ job \in Seq(Stage)
      /\ isValidateParsedPipeInput(job) /\ Wired(q, job)
  BY <1>2 DEF Tasked
<1>4. q.copied = 0 /\ q.word = "" /\ Count(q) = 0
  BY <1>1, <1>3 DEF Wired, Count
<1> PICK next : next = [q EXCEPT !.pc = pc]
  OBVIOUS
<1>5. /\ next.pc = pc /\ next.line = q.line /\ next.stage = q.stage /\ next.in = q.in
      /\ next.out = q.out /\ next.copied = 0 /\ next.word = ""
  BY <1>3, <1>4 DEF Process
<1>6. Write(p, "PATH", next)
  <2>1. Command(p) = job[i]
    BY DEF Command
  <2>2. next = [proc[p] EXCEPT !.pc = IF Command(p).program = "missing" THEN "refused"
                                      ELSE "program"]
    BY <2>1
  <2>3. Write(p, "PATH", [proc[p] EXCEPT !.pc = IF Command(p).program = "missing" THEN "refused"
                                                ELSE "program"])
    BY ONLY execvpe(p) DEF execvpe
  <2> QED
    BY ONLY <2>2, <2>3
<1>7. Wired(next, job)
  <2>1. /\ i \in 1..Len(job) /\ isValidateParsedPipeInput(job) /\ q.line = L /\ q.stage = i
        /\ q.in = IF i = 1 THEN Tty ELSE ReadEnd(L, i - 1)
        /\ q.out = IF i = Len(job) THEN Tty ELSE WriteEnd(L, i)
    BY <1>1, <1>3 DEF Wired, Started
  <2>2. next.pc \in {"refused", "program"} /\ (next.pc = "refused" <=> job[i].program = "missing")
    BY <1>5
  <2> QED
    BY ONLY <1>5, <2>1, <2>2 DEF Wired, Working, Started
<1>8. Continues(q, next, job)
  BY <1>4, <1>5, <1>7 DEF Continues
<1>9. Correct(q, next, "PATH", job, made[i])
  <2>1. 1 <= Len(made[i]) /\ made[i][1] = "PATH"
    <3> PICK rest : rest = Behind(made[i - 1], job[i])
      OBVIOUS
    <3>1. Heads(made[i], rest)
      BY <1>3, MadeIs
    <3>2. Len(rest) \in Nat /\ Len(made[i]) = Len(rest) + 1 /\ made[i][1] = "PATH"
      BY <3>1 DEF Heads
    <3> QED
      BY ONLY <3>2
  <2>2. next.copied + 1 = 1
    <3>1. next.copied = 0
      BY <1>5
    <3> QED
      BY ONLY <3>1
  <2>3. Count(next) = 1
    BY ONLY <1>5, <2>2 DEF Count
  <2>4. Advanced(next, job)
    <3>1. next.stage = i
      BY <1>5
    <3> QED
      BY <1>5, <2>1, <2>2, <3>1 DEF Advanced
  <2>5. next.pc # "wait" /\ Count(q) + 1 = 1
    <3>1. 0 + 1 = 1
      OBVIOUS
    <3> QED
      BY <1>4, <1>5, <3>1
  <2> QED
    BY ONLY <2>1, <2>3, <2>4, <2>5 DEF Correct
<1>10. "PATH" \in Item
  BY ItemsAreTexts DEF Texts
<1> QED
  BY <1>1, <1>6, <1>8, <1>9, <1>10, WriteComposes

LEMMA NotExecutedComposes ==
  ASSUME OutputInv, NEW p \in Procs, not_executed(p)
  PROVE  Composing'
<1> PICK q : q = proc[p]
  OBVIOUS
<1> PICK L : L = q.line
  OBVIOUS
<1> PICK i : i = q.stage
  OBVIOUS
<1> PICK job : job = lines[L]
  OBVIOUS
<1> PICK made : made = Composition(job)
  OBVIOUS
<1> PICK text : text = IF job[i].background THEN "Unable to run in bg" ELSE "Command not found."
  OBVIOUS
<1> PICK next : next = refused(q, job[i].background)
  OBVIOUS
<1>1. /\ q.pc = "refused" /\ q.pc \in Busy /\ UNCHANGED <<lines, lost>>
      /\ Write(p, text, next)
  BY DEF not_executed, Busy, Command
<1>2. Tasked(p, L, i, job)
  BY <1>1, AtWork
<1>3. /\ q \in Process(Words(proc)) /\ i \in 1..Len(job) /\ job \in Seq(Stage)
      /\ isValidateParsedPipeInput(job) /\ Wired(q, job)
  BY <1>2 DEF Tasked
<1>4. q.copied = 0 /\ q.word = "" /\ Count(q) = 1 /\ job[i].program = "missing"
  BY <1>1, <1>3 DEF Wired, Count
<1>5. /\ next.pc = "wait" /\ next.line = q.line /\ next.stage = q.stage
      /\ next.copied = 0 /\ next.word = ""
  BY <1>3, <1>4 DEF Process, refused
<1>6. Continues(q, next, job)
  <2>1. Wired(next, job)
    BY <1>5 DEF Wired, Working, Started
  <2> QED
    BY <1>5, <2>1 DEF Continues
<1>7. text \in Item
  BY ItemsAreTexts DEF Texts
<1>8. Correct(q, next, text, job, made[i])
  <2> PICK rest : rest = Behind(made[i - 1], job[i])
    OBVIOUS
  <2>1. Heads(made[i], rest)
    BY <1>3, MadeIs
  <2>2. rest = <<text>>
    BY <1>4 DEF Behind
  <2>3. Len(rest) = 1 /\ rest[1] = text
    BY ONLY <2>2
  <2>4. Len(made[i]) = 2 /\ made[i][2] = text
    BY ONLY <2>1, <2>3 DEF Heads
  <2>5. Advanced(next, job)
    BY <1>5 DEF Advanced
  <2>6. next.pc = "wait" /\ Count(q) + 1 = 2
    <3>1. Count(q) = 1
      BY <1>4
    <3>2. Count(q) + 1 = 2
      BY ONLY <3>1
    <3> QED
      BY <1>5, <3>2
  <2> QED
    BY ONLY <2>4, <2>5, <2>6 DEF Correct
<1> QED
  BY <1>1, <1>6, <1>7, <1>8, WriteComposes

LEMMA ProgramWriteComposes ==
  ASSUME OutputInv, NEW p \in Procs, write(p)
  PROVE  Composing'
<1> PICK q : q = proc[p]
  OBVIOUS
<1> PICK L : L = q.line
  OBVIOUS
<1> PICK i : i = q.stage
  OBVIOUS
<1> PICK job : job = lines[L]
  OBVIOUS
<1> PICK made : made = Composition(job)
  OBVIOUS
<1> PICK next : next = [q EXCEPT !.word = ""]
  OBVIOUS
<1>1. /\ q.pc = "program" /\ q.word # "" /\ q.pc \in Busy /\ UNCHANGED <<lines, lost>>
      /\ Write(p, q.word, next)
  BY DEF write, Busy
<1>2. Tasked(p, L, i, job)
  BY <1>1, AtWork
<1>3. /\ q \in Process(Words(proc)) /\ Wired(q, job) /\ q.copied \in Nat
      /\ L \in Kept => Advanced(q, job)
  BY <1>2 DEF Tasked, Process
<1>4. /\ next.pc = "program" /\ next.line = q.line /\ next.stage = q.stage /\ next.in = q.in
      /\ next.out = q.out /\ next.copied = q.copied /\ next.word = ""
  BY <1>1, <1>3 DEF Process
<1>5. Continues(q, next, job)
  <2>1. Wired(next, job)
    <3>1. /\ i \in 1..Len(job) /\ isValidateParsedPipeInput(job) /\ q.line = L /\ q.stage = i
          /\ q.in = IF i = 1 THEN Tty ELSE ReadEnd(L, i - 1)
          /\ q.out = IF i = Len(job) THEN Tty ELSE WriteEnd(L, i)
          /\ job[i].program # "missing"
      BY <1>1, <1>3 DEF Wired, Working, Started
    <3> QED
      BY ONLY <1>4, <3>1 DEF Wired, Working, Started
  <2> QED
    BY <1>4, <2>1 DEF Continues
<1>6. q.word \in Item
  BY <1>1 DEF OutputInv, Composing, ItemsFit
<1>7. ASSUME L \in Kept PROVE Correct(q, next, q.word, job, made[i])
  <2>1. q.copied + 1 <= Len(made[i]) /\ q.word = made[i][q.copied + 1]
    BY <1>1, <1>3, <1>7 DEF Advanced
  <2>2. Count(q) = q.copied /\ Count(next) = q.copied + 1
    BY <1>1, <1>4 DEF Count
  <2>3. Advanced(next, job)
    BY <1>4, <2>1 DEF Advanced
  <2> QED
    BY <1>4, <2>1, <2>2, <2>3 DEF Correct
<1> QED
  BY <1>1, <1>5, <1>6, <1>7, WriteComposes

\* The next item a stage reads is the next of those that the stage before makes; and if
\* there is none and nobody to write one, it has read them all.
LEMMA FlowsNext ==
  ASSUME NEW T, NEW n, NEW i, NEW made \in Seq(Item), NEW items \in Seq(Item),
         Flows(T, n, i, made, items), \A y \in Procs : Count(T[y]) \in Nat,
         NEW o \in Carriers(T, n, i + 1), NEW eaten \in Nat, T[o].copied = eaten
  PROVE  /\ items # <<>> => eaten + 1 <= Len(made) /\ Head(items) = made[eaten + 1]
         /\ items = <<>> /\ Carriers(T, n, i) = {} => eaten = Len(made)
<1>1. \A e \in Given(T, n, i, made) :
        /\ eaten <= e /\ e <= Len(made) /\ Len(items) = e - eaten
        /\ \A k \in 1..e - eaten : items[k] = made[eaten + k]
  BY DEF Flows
<1>2. Len(made) \in Nat
  BY LenProperties
<1>3. PICK e \in Nat : e \in Given(T, n, i, made)
  <2>1. CASE Carriers(T, n, i) = {}
    BY <1>2, <2>1, GivenEnded
  <2>2. CASE Carriers(T, n, i) # {}
    <3>1. PICK y \in Carriers(T, n, i) : Count(T[y]) \in Nat
      BY <2>2 DEF Carriers
    <3>2. Count(T[y]) \in Given(T, n, i, made)
      BY DEF Given
    <3> QED
      BY <3>1, <3>2
  <2> QED
    BY <2>1, <2>2
<1>4. /\ eaten <= e /\ e <= Len(made) /\ Len(items) = e - eaten
      /\ \A k \in 1..e - eaten : items[k] = made[eaten + k]
  BY <1>1, <1>3
<1>5. ASSUME items # <<>> PROVE eaten + 1 <= Len(made) /\ Head(items) = made[eaten + 1]
  <2>1. eaten + 1 <= e /\ Head(items) = made[eaten + 1]
    <3>1. Stream(made, items, e, eaten)
      BY ONLY <1>4 DEF Stream
    <3>2. items \in Seq(Item) /\ e \in Nat /\ eaten \in Nat
      OBVIOUS
    <3>3. Stream(made, Tail(items), e, eaten + 1) /\ Head(items) = made[eaten + 1]
      BY ONLY <1>5, <3>1, <3>2, StreamLess
    <3> QED
      BY ONLY <3>3 DEF Stream
  <2> QED
    BY <1>2, <1>4, <2>1
<1>6. ASSUME items = <<>>, Carriers(T, n, i) = {} PROVE eaten = Len(made)
  <2>1. Len(made) \in Given(T, n, i, made)
    BY <1>6, GivenEnded
  <2>2. eaten <= Len(made) /\ Len(items) = Len(made) - eaten /\ Len(items) = 0
    BY <1>1, <1>6, <2>1
  <2> QED
    BY <1>2, <2>2
<1> QED
  BY <1>5, <1>6

\* The item comes from the pipe before the stage, or from nowhere that anybody writes to.
Takes(L, i, job) ==
  \/ UNCHANGED pipe /\ ~Reads(job, i)
  \/ /\ i # 1 /\ pipe[<<L, i - 1>>] # <<>>
     /\ pipe' = [pipe EXCEPT ![<<L, i - 1>>] = Tail(@)]

LEMMA CountIs ==
  ASSUME ShellInv
  PROVE  \A y \in Procs : Count(proc[y]) \in Nat
<1> SUFFICES ASSUME NEW y \in Procs PROVE Count(proc[y]) \in Nat
  OBVIOUS
<1> PICK copied \in Nat : copied = proc[y].copied
  BY DEF ShellInv, Sound, IsTable, Process
<1>1. copied + 1 \in Nat /\ 0 \in Nat /\ 1 \in Nat
  OBVIOUS
<1> QED
  BY <1>1 DEF Count

LEMMA TakenComposes ==
  ASSUME OutputInv, NEW p \in Procs, proc[p].pc = "program", proc[p].word = "",
         NEW L, L = proc[p].line, NEW i, i = proc[p].stage, NEW job, job = lines[L],
         UNCHANGED <<screen, lines, lost>>, NEW item \in Item, NEW next,
         next = [proc[p] EXCEPT !.word = item, !.copied = proc[p].copied + 1],
         proc' = [proc EXCEPT ![p] = next],
         L \in Kept => Advanced(next, job),
         Takes(L, i, job)
  PROVE  Composing'
<1> PICK T : T = proc
  OBVIOUS
<1> PICK U : U = proc'
  OBVIOUS
<1> PICK q : q = proc[p]
  OBVIOUS
<1> PICK made : made = Composition(job)
  OBVIOUS
<1> PICK after : after = pipe'
  OBVIOUS
<1>1. Tasked(p, L, i, job) /\ proc[p].pc \in Busy
  BY AtWork DEF Busy
<1>2. /\ L \in Nat /\ i \in Nat /\ i \in 1..Len(job) /\ Len(job) \in Nat /\ job \in Seq(Stage)
      /\ \A n, k : Carries(T[p], n, k) <=> n = L /\ k = i
      /\ T[p].pc \notin Dead /\ (L \in Kept => LineFlows(T, L, job, pipe, screen))
      /\ q \in Process(Words(proc)) /\ L \in 1..Len(lines) /\ Wired(q, job)
  BY <1>1 DEF Tasked
<1>3. /\ pipe \in [Pipes -> Seq(Item)] /\ screen \in Seq(Row)
      /\ \A k \in 1..Len(job) : <<L, k>> \in Pipes
  BY <1>2 DEF OutputInv, Composing, ItemsFit, LinesFit, Row
<1>4. U[p] = next /\ \A y \in Procs \ {p} : U[y] = T[y]
  BY DEF OutputInv, ShellInv, Sound, IsTable
<1>5. Turn(T, U, p, p)
  BY <1>2, <1>4 DEF Turn, Alike
<1>6. /\ next.pc = "program" /\ next.line = L /\ next.stage = i /\ next.in = q.in
      /\ next.out = q.out /\ next.word = item /\ next.copied = q.copied + 1
      /\ q.copied \in Nat /\ item # ""
  BY <1>2, ItemsAreTexts DEF Process
<1>7. Count(next) = q.copied + 1 /\ Count(q) = q.copied + 1
  BY <1>6 DEF Count
<1>8. \A n, k : Carries(next, n, k) <=> n = L /\ k = i
  BY <1>6 DEF Carries, Working
<1>9. Alters(T, U, p, L, i)
  <2>1. Alone(T)
    BY DEF OutputInv, Composing, Tidy
  <2>2. \A n, k : Carries(U[p], n, k) => n = L /\ k = i
    BY ONLY <1>4, <1>8
  <2> QED
    BY ONLY <1>2, <1>5, <2>1, <2>2 DEF Alters
<1>10. /\ Carriers(T, L, i) = {p} /\ \A items : Given(T, L, i, items) = {Count(q)}
       /\ Carriers(U, L, i) = {p} /\ \A items : Given(U, L, i, items) = {Count(q)}
  <2>1. Carries(U[p], L, i)
    BY ONLY <1>4, <1>8
  <2>2. /\ Carriers(T, L, i) = {p} /\ \A items : Given(T, L, i, items) = {Count(T[p])}
        /\ Carriers(U, L, i) = {p} /\ \A items : Given(U, L, i, items) = {Count(U[p])}
    BY ONLY <1>9, <2>1, AlterGiven
  <2> QED
    BY <1>4, <1>7, <2>2
<1>11. /\ i # 1 => /\ i - 1 \in 1..Len(job) - 1 /\ i - 1 \in 1..Len(job)
                   /\ (i - 1) + 1 = i /\ i - 1 # i
       /\ i # Len(job) => i \in 1..Len(job) - 1 /\ i + 1 # i /\ i # i - 1
       /\ \A k \in 1..Len(job) - 1 : k \in 1..Len(job) /\ (k + 1 # i => k # i - 1)
  <2>1. i \in Nat /\ Len(job) \in Nat /\ i \in 1..Len(job)
    BY <1>2
  <2> QED
    BY ONLY <2>1
<1>12. Works(p, L, i, job)
  <2>1. pipe' \in [Pipes -> Seq(Item)]
    <3>1. ASSUME i # 1, pipe[<<L, i - 1>>] # <<>> PROVE Tail(pipe[<<L, i - 1>>]) \in Seq(Item)
      <4>1. pipe[<<L, i - 1>>] \in Seq(Item)
        BY <1>3, <1>11, <3>1
      <4> QED
        BY <3>1, <4>1, HeadTailProperties
    <3> QED
      BY <1>3, <3>1 DEF Takes
  <2>2. \A n, k : <<n, k>> \in Pipes /\ n # L => pipe'[<<n, k>>] = pipe[<<n, k>>]
    BY <1>3 DEF Takes
  <2>3. Wired(next, job)
    <3>1. /\ i \in 1..Len(job) /\ isValidateParsedPipeInput(job)
          /\ q.in = IF i = 1 THEN Tty ELSE ReadEnd(L, i - 1)
          /\ q.out = IF i = Len(job) THEN Tty ELSE WriteEnd(L, i)
          /\ job[i].program # "missing"
      BY <1>2 DEF Wired, Working, Started
    <3> QED
      BY ONLY <1>6, <3>1 DEF Wired, Working, Started
  <2>4. Alters(proc, proc', p, L, i) /\ proc'[p] = next
    BY <1>4, <1>9
  <2> QED
    BY <1>6, <2>1, <2>2, <2>3, <2>4 DEF Works
<1>13. ASSUME L \in Kept PROVE LineFlows(U, L, job, after, screen)
  <2>1. LineFlows(T, L, job, pipe, screen) /\ job \in Seq(Stage) /\ i \in 1..Len(job)
    BY <1>2, <1>13
  <2>2. \A k \in 1..Len(job) - 1 : k + 1 # i => after[<<L, k>>] = pipe[<<L, k>>]
    BY <1>3, <1>11 DEF Takes
  <2>3. Given(U, L, i, made[i]) = Given(T, L, i, made[i])
    BY <1>10
  <2>4. i = Len(job) => Begun(U, L, i, made[i], screen)
    BY <2>1, <2>3 DEF LineFlows, Begun
  <2>5. ASSUME i # Len(job), Reads(job, i + 1)
        PROVE  Flows(U, L, i, made[i], after[<<L, i>>])
    <3>1. i \in 1..Len(job) - 1 /\ i + 1 # i
      BY ONLY <1>11, <2>5
    <3>2. Flows(T, L, i, Composition(job)[i], pipe[<<L, i>>])
      BY ONLY <2>1, <2>5, <3>1, LineFlowsAt
    <3>5. Steady(T, U, L, i + 1)
      BY ONLY <1>9, <3>1, AlterSteady
    <3>3. Follows(T, U, L, i + 1)
      BY <3>5, SteadyFollows
    <3>4. after[<<L, i>>] = pipe[<<L, i>>]
      BY <1>11, <2>2, <2>5
    <3> QED
      BY <2>3, <3>2, <3>3, <3>4, FlowsKeep
  <2>6. ASSUME i # 1, Reads(job, i)
        PROVE  Flows(U, L, i - 1, made[i - 1], after[<<L, i - 1>>])
    <3> PICK h : h = i - 1 /\ h + 1 = i
      BY <1>11, <2>6
    <3> PICK items \in Seq(Item) : items = pipe[<<L, h>>]
      BY <1>3, <1>11, <2>6
    <3>1. items # <<>> /\ after[<<L, h>>] = Tail(items)
      BY <1>3, <1>11, <2>6 DEF Takes
    <3>2. Flows(T, L, h, made[h], items)
      <4>1. h \in 1..Len(job) - 1 /\ Reads(job, h + 1)
        BY <1>11, <2>6
      <4>2. Flows(T, L, h, Composition(job)[h], pipe[<<L, h>>])
        BY ONLY <2>1, <4>1, LineFlowsAt
      <4> QED
        BY <4>2
    <3>3. Steady(T, U, L, h)
      <4>1. h # i
        BY <1>11, <2>6
      <4> QED
        BY ONLY <1>9, <4>1, AlterSteady
    <3>4. Given(U, L, h, made[h]) \subseteq Given(T, L, h, made[h])
      BY <3>3 DEF Steady
    <3>5. \A e \in Given(T, L, h, made[h]) : e \in Nat
      <4>1. \A y \in Procs : Count(T[y]) \in Nat
        <5>1. ShellInv
          BY DEF OutputInv
        <5> QED
          BY <5>1, CountIs
      <4>2. made[h] \in Seq(Item)
        <5>1. isValidateParsedPipeInput(job)
          BY <1>1 DEF Tasked
        <5> QED
          BY <2>1, <5>1, MadeIs
      <4>3. Len(made[h]) \in Nat
        BY <4>2, LenProperties
      <4> QED
        BY <4>1, <4>3 DEF Given, Carriers
    <3>6. p \in Carriers(T, L, h + 1) /\ T[p].copied \in Nat
      BY <1>6, <1>10
    <3>7. \A r \in Carriers(U, L, h + 1) : U[r].copied = T[p].copied + 1
      <4>1. Carriers(U, L, h + 1) = {p}
        BY <1>10
      <4>2. U[p].copied = T[p].copied + 1
        BY <1>4, <1>6
      <4> QED
        BY ONLY <4>1, <4>2
    <3>8. Flows(U, L, h, made[h], Tail(items))
      <4>1. items \in Seq(Item) /\ items # <<>>
        BY <3>1
      <4> QED
        BY ONLY <3>2, <3>4, <3>5, <3>6, <3>7, <4>1, FlowsLess
    <3> QED
      BY <3>1, <3>8
  <2>7. IF i = Len(job) THEN Begun(U, L, i, Composition(job)[i], screen)
        ELSE /\ screen = screen
             /\ Reads(job, i + 1) => Flows(U, L, i, Composition(job)[i], after[<<L, i>>])
    BY <2>4, <2>5
  <2>8. i # 1 /\ Reads(job, i) =>
          Flows(U, L, i - 1, Composition(job)[i - 1], after[<<L, i - 1>>])
    BY <2>6
  <2>9. \A k \in 1..Len(job) - 1 : k # i /\ k + 1 # i => after[<<L, k>>] = pipe[<<L, k>>]
    BY <2>2
  <2>10. Altered(U, L, i, job, pipe, screen, after, screen)
    BY ONLY <2>7, <2>8, <2>9 DEF Altered
  <2> QED
    BY ONLY <1>9, <2>1, <2>10, LineAlters
<1> QED
  BY <1>1, <1>12, <1>13, WorkerComposes

\* What a program knows when it is to read.
Reading(p, L, i, job, made, q, rest) ==
  /\ q = proc[p] /\ q.pc = "program" /\ q.word = "" /\ L = q.line /\ i = q.stage
  /\ job = lines[L] /\ made = Composition(job) /\ rest = Behind(made[i - 1], job[i])
  /\ Tasked(p, L, i, job) /\ q.copied \in Nat
  /\ made[i - 1] \in Seq(Item) /\ Heads(made[i], rest)
  /\ job[i].program \in {"cat", "filter", "head", "ls"}
  /\ L \in Kept => q.copied <= Len(rest)
  /\ Reads(job, i) =>
       /\ i # 1 /\ from_pipe(p) = <<L, i - 1>> /\ q.in = ReadEnd(L, i - 1)
       /\ pipe[<<L, i - 1>>] \in Seq(Item)

LEMMA ReadingIs ==
  ASSUME OutputInv, NEW p \in Procs, read(p)
  PROVE  \E L, i, job, made, q, rest : Reading(p, L, i, job, made, q, rest)
<1> PICK q : q = proc[p]
  OBVIOUS
<1> PICK L : L = q.line
  OBVIOUS
<1> PICK i : i = q.stage
  OBVIOUS
<1> PICK job : job = lines[L]
  OBVIOUS
<1> PICK made : made = Composition(job)
  OBVIOUS
<1> PICK rest : rest = Behind(made[i - 1], job[i])
  OBVIOUS
<1>1. q.pc = "program" /\ q.word = "" /\ q.pc \in Busy
  BY DEF read, Busy
<1>2. Tasked(p, L, i, job)
  BY <1>1, AtWork
<1>3. /\ q \in Process(Words(proc)) /\ Wired(q, job) /\ i \in 1..Len(job) /\ i \in Nat
      /\ Len(job) \in Nat /\ job \in Seq(Stage) /\ job[i] \in Stage /\ job[i].program # "empty"
      /\ isValidateParsedPipeInput(job) /\ L \in 1..Len(lines)
      /\ L \in Kept => Advanced(q, job)
  BY <1>2 DEF Tasked
<1>4. q.copied \in Nat
  BY <1>3 DEF Process
<1>5. made[i - 1] \in Seq(Item) /\ Heads(made[i], rest)
  BY <1>3, MadeIs
<1>6. job[i].program \in {"cat", "filter", "head", "ls"}
  <2>1. job[i].program # "missing"
    BY <1>1, <1>3 DEF Wired
  <2> QED
    BY <1>3, <2>1 DEF Stage
<1>7. ASSUME L \in Kept PROVE q.copied <= Len(rest)
  <2>1. q.copied + 1 <= Len(made[i])
    BY <1>1, <1>3, <1>7 DEF Advanced
  <2>2. Len(made[i]) = Len(rest) + 1 /\ Len(rest) \in Nat
    BY <1>5 DEF Heads
  <2> PICK k \in Nat : k = q.copied
    BY <1>4
  <2>3. k + 1 <= Len(rest) + 1
    BY <2>1, <2>2
  <2>4. k <= Len(rest)
    BY ONLY <2>2, <2>3, k \in Nat
  <2> QED
    BY <2>4
<1>8. ASSUME Reads(job, i)
      PROVE  /\ i # 1 /\ from_pipe(p) = <<L, i - 1>> /\ q.in = ReadEnd(L, i - 1)
             /\ pipe[<<L, i - 1>>] \in Seq(Item)
  <2>1. i # 1
    BY <1>3, <1>8 DEF OutputInv, Composing, LinesFit, Reads
  <2>2. i - 1 \in 1..Len(job)
    <3>1. i \in Nat /\ Len(job) \in Nat /\ i \in 1..Len(job)
      BY <1>3
    <3> QED
      BY ONLY <2>1, <3>1
  <2>3. q.in = ReadEnd(L, i - 1)
    BY <1>1, <1>3, <2>1 DEF Wired, Started
  <2>4. from_pipe(p) = <<L, i - 1>>
    BY <2>3, EndsDiffer DEF from_pipe
  <2>5. <<L, i - 1>> \in Pipes /\ pipe \in [Pipes -> Seq(Item)]
    BY <1>3, <2>2 DEF OutputInv, Composing, LinesFit, ItemsFit
  <2> QED
    BY <2>1, <2>3, <2>4, <2>5
<1>9. Reading(p, L, i, job, made, q, rest)
  BY <1>1, <1>2, <1>4, <1>5, <1>6, <1>7, <1>8 DEF Reading
<1> QED
  BY ONLY <1>9

\* The pipe it reads, if it is one of those that do: what is to come next, or that all came.
LEMMA PipeIs ==
  ASSUME OutputInv, NEW p \in Procs, NEW L, NEW i, NEW job, NEW made, NEW q, NEW rest,
         Reading(p, L, i, job, made, q, rest), Reads(job, i), L \in Kept,
         NEW items, items = pipe[<<L, i - 1>>]
  PROVE  /\ items # <<>> =>
              q.copied + 1 <= Len(made[i - 1]) /\ Head(items) = made[i - 1][q.copied + 1]
         /\ items = <<>> /\ ~Open(WriteEnd(L, i - 1)) => q.copied = Len(made[i - 1])
<1>1. /\ q = proc[p] /\ q.pc = "program" /\ L = q.line /\ i = q.stage /\ Tasked(p, L, i, job)
      /\ made = Composition(job) /\ made[i - 1] \in Seq(Item) /\ q.copied \in Nat /\ i # 1
      /\ items \in Seq(Item)
  BY DEF Reading
<1>2. /\ LineFlows(proc, L, job, pipe, screen) /\ i \in 1..Len(job) /\ i \in Nat
      /\ Len(job) \in Nat /\ Carries(q, L, i)
  BY <1>1 DEF Tasked
<1> PICK h : h = i - 1
  OBVIOUS
<1>3. h \in 1..Len(job) - 1 /\ h + 1 = i
  <2>1. i \in Nat /\ Len(job) \in Nat /\ i \in 1..Len(job) /\ i # 1
    BY <1>1, <1>2
  <2> QED
    BY ONLY <2>1, h = i - 1
<1>4. Flows(proc, L, h, made[h], items)
  BY <1>1, <1>2, <1>3 DEF LineFlows
<1>5. p \in Carriers(proc, L, h + 1)
  BY <1>1, <1>2, <1>3 DEF Carriers
<1>6. \A y \in Procs : Count(proc[y]) \in Nat
  BY CountIs DEF OutputInv
<1> PICK eaten \in Nat : eaten = q.copied
  BY <1>1
<1>7. proc[p].copied = eaten /\ made[h] \in Seq(Item)
  BY <1>1
<1>8. /\ items # <<>> => eaten + 1 <= Len(made[h]) /\ Head(items) = made[h][eaten + 1]
      /\ items = <<>> /\ Carriers(proc, L, h) = {} => eaten = Len(made[h])
  <2> PICK T : T = proc
    OBVIOUS
  <2>1. /\ Flows(T, L, h, made[h], items) /\ p \in Carriers(T, L, h + 1)
        /\ \A y \in Procs : Count(T[y]) \in Nat
        /\ T[p].copied = eaten /\ eaten \in Nat /\ made[h] \in Seq(Item) /\ items \in Seq(Item)
    BY <1>1, <1>4, <1>5, <1>6, <1>7
  <2>2. /\ items # <<>> => eaten + 1 <= Len(made[h]) /\ Head(items) = made[h][eaten + 1]
        /\ items = <<>> /\ Carriers(T, L, h) = {} => eaten = Len(made[h])
    BY ONLY <2>1, FlowsNext
  <2> QED
    BY <2>2
<1>9. ~Open(WriteEnd(L, h)) => Carriers(proc, L, h) = {}
  <2>1. proc[p].pc \in Busy /\ L = proc[p].line /\ i = proc[p].stage /\ i # 1
    BY <1>1 DEF Busy
  <2> QED
    BY <2>1, WriterOpen
<1> QED
  BY <1>8, <1>9

\* A program that finds no item has written all of what is put behind the PATH.
LEMMA LastRead ==
  ASSUME OutputInv, NEW p \in Procs, NEW L, NEW i, NEW job, NEW made, NEW q, NEW rest,
         Reading(p, L, i, job, made, q, rest), "" \in Next_item(p), L \in Kept
  PROVE  q.copied = Len(rest)
<1>1. /\ q = proc[p] /\ L = q.line /\ i = q.stage /\ job = lines[L] /\ q.copied \in Nat
      /\ made[i - 1] \in Seq(Item) /\ rest = Behind(made[i - 1], job[i])
      /\ rest \in Seq(Item) /\ Len(rest) \in Nat /\ q.copied <= Len(rest)
      /\ job[i].program \in {"cat", "filter", "head", "ls"}
  BY DEF Reading, Heads
<1> PICK k \in Nat : k = q.copied
  BY <1>1
<1>2. Command(p) = job[i]
  BY <1>1 DEF Command
<1>3. Makefile \in Seq(Item) /\ Len(Makefile) \in Nat /\ "" \notin Item
  BY ItemsAreTexts, LenProperties
<1>4. CASE job[i].program = "cat"
  <2> PICK m \in Nat : m = Len(Makefile)
    BY <1>3
  <2>1. rest = Makefile
    BY <1>1, <1>4 DEF Behind
  <2>2. ~(k < m)
    <3> SUFFICES ASSUME k < m PROVE FALSE
      OBVIOUS
    <3>1. "" = Makefile[k + 1]
      BY <1>1, <1>2, <1>4 DEF Next_item
    <3>2. k + 1 \in 1..m
      BY ONLY k < m, k \in Nat, m \in Nat
    <3>3. Makefile[k + 1] \in Item
      BY <1>3, <3>2, ElementOfSeq
    <3> QED
      BY <1>3, <3>1, <3>3
  <2>3. k <= m
    BY <1>1, <2>1
  <2>4. k = m
    BY ONLY <2>2, <2>3, k \in Nat, m \in Nat
  <2> QED
    BY <2>1, <2>4
<1>5. CASE job[i].program = "ls"
  <2>1. rest = <<>>
    BY <1>1, <1>5 DEF Behind
  <2>2. Len(rest) = 0
    BY <2>1
  <2>3. k <= 0
    BY <1>1, <2>2
  <2>4. k = 0
    BY ONLY <2>3, k \in Nat
  <2> QED
    BY <2>2, <2>4
<1>6. CASE job[i].program \in {"filter", "head"}
  <2> PICK input \in Seq(Item) : input = made[i - 1]
    BY <1>1
  <2> PICK items \in Seq(Item) : items = pipe[<<L, i - 1>>]
    BY <1>6 DEF Reading, Reads
  <2>1. Reads(job, i) /\ Len(input) \in Nat
    BY <1>6, LenProperties DEF Reads
  <2>2. from_pipe(p) = <<L, i - 1>> /\ q.in = ReadEnd(L, i - 1)
    BY <2>1 DEF Reading
  <2>3. job[i].program = "head" => Len(rest) = IF input = <<>> THEN 0 ELSE 1
    <3>1. ASSUME job[i].program = "head" PROVE rest = IF input = <<>> THEN <<>> ELSE <<Head(input)>>
      BY <1>1, <3>1 DEF Behind
    <3>2. \A x : Len(<<x>>) = 1
      OBVIOUS
    <3>3. Len(<<>>) = 0
      OBVIOUS
    <3> QED
      BY ONLY <3>1, <3>2, <3>3
  <2>4. CASE job[i].program = "head" /\ k = 1
    <3>1. 1 <= Len(rest)
      BY <1>1, <2>4
    <3>2. Len(rest) = 0 \/ Len(rest) = 1
      BY <2>3, <2>4
    <3>3. Len(rest) = 1
      BY ONLY <3>1, <3>2
    <3> QED
      BY <2>4, <3>3
  <2>5. CASE ~(job[i].program = "head" /\ k = 1)
    <3>1. "" \in IF items # <<>> THEN {Head(items)}
                 ELSE IF Open(WriteEnd(q.in[2], q.in[3])) THEN {} ELSE {""}
      <4>1. job[i].program # "cat" /\ ~(job[i].program = "ls" \/ (job[i].program = "head" /\ k = 1))
        BY <1>6, <2>5
      <4> QED
        BY <1>1, <1>2, <2>2, <4>1 DEF Next_item
    <3>2. items = <<>>
      <4>1. items # <<>> => Head(items) \in Item
        BY HeadTailProperties
      <4> QED
        BY <1>3, <3>1, <4>1
    <3>3. ~Open(WriteEnd(L, i - 1))
      <4>1. q.in[2] = L /\ q.in[3] = i - 1
        <5>1. ReadEnd(L, i - 1)[2] = L /\ ReadEnd(L, i - 1)[3] = i - 1
          BY ONLY DEF ReadEnd
        <5>2. q.in = ReadEnd(L, i - 1)
          BY <2>2
        <5> QED
          BY ONLY <5>1, <5>2
      <4> QED
        BY <3>1, <3>2, <4>1
    <3>4. k = Len(input)
      <4>1. q.copied = Len(made[i - 1])
        <5>1. items = pipe[<<L, i - 1>>] /\ L \in Kept /\ p \in Procs
          OBVIOUS
        <5> QED
          BY ONLY OutputInv, Reading(p, L, i, job, made, q, rest),
                  <2>1, <3>2, <3>3, <5>1, PipeIs
      <4> QED
        BY <4>1
    <3>5. CASE job[i].program = "filter"
      BY <1>1, <3>4, <3>5 DEF Behind
    <3>6. CASE job[i].program = "head"
      <4>1. k # 1 /\ k <= Len(rest)
        BY <1>1, <2>5, <3>6
      <4>2. Len(rest) = 0 \/ (Len(rest) = 1 /\ input # <<>>)
        BY <2>3, <3>6
      <4>3. input # <<>> => Len(input) # 0
        BY EmptySeq
      <4> PICK m : m = Len(rest)
        OBVIOUS
      <4>4. m = 0 \/ (m = 1 /\ k # 0)
        BY <3>4, <4>2, <4>3
      <4>5. k # 1 /\ k <= m
        BY <4>1
      <4>6. m = k
        BY ONLY <4>4, <4>5, k \in Nat
      <4> QED
        BY <4>6
    <3> QED
      BY <1>6, <3>5, <3>6
  <2> QED
    BY <2>4, <2>5
<1> QED
  BY <1>1, <1>4, <1>5, <1>6

\* An item it finds is the next of them.
LEMMA NextRead ==
  ASSUME OutputInv, NEW p \in Procs, NEW L, NEW i, NEW job, NEW made, NEW q, NEW rest,
         Reading(p, L, i, job, made, q, rest), NEW item \in Next_item(p), item # ""
  PROVE  /\ item \in Item
         /\ L \in Kept => q.copied + 1 <= Len(rest) /\ item = rest[q.copied + 1]
         /\ Reads(job, i) => pipe[<<L, i - 1>>] # <<>>
<1>1. /\ q = proc[p] /\ L = q.line /\ i = q.stage /\ job = lines[L] /\ q.copied \in Nat
      /\ made[i - 1] \in Seq(Item) /\ rest = Behind(made[i - 1], job[i])
      /\ rest \in Seq(Item) /\ Len(rest) \in Nat /\ (L \in Kept => q.copied <= Len(rest))
      /\ job[i].program \in {"cat", "filter", "head", "ls"}
  BY DEF Reading, Heads
<1> PICK k \in Nat : k = q.copied
  BY <1>1
<1>2. Command(p) = job[i]
  BY <1>1 DEF Command
<1>3. Makefile \in Seq(Item) /\ Len(Makefile) \in Nat
  BY ItemsAreTexts, LenProperties
<1>4. CASE job[i].program = "cat"
  <2>1. rest = Makefile
    BY <1>1, <1>4 DEF Behind
  <2>2. k < Len(Makefile) /\ item = Makefile[k + 1]
    BY <1>1, <1>2, <1>4 DEF Next_item
  <2>3. k + 1 \in 1..Len(Makefile) /\ k + 1 <= Len(Makefile)
    BY ONLY <1>3, <2>2, k \in Nat
  <2>4. item \in Item
    BY <1>3, <2>2, <2>3, ElementOfSeq
  <2>5. ~Reads(job, i)
    BY <1>4 DEF Reads
  <2> QED
    BY <2>1, <2>2, <2>3, <2>4, <2>5
<1>5. CASE job[i].program = "ls"
  BY <1>2, <1>5 DEF Next_item
<1>6. CASE job[i].program \in {"filter", "head"}
  <2> PICK input \in Seq(Item) : input = made[i - 1]
    BY <1>1
  <2> PICK items \in Seq(Item) : items = pipe[<<L, i - 1>>]
    BY <1>6 DEF Reading, Reads
  <2>1. Reads(job, i) /\ Len(input) \in Nat
    BY <1>6, LenProperties DEF Reads
  <2>2. from_pipe(p) = <<L, i - 1>>
    BY <2>1 DEF Reading
  <2>3. ~(job[i].program = "head" /\ k = 1) /\ items # <<>> /\ item = Head(items)
    BY <1>1, <1>2, <1>6, <2>2 DEF Next_item
  <2>4. item \in Item
    BY <2>3, HeadTailProperties
  <2>5. ASSUME L \in Kept PROVE k + 1 <= Len(rest) /\ item = rest[k + 1]
    <3>1. k + 1 <= Len(input) /\ item = input[k + 1]
      <4>1. q.copied + 1 <= Len(made[i - 1]) /\ Head(items) = made[i - 1][q.copied + 1]
        <5>1. items = pipe[<<L, i - 1>>] /\ L \in Kept /\ p \in Procs
          BY <2>5
        <5> QED
          BY ONLY OutputInv, Reading(p, L, i, job, made, q, rest), <2>1, <2>3, <5>1, PipeIs
      <4> QED
        BY <2>3, <4>1
    <3>2. CASE job[i].program = "filter"
      BY <1>1, <3>1, <3>2 DEF Behind
    <3>3. CASE job[i].program = "head"
      <4>1. rest = IF input = <<>> THEN <<>> ELSE <<Head(input)>>
        BY <1>1, <3>3 DEF Behind
      <4>2. Len(input) # 0
        <5> PICK m \in Nat : m = Len(input)
          BY <2>1
        <5>1. k + 1 <= m
          BY <3>1
        <5>2. m # 0
          BY ONLY <5>1, k \in Nat
        <5> QED
          BY <5>2
      <4>3. input # <<>> /\ Head(input) = input[1]
        <5>1. input # <<>>
          BY <4>2, EmptySeq
        <5>2. Head(input) = input[1]
          BY ONLY <5>1, input \in Seq(Item)
        <5> QED
          BY <5>1, <5>2
      <4>4. \A x : Len(<<x>>) = 1 /\ <<x>>[1] = x
        OBVIOUS
      <4>5. Len(rest) = 1 /\ rest[1] = input[1]
        BY ONLY <4>1, <4>3, <4>4
      <4>6. k <= 1 /\ k # 1
        BY <1>1, <2>3, <2>5, <3>3, <4>5
      <4>7. k = 0 /\ k + 1 = 1
        BY ONLY <4>6, k \in Nat
      <4> QED
        BY ONLY <3>1, <4>5, <4>7
    <3> QED
      BY <1>6, <3>2, <3>3
  <2> QED
    BY <2>3, <2>4, <2>5
<1> QED
  BY <1>1, <1>4, <1>5, <1>6

LEMMA ProgramReadComposes ==
  ASSUME OutputInv, NEW p \in Procs, read(p)
  PROVE  Composing'
<1> PICK L, i, job, made, q, rest : Reading(p, L, i, job, made, q, rest)
  BY ReadingIs
<1>1. /\ q = proc[p] /\ q.pc = "program" /\ q.word = "" /\ L = q.line /\ i = q.stage
      /\ job = lines[L] /\ made = Composition(job) /\ q.copied \in Nat
      /\ Heads(made[i], rest) /\ q.pc \in Busy /\ Tasked(p, L, i, job)
  BY DEF Reading, Busy
<1>2. /\ Len(rest) \in Nat /\ Len(made[i]) = Len(rest) + 1
      /\ \A k \in 1..Len(rest) : made[i][k + 1] = rest[k]
  BY <1>1 DEF Heads
<1> PICK k \in Nat : k = q.copied
  BY <1>1
<1> PICK m \in Nat : m = Len(rest)
  BY <1>2
<1>3. PICK item \in Next_item(p) :
        IF item = "" THEN proc' = Exited(proc, p) /\ UNCHANGED pipe
        ELSE /\ proc' = [proc EXCEPT ![p].word = item, ![p].copied = @ + 1]
             /\ IF Command(p).program = "cat" THEN UNCHANGED pipe
                ELSE pipe' = [pipe EXCEPT ![from_pipe(p)] = Tail(@)]
  BY DEF read
<1>4. UNCHANGED <<screen, lines, lost>>
  BY DEF read
<1>5. CASE item = ""
  <2>1. proc' = Exited(proc, p) /\ UNCHANGED <<pipe, screen, lines, lost>>
    BY <1>3, <1>4, <1>5
  <2>2. ASSUME L \in Kept PROVE Count(q) = Len(made[i])
    <3>1. q.copied = Len(rest)
      <4>1. "" \in Next_item(p) /\ L \in Kept /\ p \in Procs
        BY <1>5, <2>2
      <4> QED
        BY ONLY OutputInv, Reading(p, L, i, job, made, q, rest), <4>1, LastRead
    <3>2. Count(q) = q.copied + 1
      BY <1>1 DEF Count
    <3> QED
      BY <1>2, <3>1, <3>2
  <2>3. L \in Kept => Count(proc[p]) = Len(Composition(job)[i])
    BY <1>1, <2>2
  <2>4. proc[p].pc \in Busy /\ L = proc[p].line /\ i = proc[p].stage /\ job = lines[L]
    BY <1>1
  <2> QED
    BY <2>1, <2>3, <2>4, EndedComposes
<1>6. CASE item # ""
  <2>1. /\ item \in Item
        /\ L \in Kept => q.copied + 1 <= Len(rest) /\ item = rest[q.copied + 1]
        /\ Reads(job, i) => pipe[<<L, i - 1>>] # <<>>
    BY <1>6, NextRead
  <2> PICK next : next = [q EXCEPT !.word = item, !.copied = q.copied + 1]
    OBVIOUS
  <2>2. proc' = [proc EXCEPT ![p] = next]
    BY <1>1, <1>3, <1>6 DEF OutputInv, ShellInv, Sound, IsTable
  <2>3. /\ next.pc = "program" /\ next.stage = i /\ next.copied = k + 1 /\ next.word = item
    BY <1>1 DEF Tasked, Process
  <2>4. ASSUME L \in Kept PROVE Advanced(next, job)
    <3>1. k + 1 <= m /\ item = rest[k + 1]
      BY <2>1, <2>4
    <3>2. k + 1 \in 1..m /\ (k + 1) + 1 <= m + 1 /\ k + 1 # 0
      BY ONLY <3>1, k \in Nat, m \in Nat
    <3>3. made[i][(k + 1) + 1] = item /\ Len(made[i]) = m + 1
      BY <1>2, <3>1, <3>2
    <3> QED
      BY <1>1, <2>3, <3>2, <3>3 DEF Advanced
  <2>5. Takes(L, i, job)
    <3>1. Command(p) = job[i]
      BY <1>1 DEF Command
    <3>2. CASE job[i].program = "cat"
      <4>1. UNCHANGED pipe
        BY <1>3, <1>6, <3>1, <3>2
      <4> QED
        BY <3>2, <4>1 DEF Takes, Reads
    <3>3. CASE job[i].program # "cat"
      <4>1. job[i].program # "ls"
        BY <1>3, <1>6, <3>1 DEF Next_item
      <4>2. Reads(job, i)
        BY <3>3, <4>1 DEF Reading, Reads
      <4>3. i # 1 /\ from_pipe(p) = <<L, i - 1>>
        BY <4>2 DEF Reading
      <4>4. pipe' = [pipe EXCEPT ![from_pipe(p)] = Tail(@)]
        BY <1>3, <1>6, <3>1, <3>3
      <4> QED
        BY <2>1, <4>2, <4>3, <4>4 DEF Takes
    <3> QED
      BY <3>2, <3>3
  <2>6. /\ proc[p].pc = "program" /\ proc[p].word = "" /\ L = proc[p].line
        /\ i = proc[p].stage /\ job = lines[L]
        /\ next = [proc[p] EXCEPT !.word = item, !.copied = proc[p].copied + 1]
    BY <1>1
  <2> QED
    BY <1>4, <2>1, <2>2, <2>4, <2>5, <2>6, TakenComposes
<1> QED
  BY <1>5, <1>6

-----------------------------------------------------------------------------
(* A line is typed: its stages are with the shell, and nothing is in its   *)
(* pipes or on the screen.                                                 *)

\* The lines typed so far, and the next.
Longer(ls, more, job) ==
  /\ ls \in Seq(Seq(Stage) \ {<<>>}) /\ Len(ls) \in Nat /\ Len(more) = Len(ls) + 1
  /\ \A m \in 1..Len(ls) : more[m] = ls[m]
  /\ more[Len(ls) + 1] = job /\ job \in Seq(Stage) /\ Len(job) \in Nat \ {0}
  /\ \A i \in 1..Len(job) : <<Len(ls) + 1, i>> \in Pipes
  /\ job[1].program \notin {"filter", "head"}
  /\ Len(job) = 1 => job[1].program # "empty"

LEMMA TypedLine ==
  ASSUME OutputInv, NEW p \in Procs, ReadLine(p)
  PROVE  \E job : Longer(lines, lines', job)
<1> PICK n : n = Len(lines) + 1
  OBVIOUS
<1>1. PICK s \in Sessions : IsStrictPrefix(lines, s) /\ lines' = Append(lines, s[n])
  BY DEF ReadLine
<1>2. lines \in Seq(Seq(Stage) \ {<<>>}) /\ Len(lines) \in Nat
  BY LenProperties DEF OutputInv, ShellInv, Sound
<1>3. s \in Seq(Seq(Stage) \ {<<>>}) /\ Len(s) \in Nat
  BY ShellAssumption, LenProperties
<1>4. n \in 1..Len(s)
  <2>1. Len(lines) <= Len(s) /\ SubSeq(lines, 1, Len(lines)) = SubSeq(s, 1, Len(lines)) /\ lines # s
    BY <1>1 DEF IsStrictPrefix, IsPrefix
  <2>2. SubSeq(lines, 1, Len(lines)) = lines /\ SubSeq(s, 1, Len(s)) = s
    BY <1>2, <1>3, SubSeqFull
  <2>3. Len(lines) # Len(s)
    BY <2>1, <2>2
  <2> QED
    BY <1>2, <1>3, <2>1, <2>3
<1> PICK job \in Seq(Stage) \ {<<>>} : job = s[n]
  BY <1>3, <1>4, ElementOfSeq
<1>5. job \in Seq(Stage) /\ Len(job) \in Nat \ {0} /\ DOMAIN job = 1..Len(job)
  BY LenProperties, EmptySeq
<1>6. /\ Len(lines') = Len(lines) + 1 /\ lines'[n] = job
      /\ \A m \in 1..Len(lines) : lines'[m] = lines[m]
  BY <1>1, <1>2, AppendProperties
<1>7. n \in DOMAIN s
  BY <1>3, <1>4, LenProperties
<1>8. \A i \in 1..Len(job) : <<n, i>> \in Pipes
  BY <1>5, <1>7 DEF Pipes
<1>9. job[1].program \notin {"filter", "head"} /\ (Len(job) = 1 => job[1].program # "empty")
  BY <1>7, LinesAssumption
<1>10. Longer(lines, lines', job)
  BY <1>2, <1>5, <1>6, <1>8, <1>9 DEF Longer
<1> QED
  BY ONLY <1>10

\* The process of the shell that got the line; the others are what they were.
Got(T, U, p, n, job) ==
  /\ T[p].pc \notin Dead /\ T[p].pc # "wait" /\ T[p].child = Nobody
  /\ \A m, k : ~Carries(T[p], m, k)
  /\ U[p].pc = IF Len(job) = 1 THEN "binary" ELSE "line"
  /\ U[p].line = n /\ U[p].stage = 1 /\ U[p].in = Tty /\ U[p].out = Tty /\ U[p].ret = "prompt"
  /\ U[p].copied = 0 /\ U[p].word = ""
  /\ \A y \in Procs \ {p} : U[y] = T[y]

LEMMA TypedTo ==
  ASSUME OutputInv, NEW p \in Procs, ReadLine(p), NEW job, Longer(lines, lines', job)
  PROVE  Got(proc, proc', p, Len(lines) + 1, job)
<1> PICK n : n = Len(lines) + 1
  OBVIOUS
<1> PICK q : q = proc[p]
  OBVIOUS
<1> PICK pc \in {"binary", "line"} : pc = IF Len(job) = 1 THEN "binary" ELSE "line"
  OBVIOUS
<1> PICK r : r = [q EXCEPT !.line = n, !.stage = 1, !.pc = pc]
  OBVIOUS
<1>1. q.pc = "prompt" /\ q.pc \notin Dead
  BY DEF ReadLine, Dead
<1>2. /\ q \in Process(Words(proc)) /\ Plugged(q) /\ Informed(q, lines) /\ q.child = Nobody
      /\ Wired(q, lines[q.line])
  BY <1>1, Going DEF OutputInv, Composing, Tidy
<1>3. /\ q.ret = "prompt" /\ q.in = Tty /\ q.out = Tty /\ q.copied = 0 /\ q.word = ""
  BY <1>1, <1>2 DEF Informed, Plugged, Wired
<1>4. Last(lines') = job
  <2>1. Len(lines') = Len(lines) + 1 /\ lines'[Len(lines) + 1] = job
    BY DEF Longer
  <2> QED
    BY <2>1 DEF Last
<1>5. proc' = [proc EXCEPT ![p] = r]
  <2>1. proc' = [proc EXCEPT ![p].line = n, ![p].stage = 1,
                             ![p].pc = IF Len(Last(lines')) = 1 THEN "binary" ELSE "line"]
    BY DEF ReadLine
  <2>2. pc = IF Len(Last(lines')) = 1 THEN "binary" ELSE "line"
    BY <1>4
  <2>3. proc' = [proc EXCEPT ![p].line = n, ![p].stage = 1, ![p].pc = pc]
    BY <2>1, <2>2
  <2>4. proc \in [Procs -> Process(Words(proc))]
    BY DEF OutputInv, ShellInv, Sound, IsTable
  <2> QED
    BY <2>3, <2>4
<1>6. proc'[p] = r /\ \A y \in Procs \ {p} : proc'[y] = proc[y]
  BY <1>5 DEF OutputInv, ShellInv, Sound, IsTable
<1>7. /\ r.pc = pc /\ r.line = n /\ r.stage = 1 /\ r.in = q.in /\ r.out = q.out
      /\ r.ret = q.ret /\ r.copied = q.copied /\ r.word = q.word
  BY <1>2 DEF Process
<1>8. \A m, k : ~Carries(q, m, k)
  BY <1>1 DEF Carries, Working
<1> QED
  BY <1>1, <1>2, <1>3, <1>6, <1>7, <1>8 DEF Got

LEMMA GotTurn ==
  ASSUME NEW T, NEW U, NEW p \in Procs, NEW n, NEW job, Got(T, U, p, n, job)
  PROVE  /\ Turn(T, U, p, p) /\ U[p].pc \notin Dead
         /\ \A m, k : Carries(U[p], m, k) => m = n
<1>1. \A y \in Procs \ {p} : Alike(U[y], T[y])
  BY DEF Got, Alike
<1>2. U[p].pc \notin Dead
  BY DEF Got, Dead
<1>3. \A m, k : Carries(U[p], m, k) => m = n
  BY DEF Got, Carries
<1>4. T[p].pc \notin Dead
  BY DEF Got
<1> QED
  BY <1>1, <1>2, <1>3, <1>4 DEF Turn

LEMMA TypedTidy ==
  ASSUME NEW T, NEW U, NEW ls, NEW more, NEW kept, NEW p \in Procs, NEW n, n = Len(ls) + 1,
         NEW job, Longer(ls, more, job), Got(T, U, p, n, job), Sound(T, ls), Tidy(T, ls, kept)
  PROVE  Tidy(U, more, kept) /\ \A y \in Procs : \A k : ~Carries(T[y], n, k)
<1>1. /\ Turn(T, U, p, p) /\ U[p].pc \notin Dead
      /\ \A m, k : Carries(U[p], m, k) => m = n
  BY ONLY Got(T, U, p, n, job), p \in Procs, GotTurn
<1>2. \A y \in Procs : T[y].line \in 0..Len(ls) /\ (T[y].pc \notin Dead \cup {"prompt"} => T[y].line # 0)
  BY DEF Sound, Informed
<1>3. Len(ls) \in Nat /\ n \notin 0..Len(ls)
  BY DEF Longer
<1>4. \A y \in Procs : \A k : ~Carries(T[y], n, k)
  BY <1>2, <1>3 DEF Carries
<1>5. Alone(U)
  <2> SUFFICES ASSUME NEW x \in Procs, NEW y \in Procs, NEW m \in Nat, NEW k \in Nat,
                      Carries(U[x], m, k), Carries(U[y], m, k)
               PROVE  x = y
    BY DEF Alone
  <2>1. \A z \in Procs \ {p} : U[z] = T[z]
    BY DEF Got
  <2>2. CASE m = n
    BY <1>4, <2>1, <2>2
  <2>3. CASE m # n
    <3>1. x # p /\ y # p
      BY <1>1, <2>3
    <3>2. Carries(T[x], m, k) /\ Carries(T[y], m, k)
      BY <2>1, <3>1
    <3> QED
      BY <3>2 DEF Tidy, Alone
  <2> QED
    BY <2>2, <2>3
<1>6. ASSUME NEW y \in Procs \ {p}, U[y].pc \notin Dead
      PROVE  /\ Wired(U[y], more[U[y].line])
             /\ U[y].line \in kept =>
                  Awaited(U, y, more[U[y].line]) /\ Advanced(U[y], more[U[y].line])
  <2>1. U[y] = T[y]
    BY DEF Got
  <2>2. /\ Wired(T[y], ls[T[y].line])
        /\ T[y].line \in kept => Awaited(T, y, ls[T[y].line]) /\ Advanced(T[y], ls[T[y].line])
    BY <1>6, <2>1 DEF Tidy
  <2>3. CASE U[y].pc = "prompt"
    BY <2>1, <2>2, <2>3 DEF Wired, Awaited, Advanced, Working, Started
  <2>4. CASE U[y].pc # "prompt"
    <3>1. T[y].line \in 1..Len(ls)
      BY <1>2, <1>3, <1>6, <2>1, <2>4
    <3>2. more[T[y].line] = ls[T[y].line]
      BY <3>1 DEF Longer
    <3>3. T[p].child = Nobody /\ T[y].pc \notin Dead
      BY <1>6, <2>1 DEF Got
    <3>4. \A m : /\ Held(T, y, m) => Held(U, y, m)
                 /\ HeldBehind(T, y, m) => HeldBehind(U, y, m)
      BY <1>1, <3>3, HeldTurn
    <3>5. \A other : Awaited(T, y, other) => Awaited(U, y, other)
      BY <2>1, <3>4 DEF Awaited
    <3> QED
      BY <2>1, <2>2, <3>2, <3>5
  <2> QED
    BY <2>3, <2>4
<1>7. /\ Wired(U[p], more[U[p].line])
      /\ Awaited(U, p, more[U[p].line]) /\ Advanced(U[p], more[U[p].line])
  <2>1. U[p].line = n /\ more[n] = job
    BY DEF Got, Longer
  <2>2. Wired(U[p], job)
    <3>1. Len(job) = 1 => isValidateParsedPipeInput(job) /\ 1 \in 1..Len(job)
      <4>1. Len(job) = 1 => DOMAIN job = {1}
        BY LenProperties DEF Longer
      <4>2. Len(job) = 1 => job[1].program # "empty"
        BY DEF Longer
      <4> QED
        BY <4>1, <4>2 DEF isValidateParsedPipeInput
    <3> QED
      BY <3>1 DEF Got, Wired, Working, Started
  <2>3. Awaited(U, p, job) /\ Advanced(U[p], job)
    BY DEF Got, Awaited, Advanced
  <2> QED
    BY <2>1, <2>2, <2>3
<1> QED
  BY <1>4, <1>5, <1>6, <1>7 DEF Tidy

LEMMA TypedFlowing ==
  ASSUME NEW T, NEW U, NEW ls, NEW more, NEW kept \in SUBSET Nat, NEW p \in Procs,
         NEW n, n = Len(ls) + 1,
         NEW job, Longer(ls, more, job), Got(T, U, p, n, job), Tidy(U, more, kept),
         NEW pipes, NEW shown \in Seq(Row), Flowing(T, ls, kept, pipes, shown),
         NotBefore(ls, pipes, shown), LinesFit(ls)
  PROVE  Flowing(U, more, kept, pipes, shown)
<1> SUFFICES ASSUME NEW m \in kept, Valid(more, m) PROVE LineFlows(U, m, more[m], pipes, shown)
  BY DEF Flowing
<1>1. /\ Turn(T, U, p, p) /\ U[p].pc \notin Dead
      /\ \A j, k : Carries(U[p], j, k) => j = n
  BY ONLY Got(T, U, p, n, job), p \in Procs, GotTurn
<1>2. /\ Len(ls) \in Nat /\ Len(more) = n /\ n \in Nat /\ more[n] = job /\ job \in Seq(Stage)
      /\ Len(job) \in Nat /\ Len(job) # 0
  BY DEF Longer
<1>3. m \in 1..n
  BY <1>2 DEF Valid
<1>4. CASE m # n
  <2>1. m \in 1..Len(ls)
    BY <1>2, <1>3, <1>4
  <2>2. more[m] = ls[m] /\ Valid(ls, m)
    BY <2>1 DEF Longer, Valid
  <2> PICK other : other = ls[m]
    OBVIOUS
  <2>3. other \in Seq(Stage) /\ Len(other) # 0
    <3>1. other \in Seq(Stage) \ {<<>>}
      BY <2>1, ElementOfSeq DEF Longer
    <3> QED
      BY <3>1, EmptySeq
  <2>4. LineFlows(T, m, other, pipes, shown)
    BY <2>2 DEF Flowing
  <2>5. \A k \in 1..Len(other) : Steady(T, U, m, k)
    <3>1. \A k : ~Carries(T[p], m, k) /\ ~Carries(U[p], m, k)
      BY <1>1, <1>4 DEF Got
    <3> QED
      BY <1>1, <3>1, GivenElsewhere DEF Steady
  <2>6. \A k \in 1..Len(other) - 1 : pipes[<<m, k>>] = pipes[<<m, k>>]
    OBVIOUS
  <2>7. \A k, made : Begun(U, m, k, made, shown) => Begun(U, m, k, made, shown)
    OBVIOUS
  <2>8. LineFlows(U, m, other, pipes, shown)
    BY ONLY <2>3, <2>4, <2>5, <2>6, <2>7, OtherLine
  <2> QED
    BY <2>2, <2>8
<1>5. CASE m = n
  <2> PICK made : made = Composition(job)
    OBVIOUS
  <2>1. isValidateParsedPipeInput(job)
    BY <1>2, <1>5 DEF Valid
  <2>2. ASSUME NEW i \in 1..Len(job)
        PROVE  Carriers(U, n, i) = {p} /\ Given(U, n, i, made[i]) = {0} /\ 0 <= Len(made[i])
    <3>1. Carries(U[p], n, i)
      <4>1. CASE Len(job) = 1
        <5>1. i = 1
          BY <4>1
        <5> QED
          BY <4>1, <5>1 DEF Got, Carries, Working
      <4>2. CASE Len(job) # 1
        BY <4>2 DEF Got, Carries
      <4> QED
        BY <4>1, <4>2
    <3>2. i \in Nat /\ Alone(U)
      BY <1>2 DEF Tidy
    <3>3. Carriers(U, n, i) = {p} /\ Given(U, n, i, made[i]) = {Count(U[p])}
      BY ONLY <1>2, <3>1, <3>2, p \in Procs, GivenAlone
    <3>4. Count(U[p]) = 0
      BY DEF Got, Count
    <3>5. Len(made[i]) \in Nat
      <4>1. made[i] \in Seq(Item)
        <5>1. i \in 0..Len(job)
          BY <1>2
        <5> QED
          BY <1>2, <2>1, <5>1, CompositionIs
      <4> QED
        BY <4>1, LenProperties
    <3> QED
      BY <3>3, <3>4, <3>5
  <2>3. Begun(U, n, Len(job), made[Len(job)], shown)
    <3>1. Len(job) \in 1..Len(job)
      BY <1>2
    <3>2. \A k \in DOMAIN shown : shown[k].line # n
      BY <1>2 DEF NotBefore, Valid
    <3>3. OfLine(shown, n, Len(shown)) = {}
      <4>1. DOMAIN shown = 1..Len(shown)
        BY LenProperties
      <4> QED
        BY <3>2, <4>1 DEF OfLine
    <3>4. Cardinality(OfLine(shown, n, Len(shown))) = 0
      BY <3>3, FS_EmptySet
    <3>5. Given(U, n, Len(job), made[Len(job)]) = {0} /\ 0 <= Len(made[Len(job)])
      BY <2>2, <3>1
    <3> QED
      BY ONLY <3>2, <3>4, <3>5 DEF Begun
  <2>4. ASSUME NEW i \in 1..Len(job) - 1 PROVE Flows(U, n, i, made[i], pipes[<<n, i>>])
    <3>1. i \in 1..Len(job) /\ i + 1 \in 1..Len(job) /\ i \in Nat
      <4>1. Len(job) \in Nat /\ i \in 1..Len(job) - 1
        BY <1>2
      <4> QED
        BY ONLY <4>1
    <3>2. <<n, i>> \in Pipes
      BY <3>1 DEF Longer
    <3>3. pipes[<<n, i>>] = <<>>
      <4>1. n > Len(ls)
        BY <1>2
      <4> QED
        BY <1>2, <3>1, <3>2, <4>1 DEF NotBefore
    <3>4. Len(pipes[<<n, i>>]) = 0
      BY <3>3
    <3>5. Carriers(U, n, i + 1) = {p} /\ Given(U, n, i, made[i]) = {0} /\ 0 <= Len(made[i])
      BY <2>2, <3>1
    <3>6. U[p].copied = 0
      BY DEF Got
    <3>7. 0 - 0 = 0 /\ 1..0 = {} /\ 0 <= 0
      OBVIOUS
    <3> QED
      BY ONLY <3>4, <3>5, <3>6, <3>7 DEF Flows
  <2>5. LineFlows(U, n, job, pipes, shown)
    BY <2>3, <2>4 DEF LineFlows
  <2> QED
    BY <1>2, <1>5, <2>5
<1> QED
  BY <1>4, <1>5

LEMMA LongerFit ==
  ASSUME NEW ls, NEW more, NEW job, Longer(ls, more, job), NEW pipes, NEW shown,
         LinesFit(ls), NotBefore(ls, pipes, shown)
  PROVE  LinesFit(more) /\ NotBefore(more, pipes, shown)
<1> PICK n : n = Len(ls) + 1
  OBVIOUS
<1>1. Len(ls) \in Nat /\ Len(more) = n /\ n = Len(ls) + 1
  BY DEF Longer
<1>2. LinesFit(more)
  <2> SUFFICES ASSUME NEW m \in 1..Len(more)
               PROVE  /\ \A i \in 1..Len(more[m]) : <<m, i>> \in Pipes
                      /\ more[m][1].program \notin {"filter", "head"}
                      /\ Len(more[m]) = 1 => more[m][1].program # "empty"
    BY DEF LinesFit
  <2>1. CASE m \in 1..Len(ls)
    BY <2>1 DEF Longer, LinesFit
  <2>2. CASE m = n
    BY <2>2 DEF Longer
  <2> QED
    BY <1>1, <2>1, <2>2
<1>3. \A m : Valid(ls, m) => Valid(more, m)
  <2> SUFFICES ASSUME NEW m, Valid(ls, m) PROVE Valid(more, m)
    OBVIOUS
  <2>1. m \in 1..Len(ls) /\ isValidateParsedPipeInput(ls[m])
    BY DEF Valid
  <2>2. more[m] = ls[m]
    BY <2>1 DEF Longer
  <2>3. m \in 1..n
    BY ONLY <1>1, <2>1
  <2> QED
    BY <1>1, <2>1, <2>2, <2>3 DEF Valid
<1>4. \A m \in Nat : m > n => m > Len(ls)
  BY <1>1
<1>5. NotBefore(more, pipes, shown)
  BY <1>1, <1>3, <1>4 DEF NotBefore
<1> QED
  BY <1>2, <1>5

LEMMA ReadLineComposes ==
  ASSUME OutputInv, NEW p \in Procs, ReadLine(p)
  PROVE  Composing'
<1> PICK T, U : T = proc /\ U = proc'
  OBVIOUS
<1> PICK ls, more : ls = lines /\ more = lines'
  OBVIOUS
<1> PICK kept : kept = Kept
  OBVIOUS
<1> PICK n : n = Len(ls) + 1
  OBVIOUS
<1>1. UNCHANGED <<pipe, screen, lost>> /\ Kept' = kept /\ kept \in SUBSET Nat
  BY DEF ReadLine, Kept
<1>2. PICK job : Longer(ls, more, job)
  BY TypedLine
<1>3. Got(T, U, p, n, job)
  BY <1>2, TypedTo
<1>4. /\ Tidy(T, ls, kept) /\ Flowing(T, ls, kept, pipe, screen) /\ Sound(T, ls)
      /\ LinesFit(ls) /\ ItemsFit(T, pipe, screen) /\ NotBefore(ls, pipe, screen)
      /\ screen \in Seq(Row)
  BY DEF OutputInv, Composing, ShellInv, ItemsFit, Row
<1>5. Tidy(U, more, kept)
  BY ONLY n = Len(ls) + 1, p \in Procs, <1>2, <1>3, <1>4, TypedTidy
<1>6. Flowing(U, more, kept, pipe, screen)
  BY ONLY n = Len(ls) + 1, p \in Procs, <1>1, <1>2, <1>3, <1>4, <1>5, TypedFlowing
<1>7. LinesFit(more) /\ NotBefore(more, pipe, screen)
  BY ONLY <1>2, <1>4, LongerFit
<1>8. ItemsFit(U, pipe, screen)
  <2>1. \A y \in Procs : U[y].pc = "program" => U[y] = T[y]
    BY <1>3 DEF Got
  <2> QED
    BY <1>4, <2>1 DEF ItemsFit
<1> QED
  BY <1>1, <1>5, <1>6, <1>7, <1>8 DEF Composing

-----------------------------------------------------------------------------
LEMMA InitOutput == Init => OutputInv
<1> SUFFICES ASSUME Init PROVE OutputInv
  OBVIOUS
<1>1. ShellInv
  BY InitInv
<1>2. \A p \in Procs : /\ proc[p].pc \in {"free", "prompt"}
                       /\ proc[p].copied = 0 /\ proc[p].word = ""
  BY DEF Init, Free
<1>3. lines = <<>> /\ Len(lines) = 0 /\ 1..Len(lines) = {}
  BY DEF Init
<1>4. Tidy(proc, lines, Kept)
  <2>1. \A p \in Procs : \A n, i : ~Carries(proc[p], n, i)
    BY <1>2 DEF Carries, Working
  <2>2. Alone(proc)
    BY <2>1 DEF Alone
  <2>3. \A p \in Procs : \A job : Wired(proc[p], job)
    BY <1>2 DEF Wired, Working, Started
  <2>4. \A p \in Procs : \A job : Awaited(proc, p, job) /\ Advanced(proc[p], job)
    BY <1>2 DEF Awaited, Advanced
  <2> QED
    BY <2>2, <2>3, <2>4 DEF Tidy
<1>5. Flowing(proc, lines, Kept, pipe, screen) /\ LinesFit(lines)
  BY <1>3 DEF Flowing, LinesFit, Valid
<1>6. pipe = [i \in Pipes |-> <<>>] /\ screen = <<>> /\ DOMAIN screen = {}
  BY DEF Init
<1>7. ItemsFit(proc, pipe, screen)
  <2>1. pipe \in [Pipes -> Seq(Item)]
    <3>1. <<>> \in Seq(Item)
      BY EmptySeq
    <3> QED
      BY <1>6, <3>1
  <2>2. screen \in Seq([line : Nat, item : Item])
    BY <1>6, EmptySeq
  <2>3. \A p \in Procs : proc[p].word \in Item \cup {""}
    BY <1>2
  <2> QED
    BY <2>1, <2>2, <2>3 DEF ItemsFit
<1>8. NotBefore(lines, pipe, screen)
  BY <1>6 DEF NotBefore
<1> QED
  BY <1>1, <1>4, <1>5, <1>7, <1>8 DEF OutputInv, Composing

LEMMA OutputStep == OutputInv /\ [Next]_shellVars => OutputInv'
<1> SUFFICES ASSUME OutputInv, [Next]_shellVars PROVE OutputInv'
  OBVIOUS
<1>1. ShellInv'
  BY ShellStep DEF OutputInv
<1>2. CASE UNCHANGED shellVars
  BY <1>2 DEF shellVars, OutputInv, ShellInv, Composing, Kept
<1>3. ASSUME NEW p \in Procs, Step(p) \/ ReadLine(p) \/ Exit(p) PROVE Composing'
  BY <1>3, PipelineComposes, RunPipingComposes, RunStageComposes, ExecuteBinaryComposes,
     ExecvpeComposes, NotExecutedComposes, WaitComposes, ProgramReadComposes,
     ProgramWriteComposes, ReadLineComposes, ExitComposes DEF Step
<1> QED
  BY <1>1, <1>2, <1>3 DEF Next, OutputInv

\* The stages of every line that no fork failed in keep composing.
THEOREM OutputInvariance == Spec => []OutputInv
BY InitOutput, OutputStep, PTL DEF Spec

-----------------------------------------------------------------------------
(* When a line is over nobody carries its last stage.                      *)

LEMMA OverIsNotHeld ==
  ASSUME OutputInv, NEW n, Over(n), NEW p \in Procs
  PROVE  ~Held(proc, p, n) /\ ~HeldBehind(proc, p, n)
<1>1. ASSUME NEW y \in Procs, Held(proc, y, n) PROVE FALSE
  <2>1. PICK s \in Procs : proc[s].child = y /\ proc[s].line = n /\ proc[s].ret = "prompt"
    BY <1>1 DEF Held
  <2>2. y # Nobody
    BY ShellAssumption DEF Nobody
  <2>3. proc[s].pc = "wait"
    BY <2>1, <2>2 DEF OutputInv, ShellInv, Sound, Related, Kin
  <2> QED
    BY <2>1, <2>3 DEF Over, Shells
<1> QED
  BY <1>1 DEF HeldBehind

LEMMA OverHasEnded ==
  ASSUME OutputInv, NEW n \in Kept, n \in 1..Len(lines), Over(n)
  PROVE  Carriers(proc, n, Len(lines[n])) = {}
<1> PICK job : job = lines[n]
  OBVIOUS
<1> PICK L : L = Len(job)
  OBVIOUS
<1> SUFFICES ASSUME NEW p \in Procs, Carries(proc[p], n, L) PROVE FALSE
  BY DEF Carriers
<1> PICK q : q = proc[p]
  OBVIOUS
<1>1. q.line = n /\ q.pc \in {"line", "piping", "stage", "binary", "exec", "refused", "program"}
  BY DEF Carries, Working
<1>2. q.pc \notin Dead \cup {"wait", "prompt"} /\ Alive(p)
  BY <1>1 DEF Dead, Alive
<1>3. /\ Informed(q, lines) /\ q \in Process(Words(proc)) /\ Wired(q, job) /\ Awaited(proc, p, job)
  BY <1>1, <1>2, Knows
<1>4. ~Held(proc, p, n) /\ ~HeldBehind(proc, p, n)
  BY OverIsNotHeld
<1>5. ~job[L].background
  BY <1>1, <1>2 DEF Over, Last
<1>6. q.ret = "prompt" => q.pc \notin {"line", "binary"}
  BY <1>1 DEF Over, Shells
<1>7. q.ret \in {"prompt", "exit"}
  BY <1>3 DEF Process
<1>8. CASE q.pc = "line"
  BY <1>3, <1>6, <1>8 DEF Informed
<1>9. CASE q.pc = "piping"
  BY <1>1, <1>3, <1>4, <1>9 DEF Awaited
<1>10. CASE q.pc \in Working
  <2>1. q.stage = L
    BY <1>10 DEF Carries, Working
  <2>2. q.pc # "stage"
    BY <2>1, <1>3 DEF Wired
  <2>3. q.pc # "binary"
    BY <1>1, <1>3, <1>4, <1>6, <1>7, <2>1 DEF Awaited
  <2> QED
    BY <1>1, <1>3, <1>4, <1>5, <1>10, <2>1, <2>2, <2>3 DEF Awaited, Working
<1> QED
  BY <1>1, <1>8, <1>9, <1>10 DEF Working

LEMMA InvOutputIsComposed == OutputInv => OutputIsComposed
<1> SUFFICES ASSUME OutputInv, NEW n \in DOMAIN lines, Over(n), n \notin lost
             PROVE  Shows(screen, n, Composed(lines[n]))
  BY DEF OutputIsComposed
<1> PICK job : job = lines[n]
  OBVIOUS
<1>1. lines \in Seq(Seq(Stage) \ {<<>>}) /\ n \in 1..Len(lines) /\ n \in Nat /\ n \in Kept
  BY LenProperties DEF OutputInv, ShellInv, Sound, Kept
<1>2. CASE isValidateParsedPipeInput(job)
  <2> PICK made : made = Composition(job)[Len(job)]
    OBVIOUS
  <2>1. Begun(proc, n, Len(job), made, screen)
    BY <1>1, <1>2 DEF OutputInv, Composing, Flowing, Valid, LineFlows
  <2>2. Given(proc, n, Len(job), made) = {Len(made)}
    <3>1. Carriers(proc, n, Len(job)) = {}
      BY <1>1, OverHasEnded
    <3> QED
      BY ONLY <3>1, GivenEnded
  <2>3. Shows(screen, n, made)
    BY <2>1, <2>2 DEF Begun, Shows
  <2> QED
    BY <1>2, <2>3 DEF Composed
<1>3. CASE ~isValidateParsedPipeInput(job)
  <2>1. \A k \in DOMAIN screen : screen[k].line # n
    BY <1>3 DEF OutputInv, Composing, NotBefore, Valid
  <2>2. DOMAIN screen = 1..Len(screen)
    BY LenProperties DEF OutputInv, Composing, ItemsFit
  <2>3. OfLine(screen, n, Len(screen)) = {}
    BY <2>1, <2>2 DEF OfLine
  <2>4. Cardinality(OfLine(screen, n, Len(screen))) = 0
    BY <2>3, FS_EmptySet
  <2>5. Composed(job) = <<>> /\ Len(<<>>) = 0
    BY <1>3 DEF Composed
  <2> QED
    BY <2>1, <2>4, <2>5 DEF Shows
<1> QED
  BY <1>2, <1>3

\* However the processes of a pipeline are scheduled, whichever of its readers end early and
\* however little a pipe holds: when the shell prompts again, or, for a last command in the
\* background, when the processes of the line have ended, the terminal shows, of a line that
\* no fork failed in, exactly what its programs make of one another's output: nothing is lost
\* between runPiping, executeBinary and waitForProcessExecution, nothing is repeated, and
\* nothing comes later.
THEOREM OutputIsComposedAlways == Spec => []OutputIsComposed
BY OutputInvariance, InvOutputIsComposed, PTL
=============================================================================
