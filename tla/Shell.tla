-------------------------------- MODULE Shell --------------------------------
(***************************************************************************)
(* The shell (sh.c): main() reads a line and forks a process that parses   *)
(* it and runs it with runcmd(), which forks, pipes and redirects down to  *)
(* the programs.  A step is a fork(), a wait(), or the calls between them  *)
(* on the process's own descriptors.                                       *)
(*                                                                         *)
(* The kernel is what sh.c uses of it: descriptors are allocated lowest    *)
(* first, fork copies them, a pipe gives end of file when no process has   *)
(* its write end, exit leaves children to init and wait reaps any child.   *)
(* A program is external: it ends when it likes, if its input is a pipe at *)
(* the latest at the end of the file.                                      *)
(***************************************************************************)
EXTENDS ShellParse

CONSTANTS
  Lines,    \* the lines that are typed
  MaxProc,  \* the process slots there are for the shell: fork fails without one
  MaxFork   \* bound on the symbols of a line that fork

NFD == 8    \* bound on the descriptors of a process: runcmd() uses 0 to 4
Pid == 1 .. MaxProc
Fd  == 0 .. NFD - 1
main == 1

VARIABLES
  line,     \* the line being run
  parsed,   \* parsecmd(line), which the child of main() computes
  st,       \* "free", "live" or "zombie"
  parent,   \* 0 is init
  pc, cmd,  \* where each process is in main() or runcmd(), and its cmd
  ofile,    \* what each descriptor refers to
  p,        \* runcmd()'s int p[2]: the descriptors of the pipe it made
  want      \* history: what its place in the line gives 0 and 1

vars == <<line, parsed, st, parent, pc, cmd, ofile, p, want>>

\* An open file: the console, a file by its place in the line, or an end of pipe n.
Open(k, n) == [kind |-> k, n |-> n]
Closed == Open("none", 0)
Tty    == Open("tty", 0)
AtStart == [fd \in Fd |-> IF fd < 3 THEN Tty ELSE Closed]

Init ==
  /\ line = <<>> /\ parsed = Panic
  /\ st = [q \in Pid |-> IF q = main THEN "live" ELSE "free"]
  /\ parent = [q \in Pid |-> 0]
  /\ pc = [q \in Pid |-> IF q = main THEN "prompt" ELSE "none"]
  /\ cmd = [q \in Pid |-> Panic]
  /\ ofile = [q \in Pid |-> AtStart]
  /\ p = [q \in Pid |-> <<0, 0>>]
  /\ want = [q \in Pid |-> AtStart]

-----------------------------------------------------------------------------
(* The system calls. *)

At(q, l) == st[q] = "live" /\ pc[q] = l
Goto(q, l) == pc' = [pc EXCEPT ![q] = l]
Kids(q) == {c \in Pid : st[c] # "free" /\ parent[c] = q}
Free == {c \in Pid : st[c] = "free"}

LowestFree(fds) == Min({fd \in Fd : fds[fd] = Closed})
close(fds, fd) == [fds EXCEPT ![fd] = Closed]
dup(fds, fd)   == [fds EXCEPT ![LowestFree(fds)] = fds[fd]]
open(fds, f)   == [fds EXCEPT ![LowestFree(fds)] = f]

\* exit(): the children go to init, which reaps them; init's own are gone at once.
exit(q) ==
  /\ st' = [c \in Pid |->
       IF c = q THEN (IF parent[q] = 0 THEN "free" ELSE "zombie")
       ELSE IF parent[c] = q /\ st[c] = "zombie" THEN "free" ELSE st[c]]
  /\ parent' = [c \in Pid |-> IF parent[c] = q \/ (c = q /\ parent[q] = 0) THEN 0 ELSE parent[c]]
  /\ ofile' = [ofile EXCEPT ![q] = AtStart]
  /\ p' = [p EXCEPT ![q] = <<0, 0>>]
  /\ want' = [want EXCEPT ![q] = AtStart]
  /\ cmd' = [cmd EXCEPT ![q] = Panic]
  /\ Goto(q, "none")

\* fork1(): the child runs c at l and is to have the files w; the parent goes
\* on at to, or exits if there is no slot.
fork1(q, c, l, w, to) ==
  IF Free = {} THEN exit(q)
  ELSE LET n == Min(Free) IN
       /\ st' = [st EXCEPT ![n] = "live"]
       /\ parent' = [parent EXCEPT ![n] = q]
       /\ pc' = [pc EXCEPT ![n] = l, ![q] = to]
       /\ cmd' = [cmd EXCEPT ![n] = c]
       /\ ofile' = [ofile EXCEPT ![n] = ofile[q]]
       /\ p' = [p EXCEPT ![n] = p[q]]
       /\ want' = [want EXCEPT ![n] = w]

\* wait(): the lowest zombie child is reaped.  Without children it returns -1.
wait(q, to) ==
  LET zombies == {c \in Kids(q) : st[c] = "zombie"} IN
  /\ Kids(q) # {} => zombies # {}
  /\ st' = IF Kids(q) = {} THEN st ELSE [st EXCEPT ![Min(zombies)] = "free"]
  /\ Goto(q, to)

-----------------------------------------------------------------------------
(* main() *)

Forks(t) == Cardinality({k \in DOMAIN t : t[k] \in {"|", "&", ";"}})

\* getcmd().  Bound: the next line comes when nothing runs in the background.
ReadLine ==
  /\ At(main, "prompt")
  /\ \A q \in Pid \ {main} : st[q] = "free"
  /\ line' \in {t \in Lines : Forks(t) <= MaxFork}
  /\ parsed' = parsecmd(line')
  /\ Goto(main, "fork")
  /\ UNCHANGED <<st, parent, cmd, ofile, p, want>>

MainFork ==
  /\ At(main, "fork")
  /\ fork1(main, parsed, "run", AtStart, "wait")
  /\ UNCHANGED <<line, parsed>>

MainWait ==
  /\ At(main, "wait")
  /\ wait(main, "prompt")
  /\ line' = <<>> /\ parsed' = Panic
  /\ UNCHANGED <<parent, cmd, ofile, p, want>>

-----------------------------------------------------------------------------
(* runcmd() *)

Sub(q, k) == cmd[q].sub[k]
Runs(q, type) == At(q, "run") /\ q # main /\ cmd[q].type = type

\* An empty command, and a line that did not parse, exit.  exec() may fail.
RunExec(q) ==
  /\ Runs(q, "EXEC") \/ Runs(q, "PANIC")
  /\ IF cmd[q].argv = <<>> THEN exit(q)
     ELSE exit(q) \/ (Goto(q, "program") /\ UNCHANGED <<st, parent, cmd, ofile, p, want>>)
  /\ UNCHANGED <<line, parsed>>

\* close(rcmd->fd) and open(), which may fail.
RunRedir(q) ==
  LET f == Open("file", cmd[q].file)
      fds == open(close(ofile[q], cmd[q].fd), f) IN
  /\ Runs(q, "REDIR")
  /\ \/ exit(q)
     \/ /\ ofile' = [ofile EXCEPT ![q] = fds]
        /\ want' = [want EXCEPT ![q][cmd[q].fd] = f]
        /\ cmd' = [cmd EXCEPT ![q] = Sub(q, 1)]
        /\ UNCHANGED <<st, parent, pc, p>>
  /\ UNCHANGED <<line, parsed>>

RunList(q) ==
  /\ Runs(q, "LIST")
  /\ fork1(q, Sub(q, 1), "run", want[q], "list")
  /\ UNCHANGED <<line, parsed>>

ListWait(q) ==
  /\ At(q, "list")
  /\ wait(q, "run")
  /\ cmd' = [cmd EXCEPT ![q] = Sub(q, 2)]
  /\ UNCHANGED <<line, parsed, parent, ofile, p, want>>

RunBack(q) ==
  /\ Runs(q, "BACK")
  /\ fork1(q, Sub(q, 1), "run", want[q], "exit")
  /\ UNCHANGED <<line, parsed>>

PipeInUse(n) == \E q \in Pid, fd \in Fd : ofile[q][fd] \in {Open("r", n), Open("w", n)}

\* pipe(p): p[0] and p[1] are the two lowest free descriptors.  It may fail.
RunPipe(q) ==
  LET n == Min({k \in Pid : ~PipeInUse(k)})
      fds == open(ofile[q], Open("r", n)) IN
  /\ Runs(q, "PIPE")
  /\ \/ exit(q)
     \/ /\ ofile' = [ofile EXCEPT ![q] = open(fds, Open("w", n))]
        /\ p' = [p EXCEPT ![q] = <<LowestFree(ofile[q]), LowestFree(fds)>>]
        /\ Goto(q, "pipe")
        /\ UNCHANGED <<st, parent, cmd, want>>
  /\ UNCHANGED <<line, parsed>>

PipeLeft(q) ==
  /\ At(q, "pipe")
  /\ fork1(q, Sub(q, 1), "left", [want[q] EXCEPT ![1] = ofile[q][p[q][2]]], "pipe2")
  /\ UNCHANGED <<line, parsed>>

PipeRight(q) ==
  /\ At(q, "pipe2")
  /\ fork1(q, Sub(q, 2), "right", [want[q] EXCEPT ![0] = ofile[q][p[q][1]]], "pipe3")
  /\ UNCHANGED <<line, parsed>>

\* Mutant: the pipe is duplicated before the place for it is closed.
Onto_DupFirst(q, fd, end) == close(dup(ofile[q], end), fd)

\* close(fd); dup(end);
Onto(q, fd, end) == dup(close(ofile[q], fd), end)

\* Mutant: the write end stays open.
CloseBoth_KeepsWriteEnd(fds, q) == close(fds, p[q][1])

\* close(p[0]); close(p[1]);
CloseBoth(fds, q) == close(close(fds, p[q][1]), p[q][2])

\* What the two children do before they run their side.
PipeChild(q) ==
  /\ At(q, "left") \/ At(q, "right")
  /\ ofile' = [ofile EXCEPT ![q] =
       CloseBoth(IF pc[q] = "left" THEN Onto(q, 1, p[q][2]) ELSE Onto(q, 0, p[q][1]), q)]
  /\ Goto(q, "run")
  /\ UNCHANGED <<line, parsed, st, parent, cmd, p, want>>

PipeClose(q) ==
  /\ At(q, "pipe3")
  /\ ofile' = [ofile EXCEPT ![q] = CloseBoth(@, q)]
  /\ Goto(q, "wait1")
  /\ UNCHANGED <<line, parsed, st, parent, cmd, p, want>>

PipeWait(q) ==
  /\ \/ At(q, "wait1") /\ wait(q, "wait2")
     \/ At(q, "wait2") /\ wait(q, "exit")
  /\ UNCHANGED <<line, parsed, parent, cmd, ofile, p, want>>

RunExit(q) == At(q, "exit") /\ exit(q) /\ UNCHANGED <<line, parsed>>

-----------------------------------------------------------------------------
(* The programs. *)

HasWriter(n) == \E q \in Pid, fd \in Fd : st[q] = "live" /\ ofile[q][fd] = Open("w", n)
AtEof(q) == ofile[q][0].kind = "r" => ~HasWriter(ofile[q][0].n)

ProgramEnds(q) == At(q, "program") /\ exit(q) /\ UNCHANGED <<line, parsed>>

RunCmd(q) ==
  \/ RunExec(q) \/ RunRedir(q) \/ RunList(q) \/ ListWait(q) \/ RunBack(q)
  \/ RunPipe(q) \/ PipeLeft(q) \/ PipeRight(q) \/ PipeChild(q) \/ PipeClose(q)
  \/ PipeWait(q) \/ RunExit(q)

Next ==
  \/ ReadLine \/ MainFork \/ MainWait
  \/ \E q \in Pid : RunCmd(q) \/ ProgramEnds(q)

\* The scheduler runs the shell's processes; a program that reads a pipe is
\* certain to end only at the end of the file.
Fairness ==
  /\ WF_vars(MainFork) /\ WF_vars(MainWait)
  /\ \A q \in Pid : WF_vars(RunCmd(q)) /\ WF_vars(ProgramEnds(q) /\ AtEof(q))

Spec == Init /\ [][Next]_vars /\ Fairness

-----------------------------------------------------------------------------
(* What the shell promises. *)

(* The recursive-descent parser builds, for every line, the command that    *)
(* cutting the line at its operators by their precedence gives, and panics  *)
(* exactly on the lines that have no such meaning.                          *)
ParsesAsMeant == At(main, "fork") => parsed = Means(line)

(* A program starts with the three descriptors it expects and no other: 0   *)
(* and 1 are the pipe, the file or the console its place in the line gives, *)
(* although runcmd() places them by closing a descriptor and counting on    *)
(* the next call to return the lowest free one, at every depth of pipes,    *)
(* lists, blocks and redirections.                                          *)
DescriptorsPlaced == \A q \in Pid : At(q, "program") => ofile[q] = want[q]

(* The prompt comes back: no process waits for an end of file that a pipe   *)
(* end left open in itself, its parent or a sibling withholds, whether the  *)
(* programs of a pipeline end early or late, and if a fork fails half way.  *)
PromptReturns == At(main, "wait") ~> ~At(main, "wait")
=============================================================================
