---------------------------- MODULE SyscallTrace ----------------------------
(***************************************************************************)
(* The system call trace: syscall() appends to the caller's sysclog, exit() *)
(* and kill() copy a log to the records of pptable, print_syscalls() shows *)
(* both.  It runs under three spin locks that nest, ptable.lock,           *)
(* pptable.lock and cons.lock, which the keyboard interrupt takes as well. *)
(*                                                                         *)
(* A system call is the list of its steps that touch locks or the tables.  *)
(* Every process is on a CPU of its own, and so is the interrupt handler;  *)
(* what they wait for is locks.  Only the fields of struct proc that the   *)
(* trace depends on are here, the rest is module Proc.                     *)
(***************************************************************************)
EXTENDS Naturals, Sequences, FiniteSets

CONSTANTS
  NPROC,        \* slots of ptable.proc, and of pptable.proc
  NLOGPAIR,     \* entries of a sysclog
  Kbd,          \* the keyboard interrupt handler
  NoOne,        \* the holder of a free lock
  Calls,        \* the system calls the programs of each slot make
  MaxCalls,     \* bound on the calls a process makes before it exits
  MaxPid,       \* bound on the pids a behaviour hands out
  MaxRecords    \* bound on the calls of exit and kill that leave a record

ASSUME TraceAssumption ==
  /\ NPROC \in Nat \ {0} /\ MaxPid \in Nat \ {0} /\ MaxRecords \in Nat
  /\ MaxCalls \in Nat /\ 2 * MaxCalls <= NLOGPAIR
  /\ Kbd \notin 1 .. NPROC /\ NoOne \notin (1 .. NPROC) \cup {Kbd}

Slots == 1 .. NPROC
Actor == Slots \cup {Kbd}
Lock  == {"ptable", "pptable", "cons"}
InitProc == 1

VARIABLES
  state, pid, parent, killed,  \* of ptable.proc
  nextpid,
  sysclog,     \* the entries of each slot, "none" where callno is 0
  record,      \* pptable.proc; record NPROC+1 is what lies behind the table
  holder,      \* who holds each spin lock
  todo,        \* the steps left of the call or interrupt an actor is in
  call, npair, arg,  \* its number, the free entry syscall() found, its argument
  copied,      \* kill()'s npair: the entries its first copy has written
  made,        \* history: the calls the process of a slot has returned from
  atExit       \* history: the calls each pid had returned from when it exited

procVars == <<state, pid, parent, killed, nextpid>>
vars == <<procVars, sysclog, record, holder, todo, call, npair, arg, copied, made, atExit>>

Empty == [i \in 1 .. NLOGPAIR |-> "none"]

Init ==
  /\ state = [s \in Slots |-> IF s = InitProc THEN "live" ELSE "unused"]
  /\ pid = [s \in Slots |-> IF s = InitProc THEN 1 ELSE 0]
  /\ parent = [s \in Slots |-> 0]
  /\ killed = [s \in Slots |-> FALSE]
  /\ nextpid = 2
  /\ sysclog = [s \in Slots |-> Empty]
  /\ record = [i \in 1 .. NPROC + 1 |-> [pid |-> 0, sysclog |-> Empty]]
  /\ holder = [l \in Lock |-> NoOne]
  /\ todo = [a \in Actor |-> <<>>]
  /\ call = [s \in Slots |-> "none"]
  /\ npair = [s \in Slots |-> 0]
  /\ arg = [s \in Slots |-> 0]
  /\ copied = [s \in Slots |-> 0]
  /\ made = [s \in Slots |-> <<>>]
  /\ atExit = [k \in 1 .. MaxPid |-> <<"running">>]

-----------------------------------------------------------------------------
(* The calls as lists of steps. *)

Acq(l) == [op |-> "acquire", on |-> l]
Rel(l) == [op |-> "release", on |-> l]
Do(op) == [op |-> op, on |-> "table"]

cprintf == <<Acq("cons"), Rel("cons")>>

fork == <<Acq("ptable"), Do("allocproc"), Rel("ptable"),
          Acq("ptable"), Do("publish"), Rel("ptable"), Do("return")>>

wait == <<Acq("ptable"), Do("reap"), Rel("ptable"), Do("return")>>

exit == <<Acq("ptable"), Do("reparent"), Acq("pptable"), Do("record"), Rel("pptable"),
          Do("zombie"), Rel("ptable")>>

\* Mutant: the locks are taken in the other order.
kill_Inverted == <<Acq("pptable"), Acq("ptable"), Do("kill"), Do("recordKilled"),
                   Rel("ptable"), Rel("pptable"), Do("return")>>

kill == <<Acq("ptable"), Do("kill"), Acq("pptable"), Do("recordKilled"),
          Rel("pptable"), Rel("ptable"), Do("return")>>

\* Any number of lines is printed under each lock: one cprintf() shows them all.
print_syscalls == <<Acq("ptable")>> \o cprintf \o <<Rel("ptable")>> \o cprintf
                  \o <<Acq("pptable")>> \o cprintf \o <<Rel("pptable"), Do("return")>>

\* ps() and read_registers() print with ptable.lock held.
ps == <<Acq("ptable")>> \o cprintf \o <<Rel("ptable"), Do("return")>>

Body(c) ==
  CASE c = "fork" -> fork
    [] c = "wait" -> wait
    [] c = "exit" -> exit
    [] c = "kill" -> kill
    [] c = "print_syscalls" -> print_syscalls
    [] c = "ps" -> ps
    [] OTHER -> <<Do("return")>>

\* consoleintr(): the wakeup() of a finished line takes ptable.lock inside
\* cons.lock.  Other keys, and the procdump() that a ^P calls when cons.lock has
\* been released, take cons.lock alone.
consoleintr == <<Acq("cons"), Acq("ptable"), Rel("ptable"), Rel("cons")>>

-----------------------------------------------------------------------------
(* Entering and leaving a call, and the spin locks. *)

Recording == {"exit", "kill"}

\* The records in use and those to come from calls under way.
RecordsDue == Cardinality({i \in DOMAIN record : record[i].pid # 0})
              + Cardinality({s \in Slots : todo[s] # <<>> /\ call[s] \in Recording})

\* The first free entry of the log, NLOGPAIR + 1 if there is none.
FirstFree(log) ==
  CHOOSE i \in 1 .. NLOGPAIR + 1 :
    /\ i = NLOGPAIR + 1 \/ log[i] = "none"
    /\ \A j \in 1 .. i - 1 : log[j] # "none"

\* syscall() looks for the free entry before it makes the call.  trap() lets a
\* killed process do nothing but exit.
Enter(s, c, k) ==
  /\ todo[s] = <<>> /\ state[s] = "live"
  /\ c = "exit" => s # InitProc
  /\ c # "exit" => ~killed[s] /\ Len(made[s]) < MaxCalls
  /\ c \in Recording => RecordsDue < MaxRecords
  /\ k # 0 => c = "kill"
  /\ todo' = [todo EXCEPT ![s] = Body(c)]
  /\ call' = [call EXCEPT ![s] = c]
  /\ npair' = [npair EXCEPT ![s] = FirstFree(sysclog[s])]
  /\ arg' = [arg EXCEPT ![s] = k]
  /\ UNCHANGED <<procVars, sysclog, record, holder, copied, made, atExit>>

Interrupt ==
  /\ todo[Kbd] = <<>>
  /\ \E steps \in {consoleintr, cprintf} : todo' = [todo EXCEPT ![Kbd] = steps]
  /\ UNCHANGED <<procVars, sysclog, record, holder, call, npair, arg, copied, made, atExit>>

\* The next step of actor a is op.
At(a, op) == todo[a] # <<>> /\ Head(todo[a]).op = op
Done(a) == todo' = [todo EXCEPT ![a] = Tail(@)]

Acquire(a) ==
  /\ At(a, "acquire")
  /\ holder[Head(todo[a]).on] = NoOne
  /\ holder' = [holder EXCEPT ![Head(todo[a]).on] = a]
  /\ Done(a)
  /\ UNCHANGED <<procVars, sysclog, record, call, npair, arg, copied, made, atExit>>

Release(a) ==
  /\ At(a, "release")
  /\ holder' = [holder EXCEPT ![Head(todo[a]).on] = NoOne]
  /\ Done(a)
  /\ UNCHANGED <<procVars, sysclog, record, call, npair, arg, copied, made, atExit>>

\* syscall() fills in the entry it found, if there was one.
Return(s) ==
  /\ At(s, "return")
  /\ sysclog' = IF npair[s] <= NLOGPAIR
                  THEN [sysclog EXCEPT ![s][npair[s]] = call[s]] ELSE sysclog
  /\ made' = [made EXCEPT ![s] = Append(@, call[s])]
  /\ call' = [call EXCEPT ![s] = "none"]
  /\ npair' = [npair EXCEPT ![s] = 0]
  /\ arg' = [arg EXCEPT ![s] = 0]
  /\ Done(s)
  /\ UNCHANGED <<procVars, record, holder, copied, atExit>>

-----------------------------------------------------------------------------
(* fork(), wait() and exit(), as far as logs and records depend on them. *)

traceVars == <<sysclog, record, holder, call, npair, copied, made, atExit>>

First(matches) == CHOOSE s \in matches : \A t \in matches : s <= t
Unused == {s \in Slots : state[s] = "unused"}

\* With no unused slot fork() fails.
AllocProc(s) ==
  /\ At(s, "allocproc")
  /\ IF Unused = {} \/ nextpid > MaxPid
       THEN /\ todo' = [todo EXCEPT ![s] = <<Rel("ptable"), Do("return")>>]
            /\ UNCHANGED <<procVars, arg>>
       ELSE LET c == First(Unused) IN
            /\ state' = [state EXCEPT ![c] = "embryo"]
            /\ pid' = [pid EXCEPT ![c] = nextpid]
            /\ nextpid' = nextpid + 1
            /\ arg' = [arg EXCEPT ![s] = c]
            /\ Done(s)
            /\ UNCHANGED <<parent, killed>>
  /\ UNCHANGED traceVars

\* Mutant: the child keeps what its slot has logged before.
ChildLog_Kept(c) == sysclog[c]

\* The log the child starts with.
ChildLog(c) == Empty

Publish(s) ==
  LET c == arg[s] IN
  /\ At(s, "publish")
  /\ state' = [state EXCEPT ![c] = "live"]
  /\ parent' = [parent EXCEPT ![c] = s]
  /\ sysclog' = [sysclog EXCEPT ![c] = ChildLog(c)]
  /\ made' = [made EXCEPT ![c] = <<>>]
  /\ Done(s)
  /\ UNCHANGED <<pid, killed, nextpid, record, holder, call, npair, arg, copied, atExit>>

Kids(s) == {t \in Slots : parent[t] = s}
Zombies(s) == {t \in Kids(s) : state[t] = "zombie"}

\* wait(): a zombie child is freed, its log is not.  With children but no
\* zombie the process sleeps: it lets the lock go and looks again.
Reap(s) ==
  /\ At(s, "reap")
  /\ IF Zombies(s) # {}
       THEN LET z == First(Zombies(s)) IN
            /\ state' = [state EXCEPT ![z] = "unused"]
            /\ pid' = [pid EXCEPT ![z] = 0]
            /\ parent' = [parent EXCEPT ![z] = 0]
            /\ killed' = [killed EXCEPT ![z] = FALSE]
            /\ Done(s)
       ELSE /\ IF Kids(s) = {} \/ killed[s] THEN Done(s)
               ELSE todo' = [todo EXCEPT ![s] = <<Rel("ptable")>> \o wait]
            /\ UNCHANGED <<state, pid, parent, killed>>
  /\ UNCHANGED <<nextpid, arg, traceVars>>

Reparent(s) ==
  /\ At(s, "reparent")
  /\ parent' = [t \in Slots |-> IF parent[t] = s THEN InitProc ELSE parent[t]]
  /\ Done(s)
  /\ UNCHANGED <<state, pid, killed, nextpid, arg, traceVars>>

Zombie(s) ==
  /\ At(s, "zombie")
  /\ state' = [state EXCEPT ![s] = "zombie"]
  /\ call' = [call EXCEPT ![s] = "none"]
  /\ npair' = [npair EXCEPT ![s] = 0]
  /\ Done(s)
  /\ UNCHANGED <<pid, parent, killed, nextpid, arg, sysclog, record, holder, copied, made, atExit>>

-----------------------------------------------------------------------------
(* The records. *)

\* The entries that are in use, in order.
Used(log) == SelectSeq(log, LAMBDA c : c # "none")

\* Log to with the entries of from written to it from entry k + 1 on.
Copy(from, to, k) ==
  LET u == Used(from) IN
  [i \in 1 .. NLOGPAIR |-> IF i - k \in DOMAIN u THEN u[i - k] ELSE to[i]]

\* Mutant: the search stops one record short of the first free one.
FreeRecord_Last ==
  CHOOSE i \in 1 .. NPROC :
    /\ i = NPROC \/ record[i + 1].pid = 0
    /\ \A j \in 2 .. i : record[j].pid # 0

\* The first record whose pid is 0, the one behind the table if there is none.
FreeRecord ==
  CHOOSE i \in 1 .. NPROC + 1 :
    /\ i = NPROC + 1 \/ record[i].pid = 0
    /\ \A j \in 1 .. i - 1 : record[j].pid # 0

\* The record exit() and kill() write for slot t, from entry k + 1 on.
NewRecord(t, k) ==
  record' = [record EXCEPT ![FreeRecord].pid = pid[t],
                           ![FreeRecord].sysclog = Copy(sysclog[t], @, k)]

Record(s) ==
  /\ At(s, "record")
  /\ NewRecord(s, 0)
  /\ atExit' = [atExit EXCEPT ![pid[s]] = made[s]]
  /\ Done(s)
  /\ UNCHANGED <<procVars, arg, sysclog, holder, call, npair, copied, made>>

\* kill(): the first slot with that pid is marked, and its log copied over the
\* beginning of init's.  With no such slot kill() returns -1.
Kill(s) ==
  LET matches == {t \in Slots : pid[t] = arg[s]} IN
  /\ At(s, "kill")
  /\ IF matches = {}
       THEN /\ todo' = [todo EXCEPT ![s] = <<Rel("ptable"), Do("return")>>]
            /\ UNCHANGED <<killed, sysclog, copied>>
       ELSE LET t == First(matches) IN
            /\ killed' = [killed EXCEPT ![t] = TRUE]
            /\ sysclog' = [sysclog EXCEPT ![InitProc] = Copy(sysclog[t], @, 0)]
            /\ copied' = [copied EXCEPT ![s] = Len(Used(sysclog[t]))]
            /\ Done(s)
  /\ UNCHANGED <<state, pid, parent, nextpid, record, holder, call, npair, arg, made, atExit>>

\* npair is not reset in between: the second copy starts where the first ended.
RecordKilled(s) ==
  LET t == First({u \in Slots : pid[u] = arg[s]}) IN
  /\ At(s, "recordKilled")
  /\ NewRecord(t, copied[s])
  /\ copied' = [copied EXCEPT ![s] = 0]
  /\ Done(s)
  /\ UNCHANGED <<procVars, arg, sysclog, holder, call, npair, made, atExit>>

-----------------------------------------------------------------------------
Step(s) ==
  \/ Return(s)
  \/ AllocProc(s) \/ Publish(s) \/ Reap(s)
  \/ Reparent(s) \/ Record(s) \/ Zombie(s)
  \/ Kill(s) \/ RecordKilled(s)

Next ==
  \/ \E s \in Slots, k \in 0 .. MaxPid : \E c \in Calls[s] : Enter(s, c, k)
  \/ \E s \in Slots : Step(s)
  \/ \E a \in Actor : Acquire(a) \/ Release(a)
  \/ Interrupt

Spec == Init /\ [][Next]_vars

-----------------------------------------------------------------------------
(* What the trace promises. *)

\* log begins with the first NLOGPAIR of the calls in seq.
BeginsWith(log, seq) ==
  \A i \in 1 .. NLOGPAIR : i <= Len(seq) => log[i] = seq[i]

(* The log of a process holds the calls it has returned from, in order, and *)
(* nothing of an earlier process of its slot: fork() resets it while the    *)
(* child cannot run yet, and the entry syscall() found before the call is   *)
(* still the first free one after it.  Only init is different: kill()       *)
(* writes its target's log over init's.                                     *)
OwnLog ==
  \A s \in Slots \ {InitProc} : state[s] \in {"live", "zombie"} =>
    /\ BeginsWith(sysclog[s], made[s])
    /\ \A i \in 1 .. NLOGPAIR : i > Len(made[s]) => sysclog[s][i] = "none"

(* The record of a terminated process is never lost or overwritten while    *)
(* the table has room: it begins with the calls the process had returned    *)
(* from when it exited, whatever exits and kills, of live or free slots,    *)
(* come before and after it.                                                *)
ExitRecorded ==
  \A k \in 1 .. MaxPid : atExit[k] # <<"running">> =>
    \E i \in 1 .. NPROC : record[i].pid = k /\ BeginsWith(record[i].sysclog, atExit[k])

\* Actor a spins on a lock that b holds.
Spins(a, b) == At(a, "acquire") /\ holder[Head(todo[a]).on] = b

(* Processes alone never wait for spin locks in a circle, nor for one they  *)
(* hold: ptable.lock comes before pptable.lock and both before cons.lock.   *)
(* consoleintr() breaks that order, so every circle has to pass through it. *)
OnlyConsoleCycles ==
  \A S \in SUBSET Slots : S # {} => \E a \in S : \A b \in S : ~Spins(a, b)
=============================================================================
