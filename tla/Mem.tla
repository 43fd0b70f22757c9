--------------------------------- MODULE Mem ---------------------------------
(***************************************************************************)
(* Physical pages (kalloc.c) and address spaces (vm.c) under the operations *)
(* that build and free them: userinit, fork, exit, wait, sbrk (growproc) and *)
(* exec.  Every kalloc() is an action of its own, as others may run between *)
(* two of them, and may fail; a run of kfree()s is one.                     *)
(*                                                                         *)
(* The free list is the set of its pages.  An address space is the pages    *)
(* it owns: its directory, the tables of the kernel half, the tables and    *)
(* the pages of the user half, 0 where there is none.                       *)
(***************************************************************************)
EXTENDS Integers, FiniteSets

CONSTANTS
  NPAGE,      \* physical pages, numbered from 1
  Proc, initproc,
  PGSIZE,
  NPTENTRIES, \* pages a page table maps
  NVPAGE,     \* pages below KERNBASE
  NKTAB,      \* page tables setupkvm() needs for the kernel's mappings
  Deltas,     \* what sbrk is called with
  Images      \* sizes of the programs exec loads, as far as allocuvm() accepts them

ASSUME MemAssumption ==
  /\ initproc \in Proc
  /\ {PGSIZE, NPTENTRIES, NVPAGE, NKTAB, NPAGE} \subseteq Nat \ {0}
  /\ NPAGE > NKTAB + 3 /\ NVPAGE > 1
  /\ Deltas \subseteq Int /\ Images \subseteq 1 .. NVPAGE * PGSIZE - 1

Page == 1 .. NPAGE
KERNBASE == NVPAGE * PGSIZE
VPage == 0 .. NVPAGE - 1
PDX(v) == v \div NPTENTRIES
UTab == {PDX(v) : v \in VPage}
PGROUNDUP(a) == ((a + PGSIZE - 1) \div PGSIZE) * PGSIZE

NoSpace == [dir |-> 0, ktab |-> {}, utab |-> [t \in UTab |-> 0], pte |-> [v \in VPage |-> 0]]
NoJob == [op |-> "none", child |-> initproc, a |-> 0, oldsz |-> 0, newsz |-> 0, mem |-> 0]

VARIABLES
  free,       \* kmem.freelist
  state, kstack, as, sz,   \* of each process: its state, p->kstack, p->pgdir, p->sz
  pc,
  new,        \* the address space a process is building
  job         \* the locals of its allocuvm() or copyuvm()

procVars == <<state, kstack, as, sz>>
vars == <<free, procVars, pc, new, job>>

\* kalloc() returns the first page of the list; which one does not matter.
kalloc == CHOOSE x \in free : TRUE
Taken(pages) == free \ pages

\* userinit() has run: init has a kernel stack and one page of memory.
Init ==
  /\ free = NKTAB + 5 .. NPAGE
  /\ state = [p \in Proc |-> IF p = initproc THEN "run" ELSE "unused"]
  /\ kstack = [p \in Proc |-> IF p = initproc THEN 1 ELSE 0]
  /\ as = [p \in Proc |-> IF p # initproc THEN NoSpace
            ELSE [NoSpace EXCEPT !.dir = 2, !.utab[0] = 3, !.pte[0] = 4, !.ktab = 5 .. NKTAB + 4]]
  /\ sz = [p \in Proc |-> IF p = initproc THEN PGSIZE ELSE 0]
  /\ pc = [p \in Proc |-> "user"]
  /\ new = [p \in Proc |-> NoSpace]
  /\ job = [p \in Proc |-> NoJob]

Goto(p, to) == pc' = [pc EXCEPT ![p] = to]

\* The pages of an address space: what freevm() frees.
Pages(s) == ({s.dir} \cup s.ktab \cup {s.utab[t] : t \in UTab} \cup {s.pte[v] : v \in VPage}) \ {0}

-----------------------------------------------------------------------------
(* setupkvm, for copyuvm and exec. *)

\* fork(): allocproc() takes the slot and a kernel stack, or gives the slot up.
Fork(p, q) ==
  /\ pc[p] = "user" /\ state[p] = "run" /\ state[q] = "unused" /\ free # {}
  /\ state' = [state EXCEPT ![q] = "embryo"]
  /\ kstack' = [kstack EXCEPT ![q] = kalloc] /\ free' = Taken({kalloc})
  /\ job' = [job EXCEPT ![p] = [NoJob EXCEPT !.op = "fork", !.child = q, !.newsz = sz[p]]]
  /\ Goto(p, "setupkvm")
  /\ UNCHANGED <<as, sz, new>>

\* exec() has found a program with a good header.
Exec(p) ==
  /\ pc[p] = "user" /\ state[p] = "run"
  /\ \E n \in Images : job' = [job EXCEPT ![p] = [NoJob EXCEPT !.op = "exec", !.newsz = n]]
  /\ Goto(p, "setupkvm")
  /\ UNCHANGED <<free, procVars, new>>

\* The directory, then one table after the other.
Setupkvm(p) ==
  LET s == new[p] IN
  /\ pc[p] = "setupkvm" /\ free # {}
  /\ free' = Taken({kalloc})
  /\ new' = [new EXCEPT ![p] = IF s.dir = 0 THEN [s EXCEPT !.dir = kalloc]
                                            ELSE [s EXCEPT !.ktab = @ \cup {kalloc}]]
  /\ Goto(p, IF s.dir # 0 /\ Cardinality(s.ktab) + 1 = NKTAB THEN "alloc" ELSE "setupkvm")
  /\ UNCHANGED <<procVars, job>>

SetupkvmFails(p) ==
  /\ pc[p] = "setupkvm" /\ free = {}
  /\ Goto(p, "bad")
  /\ UNCHANGED <<free, procVars, new, job>>

-----------------------------------------------------------------------------
(* The loops of allocuvm and copyuvm. *)

\* The address space the loop works on, and its assignment.
Space(p) == IF job[p].op = "grow" THEN as[p] ELSE new[p]
SetSpace(p, s) ==
  IF job[p].op = "grow" THEN as' = [as EXCEPT ![p] = s] /\ UNCHANGED new
                        ELSE new' = [new EXCEPT ![p] = s] /\ UNCHANGED as

\* The next page of user memory.  (copyuvm() also reads the parent's page.)
AllocPage(p) ==
  /\ pc[p] = "alloc" /\ job[p].a < job[p].newsz /\ free # {}
  /\ job' = [job EXCEPT ![p].mem = kalloc] /\ free' = Taken({kalloc})
  /\ Goto(p, "map")
  /\ UNCHANGED <<procVars, new>>

\* mappages(), with the page table that walkpgdir() may have to allocate.
Map(p) ==
  LET s == Space(p)
      v == job[p].a \div PGSIZE
      t == PDX(v)
      tab == IF s.utab[t] = 0 THEN kalloc ELSE s.utab[t] IN
  /\ pc[p] = "map" /\ (s.utab[t] = 0 => free # {}) /\ s.pte[v] = 0
  /\ SetSpace(p, [s EXCEPT !.utab[t] = tab, !.pte[v] = job[p].mem])
  /\ free' = Taken({tab})
  /\ job' = [job EXCEPT ![p].a = @ + PGSIZE, ![p].mem = 0]
  /\ Goto(p, "alloc")
  /\ UNCHANGED <<state, kstack, sz>>

\* What deallocuvm() unmaps and frees between two sizes.
Above(from, to) == {v \in VPage : PGROUNDUP(to) <= v * PGSIZE /\ v * PGSIZE < from}
Unmapped(s, vs) == [s EXCEPT !.pte = [v \in VPage |-> IF v \in vs THEN 0 ELSE s.pte[v]]]
Freed(s, vs) == {s.pte[v] : v \in vs} \ {0}

\* Mutant: the page that could not be mapped is not freed.
InFlight_Leaked(p) == {}

InFlight(p) == {job[p].mem} \ {0}

\* kalloc() of a page or of a table failed: sbrk goes back to the old size, the
\* others give up the address space they were building.
AllocFails(p) ==
  LET j == job[p]
      s == Space(p) IN
  /\ \/ pc[p] = "alloc" /\ j.a < j.newsz
     \/ pc[p] = "map" /\ s.utab[PDX(j.a \div PGSIZE)] = 0
  /\ free = {}
  /\ IF j.op = "grow"
       THEN /\ free' = free \cup InFlight(p) \cup Freed(s, Above(j.newsz, j.oldsz))
            /\ as' = [as EXCEPT ![p] = Unmapped(s, Above(j.newsz, j.oldsz))]
            /\ job' = [job EXCEPT ![p] = NoJob] /\ Goto(p, "user")
       ELSE /\ free' = free \cup InFlight(p)
            /\ job' = [job EXCEPT ![p].mem = 0] /\ Goto(p, "bad")
            /\ UNCHANGED as
  /\ UNCHANGED <<state, kstack, sz, new>>

\* Label bad of copyuvm(), setupkvm() and exec(): freevm(); fork() also gives up
\* the kernel stack and the slot.  exec() gets here from a bad file, or from
\* arguments that do not fit on the stack, too.
Bad(p) ==
  LET q == job[p].child IN
  /\ pc[p] = "bad" \/ (pc[p] = "alloc" /\ job[p].op \in {"exec", "stack"})
  /\ free' = free \cup Pages(new[p]) \cup IF job[p].op = "fork" THEN {kstack[q]} ELSE {}
  /\ IF job[p].op = "fork"
       THEN kstack' = [kstack EXCEPT ![q] = 0] /\ state' = [state EXCEPT ![q] = "unused"]
       ELSE UNCHANGED <<kstack, state>>
  /\ new' = [new EXCEPT ![p] = NoSpace] /\ job' = [job EXCEPT ![p] = NoJob]
  /\ Goto(p, "user")
  /\ UNCHANGED <<as, sz>>

\* The test at the start of allocuvm().
Fits(n) == n < KERNBASE

AllocEnds(p) == pc[p] = "alloc" /\ job[p].a >= job[p].newsz

\* The end of fork(): the child owns the copy.
ForkEnd(p) ==
  LET q == job[p].child IN
  /\ AllocEnds(p) /\ job[p].op = "fork"
  /\ as' = [as EXCEPT ![q] = new[p]] /\ sz' = [sz EXCEPT ![q] = sz[p]]
  /\ state' = [state EXCEPT ![q] = "run"]
  /\ new' = [new EXCEPT ![p] = NoSpace] /\ job' = [job EXCEPT ![p] = NoJob]
  /\ Goto(p, "user")
  /\ UNCHANGED <<free, kstack>>

\* exec() has loaded the program: two more pages, for the stack and its guard.
ExecStack(p) ==
  LET top == PGROUNDUP(job[p].newsz) IN
  /\ AllocEnds(p) /\ job[p].op = "exec" /\ Fits(top + 2 * PGSIZE)
  /\ job' = [job EXCEPT ![p] = [@ EXCEPT !.op = "stack", !.newsz = top + 2 * PGSIZE]]
  /\ UNCHANGED <<free, procVars, pc, new>>

\* ... and commits: the old address space is freed last.
ExecEnd(p) ==
  /\ AllocEnds(p) /\ job[p].op = "stack"
  /\ as' = [as EXCEPT ![p] = new[p]] /\ sz' = [sz EXCEPT ![p] = job[p].newsz]
  /\ free' = free \cup Pages(as[p])
  /\ new' = [new EXCEPT ![p] = NoSpace] /\ job' = [job EXCEPT ![p] = NoJob]
  /\ Goto(p, "user")
  /\ UNCHANGED <<state, kstack>>

-----------------------------------------------------------------------------
(* sbrk, exit and wait. *)

\* growproc(n), n > 0: allocuvm() from p->sz on.
Grow(p) ==
  /\ pc[p] = "user" /\ state[p] = "run"
  /\ \E n \in Deltas :
       /\ n > 0 /\ Fits(sz[p] + n)
       /\ job' = [job EXCEPT ![p] = [NoJob EXCEPT !.op = "grow", !.a = PGROUNDUP(sz[p]),
                                                  !.oldsz = sz[p], !.newsz = sz[p] + n]]
  /\ Goto(p, "alloc")
  /\ UNCHANGED <<free, procVars, new>>

GrowEnd(p) ==
  /\ AllocEnds(p) /\ job[p].op = "grow"
  /\ sz' = [sz EXCEPT ![p] = job[p].newsz]
  /\ job' = [job EXCEPT ![p] = NoJob] /\ Goto(p, "user")
  /\ UNCHANGED <<free, state, kstack, as, new>>

\* Mutant: the page the new size ends in is freed too.
Shrink_RoundsDown(from, to) == {v \in VPage : to - (to % PGSIZE) <= v * PGSIZE /\ v * PGSIZE < from}

ShrinkFrees(from, to) == Above(from, to)

\* growproc(n), n < 0.  A size below 0 wraps and deallocuvm() does nothing; at
\* size 0 it frees everything and p->sz stays.
Shrink(p) ==
  /\ pc[p] = "user" /\ state[p] = "run"
  /\ \E n \in Deltas :
       LET to == sz[p] + n
           vs == ShrinkFrees(sz[p], to) IN
       /\ n < 0 /\ to >= 0
       /\ free' = free \cup Freed(as[p], vs)
       /\ as' = [as EXCEPT ![p] = Unmapped(as[p], vs)]
       /\ sz' = [sz EXCEPT ![p] = IF to = 0 THEN @ ELSE to]
  /\ UNCHANGED <<state, kstack, pc, new, job>>

Exit(p) ==
  /\ pc[p] = "user" /\ state[p] = "run" /\ p # initproc
  /\ state' = [state EXCEPT ![p] = "zombie"]
  /\ UNCHANGED <<free, kstack, as, sz, pc, new, job>>

\* wait() frees the kernel stack and the address space of a zombie.
Wait(p, q) ==
  /\ pc[p] = "user" /\ state[p] = "run" /\ state[q] = "zombie"
  /\ free' = free \cup {kstack[q]} \cup Pages(as[q])
  /\ kstack' = [kstack EXCEPT ![q] = 0] /\ as' = [as EXCEPT ![q] = NoSpace]
  /\ state' = [state EXCEPT ![q] = "unused"] /\ sz' = [sz EXCEPT ![q] = 0]
  /\ UNCHANGED <<pc, new, job>>

Next ==
  \E p \in Proc :
    \/ Exec(p) \/ Setupkvm(p) \/ SetupkvmFails(p) \/ AllocPage(p) \/ Map(p) \/ AllocFails(p)
    \/ Bad(p) \/ ForkEnd(p) \/ ExecStack(p) \/ ExecEnd(p)
    \/ Grow(p) \/ GrowEnd(p) \/ Shrink(p) \/ Exit(p)
    \/ \E q \in Proc : Fork(p, q) \/ Wait(p, q)

Spec == Init /\ [][Next]_vars

-----------------------------------------------------------------------------
(* Properties. *)

IsSpace(s) ==
  /\ s.dir \in Page \cup {0} /\ s.ktab \subseteq Page
  /\ s.utab \in [UTab -> Page \cup {0}] /\ s.pte \in [VPage -> Page \cup {0}]
  /\ \A v \in VPage : s.pte[v] # 0 => s.utab[PDX(v)] # 0

\* The type of every variable; a page is mapped through a page table.
TypeOK ==
  /\ free \subseteq Page
  /\ state \in [Proc -> {"unused", "embryo", "run", "zombie"}]
  /\ kstack \in [Proc -> Page \cup {0}] /\ sz \in [Proc -> 0 .. KERNBASE - 1]
  /\ \A p \in Proc : IsSpace(as[p]) /\ IsSpace(new[p]) /\ job[p].mem \in Page \cup {0}
  /\ pc \in [Proc -> {"user", "setupkvm", "alloc", "map", "bad"}]

\* Where pages are held: the parts of an address space, and the places of a
\* process with its kernel stack and the page it is about to map.
Part == ({"dir", "ktab"} \X {0}) \cup ({"utab"} \X UTab) \cup ({"pte"} \X VPage)
Place == ({"kstack", "mem"} \X {<<"page", 0>>}) \cup ({"as", "new"} \X Part)

InPart(s, i) ==
  CASE i[1] = "dir"  -> {s.dir}
    [] i[1] = "ktab" -> s.ktab
    [] i[1] = "utab" -> {s.utab[i[2]]}
    [] i[1] = "pte"  -> {s.pte[i[2]]}
Held ==
  [p \in Proc |-> [i \in Place |->
     CASE i[1] = "kstack" -> {kstack[p]}
       [] i[1] = "mem"    -> {job[p].mem}
       [] i[1] = "as"     -> InPart(as[p], i[2])
       [] i[1] = "new"    -> InPart(new[p], i[2])]]
Holders(x) == {h \in Proc \X Place : x \in Held[h[1]][h[2]]}

\* kalloc and kfree against all their callers and their failure paths: a page is
\* free or is held in exactly one place, so none is leaked, freed twice or shared.
PagesOwned ==
  \A x \in Page :
    LET H == Holders(x) IN
    IF x \in free THEN H = {} ELSE H # {} /\ \A g, h \in H : g = h

\* allocuvm and deallocuvm against p->sz: the memory below p->sz is mapped, the
\* pages above it are not (but while sbrk adds them), so copyuvm() finds every page
\* present and mappages() maps none twice ("remap").
SizeMapped ==
  \A p \in Proc : state[p] \in {"run", "zombie"} =>
    \A v \in VPage :
      /\ v * PGSIZE < sz[p] => as[p].pte[v] # 0
      /\ v * PGSIZE >= PGROUNDUP(IF job[p].op = "grow" THEN job[p].a ELSE sz[p]) => as[p].pte[v] = 0
=============================================================================
