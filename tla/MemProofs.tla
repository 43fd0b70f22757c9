------------------------------ MODULE MemProofs ------------------------------
(***************************************************************************)
(* A physical page is free or held in exactly one place, and the memory of  *)
(* a process is mapped exactly up to its size unless a program gives all    *)
(* of its memory back: for any number of pages and processes, and for all   *)
(* sizes of pages, page tables and programs.                                *)
(***************************************************************************)
EXTENDS Mem, TLAPS

-----------------------------------------------------------------------------
(* The inductive invariant *)

Spaces == [dir : Page \cup {0}, ktab : SUBSET Page,
           utab : [UTab -> Page \cup {0}], pte : [VPage -> Page \cup {0}]]
Jobs == [op : {"none", "fork", "exec", "stack", "grow"}, child : Proc, a : Nat, oldsz : Nat,
         newsz : 0 .. KERNBASE - 1, mem : Page \cup {0}]

\* The types, of the locals too.
Types ==
  /\ free \subseteq Page
  /\ state \in [Proc -> {"unused", "embryo", "run", "zombie"}]
  /\ kstack \in [Proc -> Page \cup {0}] /\ sz \in [Proc -> 0 .. KERNBASE - 1]
  /\ as \in [Proc -> Spaces] /\ new \in [Proc -> Spaces]
  /\ job \in [Proc -> Jobs]
  /\ pc \in [Proc -> {"user", "setupkvm", "alloc", "map", "bad"}]

\* What a process in each state owns, and what each place in the kernel has.
Life(p) ==
  /\ state[p] # "run" => pc[p] = "user"
  /\ state[p] = "unused" <=> kstack[p] = 0
  /\ state[p] \in {"unused", "embryo"} => as[p] = NoSpace
  /\ pc[p] = "user" => job[p] = NoJob /\ new[p] = NoSpace
  /\ job[p].op = "none" => pc[p] = "user"
  /\ pc[p] = "map" <=> job[p].mem # 0
  /\ pc[p] = "map" => job[p].a < job[p].newsz
  /\ pc[p] \in {"setupkvm", "bad"} => job[p].op \in {"fork", "exec", "stack"}
  /\ job[p].op = "grow" => new[p] = NoSpace

LifeInv == \A p \in Proc : Life(p)

\* fork() owns the slot it fills.
ForkInv ==
  \A p \in Proc : job[p].op = "fork" =>
    /\ state[job[p].child] = "embryo"
    /\ \A q \in Proc : job[q].op = "fork" /\ job[q].child = job[p].child => q = p

\* Who owns the pages: the first inductive invariant.
Owned == Types /\ LifeInv /\ ForkInv /\ PagesOwned

\* The pages that n bytes take, and the address of page v.
Up(n) == (n + PGSIZE - 1) \div PGSIZE
Base(v) == v * PGSIZE

\* s has exactly the first k pages mapped.
Maps(s, k) == \A v \in VPage : s.pte[v] # 0 <=> v < k

\* How far the loops of allocuvm() and copyuvm() have come, and what p->sz says of
\* the memory of a process that is not in them.
Fit(p) ==
  /\ job[p].a = Base(Up(job[p].a))
  /\ Up(job[p].a) <= Up(job[p].newsz)
  /\ pc[p] = "setupkvm" => job[p].a = 0
  /\ job[p].op \in {"fork", "exec", "stack"} => Maps(new[p], Up(job[p].a))
  /\ job[p].op = "fork" => job[p].newsz = sz[p]
  /\ job[p].op = "grow" => /\ job[p].oldsz = sz[p] /\ Up(sz[p]) <= Up(job[p].a)
                           /\ Maps(as[p], Up(job[p].a))
  /\ state[p] \in {"run", "zombie"} /\ job[p].op # "grow" => Maps(as[p], Up(sz[p]))

\* The second inductive invariant.
SizesFit == \A p \in Proc : Fit(p)

\* No program gives back all of its memory: growproc() takes deallocuvm()'s answer,
\* the new size 0, for a failure then, and leaves p->sz as it was.
KeepsMemory == \A p \in Proc : Shrink(p) => sz' # sz


-----------------------------------------------------------------------------
(* Places and what they hold *)

Stack    == <<"kstack", <<"page", 0>>>>
Fresh    == <<"mem", <<"page", 0>>>>
InAs(k)  == <<"as", k>>
InNew(k) == <<"new", k>>

\* The assumptions, with the facts of arithmetic they give.
LEMMA Sizes ==
  /\ PGSIZE \in Nat \ {0} /\ NVPAGE \in Nat \ {0} /\ NPAGE \in Nat \ {0} /\ NKTAB \in Nat \ {0}
  /\ NPTENTRIES \in Nat \ {0}
  /\ NPAGE > NKTAB + 3 /\ NVPAGE > 1 /\ initproc \in Proc
  /\ KERNBASE \in Nat /\ PGSIZE < KERNBASE
  /\ Images \subseteq 1 .. KERNBASE - 1 /\ Deltas \subseteq Int
  /\ 0 \notin Page /\ Page \subseteq Nat
<1>1. /\ PGSIZE \in Nat \ {0} /\ NVPAGE \in Nat \ {0} /\ NPAGE \in Nat \ {0} /\ NKTAB \in Nat \ {0}
      /\ NPTENTRIES \in Nat \ {0} /\ NVPAGE > 1
  BY MemAssumption
<1>2. KERNBASE \in Nat /\ PGSIZE < KERNBASE
  BY <1>1 DEF KERNBASE
<1>. QED
  BY <1>1, <1>2, MemAssumption DEF KERNBASE, Page

\* The parts of an address space and the places of a process.
LEMMA PartIs ==
  /\ <<"dir", 0>> \in Part /\ <<"ktab", 0>> \in Part
  /\ \A t \in UTab : <<"utab", t>> \in Part
  /\ \A v \in VPage : <<"pte", v>> \in Part
  /\ \A k \in Part : \/ k = <<"dir", 0>> \/ k = <<"ktab", 0>>
                     \/ \E t \in UTab : k = <<"utab", t>>
                     \/ \E v \in VPage : k = <<"pte", v>>
  BY DEF Part

\* The places of a process.
LEMMA PlaceIs ==
  /\ Stack \in Place /\ Fresh \in Place
  /\ \A k \in Part : InAs(k) \in Place /\ InNew(k) \in Place
  /\ \A i \in Place : \/ i = Stack \/ i = Fresh
                      \/ \E k \in Part : i = InAs(k)
                      \/ \E k \in Part : i = InNew(k)
  BY DEF Place, Stack, Fresh, InAs, InNew

\* They are all different.
LEMMA Different ==
  /\ Stack # Fresh
  /\ \A k : Stack # InAs(k) /\ Stack # InNew(k) /\ Fresh # InAs(k) /\ Fresh # InNew(k)
  /\ \A k, l : InAs(k) # InNew(l)
  /\ \A k, l : InAs(k) = InAs(l) => k = l
  /\ \A k, l : InNew(k) = InNew(l) => k = l
  BY DEF Stack, Fresh, InAs, InNew

\* What they hold.
LEMMA InPartIs ==
  ASSUME NEW s
  PROVE  /\ InPart(s, <<"dir", 0>>) = {s.dir} /\ InPart(s, <<"ktab", 0>>) = s.ktab
         /\ \A t : InPart(s, <<"utab", t>>) = {s.utab[t]}
         /\ \A v : InPart(s, <<"pte", v>>) = {s.pte[v]}
  BY DEF InPart

HeldIs ==
  \A p \in Proc :
    /\ Held[p][Stack] = {kstack[p]}
    /\ Held[p][Fresh] = {job[p].mem}
    /\ \A k \in Part : Held[p][InAs(k)] = InPart(as[p], k)
    /\ \A k \in Part : Held[p][InNew(k)] = InPart(new[p], k)

\* What each place holds.
LEMMA HeldNow == HeldIs
<1>. SUFFICES ASSUME NEW p \in Proc
              PROVE  /\ Held[p][Stack] = {kstack[p]}
                     /\ Held[p][Fresh] = {job[p].mem}
                     /\ \A k \in Part : Held[p][InAs(k)] = InPart(as[p], k)
                     /\ \A k \in Part : Held[p][InNew(k)] = InPart(new[p], k)
  BY DEF HeldIs
<1>. DEFINE H(i) == CASE i[1] = "kstack" -> {kstack[p]}
                      [] i[1] = "mem"    -> {job[p].mem}
                      [] i[1] = "as"     -> InPart(as[p], i[2])
                      [] i[1] = "new"    -> InPart(new[p], i[2])
<1>1. \A i \in Place : Held[p][i] = H(i)
  BY DEF Held
<1>2. H(Stack) = {kstack[p]}
  BY DEF Stack
<1>3. H(Fresh) = {job[p].mem}
  BY DEF Fresh
<1>4. ASSUME NEW k \in Part PROVE H(InAs(k)) = InPart(as[p], k)
  BY DEF InAs
<1>5. ASSUME NEW k \in Part PROVE H(InNew(k)) = InPart(new[p], k)
  BY DEF InNew
<1>. HIDE DEF H
<1>. QED
  BY <1>1, <1>2, <1>3, <1>4, <1>5, PlaceIs

\* The same after a step.
LEMMA HeldNext == HeldIs'
  BY HeldNow, PTL

\* Both, for one process.
LEMMA HeldAt ==
  ASSUME NEW q \in Proc
  PROVE  /\ Held[q][Stack] = {kstack[q]} /\ Held'[q][Stack] = {kstack'[q]}
         /\ Held[q][Fresh] = {job[q].mem} /\ Held'[q][Fresh] = {job'[q].mem}
         /\ \A k \in Part : /\ Held[q][InAs(k)] = InPart(as[q], k)
                            /\ Held'[q][InAs(k)] = InPart(as'[q], k)
                            /\ Held[q][InNew(k)] = InPart(new[q], k)
                            /\ Held'[q][InNew(k)] = InPart(new'[q], k)
<1>1. /\ Held[q][Stack] = {kstack[q]} /\ Held[q][Fresh] = {job[q].mem}
      /\ \A k \in Part : /\ Held[q][InAs(k)] = InPart(as[q], k)
                         /\ Held[q][InNew(k)] = InPart(new[q], k)
  BY HeldNow DEF HeldIs
<1>2. /\ Held'[q][Stack] = {kstack'[q]} /\ Held'[q][Fresh] = {job'[q].mem}
      /\ \A k \in Part : /\ Held'[q][InAs(k)] = InPart(as'[q], k)
                         /\ Held'[q][InNew(k)] = InPart(new'[q], k)
  BY HeldNext DEF HeldIs
<1>. QED
  BY <1>1, <1>2

\* What freevm() frees is what the parts hold.
LEMMA PagesIs ==
  ASSUME NEW s \in Spaces
  PROVE  Pages(s) = {x \in Page : \E k \in Part : x \in InPart(s, k)}
<1>1. /\ s.dir \in Page \cup {0} /\ s.ktab \subseteq Page
      /\ \A t \in UTab : s.utab[t] \in Page \cup {0}
      /\ \A v \in VPage : s.pte[v] \in Page \cup {0}
  BY DEF Spaces
<1>2. ASSUME NEW x \in Pages(s) PROVE x \in Page /\ \E k \in Part : x \in InPart(s, k)
  <2>1. x \in Page
    BY <1>1 DEF Pages
  <2>2. \/ x = s.dir \/ x \in s.ktab
        \/ \E t \in UTab : x = s.utab[t]
        \/ \E v \in VPage : x = s.pte[v]
    BY DEF Pages
  <2>3. CASE x = s.dir \/ x \in s.ktab
    BY <2>1, <2>3, PartIs, InPartIs
  <2>4. ASSUME NEW t \in UTab, x = s.utab[t] PROVE \E k \in Part : x \in InPart(s, k)
    <3>1. <<"utab", t>> \in Part
      BY PartIs
    <3>. QED
      BY <2>4, <3>1, InPartIs
  <2>5. ASSUME NEW v \in VPage, x = s.pte[v] PROVE \E k \in Part : x \in InPart(s, k)
    <3>1. <<"pte", v>> \in Part
      BY PartIs
    <3>. QED
      BY <2>5, <3>1, InPartIs
  <2>. QED
    BY <2>1, <2>2, <2>3, <2>4, <2>5
<1>3. ASSUME NEW x \in Page, NEW k \in Part, x \in InPart(s, k) PROVE x \in Pages(s)
  <2>1. x # 0
    BY Sizes
  <2>2. \/ x = s.dir \/ x \in s.ktab
        \/ \E t \in UTab : x = s.utab[t]
        \/ \E v \in VPage : x = s.pte[v]
    BY <1>3, PartIs, InPartIs
  <2>. QED
    BY <2>1, <2>2 DEF Pages
<1>. QED
  BY <1>2, <1>3

\* An address space that is not there holds nothing.
LEMMA NoSpaceIs ==
  /\ NoSpace \in Spaces
  /\ \A x \in Page, k \in Part : x \notin InPart(NoSpace, k)
<1>1. NoSpace \in Spaces
  BY DEF NoSpace, Spaces
<1>2. ASSUME NEW x \in Page, NEW k \in Part PROVE x \notin InPart(NoSpace, k)
  <2>1. x # 0
    BY Sizes
  <2>. QED
    BY <2>1, PartIs, InPartIs DEF NoSpace
<1>. QED
  BY <1>1, <1>2

\* Page x is free and held nowhere, or not free and held in one place.
Own(x) ==
  IF x \in free
    THEN \A p \in Proc, i \in Place : x \notin Held[p][i]
    ELSE \E p \in Proc, i \in Place :
           /\ x \in Held[p][i]
           /\ \A q \in Proc, j \in Place : x \in Held[q][j] => q = p /\ j = i

\* PagesOwned in these terms.
LEMMA OwnedIs == PagesOwned <=> \A x \in Page : Own(x)
<1>1. ASSUME NEW x, NEW p \in Proc, NEW i \in Place
      PROVE  <<p, i>> \in Holders(x) <=> x \in Held[p][i]
  BY DEF Holders
<1>2. ASSUME NEW x, NEW h \in Holders(x)
      PROVE  \E p \in Proc, i \in Place : h = <<p, i>> /\ x \in Held[p][i]
  BY DEF Holders
<1>3. ASSUME NEW x, x \in free PROVE Own(x) <=> Holders(x) = {}
  BY <1>1, <1>2, <1>3 DEF Own
<1>4. ASSUME NEW x, x \notin free
      PROVE  Own(x) <=> Holders(x) # {} /\ \A g, h \in Holders(x) : g = h
  <2>1. ASSUME Own(x) PROVE Holders(x) # {} /\ \A g, h \in Holders(x) : g = h
    <3>1. PICK p \in Proc, i \in Place :
            /\ x \in Held[p][i]
            /\ \A q \in Proc, j \in Place : x \in Held[q][j] => q = p /\ j = i
      BY <1>4, <2>1 DEF Own
    <3>2. \A h \in Holders(x) : h = <<p, i>>
      BY <1>2, <3>1
    <3>3. <<p, i>> \in Holders(x)
      BY <1>1, <3>1
    <3>. QED
      BY <3>2, <3>3
  <2>2. ASSUME Holders(x) # {}, \A g, h \in Holders(x) : g = h PROVE Own(x)
    <3>1. PICK p \in Proc, i \in Place : x \in Held[p][i]
      BY <1>2, <2>2
    <3>2. ASSUME NEW q \in Proc, NEW j \in Place, x \in Held[q][j] PROVE q = p /\ j = i
      <4>1. <<q, j>> = <<p, i>>
        BY <1>1, <2>2, <3>1, <3>2
      <4>. QED
        BY <4>1
    <3>. QED
      BY <1>4, <3>1, <3>2 DEF Own
  <2>. QED
    BY <2>1, <2>2
<1>. QED
  BY <1>3, <1>4 DEF PagesOwned

\* The same after a step.
LEMMA OwnedNext == PagesOwned' <=> (\A x \in Page : Own(x))'
  BY OwnedIs, PTL

\* kalloc() returns a page of the list.
LEMMA KallocIs == free # {} => kalloc \in free
  BY DEF kalloc

\* A page goes from the free list to place i of process p.
LEMMA TakeStep ==
  ASSUME PagesOwned, NEW x0 \in free, NEW p \in Proc, NEW i \in Place, free' = free \ {x0},
         \A q \in Proc, j \in Place, x \in Page :
           x \in Held'[q][j] <=> x \in Held[q][j] \/ (x = x0 /\ q = p /\ j = i)
  PROVE  PagesOwned'
<1>. SUFFICES ASSUME NEW x \in Page PROVE Own(x)'
  BY OwnedNext
<1>1. Own(x)
  BY OwnedIs
<1>2. \A q \in Proc, j \in Place :
         x \in Held'[q][j] <=> x \in Held[q][j] \/ (x = x0 /\ q = p /\ j = i)
  OBVIOUS
<1>3. CASE x = x0
  BY <1>1, <1>2, <1>3 DEF Own
<1>4. CASE x # x0
  BY <1>1, <1>2, <1>4 DEF Own
<1>. QED
  BY <1>3, <1>4

\* No place gets a page, and the free list gets what places lose.
LEMMA GiveStep ==
  ASSUME PagesOwned,
         \A q \in Proc, j \in Place, x \in Page : x \in Held'[q][j] => x \in Held[q][j],
         \A x \in Page :
           x \in free' <=> \/ x \in free
                           \/ \E q \in Proc, j \in Place : x \in Held[q][j] /\ x \notin Held'[q][j]
  PROVE  PagesOwned'
<1>. SUFFICES ASSUME NEW x \in Page PROVE Own(x)'
  BY OwnedNext
<1>1. Own(x)
  BY OwnedIs
<1>2. \A q \in Proc, j \in Place : x \in Held'[q][j] => x \in Held[q][j]
  OBVIOUS
<1>3. CASE x \in free
  BY <1>1, <1>2, <1>3 DEF Own
<1>4. CASE x \notin free
  <2>1. PICK p \in Proc, i \in Place :
          /\ x \in Held[p][i]
          /\ \A q \in Proc, j \in Place : x \in Held[q][j] => q = p /\ j = i
    BY <1>1, <1>4 DEF Own
  <2>2. x \in free' <=> x \notin Held'[p][i]
    BY <1>2, <1>4, <2>1
  <2>. QED
    BY <1>2, <2>1, <2>2 DEF Own
<1>. QED
  BY <1>3, <1>4

\* A page goes from where it was allocated to place i; place l has its table.
LEMMA MapStep ==
  ASSUME PagesOwned, NEW p \in Proc, NEW m \in Page, Held[p][Fresh] = {m},
         NEW i \in Place, NEW l \in Place, i # l, i # Fresh, l # Fresh,
         NEW tab, tab \in free \/ tab \in Held[p][l],
         free' = free \ {tab},
         \A q \in Proc, j \in Place, x \in Page :
           x \in Held'[q][j] <=>
             \/ x \in Held[q][j] /\ ~(q = p /\ j = Fresh)
             \/ x = m /\ q = p /\ j = i
             \/ x = tab /\ q = p /\ j = l
  PROVE  PagesOwned'
<1>. SUFFICES ASSUME NEW x \in Page PROVE Own(x)'
  BY OwnedNext
<1>1. Own(x) /\ Own(m) /\ Fresh \in Place
  BY OwnedIs, PlaceIs
<1>2. \A q \in Proc, j \in Place :
        x \in Held'[q][j] <=>
          \/ x \in Held[q][j] /\ ~(q = p /\ j = Fresh)
          \/ x = m /\ q = p /\ j = i
          \/ x = tab /\ q = p /\ j = l
  OBVIOUS
<1>3. m \notin free /\ \A q \in Proc, j \in Place : m \in Held[q][j] => q = p /\ j = Fresh
  BY <1>1 DEF Own
<1>4. m # tab
  BY <1>3
<1>5. CASE x = m
  <2>1. x \notin free'
    BY <1>3, <1>5
  <2>2. \A q \in Proc, j \in Place : ~(x \in Held[q][j] /\ ~(q = p /\ j = Fresh)) /\ x # tab
    BY <1>3, <1>4, <1>5
  <2>3. \A q \in Proc, j \in Place : x \in Held'[q][j] <=> q = p /\ j = i
    BY ONLY <1>2, <1>5, <2>2, i \in Place, p \in Proc, x \in Page
  <2>. QED
    BY <2>1, <2>3 DEF Own
<1>6. CASE x = tab
  <2>1. x \notin free'
    BY <1>6
  <2>2. \A q \in Proc, j \in Place : x \in Held[q][j] => q = p /\ j = l
    BY <1>1, <1>6 DEF Own
  <2>3. \A q \in Proc, j \in Place : x \in Held'[q][j] <=> q = p /\ j = l
    BY <1>2, <1>4, <1>6, <2>2
  <2>. QED
    BY <2>1, <2>3 DEF Own
<1>7. CASE x # m /\ x # tab
  <2>1. x \notin Held[p][Fresh]
    BY <1>7
  <2>2. \A q \in Proc, j \in Place : x \in Held[q][j] => ~(q = p /\ j = Fresh)
    BY <2>1
  <2>3. \A q \in Proc, j \in Place : x \in Held'[q][j] <=> x \in Held[q][j]
    BY ONLY <1>2, <1>7, <2>2
  <2>. QED
    BY <1>1, <1>7, <2>3 DEF Own
<1>. QED
  BY <1>5, <1>6, <1>7

\* The address space p has built becomes that of q, whose old one is freed.
LEMMA MoveStep ==
  ASSUME PagesOwned, NEW p \in Proc, NEW q \in Proc,
         \A x \in Page : x \in free' <=> x \in free \/ \E k \in Part : x \in Held[q][InAs(k)],
         \A k \in Part, x \in Page : /\ x \in Held'[q][InAs(k)] <=> x \in Held[p][InNew(k)]
                                     /\ x \notin Held'[p][InNew(k)],
         \A r \in Proc, j \in Place :
           \/ r = q /\ \E k \in Part : j = InAs(k)
           \/ r = p /\ \E k \in Part : j = InNew(k)
           \/ Held'[r][j] = Held[r][j]
  PROVE  PagesOwned'
<1>. SUFFICES ASSUME NEW x \in Page PROVE Own(x)'
  BY OwnedNext
<1>1. Own(x) /\ \A k \in Part : InAs(k) \in Place /\ InNew(k) \in Place
  BY OwnedIs, PlaceIs
<1>2. /\ x \in free' <=> x \in free \/ \E k \in Part : x \in Held[q][InAs(k)]
      /\ \A k \in Part : /\ x \in Held'[q][InAs(k)] <=> x \in Held[p][InNew(k)]
                         /\ x \notin Held'[p][InNew(k)]
  OBVIOUS
<1>3. \A r \in Proc, j \in Place : x \in Held'[r][j] =>
        \/ x \in Held[r][j] /\ ~(r = q /\ \E k \in Part : j = InAs(k))
        \/ r = q /\ \E k \in Part : j = InAs(k) /\ x \in Held[p][InNew(k)]
  BY <1>2
<1>4. CASE x \in free
  <2>1. \A r \in Proc, j \in Place : x \notin Held'[r][j]
    BY <1>1, <1>3, <1>4 DEF Own
  <2>. QED
    BY <1>2, <1>4, <2>1 DEF Own
<1>5. CASE x \notin free
  <2>. PICK r0 \in Proc, i0 \in Place :
         /\ x \in Held[r0][i0]
         /\ \A r \in Proc, j \in Place : x \in Held[r][j] => r = r0 /\ j = i0
    BY <1>1, <1>5 DEF Own
  <2>1. CASE r0 = q /\ \E k \in Part : i0 = InAs(k)
    <3>1. x \in free'
      BY <1>2, <2>1
    <3>2. \A k \in Part : x \notin Held[p][InNew(k)]
      <4>. PICK k0 \in Part : i0 = InAs(k0)
        BY <2>1
      <4>. SUFFICES ASSUME NEW k \in Part, x \in Held[p][InNew(k)] PROVE FALSE
        OBVIOUS
      <4>1. InNew(k) = InAs(k0)
        BY <1>1
      <4>. QED
        BY ONLY <4>1, Different
    <3>3. \A r \in Proc, j \in Place : x \notin Held'[r][j]
      BY <1>3, <2>1, <3>2
    <3>. QED
      BY <3>1, <3>3 DEF Own
  <2>2. CASE ~(r0 = q /\ \E k \in Part : i0 = InAs(k))
    <3>1. x \notin free'
      BY <1>1, <1>2, <1>5, <2>2
    <3>2. CASE r0 = p /\ \E k \in Part : i0 = InNew(k)
      <4>. PICK k \in Part : i0 = InNew(k)
        BY <3>2
      <4>1. x \in Held'[q][InAs(k)]
        BY <1>2, <3>2
      <4>2. ASSUME NEW r \in Proc, NEW j \in Place, x \in Held'[r][j] PROVE r = q /\ j = InAs(k)
        <5>1. ~(x \in Held[r][j] /\ ~(r = q /\ \E l \in Part : j = InAs(l)))
          <6>. SUFFICES ASSUME x \in Held[r][j] PROVE FALSE
            OBVIOUS
          <6>1. r = p /\ j = InNew(k)
            BY <3>2
          <6>. QED
            BY <1>2, <4>2, <6>1
        <5>2. PICK l \in Part : r = q /\ j = InAs(l) /\ x \in Held[p][InNew(l)]
          BY <1>3, <4>2, <5>1
        <5>3. InNew(l) = InNew(k)
          BY <1>1, <5>2
        <5>4. l = k
          BY ONLY <5>3, Different
        <5>. QED
          BY <5>2, <5>4
      <4>. QED
        BY <1>1, <3>1, <4>1, <4>2 DEF Own
    <3>3. CASE ~(r0 = p /\ \E k \in Part : i0 = InNew(k))
      <4>1. x \in Held'[r0][i0]
        BY <2>2, <3>3
      <4>2. ASSUME NEW r \in Proc, NEW j \in Place, x \in Held'[r][j] PROVE r = r0 /\ j = i0
        <5>1. \A k \in Part : x \notin Held[p][InNew(k)]
          BY <1>1, <3>3
        <5>. QED
          BY <1>3, <4>2, <5>1
      <4>. QED
        BY <3>1, <4>1, <4>2 DEF Own
    <3>. QED
      BY <3>2, <3>3
  <2>. QED
    BY <2>1, <2>2
<1>. QED
  BY <1>4, <1>5

\* A place where nothing changes.
LEMMA Frame ==
  ASSUME NEW q \in Proc, NEW j \in Place
  PROVE  /\ kstack'[q] = kstack[q] /\ j = Stack => Held'[q][j] = Held[q][j]
         /\ job'[q].mem = job[q].mem /\ j = Fresh => Held'[q][j] = Held[q][j]
         /\ as'[q] = as[q] /\ (\E k \in Part : j = InAs(k)) => Held'[q][j] = Held[q][j]
         /\ new'[q] = new[q] /\ (\E k \in Part : j = InNew(k)) => Held'[q][j] = Held[q][j]
         /\ \/ j = Stack \/ j = Fresh
            \/ \E k \in Part : j = InAs(k)
            \/ \E k \in Part : j = InNew(k)
<1>1. kstack'[q] = kstack[q] /\ j = Stack => Held'[q][j] = Held[q][j]
  BY HeldAt
<1>2. job'[q].mem = job[q].mem /\ j = Fresh => Held'[q][j] = Held[q][j]
  BY HeldAt
<1>3. ASSUME as'[q] = as[q], NEW k \in Part, j = InAs(k) PROVE Held'[q][j] = Held[q][j]
  <2>1. Held[q][InAs(k)] = InPart(as[q], k) /\ Held'[q][InAs(k)] = InPart(as'[q], k)
    BY HeldAt
  <2>. QED
    BY <1>3, <2>1
<1>4. ASSUME new'[q] = new[q], NEW k \in Part, j = InNew(k) PROVE Held'[q][j] = Held[q][j]
  <2>1. Held[q][InNew(k)] = InPart(new[q], k) /\ Held'[q][InNew(k)] = InPart(new'[q], k)
    BY HeldAt
  <2>. QED
    BY <1>4, <2>1
<1>. QED
  BY <1>1, <1>2, <1>3, <1>4, PlaceIs

\* No page moves.
LEMMA NoStep ==
  ASSUME PagesOwned, UNCHANGED <<free, kstack, as, new>>, \A q \in Proc : job'[q].mem = job[q].mem
  PROVE  PagesOwned'
<1>. SUFFICES ASSUME NEW x \in Page PROVE Own(x)'
  BY OwnedNext
<1>1. Own(x)
  BY OwnedIs
<1>2. \A q \in Proc, j \in Place : Held'[q][j] = Held[q][j]
  BY Frame
<1>. QED
  BY <1>1, <1>2 DEF Own

\* Nothing is under way.
LEMMA NoJobIs ==
  /\ NoJob \in Jobs
  /\ NoJob.op = "none" /\ NoJob.mem = 0 /\ NoJob.a = 0 /\ NoJob.oldsz = 0 /\ NoJob.newsz = 0
  BY Sizes DEF NoJob, Jobs

\* A process to which nothing happens.
LEMMA LifeFrame ==
  ASSUME NEW q \in Proc, Life(q), state'[q] = state[q], kstack'[q] = kstack[q], as'[q] = as[q],
         pc'[q] = pc[q], job'[q] = job[q], new'[q] = new[q]
  PROVE  Life(q)'
  BY DEF Life

\* The types of a job, and of an address space.
LEMMA JobIs ==
  ASSUME Types, NEW q \in Proc
  PROVE  /\ job[q] \in Jobs
         /\ job[q].op \in {"none", "fork", "exec", "stack", "grow"} /\ job[q].child \in Proc
         /\ job[q].a \in Nat /\ job[q].oldsz \in Nat /\ job[q].newsz \in 0 .. KERNBASE - 1
         /\ job[q].mem \in Page \cup {0}
  BY DEF Types, Jobs

\* The types of an address space.
LEMMA SpaceIs ==
  ASSUME NEW s \in Spaces
  PROVE  /\ s.dir \in Page \cup {0} /\ s.ktab \subseteq Page
         /\ s.utab \in [UTab -> Page \cup {0}] /\ s.pte \in [VPage -> Page \cup {0}]
  BY DEF Spaces

\* What deallocuvm() leaves and frees.
LEMMA UnmappedIs ==
  ASSUME NEW s \in Spaces, NEW vs \in SUBSET VPage
  PROVE  /\ Unmapped(s, vs) \in Spaces
         /\ \A v \in VPage : Unmapped(s, vs).pte[v] = IF v \in vs THEN 0 ELSE s.pte[v]
         /\ \A x \in Page, k \in Part :
              x \in InPart(Unmapped(s, vs), k) <=>
                x \in InPart(s, k) /\ ~\E v \in vs : k = <<"pte", v>>
         /\ Freed(s, vs) \subseteq Page
         /\ \A x \in Page : x \in Freed(s, vs) <=> \E v \in vs : x \in InPart(s, <<"pte", v>>)
<1>. DEFINE u == Unmapped(s, vs)
            P == [v \in VPage |-> IF v \in vs THEN 0 ELSE s.pte[v]]
<1>1. u = [s EXCEPT !.pte = P]
  BY DEF Unmapped
<1>2. u.dir = s.dir /\ u.ktab = s.ktab /\ u.utab = s.utab /\ u.pte = P
  BY <1>1 DEF Spaces
<1>3. P \in [VPage -> Page \cup {0}]
  BY SpaceIs
<1>4. u \in Spaces
  BY <1>1, <1>3 DEF Spaces
<1>5. \A v \in VPage : u.pte[v] = IF v \in vs THEN 0 ELSE s.pte[v]
  BY <1>2
<1>. HIDE DEF u, P
<1>6. ASSUME NEW x \in Page, NEW k \in Part
      PROVE  x \in InPart(u, k) <=> x \in InPart(s, k) /\ ~\E v \in vs : k = <<"pte", v>>
  <2>1. CASE k = <<"dir", 0>> \/ k = <<"ktab", 0>>
    BY <1>2, <2>1, InPartIs
  <2>2. ASSUME NEW t \in UTab, k = <<"utab", t>>
        PROVE  x \in InPart(u, k) <=> x \in InPart(s, k) /\ ~\E v \in vs : k = <<"pte", v>>
    BY <1>2, <2>2, InPartIs
  <2>3. ASSUME NEW v \in VPage, k = <<"pte", v>>
        PROVE  x \in InPart(u, k) <=> x \in InPart(s, k) /\ ~\E w \in vs : k = <<"pte", w>>
    <3>1. (\E w \in vs : k = <<"pte", w>>) <=> v \in vs
      BY <2>3
    <3>2. InPart(u, k) = {u.pte[v]} /\ InPart(s, k) = {s.pte[v]}
      BY <2>3, InPartIs
    <3>3. x # 0
      BY Sizes
    <3>. QED
      BY <1>5, <3>1, <3>2, <3>3
  <2>. QED
    BY <2>1, <2>2, <2>3, PartIs
<1>7. Freed(s, vs) \subseteq Page
  BY SpaceIs DEF Freed
<1>8. ASSUME NEW x \in Page
      PROVE  x \in Freed(s, vs) <=> \E v \in vs : x \in InPart(s, <<"pte", v>>)
  <2>1. x # 0
    BY Sizes
  <2>2. \A v : InPart(s, <<"pte", v>>) = {s.pte[v]}
    BY InPartIs
  <2>. QED
    BY <2>1, <2>2 DEF Freed
<1>. QED
  BY <1>4, <1>5, <1>6, <1>7, <1>8 DEF u

\* deallocuvm() of some of p's pages, with the page p was about to map.
LEMMA UnmapStep ==
  ASSUME Types, PagesOwned, NEW p \in Proc, NEW vs \in SUBSET VPage,
         UNCHANGED <<kstack, new>>, as' = [as EXCEPT ![p] = Unmapped(as[p], vs)],
         job'[p].mem = 0, \A r \in Proc \ {p} : job'[r].mem = job[r].mem,
         free' = free \cup ({job[p].mem} \ {0}) \cup Freed(as[p], vs)
  PROVE  PagesOwned'
<1>. DEFINE Gone(j) == j = Fresh \/ \E v \in vs : j = InAs(<<"pte", v>>)
<1>0. as[p] \in Spaces /\ as'[p] = Unmapped(as[p], vs) /\ \A r \in Proc \ {p} : as'[r] = as[r]
  BY DEF Types
<1>1. ASSUME NEW r \in Proc, NEW j \in Place, NEW x \in Page
      PROVE  x \in Held'[r][j] <=> x \in Held[r][j] /\ ~(r = p /\ Gone(j))
  <2>1. CASE r # p \/ (j # Fresh /\ \A k \in Part : j # InAs(k))
    <3>1. Held'[r][j] = Held[r][j]
      BY <1>0, <2>1, Frame
    <3>2. ~(r = p /\ Gone(j))
      BY <2>1, PartIs
    <3>. QED
      BY <3>1, <3>2
  <2>2. CASE r = p /\ j = Fresh
    <3>1. Held'[p][Fresh] = {job'[p].mem} /\ x # 0
      BY HeldAt, Sizes
    <3>. QED
      BY <2>2, <3>1
  <2>3. ASSUME r = p, NEW k \in Part, j = InAs(k)
        PROVE  x \in Held'[r][j] <=> x \in Held[r][j] /\ ~(r = p /\ Gone(j))
    <3>1. Held'[p][InAs(k)] = InPart(as'[p], k) /\ Held[p][InAs(k)] = InPart(as[p], k)
      BY HeldAt
    <3>2. x \in InPart(as'[p], k) <=> x \in InPart(as[p], k) /\ ~\E v \in vs : k = <<"pte", v>>
      BY <1>0, UnmappedIs
    <3>3. Gone(j) <=> \E v \in vs : k = <<"pte", v>>
      BY <2>3, Different
    <3>. QED
      BY <2>3, <3>1, <3>2, <3>3
  <2>. QED
    BY <2>1, <2>2, <2>3
<1>2. ASSUME NEW x \in Page
      PROVE  x \in free' <=> \/ x \in free \/ x \in Held[p][Fresh]
                             \/ \E v \in vs : x \in Held[p][InAs(<<"pte", v>>)]
  <2>1. x # 0 /\ Held[p][Fresh] = {job[p].mem}
    BY HeldAt, Sizes
  <2>2. \A v \in vs : Held[p][InAs(<<"pte", v>>)] = InPart(as[p], <<"pte", v>>)
    BY PartIs, HeldAt
  <2>3. x \in Freed(as[p], vs) <=> \E v \in vs : x \in InPart(as[p], <<"pte", v>>)
    <3>. DEFINE s == as[p]
    <3>1. s \in Spaces
      BY <1>0
    <3>. HIDE DEF s
    <3>2. x \in Freed(s, vs) <=> \E v \in vs : x \in InPart(s, <<"pte", v>>)
      BY ONLY <3>1, UnmappedIs, x \in Page, vs \in SUBSET VPage
    <3>. QED
      BY <3>2 DEF s
  <2>. QED
    BY <2>1, <2>2, <2>3
<1>3. Fresh \in Place /\ \A v \in vs : InAs(<<"pte", v>>) \in Place
  BY PartIs, PlaceIs
<1>4. \A r \in Proc, j \in Place, x \in Page : x \in Held'[r][j] => x \in Held[r][j]
  BY <1>1
<1>5. ASSUME NEW x \in Page
      PROVE  x \in free' <=> \/ x \in free
                             \/ \E r \in Proc, j \in Place :
                                  x \in Held[r][j] /\ x \notin Held'[r][j]
  BY <1>1, <1>2, <1>3
<1>. QED
  BY ONLY <1>4, <1>5, GiveStep, PagesOwned

\* The page the loop is at is one of the user half.
LEMMA LoopPage ==
  ASSUME NEW a \in Nat, a < KERNBASE
  PROVE  a \div PGSIZE \in VPage /\ PDX(a \div PGSIZE) \in UTab
<1>1. a \div PGSIZE \in 0 .. NVPAGE - 1
  <2>. DEFINE v == a \div PGSIZE
  <2>1. v \in Nat /\ v * PGSIZE <= a
    BY Sizes
  <2>2. v * PGSIZE < NVPAGE * PGSIZE
    BY <2>1, Sizes DEF KERNBASE
  <2>. HIDE DEF v
  <2>3. v < NVPAGE
    BY <2>1, <2>2, Sizes
  <2>. QED
    BY <2>1, <2>3, Sizes DEF v
<1>. QED
  BY <1>1 DEF VPage, UTab

\* The pages of n bytes.
LEMMA RoundUp ==
  ASSUME NEW n \in Nat
  PROVE  /\ Up(n) \in Nat /\ PGROUNDUP(n) = Base(Up(n)) /\ PGROUNDUP(n) \in Nat
         /\ \A v \in Nat : Base(v) < n <=> v < Up(n)
<1>. DEFINE k == Up(n)
<1>1. k \in Nat /\ k * PGSIZE <= n + PGSIZE - 1 /\ n + PGSIZE - 1 < k * PGSIZE + PGSIZE
  BY Sizes DEF Up
<1>2. PGROUNDUP(n) = k * PGSIZE
  BY DEF PGROUNDUP, Up
<1>. HIDE DEF k
<1>3. k * PGSIZE \in Nat
  BY <1>1, Sizes
<1>4. ASSUME NEW v \in Nat, v < k PROVE v * PGSIZE < n
  <2>1. v * PGSIZE <= (k - 1) * PGSIZE /\ (k - 1) * PGSIZE = k * PGSIZE - PGSIZE
    BY <1>1, <1>4, Sizes
  <2>2. v * PGSIZE \in Nat
    BY Sizes
  <2>. QED
    BY <1>1, <1>3, <2>1, <2>2, Sizes
<1>5. ASSUME NEW v \in Nat, v >= k PROVE ~(v * PGSIZE < n)
  <2>1. v * PGSIZE >= k * PGSIZE
    BY <1>1, <1>5, Sizes
  <2>2. v * PGSIZE \in Nat
    BY Sizes
  <2>. QED
    BY <1>1, <1>3, <2>1, <2>2, Sizes
<1>6. \A v \in Nat : v < k \/ v >= k
  BY <1>1
<1>. QED
  BY <1>1, <1>2, <1>3, <1>4, <1>5, <1>6 DEF Base, k

-----------------------------------------------------------------------------
(* The steps: who owns the pages *)

\* The step Exec preserves ownership.
LEMMA Exec_Owned ==
  ASSUME Owned, NEW p \in Proc, Exec(p)
  PROVE  Owned'
<1>. Types /\ LifeInv /\ ForkInv /\ PagesOwned
  BY DEF Owned
<1>. PICK m \in Images : job' = [job EXCEPT ![p] = [NoJob EXCEPT !.op = "exec", !.newsz = m]]
  BY DEF Exec
<1>. /\ pc[p] = "user" /\ state[p] = "run" /\ pc' = [pc EXCEPT ![p] = "setupkvm"]
     /\ UNCHANGED <<free, state, kstack, as, sz, new>>
  BY DEF Exec, Goto, procVars
<1>. DEFINE J == [NoJob EXCEPT !.op = "exec", !.newsz = m]
<1>. J \in Jobs /\ J.op = "exec" /\ J.mem = 0 /\ J.newsz = m /\ J.a = 0
  <2>1. m \in 0 .. KERNBASE - 1
    BY Sizes
  <2>. QED
    BY <2>1, NoJobIs DEF Jobs
<1>. HIDE DEF J
<1>. job' = [job EXCEPT ![p] = J]
  BY DEF J
<1>1. Types'
  BY DEF Types
<1>2. LifeInv'
  <2>1. ASSUME NEW r \in Proc \ {p} PROVE Life(r)'
    <3>1. /\ state'[r] = state[r] /\ kstack'[r] = kstack[r] /\ as'[r] = as[r]
          /\ pc'[r] = pc[r] /\ job'[r] = job[r] /\ new'[r] = new[r]
      BY DEF Types
    <3>. QED
      BY <3>1, LifeFrame DEF LifeInv
  <2>2. Life(p)'
    BY NoJobIs DEF Types, LifeInv, Life
  <2>. QED
    BY <2>1, <2>2 DEF LifeInv
<1>3. ForkInv'
  BY NoJobIs, JobIs DEF Types, LifeInv, Life, ForkInv
<1>4. PagesOwned'
  <2>1. \A r \in Proc : job'[r].mem = job[r].mem
    BY NoJobIs DEF Types, LifeInv, Life
  <2>. QED
    BY <2>1, NoStep
<1>. QED
  BY <1>1, <1>2, <1>3, <1>4 DEF Owned

\* The step Setupkvm preserves ownership.
LEMMA Setupkvm_Owned ==
  ASSUME Owned, NEW p \in Proc, Setupkvm(p)
  PROVE  Owned'
<1>. Types /\ LifeInv /\ ForkInv /\ PagesOwned
  BY DEF Owned
<1>. PICK l \in {"alloc", "setupkvm"} : pc' = [pc EXCEPT ![p] = l]
  BY DEF Setupkvm, Goto
<1>. DEFINE s == new[p]
            S == IF s.dir = 0 THEN [s EXCEPT !.dir = kalloc]
                 ELSE [s EXCEPT !.ktab = @ \cup {kalloc}]
            k0 == IF s.dir = 0 THEN <<"dir", 0>> ELSE <<"ktab", 0>>
<1>. /\ pc[p] = "setupkvm" /\ kalloc \in free /\ free' = free \ {kalloc}
     /\ new' = [new EXCEPT ![p] = S]
     /\ UNCHANGED <<state, kstack, as, sz, job>>
  BY KallocIs DEF Setupkvm, Taken, procVars
<1>. kalloc \in Page /\ s \in Spaces
  BY DEF Types
<1>. S \in Spaces
  BY DEF Spaces
<1>. k0 \in Part /\
        \A x \in Page, k \in Part : x \in InPart(S, k) <=> x \in InPart(s, k) \/ (x = kalloc /\ k = k0)
  <2>1. k0 \in Part
    BY PartIs
  <2>2. /\ S.utab = s.utab /\ S.pte = s.pte
        /\ s.dir = 0 => S.dir = kalloc /\ S.ktab = s.ktab
        /\ s.dir # 0 => S.dir = s.dir /\ S.ktab = s.ktab \cup {kalloc}
    BY DEF Spaces
  <2>. HIDE DEF S, s
  <2>3. ASSUME NEW x \in Page, NEW k \in Part
        PROVE  x \in InPart(S, k) <=> x \in InPart(s, k) \/ (x = kalloc /\ k = k0)
    <3>1. CASE k = <<"dir", 0>>
      BY <2>2, <3>1, InPartIs, Sizes
    <3>2. CASE k = <<"ktab", 0>>
      BY <2>2, <3>2, InPartIs, Sizes
    <3>3. ASSUME NEW t \in UTab, k = <<"utab", t>>
          PROVE  x \in InPart(S, k) <=> x \in InPart(s, k) \/ (x = kalloc /\ k = k0)
      BY <2>2, <3>3, InPartIs
    <3>4. ASSUME NEW v \in VPage, k = <<"pte", v>>
          PROVE  x \in InPart(S, k) <=> x \in InPart(s, k) \/ (x = kalloc /\ k = k0)
      BY <2>2, <3>4, InPartIs
    <3>. QED
      BY <3>1, <3>2, <3>3, <3>4, PartIs
  <2>. QED
    BY <2>1, <2>3 DEF S, s
<1>. HIDE DEF S, k0
<1>1. Types'
  BY DEF Types
<1>2. LifeInv'
  <2>1. ASSUME NEW r \in Proc \ {p} PROVE Life(r)'
    <3>1. /\ state'[r] = state[r] /\ kstack'[r] = kstack[r] /\ as'[r] = as[r]
          /\ pc'[r] = pc[r] /\ job'[r] = job[r] /\ new'[r] = new[r]
      BY DEF Types
    <3>. QED
      BY <3>1, LifeFrame DEF LifeInv
  <2>2. Life(p)'
    BY NoJobIs DEF Types, LifeInv, Life
  <2>. QED
    BY <2>1, <2>2 DEF LifeInv
<1>3. ForkInv'
  BY NoJobIs, JobIs DEF Types, LifeInv, Life, ForkInv
<1>4. PagesOwned'
  <2>1. ASSUME NEW r \in Proc, NEW j \in Place, NEW x \in Page
        PROVE  x \in Held'[r][j] <=> x \in Held[r][j] \/ (x = kalloc /\ r = p /\ j = InNew(k0))
    <3>1. CASE r # p \/ \A k \in Part : j # InNew(k)
      <4>1. kstack'[r] = kstack[r] /\ job'[r].mem = job[r].mem /\ as'[r] = as[r]
            /\ (r # p => new'[r] = new[r])
        BY DEF Types
      <4>2. Held'[r][j] = Held[r][j]
        BY <3>1, <4>1, Frame
      <4>. QED
        BY <3>1, <4>2
    <3>2. ASSUME r = p, NEW k \in Part, j = InNew(k)
          PROVE  x \in Held'[r][j] <=> x \in Held[r][j] \/ (x = kalloc /\ r = p /\ j = InNew(k0))
      <4>1. Held'[r][j] = InPart(S, k) /\ Held[r][j] = InPart(new[p], k)
        BY <3>2, HeldAt DEF Types
      <4>2. InNew(k) = InNew(k0) <=> k = k0
        BY Different
      <4>. QED
        BY <3>2, <4>1, <4>2
    <3>. QED
      BY <3>1, <3>2
  <2>2. InNew(k0) \in Place
    BY PlaceIs
  <2>. QED
    BY <2>1, <2>2, TakeStep
<1>. QED
  BY <1>1, <1>2, <1>3, <1>4 DEF Owned

\* The step SetupkvmFails preserves ownership.
LEMMA SetupkvmFails_Owned ==
  ASSUME Owned, NEW p \in Proc, SetupkvmFails(p)
  PROVE  Owned'
<1>. Types /\ LifeInv /\ ForkInv /\ PagesOwned
  BY DEF Owned
<1>. /\ pc[p] = "setupkvm" /\ pc' = [pc EXCEPT ![p] = "bad"]
     /\ UNCHANGED <<free, state, kstack, as, sz, new, job>>
  BY DEF SetupkvmFails, Goto, procVars
<1>1. Types'
  BY DEF Types
<1>2. LifeInv'
  <2>1. ASSUME NEW r \in Proc \ {p} PROVE Life(r)'
    <3>1. /\ state'[r] = state[r] /\ kstack'[r] = kstack[r] /\ as'[r] = as[r]
          /\ pc'[r] = pc[r] /\ job'[r] = job[r] /\ new'[r] = new[r]
      BY DEF Types
    <3>. QED
      BY <3>1, LifeFrame DEF LifeInv
  <2>2. Life(p)'
    BY NoJobIs DEF Types, LifeInv, Life
  <2>. QED
    BY <2>1, <2>2 DEF LifeInv
<1>3. ForkInv'
  BY NoJobIs, JobIs DEF Types, LifeInv, Life, ForkInv
<1>4. PagesOwned'
  <2>1. \A r \in Proc : job'[r].mem = job[r].mem
    BY NoJobIs DEF Types, LifeInv, Life
  <2>. QED
    BY <2>1, NoStep
<1>. QED
  BY <1>1, <1>2, <1>3, <1>4 DEF Owned

\* The step AllocPage preserves ownership.
LEMMA AllocPage_Owned ==
  ASSUME Owned, NEW p \in Proc, AllocPage(p)
  PROVE  Owned'
<1>. Types /\ LifeInv /\ ForkInv /\ PagesOwned
  BY DEF Owned
<1>. /\ pc[p] = "alloc" /\ kalloc \in free /\ free' = free \ {kalloc}
     /\ job[p].a < job[p].newsz /\ pc' = [pc EXCEPT ![p] = "map"]
     /\ job' = [job EXCEPT ![p].mem = kalloc]
     /\ UNCHANGED <<state, kstack, as, sz, new>>
  BY KallocIs DEF AllocPage, Taken, Goto, procVars
<1>. kalloc \in Page /\ kalloc # 0
  BY Sizes DEF Types
<1>. DEFINE J == [job[p] EXCEPT !.mem = kalloc]
<1>. J \in Jobs /\ J.op = job[p].op /\ J.child = job[p].child
     /\ J.mem = kalloc /\ J.newsz = job[p].newsz /\ J.a = job[p].a
  BY JobIs DEF Jobs
<1>. HIDE DEF J
<1>. job' = [job EXCEPT ![p] = J]
  BY JobIs DEF J
<1>1. Types'
  BY DEF Types
<1>2. LifeInv'
  <2>1. ASSUME NEW r \in Proc \ {p} PROVE Life(r)'
    <3>1. /\ state'[r] = state[r] /\ kstack'[r] = kstack[r] /\ as'[r] = as[r]
          /\ pc'[r] = pc[r] /\ job'[r] = job[r] /\ new'[r] = new[r]
      BY DEF Types
    <3>. QED
      BY <3>1, LifeFrame DEF LifeInv
  <2>2. Life(p)'
    BY NoJobIs DEF Types, LifeInv, Life
  <2>. QED
    BY <2>1, <2>2 DEF LifeInv
<1>3. ForkInv'
  BY NoJobIs, JobIs DEF Types, LifeInv, Life, ForkInv
<1>4. PagesOwned'
  <2>1. ASSUME NEW r \in Proc, NEW j \in Place, NEW x \in Page
        PROVE  x \in Held'[r][j] <=> x \in Held[r][j] \/ (x = kalloc /\ r = p /\ j = Fresh)
    <3>1. CASE r # p \/ j # Fresh
      <4>1. kstack'[r] = kstack[r] /\ (r # p => job'[r].mem = job[r].mem)
            /\ as'[r] = as[r] /\ new'[r] = new[r]
        BY DEF Types
      <4>2. Held'[r][j] = Held[r][j]
        BY <3>1, <4>1, Frame
      <4>. QED
        BY <3>1, <4>2
    <3>2. CASE r = p /\ j = Fresh
      <4>1. job[p].mem = 0 /\ x # 0 /\ job'[p].mem = kalloc
        BY Sizes DEF Types, LifeInv, Life
      <4>2. Held'[r][j] = {job'[p].mem} /\ Held[r][j] = {job[p].mem}
        BY <3>2, HeldAt
      <4>. QED
        BY <3>2, <4>1, <4>2
    <3>. QED
      BY <3>1, <3>2
  <2>. QED
    BY <2>1, TakeStep, PlaceIs
<1>. QED
  BY <1>1, <1>2, <1>3, <1>4 DEF Owned

\* The step Map preserves ownership.
LEMMA Map_Owned ==
  ASSUME Owned, NEW p \in Proc, Map(p)
  PROVE  Owned'
<1>. Types /\ LifeInv /\ ForkInv /\ PagesOwned
  BY DEF Owned
<1>. DEFINE s == Space(p)
            a == job[p].a
            v == a \div PGSIZE
            t == PDX(v)
            m == job[p].mem
            tab == IF s.utab[t] = 0 THEN kalloc ELSE s.utab[t]
            S == [s EXCEPT !.utab[t] = tab, !.pte[v] = m]
<1>. /\ pc[p] = "map" /\ (s.utab[t] = 0 => free # {})
     /\ s.pte[v] = 0 /\ SetSpace(p, S)
     /\ free' = free \ {tab} /\ pc' = [pc EXCEPT ![p] = "alloc"]
     /\ job' = [job EXCEPT ![p].a = @ + PGSIZE, ![p].mem = 0]
     /\ UNCHANGED <<state, kstack, sz>>
  BY DEF Map, Taken, Goto
<1>. v \in VPage /\ t \in UTab /\ m \in Page /\ job[p].op # "none"
  <2>1. Life(p) /\ KERNBASE \in Nat
    BY Sizes DEF LifeInv
  <2>2. /\ a \in Nat /\ job[p].newsz \in 0 .. KERNBASE - 1 /\ m \in Page \cup {0}
        /\ a < job[p].newsz /\ m # 0 /\ job[p].op # "none"
    BY <2>1, JobIs DEF Life
  <2>3. a < KERNBASE
    BY <2>1, <2>2
  <2>. QED
    BY <2>2, <2>3, LoopPage
<1>. s \in Spaces
  BY DEF Types, Space
<1>. tab \in Page /\ tab \in free \cup {s.utab[t]} /\ (tab = s.utab[t] \/ s.utab[t] = 0)
  <2>1. s.utab[t] \in Page \cup {0} /\ free \subseteq Page
    BY SpaceIs DEF Types
  <2>. QED
    BY <2>1, KallocIs
<1>. HIDE DEF s, v, t, m, tab
<1>. /\ S \in Spaces /\ S.dir = s.dir /\ S.ktab = s.ktab
     /\ S.utab = [s.utab EXCEPT ![t] = tab] /\ S.pte = [s.pte EXCEPT ![v] = m]
  BY SpaceIs DEF Spaces
<1>. HIDE DEF S
<1>. \A x \in Page, k \in Part :
       x \in InPart(S, k) <=>
         \/ x \in InPart(s, k)
         \/ x = m /\ k = <<"pte", v>>
         \/ x = tab /\ k = <<"utab", t>>
  <2>. SUFFICES ASSUME NEW x \in Page, NEW k \in Part
                PROVE  x \in InPart(S, k) <=>
                         \/ x \in InPart(s, k)
                         \/ x = m /\ k = <<"pte", v>>
                         \/ x = tab /\ k = <<"utab", t>>
    OBVIOUS
  <2>0. x # 0
    BY Sizes
  <2>1. CASE k = <<"dir", 0>> \/ k = <<"ktab", 0>>
    BY <2>1, InPartIs
  <2>2. CASE \E u \in UTab : k = <<"utab", u>>
    <3>. PICK u \in UTab : k = <<"utab", u>>
      BY <2>2
    <3>1. InPart(S, k) = {S.utab[u]} /\ InPart(s, k) = {s.utab[u]}
      BY InPartIs
    <3>2. k # <<"pte", v>> /\ (k = <<"utab", t>> <=> u = t)
      OBVIOUS
    <3>3. S.utab[u] = IF u = t THEN tab ELSE s.utab[u]
      BY SpaceIs
    <3>. QED
      BY <2>0, <3>1, <3>2, <3>3
  <2>3. CASE \E u \in VPage : k = <<"pte", u>>
    <3>. PICK u \in VPage : k = <<"pte", u>>
      BY <2>3
    <3>1. InPart(S, k) = {S.pte[u]} /\ InPart(s, k) = {s.pte[u]}
      BY InPartIs
    <3>2. k # <<"utab", t>> /\ (k = <<"pte", v>> <=> u = v)
      OBVIOUS
    <3>3. S.pte[u] = IF u = v THEN m ELSE s.pte[u]
      BY SpaceIs
    <3>. QED
      BY <2>0, <3>1, <3>2, <3>3
  <2>. QED
    BY <2>1, <2>2, <2>3, PartIs
<1>. DEFINE grow == job[p].op = "grow"
            W(k) == IF grow THEN InAs(k) ELSE InNew(k)
<1>. IF grow THEN s = as[p] /\ as' = [as EXCEPT ![p] = S] /\ UNCHANGED new
             ELSE s = new[p] /\ new' = [new EXCEPT ![p] = S] /\ UNCHANGED as
  BY DEF SetSpace, s, Space
<1>. /\ as' \in [Proc -> Spaces] /\ new' \in [Proc -> Spaces]
     /\ grow => as[p] = s /\ as'[p] = S /\ new'[p] = new[p]
     /\ ~grow => new[p] = s /\ new'[p] = S /\ as'[p] = as[p]
     /\ \A r \in Proc \ {p} : as'[r] = as[r] /\ new'[r] = new[r]
  BY DEF Types
<1>. HIDE DEF grow
<1>. DEFINE J == [job[p] EXCEPT !.a = @ + PGSIZE, !.mem = 0]
<1>. J \in Jobs /\ J.op = job[p].op /\ J.child = job[p].child /\ J.mem = 0 /\ J.newsz = job[p].newsz
  <2>1. job[p] \in Jobs /\ job[p].a + PGSIZE \in Nat
    BY JobIs, Sizes
  <2>. QED
    BY <2>1 DEF Jobs
<1>. HIDE DEF J
<1>. job' = [job EXCEPT ![p] = J]
  BY JobIs DEF J, Types, Jobs
<1>1. Types'
  <2>1. job' \in [Proc -> Jobs]
    BY DEF Types
  <2>. QED
    BY <2>1 DEF Types
<1>2. LifeInv'
  <2>1. ASSUME NEW r \in Proc \ {p} PROVE Life(r)'
    <3>1. /\ state'[r] = state[r] /\ kstack'[r] = kstack[r] /\ as'[r] = as[r]
          /\ pc'[r] = pc[r] /\ job'[r] = job[r] /\ new'[r] = new[r]
      BY DEF Types
    <3>. QED
      BY <3>1, LifeFrame DEF LifeInv
  <2>2. Life(p)'
    <3>1. Life(p) /\ job'[p] = J /\ pc'[p] = "alloc"
      BY DEF LifeInv, Types
    <3>. QED
      BY <3>1 DEF Life, grow
  <2>. QED
    BY <2>1, <2>2 DEF LifeInv
<1>3. ForkInv'
  BY NoJobIs, JobIs DEF Types, LifeInv, Life, ForkInv
<1>4. PagesOwned'
  <2>1. ASSUME NEW r \in Proc, NEW j \in Place, NEW x \in Page
        PROVE  x \in Held'[r][j] <=>
                 \/ x \in Held[r][j] /\ ~(r = p /\ j = Fresh)
                 \/ x = m /\ r = p /\ j = W(<<"pte", v>>)
                 \/ x = tab /\ r = p /\ j = W(<<"utab", t>>)
    <3>1. CASE r # p \/ j = Stack
      <4>1. kstack'[r] = kstack[r]
            /\ (r # p => job'[r].mem = job[r].mem /\ as'[r] = as[r] /\ new'[r] = new[r])
        BY DEF Types
      <4>2. Held'[r][j] = Held[r][j]
        BY <3>1, <4>1, Frame
      <4>3. j = Stack => j # Fresh /\ \A k \in Part : j # W(k)
        BY Different
      <4>. QED
        BY <3>1, <4>2, <4>3, PartIs
    <3>2. CASE r = p /\ j = Fresh
      <4>1. job'[p].mem = 0 /\ x # 0
        BY Sizes DEF Types
      <4>2. Held'[r][j] = {job'[p].mem}
        BY <3>2, HeldAt
      <4>3. \A k : j # W(k)
        BY <3>2, Different
      <4>. QED
        BY <3>2, <4>1, <4>2, <4>3
    <3>3. ASSUME r = p, NEW k \in Part, j = W(k)
          PROVE  x \in Held'[r][j] <=>
                   \/ x \in Held[r][j] /\ ~(r = p /\ j = Fresh)
                   \/ x = m /\ r = p /\ j = W(<<"pte", v>>)
                   \/ x = tab /\ r = p /\ j = W(<<"utab", t>>)
      <4>1. Held'[r][j] = InPart(S, k) /\ Held[r][j] = InPart(s, k)
        <5>1. CASE grow
          <6>1. j = InAs(k) /\ as'[p] = S /\ as[p] = s
            BY <3>3, <5>1
          <6>2. Held'[p][InAs(k)] = InPart(as'[p], k) /\ Held[p][InAs(k)] = InPart(as[p], k)
            BY HeldAt
          <6>. QED
            BY <3>3, <6>1, <6>2
        <5>2. CASE ~grow
          <6>1. j = InNew(k) /\ new'[p] = S /\ new[p] = s
            BY <3>3, <5>2
          <6>2. Held'[p][InNew(k)] = InPart(new'[p], k) /\ Held[p][InNew(k)] = InPart(new[p], k)
            BY HeldAt
          <6>. QED
            BY <3>3, <6>1, <6>2
        <5>. QED
          BY <5>1, <5>2
      <4>2. j # Fresh /\ \A l : W(k) = W(l) <=> k = l
        BY <3>3, Different
      <4>. QED
        BY <3>3, <4>1, <4>2
    <3>4. ASSUME r = p, NEW k \in Part, j = IF grow THEN InNew(k) ELSE InAs(k)
          PROVE  x \in Held'[r][j] <=>
                   \/ x \in Held[r][j] /\ ~(r = p /\ j = Fresh)
                   \/ x = m /\ r = p /\ j = W(<<"pte", v>>)
                   \/ x = tab /\ r = p /\ j = W(<<"utab", t>>)
      <4>1. Held'[r][j] = Held[r][j]
        BY <3>4, Frame
      <4>2. j # Fresh /\ \A l : j # W(l)
        BY <3>4, Different
      <4>. QED
        BY <4>1, <4>2
    <3>. QED
      <4>1. \/ j = Stack \/ j = Fresh
            \/ \E k \in Part : j = InAs(k)
            \/ \E k \in Part : j = InNew(k)
        BY PlaceIs
      <4>. QED
        BY <3>1, <3>2, <3>3, <3>4, <4>1
  <2>2. Held[p][Fresh] = {m}
    BY HeldAt DEF m
  <2>3. tab \in free \/ tab \in Held[p][W(<<"utab", t>>)]
    <3>1. <<"utab", t>> \in Part
      BY PartIs
    <3>2. Held[p][W(<<"utab", t>>)] = InPart(s, <<"utab", t>>)
      <4>1. CASE grow
        <5>1. Held[p][InAs(<<"utab", t>>)] = InPart(as[p], <<"utab", t>>)
          BY <3>1, HeldAt
        <5>. QED
          BY <4>1, <5>1
      <4>2. CASE ~grow
        <5>1. Held[p][InNew(<<"utab", t>>)] = InPart(new[p], <<"utab", t>>)
          BY <3>1, HeldAt
        <5>. QED
          BY <4>2, <5>1
      <4>. QED
        BY <4>1, <4>2
    <3>. QED
      BY <3>2, InPartIs
  <2>4. /\ W(<<"pte", v>>) \in Place /\ W(<<"utab", t>>) \in Place
        /\ W(<<"pte", v>>) # W(<<"utab", t>>)
        /\ W(<<"pte", v>>) # Fresh /\ W(<<"utab", t>>) # Fresh
    <3>1. <<"utab", t>> \in Part /\ <<"pte", v>> \in Part /\ <<"utab", t>> # <<"pte", v>>
      BY PartIs
    <3>. QED
      BY <3>1, PlaceIs, Different
  <2>. HIDE DEF W
  <2>. QED
    BY <2>1, <2>2, <2>3, <2>4, MapStep
<1>. QED
  BY <1>1, <1>2, <1>3, <1>4 DEF Owned

\* The step AllocFails preserves ownership.
LEMMA AllocFails_Owned ==
  ASSUME Owned, NEW p \in Proc, AllocFails(p)
  PROVE  Owned'
<1>. Types /\ LifeInv /\ ForkInv /\ PagesOwned
  BY DEF Owned
<1>. DEFINE vs == Above(job[p].newsz, job[p].oldsz)
<1>. /\ pc[p] \in {"alloc", "map"} /\ vs \in SUBSET VPage
     /\ UNCHANGED <<state, kstack, sz, new>>
  BY DEF AllocFails, Above
<1>. HIDE DEF vs
<1>. as[p] \in Spaces
  BY DEF Types
<1>. Unmapped(as[p], vs) \in Spaces /\ Freed(as[p], vs) \subseteq Page
  BY UnmappedIs
<1>a. CASE job[p].op = "grow"
  <2>. /\ free' = free \cup ({job[p].mem} \ {0}) \cup Freed(as[p], vs)
       /\ as' = [as EXCEPT ![p] = Unmapped(as[p], vs)]
       /\ job' = [job EXCEPT ![p] = NoJob] /\ pc' = [pc EXCEPT ![p] = "user"]
    BY <1>a DEF AllocFails, InFlight, Space, Goto, vs
  <2>1. Types'
    <3>1. free' \subseteq Page /\ job' \in [Proc -> Jobs]
      BY JobIs, NoJobIs DEF Types
    <3>. QED
      BY <3>1 DEF Types
  <2>2. LifeInv'
    <3>1. ASSUME NEW r \in Proc \ {p} PROVE Life(r)'
      <4>1. /\ state'[r] = state[r] /\ kstack'[r] = kstack[r] /\ as'[r] = as[r]
            /\ pc'[r] = pc[r] /\ job'[r] = job[r] /\ new'[r] = new[r]
        BY DEF Types
      <4>. QED
        BY <4>1, LifeFrame DEF LifeInv
    <3>2. Life(p)'
      BY <1>a, NoJobIs DEF Types, LifeInv, Life
    <3>. QED
      BY <3>1, <3>2 DEF LifeInv
  <2>3. ForkInv'
    BY <1>a, NoJobIs DEF Types, ForkInv
  <2>4. PagesOwned'
    <3>1. job'[p].mem = 0 /\ \A r \in Proc \ {p} : job'[r].mem = job[r].mem
      BY NoJobIs DEF Types
    <3>. QED
      BY <3>1, UnmapStep
  <2>. QED
    BY <2>1, <2>2, <2>3, <2>4 DEF Owned
<1>b. CASE job[p].op # "grow"
  <2>. DEFINE J == [job[p] EXCEPT !.mem = 0]
  <2>. /\ J \in Jobs /\ J.op = job[p].op /\ J.child = job[p].child /\ J.mem = 0
       /\ J.newsz = job[p].newsz /\ J.a = job[p].a
    BY JobIs DEF Jobs
  <2>. HIDE DEF J
  <2>. /\ free' = free \cup ({job[p].mem} \ {0})
       /\ job' = [job EXCEPT ![p] = J] /\ pc' = [pc EXCEPT ![p] = "bad"]
       /\ UNCHANGED as
    BY <1>b, JobIs DEF AllocFails, InFlight, Goto, J
  <2>1. Types'
    <3>1. free' \subseteq Page /\ job' \in [Proc -> Jobs]
      BY JobIs DEF Types
    <3>. QED
      BY <3>1 DEF Types
  <2>2. LifeInv'
    <3>1. ASSUME NEW r \in Proc \ {p} PROVE Life(r)'
      <4>1. /\ state'[r] = state[r] /\ kstack'[r] = kstack[r] /\ as'[r] = as[r]
            /\ pc'[r] = pc[r] /\ job'[r] = job[r] /\ new'[r] = new[r]
        BY DEF Types
      <4>. QED
        BY <4>1, LifeFrame DEF LifeInv
    <3>2. Life(p)'
      <4>1. Life(p) /\ job'[p] = J /\ pc'[p] = "bad"
            /\ job[p].op \in {"none", "fork", "exec", "stack"}
        BY <1>b, JobIs DEF LifeInv, Types
      <4>. QED
        BY <4>1 DEF Life
    <3>. QED
      BY <3>1, <3>2 DEF LifeInv
  <2>3. ForkInv'
    BY DEF Types, ForkInv
  <2>4. PagesOwned'
    <3>1. ASSUME NEW r \in Proc, NEW j \in Place, NEW x \in Page
          PROVE  IF r = p /\ j = Fresh THEN x \notin Held'[r][j] ELSE Held'[r][j] = Held[r][j]
      <4>1. CASE r = p /\ j = Fresh
        <5>1. Held'[p][Fresh] = {job'[p].mem} /\ job'[p].mem = 0 /\ x # 0
          BY HeldAt, Sizes DEF Types
        <5>. QED
          BY <4>1, <5>1
      <4>2. CASE ~(r = p /\ j = Fresh)
        <5>1. r # p => job'[r].mem = job[r].mem
          BY DEF Types
        <5>2. Held'[r][j] = Held[r][j]
          BY <4>2, <5>1, Frame
        <5>. QED
          BY <4>2, <5>2
      <4>. QED
        BY <4>1, <4>2
    <3>2. ASSUME NEW x \in Page PROVE x \in free' <=> x \in free \/ x \in Held[p][Fresh]
      BY HeldAt, Sizes
    <3>3. \A r \in Proc, j \in Place, x \in Page : x \in Held'[r][j] => x \in Held[r][j]
      BY <3>1
    <3>4. ASSUME NEW x \in Page
          PROVE  x \in free' <=> \/ x \in free
                                 \/ \E r \in Proc, j \in Place :
                                      x \in Held[r][j] /\ x \notin Held'[r][j]
      BY <3>1, <3>2, PlaceIs
    <3>. QED
      BY ONLY <3>3, <3>4, GiveStep, PagesOwned
  <2>. QED
    BY <2>1, <2>2, <2>3, <2>4 DEF Owned
<1>. QED
  BY <1>a, <1>b

\* The step Bad preserves ownership.
LEMMA Bad_Owned ==
  ASSUME Owned, NEW p \in Proc, Bad(p)
  PROVE  Owned'
<1>. Types /\ LifeInv /\ ForkInv /\ PagesOwned
  BY DEF Owned
<1>. PICK q \in Proc : q = job[p].child
  BY JobIs
<1>. DEFINE fork == job[p].op = "fork"
<1>. /\ pc[p] \in {"alloc", "bad"}
     /\ job[p].op \in {"fork", "exec", "stack"}
     /\ free' = free \cup Pages(new[p]) \cup IF fork THEN {kstack[q]} ELSE {}
     /\ kstack' = IF fork THEN [kstack EXCEPT ![q] = 0] ELSE kstack
     /\ state' = IF fork THEN [state EXCEPT ![q] = "unused"] ELSE state
     /\ new' = [new EXCEPT ![p] = NoSpace] /\ job' = [job EXCEPT ![p] = NoJob]
     /\ pc' = [pc EXCEPT ![p] = "user"]
     /\ UNCHANGED <<as, sz>>
  BY DEF Bad, Goto, LifeInv, Life
<1>. /\ q \in Proc /\ (fork => state[q] = "embryo" /\ kstack[q] \in Page /\ p # q)
     /\ new[p] \in Spaces
     /\ Pages(new[p]) = {x \in Page : \E k \in Part : x \in InPart(new[p], k)}
  <2>1. q \in Proc /\ new[p] \in Spaces
    BY JobIs DEF Types
  <2>2. fork => state[q] = "embryo"
    BY DEF ForkInv
  <2>3. ASSUME fork PROVE kstack[q] \in Page /\ p # q
    <3>1. Life(p) /\ Life(q) /\ state[q] = "embryo" /\ kstack[q] \in Page \cup {0}
      BY <2>1, <2>2, <2>3 DEF Types, LifeInv
    <3>. QED
      BY <3>1 DEF Life
  <2>. QED
    BY <2>1, <2>2, <2>3, PagesIs
<1>1. Types'
  <2>1. free' \subseteq Page
    BY DEF Types
  <2>2. kstack' \in [Proc -> Page \cup {0}]
    BY DEF Types
  <2>3. state' \in [Proc -> {"unused", "embryo", "run", "zombie"}]
    BY DEF Types
  <2>. QED
    BY <2>1, <2>2, <2>3, NoJobIs, NoSpaceIs DEF Types
<1>2. LifeInv'
  <2>1. ASSUME NEW r \in Proc, r # p, r # q \/ ~fork PROVE Life(r)'
    <3>1. /\ state'[r] = state[r] /\ kstack'[r] = kstack[r] /\ as'[r] = as[r]
          /\ pc'[r] = pc[r] /\ job'[r] = job[r] /\ new'[r] = new[r]
      BY <2>1 DEF Types
    <3>. QED
      BY <3>1, LifeFrame DEF LifeInv
  <2>2. Life(p)'
    <3>1. Life(p) /\ kstack'[p] = kstack[p] /\ state'[p] = state[p] /\ as'[p] = as[p]
      BY DEF LifeInv, Types
    <3>2. pc'[p] = "user" /\ job'[p] = NoJob /\ new'[p] = NoSpace
      BY DEF Types
    <3>. QED
      BY <3>1, <3>2, NoJobIs DEF Life
  <2>3. ASSUME fork PROVE Life(q)'
    <3>1. Life(q) /\ kstack'[q] = 0 /\ state'[q] = "unused" /\ as'[q] = as[q]
      BY <2>3 DEF LifeInv, Types
    <3>2. pc'[q] = pc[q] /\ job'[q] = job[q] /\ new'[q] = new[q]
      BY <2>3 DEF Types
    <3>3. state[q] = "embryo"
      BY <2>3
    <3>. QED
      BY ONLY <3>1, <3>2, <3>3 DEF Life
  <2>. HIDE DEF fork
  <2>. QED
    BY ONLY <2>1, <2>2, <2>3, q \in Proc DEF LifeInv
<1>3. ForkInv'
  <2>. SUFFICES ASSUME NEW r \in Proc, job'[r].op = "fork"
                PROVE  /\ state'[job'[r].child] = "embryo"
                       /\ \A r2 \in Proc :
                            job'[r2].op = "fork" /\ job'[r2].child = job'[r].child => r2 = r
    BY DEF ForkInv
  <2>1. r # p /\ job'[r] = job[r] /\ job[r].child \in Proc
    BY NoJobIs, JobIs DEF Types
  <2>2. state[job[r].child] = "embryo" /\ (fork => job[r].child # q)
    BY <2>1 DEF ForkInv
  <2>3. state'[job[r].child] = "embryo"
    BY <2>1, <2>2 DEF Types
  <2>4. ASSUME NEW r2 \in Proc, job'[r2].op = "fork", job'[r2].child = job'[r].child PROVE r2 = r
    <3>1. r2 # p /\ job'[r2] = job[r2]
      BY <2>4, NoJobIs DEF Types
    <3>. QED
      BY <2>1, <2>4, <3>1 DEF ForkInv
  <2>. QED
    BY <2>1, <2>3, <2>4
<1>4. PagesOwned'
  <2>0. job[p].mem = 0 /\ job'[p].mem = 0
    BY NoJobIs DEF Types, LifeInv, Life
  <2>1. ASSUME NEW r \in Proc, NEW j \in Place, NEW x \in Page
        PROVE  IF (r = p /\ \E k \in Part : j = InNew(k)) \/ (fork /\ r = q /\ j = Stack)
                 THEN x \notin Held'[r][j] ELSE Held'[r][j] = Held[r][j]
    <3>1. CASE ~((r = p /\ \E k \in Part : j = InNew(k)) \/ (fork /\ r = q /\ j = Stack))
      <4>1. /\ ~fork \/ r # q => kstack'[r] = kstack[r]
            /\ as'[r] = as[r] /\ job'[r].mem = job[r].mem
            /\ r # p => new'[r] = new[r]
        BY <2>0 DEF Types
      <4>2. Held'[r][j] = Held[r][j]
        BY <3>1, <4>1, Frame
      <4>. QED
        BY <3>1, <4>2
    <3>2. CASE fork /\ r = q /\ j = Stack
      <4>1. Held'[q][Stack] = {kstack'[q]} /\ kstack'[q] = 0 /\ x # 0
        BY <3>2, HeldAt, Sizes DEF Types
      <4>. QED
        BY <3>2, <4>1
    <3>3. CASE r = p /\ \E k \in Part : j = InNew(k)
      <4>. PICK k \in Part : j = InNew(k)
        BY <3>3
      <4>1. Held'[p][InNew(k)] = InPart(new'[p], k) /\ new'[p] = NoSpace
        BY HeldAt DEF Types
      <4>. QED
        BY <3>3, <4>1, NoSpaceIs
    <3>. QED
      BY <3>1, <3>2, <3>3
  <2>2. ASSUME NEW x \in Page
        PROVE  x \in free' <=> \/ x \in free \/ (fork /\ x \in Held[q][Stack])
                               \/ \E k \in Part : x \in Held[p][InNew(k)]
    BY HeldAt
  <2>. HIDE DEF fork
  <2>3. \A r \in Proc, j \in Place, x \in Page : x \in Held'[r][j] => x \in Held[r][j]
    BY <2>1
  <2>4. ASSUME NEW x \in Page
        PROVE  x \in free' <=> \/ x \in free
                               \/ \E r \in Proc, j \in Place :
                                    x \in Held[r][j] /\ x \notin Held'[r][j]
    BY <2>1, <2>2, PlaceIs
  <2>. QED
    BY ONLY <2>3, <2>4, GiveStep, PagesOwned
<1>. QED
  BY <1>1, <1>2, <1>3, <1>4 DEF Owned

\* The step ForkEnd preserves ownership.
LEMMA ForkEnd_Owned ==
  ASSUME Owned, NEW p \in Proc, ForkEnd(p)
  PROVE  Owned'
<1>. Types /\ LifeInv /\ ForkInv /\ PagesOwned
  BY DEF Owned
<1>. PICK q \in Proc : q = job[p].child
  BY JobIs
<1>. /\ pc[p] = "alloc" /\ job[p].op = "fork"
     /\ as' = [as EXCEPT ![q] = new[p]] /\ sz' = [sz EXCEPT ![q] = sz[p]]
     /\ state' = [state EXCEPT ![q] = "run"]
     /\ new' = [new EXCEPT ![p] = NoSpace] /\ job' = [job EXCEPT ![p] = NoJob]
     /\ pc' = [pc EXCEPT ![p] = "user"]
     /\ UNCHANGED <<free, kstack>>
  BY DEF ForkEnd, AllocEnds, Goto
<1>. /\ q \in Proc /\ state[q] = "embryo" /\ kstack[q] \in Page /\ p # q
     /\ new[p] \in Spaces /\ as[q] = NoSpace /\ sz[p] \in 0 .. KERNBASE - 1
  <2>1. q \in Proc /\ new[p] \in Spaces /\ sz[p] \in 0 .. KERNBASE - 1
    BY JobIs DEF Types
  <2>2. state[q] = "embryo"
    BY DEF ForkInv
  <2>3. kstack[q] \in Page /\ p # q /\ as[q] = NoSpace
    <3>1. Life(p) /\ Life(q) /\ kstack[q] \in Page \cup {0}
      BY <2>1, <2>2 DEF Types, LifeInv
    <3>. QED
      BY <2>2, <3>1 DEF Life
  <2>. QED
    BY <2>1, <2>2, <2>3
<1>1. Types'
  <2>1. job' \in [Proc -> Jobs] /\ new' \in [Proc -> Spaces]
    BY NoJobIs, NoSpaceIs DEF Types
  <2>2. as' \in [Proc -> Spaces] /\ sz' \in [Proc -> 0 .. KERNBASE - 1]
    BY DEF Types
  <2>. QED
    BY <2>1, <2>2 DEF Types
<1>2. LifeInv'
  <2>1. ASSUME NEW r \in Proc \ {p, q} PROVE Life(r)'
    <3>1. /\ state'[r] = state[r] /\ kstack'[r] = kstack[r] /\ as'[r] = as[r]
          /\ pc'[r] = pc[r] /\ job'[r] = job[r] /\ new'[r] = new[r]
      BY DEF Types
    <3>. QED
      BY <3>1, LifeFrame DEF LifeInv
  <2>2. Life(p)'
    <3>1. Life(p) /\ kstack'[p] = kstack[p] /\ state'[p] = state[p] /\ as'[p] = as[p]
      BY DEF LifeInv, Types
    <3>2. pc'[p] = "user" /\ job'[p] = NoJob /\ new'[p] = NoSpace
      BY DEF Types
    <3>. QED
      BY <3>1, <3>2, NoJobIs DEF Life
  <2>3. Life(q)'
    <3>1. Life(q) /\ kstack'[q] = kstack[q] /\ state'[q] = "run"
      BY DEF LifeInv, Types
    <3>2. pc'[q] = pc[q] /\ job'[q] = job[q] /\ new'[q] = new[q]
      BY DEF Types
    <3>. QED
      BY ONLY <3>1, <3>2, state[q] = "embryo" DEF Life
  <2>. QED
    BY ONLY <2>1, <2>2, <2>3, q \in Proc DEF LifeInv
<1>3. ForkInv'
  <2>. SUFFICES ASSUME NEW r \in Proc, job'[r].op = "fork"
                PROVE  /\ state'[job'[r].child] = "embryo"
                       /\ \A r2 \in Proc :
                            job'[r2].op = "fork" /\ job'[r2].child = job'[r].child => r2 = r
    BY DEF ForkInv
  <2>1. r # p /\ job'[r] = job[r] /\ job[r].child \in Proc
    BY NoJobIs, JobIs DEF Types
  <2>2. state[job[r].child] = "embryo" /\ job[r].child # q
    BY <2>1 DEF ForkInv
  <2>3. state'[job[r].child] = "embryo"
    BY <2>1, <2>2 DEF Types
  <2>4. ASSUME NEW r2 \in Proc, job'[r2].op = "fork", job'[r2].child = job'[r].child PROVE r2 = r
    <3>1. r2 # p /\ job'[r2] = job[r2]
      BY <2>4, NoJobIs DEF Types
    <3>. QED
      BY <2>1, <2>4, <3>1 DEF ForkInv
  <2>. QED
    BY <2>1, <2>3, <2>4
<1>4. PagesOwned'
  <2>0. job[p].mem = 0 /\ job'[p].mem = 0
    BY NoJobIs DEF Types, LifeInv, Life
  <2>1. ASSUME NEW x \in Page
        PROVE x \in free' <=> x \in free \/ \E k \in Part : x \in Held[q][InAs(k)]
    <3>1. \A k \in Part : Held[q][InAs(k)] = InPart(as[q], k)
      BY HeldAt
    <3>. QED
      BY <3>1, NoSpaceIs
  <2>2. ASSUME NEW k \in Part, NEW x \in Page
        PROVE  /\ x \in Held'[q][InAs(k)] <=> x \in Held[p][InNew(k)]
               /\ x \notin Held'[p][InNew(k)]
    <3>1. as'[q] = new[p] /\ new'[p] = NoSpace
      BY DEF Types
    <3>2. Held'[q][InAs(k)] = InPart(as'[q], k) /\ Held[p][InNew(k)] = InPart(new[p], k)
      BY HeldAt
    <3>3. Held'[p][InNew(k)] = InPart(new'[p], k)
      BY HeldAt
    <3>. QED
      BY <3>1, <3>2, <3>3, NoSpaceIs
  <2>3. ASSUME NEW r \in Proc, NEW j \in Place
        PROVE  \/ r = q /\ \E k \in Part : j = InAs(k)
               \/ r = p /\ \E k \in Part : j = InNew(k)
               \/ Held'[r][j] = Held[r][j]
    <3>1. /\ kstack'[r] = kstack[r] /\ job'[r].mem = job[r].mem
          /\ r # q => as'[r] = as[r]
          /\ r # p => new'[r] = new[r]
      BY <2>0 DEF Types
    <3>. QED
      BY <3>1, Frame
  <2>. QED
    BY <2>1, <2>2, <2>3, MoveStep
<1>. QED
  BY <1>1, <1>2, <1>3, <1>4 DEF Owned

\* The step ExecStack preserves ownership.
LEMMA ExecStack_Owned ==
  ASSUME Owned, NEW p \in Proc, ExecStack(p)
  PROVE  Owned'
<1>. Types /\ LifeInv /\ ForkInv /\ PagesOwned
  BY DEF Owned
<1>. DEFINE top == PGROUNDUP(job[p].newsz) + 2 * PGSIZE
<1>. /\ pc[p] = "alloc" /\ job[p].op = "exec" /\ Fits(top)
     /\ job' = [job EXCEPT ![p] = [@ EXCEPT !.op = "stack", !.newsz = top]]
     /\ UNCHANGED <<free, state, kstack, as, sz, pc, new>>
  BY DEF ExecStack, AllocEnds, procVars
<1>. top \in 0 .. KERNBASE - 1
  <2>1. job[p].newsz \in Nat
    BY JobIs, Sizes
  <2>2. PGROUNDUP(job[p].newsz) \in Nat
    BY <2>1, RoundUp
  <2>. QED
    BY <2>2, Sizes DEF Fits
<1>. HIDE DEF top
<1>. DEFINE J == [job[p] EXCEPT !.op = "stack", !.newsz = top]
<1>. J \in Jobs /\ J.op = "stack" /\ J.mem = job[p].mem
  <2>1. job[p] \in Jobs
    BY JobIs
  <2>. QED
    BY <2>1 DEF Jobs
<1>. HIDE DEF J
<1>. job' = [job EXCEPT ![p] = J]
  BY DEF J, Types
<1>1. Types'
  BY DEF Types
<1>2. LifeInv'
  <2>1. ASSUME NEW r \in Proc \ {p} PROVE Life(r)'
    <3>1. /\ state'[r] = state[r] /\ kstack'[r] = kstack[r] /\ as'[r] = as[r]
          /\ pc'[r] = pc[r] /\ job'[r] = job[r] /\ new'[r] = new[r]
      BY DEF Types
    <3>. QED
      BY <3>1, LifeFrame DEF LifeInv
  <2>2. Life(p)'
    BY NoJobIs DEF Types, LifeInv, Life
  <2>. QED
    BY <2>1, <2>2 DEF LifeInv
<1>3. ForkInv'
  BY NoJobIs, JobIs DEF Types, LifeInv, Life, ForkInv
<1>4. PagesOwned'
  <2>1. \A r \in Proc : job'[r].mem = job[r].mem
    BY NoJobIs DEF Types, LifeInv, Life
  <2>. QED
    BY <2>1, NoStep
<1>. QED
  BY <1>1, <1>2, <1>3, <1>4 DEF Owned

\* The step ExecEnd preserves ownership.
LEMMA ExecEnd_Owned ==
  ASSUME Owned, NEW p \in Proc, ExecEnd(p)
  PROVE  Owned'
<1>. Types /\ LifeInv /\ ForkInv /\ PagesOwned
  BY DEF Owned
<1>. /\ pc[p] = "alloc" /\ job[p].op = "stack"
     /\ as' = [as EXCEPT ![p] = new[p]] /\ sz' = [sz EXCEPT ![p] = job[p].newsz]
     /\ free' = free \cup Pages(as[p])
     /\ new' = [new EXCEPT ![p] = NoSpace] /\ job' = [job EXCEPT ![p] = NoJob]
     /\ pc' = [pc EXCEPT ![p] = "user"]
     /\ UNCHANGED <<state, kstack>>
  BY DEF ExecEnd, AllocEnds, Goto
<1>. /\ new[p] \in Spaces /\ job[p].newsz \in 0 .. KERNBASE - 1
     /\ Pages(as[p]) = {x \in Page : \E k \in Part : x \in InPart(as[p], k)}
  BY JobIs, PagesIs DEF Types
<1>1. Types'
  <2>1. job' \in [Proc -> Jobs] /\ new' \in [Proc -> Spaces]
    BY NoJobIs, NoSpaceIs DEF Types
  <2>2. as' \in [Proc -> Spaces] /\ sz' \in [Proc -> 0 .. KERNBASE - 1]
    BY DEF Types
  <2>3. free' \subseteq Page
    BY DEF Types
  <2>. QED
    BY <2>1, <2>2, <2>3 DEF Types
<1>2. LifeInv'
  <2>1. ASSUME NEW r \in Proc \ {p} PROVE Life(r)'
    <3>1. /\ state'[r] = state[r] /\ kstack'[r] = kstack[r] /\ as'[r] = as[r]
          /\ pc'[r] = pc[r] /\ job'[r] = job[r] /\ new'[r] = new[r]
      BY DEF Types
    <3>. QED
      BY <3>1, LifeFrame DEF LifeInv
  <2>2. Life(p)'
    BY NoJobIs DEF Types, LifeInv, Life
  <2>. QED
    BY <2>1, <2>2 DEF LifeInv
<1>3. ForkInv'
  BY NoJobIs, JobIs DEF Types, LifeInv, Life, ForkInv
<1>4. PagesOwned'
  <2>0. job[p].mem = 0 /\ job'[p].mem = 0
    BY NoJobIs DEF Types, LifeInv, Life
  <2>1. ASSUME NEW x \in Page
        PROVE x \in free' <=> x \in free \/ \E k \in Part : x \in Held[p][InAs(k)]
    <3>1. \A k \in Part : Held[p][InAs(k)] = InPart(as[p], k)
      BY HeldAt
    <3>. QED
      BY <3>1, NoSpaceIs
  <2>2. ASSUME NEW k \in Part, NEW x \in Page
        PROVE  /\ x \in Held'[p][InAs(k)] <=> x \in Held[p][InNew(k)]
               /\ x \notin Held'[p][InNew(k)]
    <3>1. as'[p] = new[p] /\ new'[p] = NoSpace
      BY DEF Types
    <3>2. Held'[p][InAs(k)] = InPart(as'[p], k) /\ Held[p][InNew(k)] = InPart(new[p], k)
      BY HeldAt
    <3>3. Held'[p][InNew(k)] = InPart(new'[p], k)
      BY HeldAt
    <3>. QED
      BY <3>1, <3>2, <3>3, NoSpaceIs
  <2>3. ASSUME NEW r \in Proc, NEW j \in Place
        PROVE  \/ r = p /\ \E k \in Part : j = InAs(k)
               \/ r = p /\ \E k \in Part : j = InNew(k)
               \/ Held'[r][j] = Held[r][j]
    <3>1. /\ kstack'[r] = kstack[r] /\ job'[r].mem = job[r].mem
          /\ r # p => as'[r] = as[r]
          /\ r # p => new'[r] = new[r]
      BY <2>0 DEF Types
    <3>. QED
      BY <3>1, Frame
  <2>. QED
    BY <2>1, <2>2, <2>3, MoveStep
<1>. QED
  BY <1>1, <1>2, <1>3, <1>4 DEF Owned

\* The step Grow preserves ownership.
LEMMA Grow_Owned ==
  ASSUME Owned, NEW p \in Proc, Grow(p)
  PROVE  Owned'
<1>. Types /\ LifeInv /\ ForkInv /\ PagesOwned
  BY DEF Owned
<1>. PICK m \in Deltas :
       /\ m > 0 /\ Fits(sz[p] + m)
       /\ job' = [job EXCEPT ![p] = [NoJob EXCEPT !.op = "grow", !.a = PGROUNDUP(sz[p]),
                                                  !.oldsz = sz[p], !.newsz = sz[p] + m]]
  BY DEF Grow
<1>. /\ pc[p] = "user" /\ state[p] = "run" /\ pc' = [pc EXCEPT ![p] = "alloc"]
     /\ UNCHANGED <<free, state, kstack, as, sz, new>>
  BY DEF Grow, Goto, procVars
<1>. DEFINE J == [NoJob EXCEPT !.op = "grow", !.a = PGROUNDUP(sz[p]), !.oldsz = sz[p],
                            !.newsz = sz[p] + m]
<1>. J \in Jobs /\ J.op = "grow" /\ J.mem = 0
  <2>1. sz[p] + m \in 0 .. KERNBASE - 1 /\ sz[p] \in Nat
    BY Sizes DEF Types, Fits
  <2>2. PGROUNDUP(sz[p]) \in Nat
    BY <2>1, RoundUp
  <2>. QED
    BY <2>1, <2>2, NoJobIs DEF Jobs
<1>. HIDE DEF J
<1>. job' = [job EXCEPT ![p] = J]
  BY DEF J
<1>1. Types'
  BY DEF Types
<1>2. LifeInv'
  <2>1. ASSUME NEW r \in Proc \ {p} PROVE Life(r)'
    <3>1. /\ state'[r] = state[r] /\ kstack'[r] = kstack[r] /\ as'[r] = as[r]
          /\ pc'[r] = pc[r] /\ job'[r] = job[r] /\ new'[r] = new[r]
      BY DEF Types
    <3>. QED
      BY <3>1, LifeFrame DEF LifeInv
  <2>2. Life(p)'
    BY NoJobIs DEF Types, LifeInv, Life
  <2>. QED
    BY <2>1, <2>2 DEF LifeInv
<1>3. ForkInv'
  BY NoJobIs, JobIs DEF Types, LifeInv, Life, ForkInv
<1>4. PagesOwned'
  <2>1. \A r \in Proc : job'[r].mem = job[r].mem
    BY NoJobIs DEF Types, LifeInv, Life
  <2>. QED
    BY <2>1, NoStep
<1>. QED
  BY <1>1, <1>2, <1>3, <1>4 DEF Owned

\* The step GrowEnd preserves ownership.
LEMMA GrowEnd_Owned ==
  ASSUME Owned, NEW p \in Proc, GrowEnd(p)
  PROVE  Owned'
<1>. Types /\ LifeInv /\ ForkInv /\ PagesOwned
  BY DEF Owned
<1>. /\ pc[p] = "alloc" /\ job[p].op = "grow"
     /\ sz' = [sz EXCEPT ![p] = job[p].newsz]
     /\ job' = [job EXCEPT ![p] = NoJob] /\ pc' = [pc EXCEPT ![p] = "user"]
     /\ UNCHANGED <<free, state, kstack, as, new>>
  BY DEF GrowEnd, AllocEnds, Goto
<1>. job[p].newsz \in 0 .. KERNBASE - 1
  BY JobIs
<1>1. Types'
  BY NoJobIs DEF Types
<1>2. LifeInv'
  <2>1. ASSUME NEW r \in Proc \ {p} PROVE Life(r)'
    <3>1. /\ state'[r] = state[r] /\ kstack'[r] = kstack[r] /\ as'[r] = as[r]
          /\ pc'[r] = pc[r] /\ job'[r] = job[r] /\ new'[r] = new[r]
      BY DEF Types
    <3>. QED
      BY <3>1, LifeFrame DEF LifeInv
  <2>2. Life(p)'
    BY NoJobIs DEF Types, LifeInv, Life
  <2>. QED
    BY <2>1, <2>2 DEF LifeInv
<1>3. ForkInv'
  BY NoJobIs, JobIs DEF Types, LifeInv, Life, ForkInv
<1>4. PagesOwned'
  <2>1. \A r \in Proc : job'[r].mem = job[r].mem
    BY NoJobIs DEF Types, LifeInv, Life
  <2>. QED
    BY <2>1, NoStep
<1>. QED
  BY <1>1, <1>2, <1>3, <1>4 DEF Owned

\* The step Shrink preserves ownership.
LEMMA Shrink_Owned ==
  ASSUME Owned, NEW p \in Proc, Shrink(p)
  PROVE  Owned'
<1>. Types /\ LifeInv /\ ForkInv /\ PagesOwned
  BY DEF Owned
<1>. PICK n \in Deltas :
       /\ n < 0 /\ sz[p] + n >= 0
       /\ free' = free \cup Freed(as[p], Above(sz[p], sz[p] + n))
       /\ as' = [as EXCEPT ![p] = Unmapped(as[p], Above(sz[p], sz[p] + n))]
       /\ sz' = [sz EXCEPT ![p] = IF sz[p] + n = 0 THEN @ ELSE sz[p] + n]
  BY DEF Shrink, ShrinkFrees
<1>. DEFINE vs == Above(sz[p], sz[p] + n)
<1>. /\ pc[p] = "user" /\ state[p] = "run" /\ vs \in SUBSET VPage
     /\ UNCHANGED <<state, kstack, pc, new, job>>
  BY DEF Shrink, Above
<1>. HIDE DEF vs
<1>. as[p] \in Spaces /\ Unmapped(as[p], vs) \in Spaces /\ Freed(as[p], vs) \subseteq Page
  BY UnmappedIs DEF Types
<1>. free' = free \cup Freed(as[p], vs) /\ as' = [as EXCEPT ![p] = Unmapped(as[p], vs)]
  BY DEF vs
<1>1. Types'
  <2>1. sz' \in [Proc -> 0 .. KERNBASE - 1]
    BY Sizes DEF Types
  <2>. QED
    BY <2>1 DEF Types
<1>2. LifeInv'
  <2>1. ASSUME NEW r \in Proc \ {p} PROVE Life(r)'
    <3>1. /\ state'[r] = state[r] /\ kstack'[r] = kstack[r] /\ as'[r] = as[r]
          /\ pc'[r] = pc[r] /\ job'[r] = job[r] /\ new'[r] = new[r]
      BY DEF Types
    <3>. QED
      BY <3>1, LifeFrame DEF LifeInv
  <2>2. Life(p)'
    BY NoJobIs DEF Types, LifeInv, Life
  <2>. QED
    BY <2>1, <2>2 DEF LifeInv
<1>3. ForkInv'
  BY NoJobIs, JobIs DEF Types, LifeInv, Life, ForkInv
<1>4. PagesOwned'
  <2>1. job[p].mem = 0 /\ job'[p].mem = 0 /\ \A r \in Proc : job'[r].mem = job[r].mem
    BY NoJobIs DEF LifeInv, Life
  <2>2. free' = free \cup ({job[p].mem} \ {0}) \cup Freed(as[p], vs)
    BY <2>1
  <2>. QED
    BY <2>1, <2>2, UnmapStep
<1>. QED
  BY <1>1, <1>2, <1>3, <1>4 DEF Owned

\* The step Exit preserves ownership.
LEMMA Exit_Owned ==
  ASSUME Owned, NEW p \in Proc, Exit(p)
  PROVE  Owned'
<1>. Types /\ LifeInv /\ ForkInv /\ PagesOwned
  BY DEF Owned
<1>. /\ pc[p] = "user" /\ state[p] = "run" /\ state' = [state EXCEPT ![p] = "zombie"]
     /\ UNCHANGED <<free, kstack, as, sz, pc, new, job>>
  BY DEF Exit
<1>1. Types'
  BY DEF Types
<1>2. LifeInv'
  <2>1. ASSUME NEW r \in Proc \ {p} PROVE Life(r)'
    <3>1. /\ state'[r] = state[r] /\ kstack'[r] = kstack[r] /\ as'[r] = as[r]
          /\ pc'[r] = pc[r] /\ job'[r] = job[r] /\ new'[r] = new[r]
      BY DEF Types
    <3>. QED
      BY <3>1, LifeFrame DEF LifeInv
  <2>2. Life(p)'
    BY NoJobIs DEF Types, LifeInv, Life
  <2>. QED
    BY <2>1, <2>2 DEF LifeInv
<1>3. ForkInv'
  BY NoJobIs, JobIs DEF Types, LifeInv, Life, ForkInv
<1>4. PagesOwned'
  <2>1. \A r \in Proc : job'[r].mem = job[r].mem
    BY NoJobIs DEF Types, LifeInv, Life
  <2>. QED
    BY <2>1, NoStep
<1>. QED
  BY <1>1, <1>2, <1>3, <1>4 DEF Owned

\* The step Fork preserves ownership.
LEMMA Fork_Owned ==
  ASSUME Owned, NEW p \in Proc, NEW q \in Proc, Fork(p, q)
  PROVE  Owned'
<1>. Types /\ LifeInv /\ ForkInv /\ PagesOwned
  BY DEF Owned
<1>. /\ pc[p] = "user" /\ state[p] = "run" /\ state[q] = "unused"
     /\ kalloc \in free /\ free' = free \ {kalloc}
     /\ state' = [state EXCEPT ![q] = "embryo"] /\ kstack' = [kstack EXCEPT ![q] = kalloc]
     /\ pc' = [pc EXCEPT ![p] = "setupkvm"]
     /\ job' = [job EXCEPT ![p] = [NoJob EXCEPT !.op = "fork", !.child = q, !.newsz = sz[p]]]
     /\ UNCHANGED <<as, sz, new>>
  BY KallocIs DEF Fork, Taken, Goto
<1>. p # q /\ kalloc \in Page /\ kalloc # 0
  BY Sizes DEF Types
<1>. DEFINE J == [NoJob EXCEPT !.op = "fork", !.child = q, !.newsz = sz[p]]
<1>. J \in Jobs /\ J.op = "fork" /\ J.child = q /\ J.mem = 0
  <2>1. sz[p] \in 0 .. KERNBASE - 1
    BY DEF Types
  <2>. QED
    BY <2>1, NoJobIs DEF Jobs
<1>. HIDE DEF J
<1>. job' = [job EXCEPT ![p] = J]
  BY DEF J
<1>1. Types'
  <2>1. job' \in [Proc -> Jobs] /\ kstack' \in [Proc -> Page \cup {0}]
    BY DEF Types
  <2>. QED
    BY <2>1 DEF Types
<1>2. LifeInv'
  <2>1. ASSUME NEW r \in Proc \ {p, q} PROVE Life(r)'
    <3>1. /\ state'[r] = state[r] /\ kstack'[r] = kstack[r] /\ as'[r] = as[r]
          /\ pc'[r] = pc[r] /\ job'[r] = job[r] /\ new'[r] = new[r]
      BY DEF Types
    <3>. QED
      BY <3>1, LifeFrame DEF LifeInv
  <2>2. Life(p)'
    BY NoJobIs DEF Types, LifeInv, Life
  <2>3. Life(q)'
    <3>1. /\ state'[q] = "embryo" /\ kstack'[q] # 0 /\ as'[q] = as[q]
          /\ pc'[q] = pc[q] /\ job'[q] = job[q] /\ new'[q] = new[q]
      BY DEF Types
    <3>2. Life(q)
      BY DEF LifeInv
    <3>. QED
      BY <3>1, <3>2 DEF Life
  <2>. QED
    BY <2>1, <2>2, <2>3 DEF LifeInv
<1>3. ForkInv'
  BY NoJobIs, JobIs DEF Types, LifeInv, Life, ForkInv
<1>4. PagesOwned'
  <2>1. ASSUME NEW r \in Proc, NEW j \in Place, NEW x \in Page
        PROVE  x \in Held'[r][j] <=> x \in Held[r][j] \/ (x = kalloc /\ r = q /\ j = Stack)
    <3>1. CASE r # q \/ j # Stack
      <4>1. (r # q => kstack'[r] = kstack[r]) /\ job'[r].mem = job[r].mem
            /\ as'[r] = as[r] /\ new'[r] = new[r]
        BY NoJobIs DEF Types, LifeInv, Life
      <4>2. Held'[r][j] = Held[r][j]
        BY <3>1, <4>1, Frame
      <4>. QED
        BY <3>1, <4>2
    <3>2. CASE r = q /\ j = Stack
      <4>1. kstack[q] = 0 /\ x # 0 /\ kstack'[q] = kalloc
        BY Sizes DEF Types, LifeInv, Life
      <4>2. Held'[r][j] = {kstack'[q]} /\ Held[r][j] = {kstack[q]}
        BY <3>2, HeldAt
      <4>. QED
        BY <3>2, <4>1, <4>2
    <3>. QED
      BY <3>1, <3>2
  <2>. QED
    BY <2>1, TakeStep, PlaceIs
<1>. QED
  BY <1>1, <1>2, <1>3, <1>4 DEF Owned

\* The step Wait preserves ownership.
LEMMA Wait_Owned ==
  ASSUME Owned, NEW p \in Proc, NEW q \in Proc, Wait(p, q)
  PROVE  Owned'
<1>. Types /\ LifeInv /\ ForkInv /\ PagesOwned
  BY DEF Owned
<1>. /\ pc[p] = "user" /\ state[p] = "run" /\ state[q] = "zombie"
     /\ free' = free \cup {kstack[q]} \cup Pages(as[q])
     /\ kstack' = [kstack EXCEPT ![q] = 0] /\ as' = [as EXCEPT ![q] = NoSpace]
     /\ state' = [state EXCEPT ![q] = "unused"] /\ sz' = [sz EXCEPT ![q] = 0]
     /\ UNCHANGED <<pc, new, job>>
  BY DEF Wait
<1>. /\ p # q /\ kstack[q] \in Page /\ as[q] \in Spaces
     /\ Pages(as[q]) = {x \in Page : \E k \in Part : x \in InPart(as[q], k)}
  <2>1. p # q /\ kstack[q] \in Page /\ as[q] \in Spaces
    BY DEF Types, LifeInv, Life
  <2>. QED
    BY <2>1, PagesIs
<1>1. Types'
  <2>1. 0 \in 0 .. KERNBASE - 1 /\ NoSpace \in Spaces
    BY NoSpaceIs, Sizes
  <2>2. as' \in [Proc -> Spaces] /\ sz' \in [Proc -> 0 .. KERNBASE - 1]
    BY <2>1 DEF Types
  <2>3. free' \subseteq Page
    BY DEF Types
  <2>. QED
    BY <2>2, <2>3 DEF Types
<1>2. LifeInv'
  <2>1. ASSUME NEW r \in Proc \ {p, q} PROVE Life(r)'
    <3>1. /\ state'[r] = state[r] /\ kstack'[r] = kstack[r] /\ as'[r] = as[r]
          /\ pc'[r] = pc[r] /\ job'[r] = job[r] /\ new'[r] = new[r]
      BY DEF Types
    <3>. QED
      BY <3>1, LifeFrame DEF LifeInv
  <2>2. Life(p)'
    BY NoJobIs DEF Types, LifeInv, Life
  <2>3. Life(q)'
    BY NoJobIs DEF Types, LifeInv, Life
  <2>. QED
    BY <2>1, <2>2, <2>3 DEF LifeInv
<1>3. ForkInv'
  BY NoJobIs, JobIs DEF Types, LifeInv, Life, ForkInv
<1>4. PagesOwned'
  <2>1. ASSUME NEW r \in Proc, NEW j \in Place, NEW x \in Page
        PROVE  IF r = q /\ (j = Stack \/ \E k \in Part : j = InAs(k))
                 THEN x \notin Held'[r][j] ELSE Held'[r][j] = Held[r][j]
    <3>1. CASE r # q \/ (j # Stack /\ \A k \in Part : j # InAs(k))
      <4>1. r # q => kstack'[r] = kstack[r] /\ as'[r] = as[r]
        BY DEF Types
      <4>2. Held'[r][j] = Held[r][j]
        BY <3>1, <4>1, Frame
      <4>. QED
        BY <3>1, <4>2
    <3>2. CASE r = q /\ j = Stack
      <4>1. Held'[q][Stack] = {kstack'[q]} /\ kstack'[q] = 0 /\ x # 0
        BY HeldAt, Sizes DEF Types
      <4>. QED
        BY <3>2, <4>1
    <3>3. CASE r = q /\ \E k \in Part : j = InAs(k)
      <4>. PICK k \in Part : j = InAs(k)
        BY <3>3
      <4>1. Held'[q][InAs(k)] = InPart(as'[q], k) /\ as'[q] = NoSpace
        BY HeldAt DEF Types
      <4>. QED
        BY <3>3, <4>1, NoSpaceIs
    <3>. QED
      BY <3>1, <3>2, <3>3
  <2>2. ASSUME NEW x \in Page
        PROVE  x \in free' <=> \/ x \in free \/ x \in Held[q][Stack]
                               \/ \E k \in Part : x \in Held[q][InAs(k)]
    BY HeldAt
  <2>3. \A r \in Proc, j \in Place, x \in Page : x \in Held'[r][j] => x \in Held[r][j]
    BY <2>1
  <2>4. ASSUME NEW x \in Page
        PROVE  x \in free' <=> \/ x \in free
                               \/ \E r \in Proc, j \in Place :
                                    x \in Held[r][j] /\ x \notin Held'[r][j]
    BY <2>1, <2>2, PlaceIs
  <2>. QED
    BY ONLY <2>3, <2>4, GiveStep, PagesOwned
<1>. QED
  BY <1>1, <1>2, <1>3, <1>4 DEF Owned

-----------------------------------------------------------------------------
(* Every page is owned. *)

\* userinit() establishes ownership.
LEMMA Init_Owned == Init => Owned
<1>. SUFFICES ASSUME Init PROVE Owned
  OBVIOUS
<1>. DEFINE s == [NoSpace EXCEPT !.dir = 2, !.utab[0] = 3, !.pte[0] = 4, !.ktab = 5 .. NKTAB + 4]
<1>0. 0 \in VPage /\ 0 \in UTab
  <2>1. 0 \in VPage
    BY Sizes DEF VPage
  <2>2. PDX(0) = 0
    BY Sizes DEF PDX
  <2>. QED
    BY <2>1, <2>2 DEF UTab
<1>1. /\ s \in Spaces /\ s.dir = 2 /\ s.ktab = 5 .. NKTAB + 4
      /\ s.utab = [NoSpace.utab EXCEPT ![0] = 3] /\ s.pte = [NoSpace.pte EXCEPT ![0] = 4]
  <2>1. /\ s.dir = 2 /\ s.ktab = 5 .. NKTAB + 4
        /\ s.utab = [NoSpace.utab EXCEPT ![0] = 3] /\ s.pte = [NoSpace.pte EXCEPT ![0] = 4]
    BY DEF NoSpace
  <2>2. 2 \in Page /\ 3 \in Page /\ 4 \in Page /\ 5 .. NKTAB + 4 \subseteq Page
    BY Sizes DEF Page
  <2>. QED
    BY <2>1, <2>2 DEF NoSpace, Spaces
<1>2. /\ \A t \in UTab : s.utab[t] = IF t = 0 THEN 3 ELSE 0
      /\ \A v \in VPage : s.pte[v] = IF v = 0 THEN 4 ELSE 0
  BY <1>1 DEF NoSpace
<1>. HIDE DEF s
<1>3. /\ kstack = [p \in Proc |-> IF p = initproc THEN 1 ELSE 0]
      /\ as = [p \in Proc |-> IF p # initproc THEN NoSpace ELSE s]
      /\ new = [p \in Proc |-> NoSpace] /\ job = [p \in Proc |-> NoJob]
      /\ free = NKTAB + 5 .. NPAGE
  BY DEF Init, s
<1>4. Types
  <2>1. 1 \in Page /\ free \subseteq Page /\ PGSIZE \in 0 .. KERNBASE - 1 /\ 0 \in 0 .. KERNBASE - 1
    BY <1>3, Sizes DEF Page
  <2>2. kstack \in [Proc -> Page \cup {0}] /\ sz \in [Proc -> 0 .. KERNBASE - 1]
    BY <1>3, <2>1 DEF Init
  <2>3. as \in [Proc -> Spaces] /\ new \in [Proc -> Spaces] /\ job \in [Proc -> Jobs]
    BY <1>1, <1>3, NoSpaceIs, NoJobIs
  <2>. QED
    BY <2>1, <2>2, <2>3 DEF Types, Init
<1>5. LifeInv
  BY <1>3, NoJobIs DEF LifeInv, Life, Init
<1>6. ForkInv
  BY <1>3, NoJobIs DEF ForkInv
<1>7. ASSUME NEW x \in Page PROVE Own(x)
  <2>1. x \in Nat /\ x # 0 /\ initproc \in Proc
    BY Sizes
  <2>2. ASSUME NEW p \in Proc, NEW i \in Place, x \in Held[p][i]
        PROVE  /\ p = initproc
               /\ \/ i = Stack /\ x = 1
                  \/ i = InAs(<<"dir", 0>>) /\ x = 2
                  \/ i = InAs(<<"ktab", 0>>) /\ x \in 5 .. NKTAB + 4
                  \/ i = InAs(<<"utab", 0>>) /\ x = 3
                  \/ i = InAs(<<"pte", 0>>) /\ x = 4
    <3>1. CASE i = Stack
      BY <1>3, <2>1, <2>2, <3>1, HeldAt
    <3>2. CASE i = Fresh
      BY <1>3, <2>1, <2>2, <3>2, HeldAt, NoJobIs
    <3>3. CASE \E k \in Part : i = InNew(k)
      BY <1>3, <2>2, <3>3, HeldAt, NoSpaceIs
    <3>4. CASE \E k \in Part : i = InAs(k)
      <4>. PICK k \in Part : i = InAs(k)
        BY <3>4
      <4>1. x \in InPart(as[p], k)
        BY <2>2, HeldAt
      <4>2. p = initproc /\ x \in InPart(s, k)
        BY <1>3, <4>1, NoSpaceIs
      <4>3. CASE k = <<"dir", 0>>
        <5>1. x \in {s.dir}
          BY <4>2, <4>3, InPartIs
        <5>. QED
          BY <1>1, <4>2, <4>3, <5>1
      <4>6. CASE k = <<"ktab", 0>>
        <5>1. x \in s.ktab
          BY <4>2, <4>6, InPartIs
        <5>. QED
          BY <1>1, <4>2, <4>6, <5>1
      <4>4. ASSUME NEW t \in UTab, k = <<"utab", t>> PROVE t = 0 /\ x = 3
        <5>1. x = s.utab[t]
          BY <4>2, <4>4, InPartIs
        <5>. QED
          BY <1>2, <2>1, <5>1
      <4>5. ASSUME NEW v \in VPage, k = <<"pte", v>> PROVE v = 0 /\ x = 4
        <5>1. x = s.pte[v]
          BY <4>2, <4>5, InPartIs
        <5>. QED
          BY <1>2, <2>1, <5>1
      <4>. QED
        BY <4>2, <4>3, <4>4, <4>5, <4>6, PartIs
    <3>. QED
      BY <3>1, <3>2, <3>3, <3>4, PlaceIs
  <2>3. /\ Held[initproc][Stack] = {1}
        /\ Held[initproc][InAs(<<"dir", 0>>)] = {2}
        /\ Held[initproc][InAs(<<"ktab", 0>>)] = 5 .. NKTAB + 4
        /\ Held[initproc][InAs(<<"utab", 0>>)] = {3}
        /\ Held[initproc][InAs(<<"pte", 0>>)] = {4}
    <3>1. kstack[initproc] = 1 /\ as[initproc] = s
      BY <1>3, <2>1
    <3>2. /\ <<"dir", 0>> \in Part /\ <<"ktab", 0>> \in Part
          /\ <<"utab", 0>> \in Part /\ <<"pte", 0>> \in Part
      BY <1>0, PartIs
    <3>3. /\ InPart(s, <<"dir", 0>>) = {2} /\ InPart(s, <<"ktab", 0>>) = 5 .. NKTAB + 4
          /\ InPart(s, <<"utab", 0>>) = {3} /\ InPart(s, <<"pte", 0>>) = {4}
      <4>1. /\ InPart(s, <<"dir", 0>>) = {s.dir} /\ InPart(s, <<"ktab", 0>>) = s.ktab
            /\ InPart(s, <<"utab", 0>>) = {s.utab[0]} /\ InPart(s, <<"pte", 0>>) = {s.pte[0]}
        BY InPartIs
      <4>2. s.utab[0] = 3 /\ s.pte[0] = 4
        BY <1>0, <1>2
      <4>. QED
        BY <1>1, <4>1, <4>2
    <3>. QED
      BY <2>1, <3>1, <3>2, <3>3, HeldAt
  <2>4. /\ Stack \in Place /\ InAs(<<"dir", 0>>) \in Place /\ InAs(<<"ktab", 0>>) \in Place
        /\ InAs(<<"utab", 0>>) \in Place /\ InAs(<<"pte", 0>>) \in Place
    BY <1>0, PartIs, PlaceIs
  <2>5. CASE x \in free
    <3>1. x > NKTAB + 4
      BY <1>3, <2>5, Sizes
    <3>2. \A p \in Proc, i \in Place : x \notin Held[p][i]
      BY <2>1, <2>2, <3>1, Sizes
    <3>. QED
      BY <2>5, <3>2 DEF Own
  <2>6. CASE x \notin free
    <3>1. x = 1 \/ x = 2 \/ x = 3 \/ x = 4 \/ x \in 5 .. NKTAB + 4
      BY <1>3, <2>1, <2>6, Sizes DEF Page
    <3>2. CASE x = 1
      <4>1. \A p \in Proc, i \in Place : x \in Held[p][i] => p = initproc /\ i = Stack
        BY <2>2, <3>2
      <4>. QED
        BY <2>1, <2>3, <2>4, <2>6, <3>2, <4>1 DEF Own
    <3>3. CASE x = 2
      <4>1. \A p \in Proc, i \in Place : x \in Held[p][i] => p = initproc /\ i = InAs(<<"dir", 0>>)
        BY <2>2, <3>3
      <4>. QED
        BY <2>1, <2>3, <2>4, <2>6, <3>3, <4>1 DEF Own
    <3>4. CASE x = 3
      <4>1. \A p \in Proc, i \in Place : x \in Held[p][i] => p = initproc /\ i = InAs(<<"utab", 0>>)
        BY <2>2, <3>4
      <4>. QED
        BY <2>1, <2>3, <2>4, <2>6, <3>4, <4>1 DEF Own
    <3>5. CASE x = 4
      <4>1. \A p \in Proc, i \in Place : x \in Held[p][i] => p = initproc /\ i = InAs(<<"pte", 0>>)
        BY <2>2, <3>5
      <4>. QED
        BY <2>1, <2>3, <2>4, <2>6, <3>5, <4>1 DEF Own
    <3>6. CASE x \in 5 .. NKTAB + 4
      <4>1. \A p \in Proc, i \in Place : x \in Held[p][i] => p = initproc /\ i = InAs(<<"ktab", 0>>)
        BY <2>2, <3>6
      <4>. QED
        BY <2>1, <2>3, <2>4, <2>6, <3>6, <4>1 DEF Own
    <3>. QED
      BY <3>1, <3>2, <3>3, <3>4, <3>5, <3>6
  <2>. QED
    BY <2>5, <2>6
<1>8. PagesOwned
  BY <1>7, OwnedIs
<1>. QED
  BY <1>4, <1>5, <1>6, <1>8 DEF Owned

\* Every step preserves it.
LEMMA Next_Owned == Owned /\ [Next]_vars => Owned'
<1>. SUFFICES ASSUME Owned, [Next]_vars PROVE Owned'
  OBVIOUS
<1>1. CASE UNCHANGED vars
  <2>1. UNCHANGED <<free, state, kstack, as, sz, pc, new, job>>
    BY <1>1 DEF vars, procVars
  <2>2. Types' /\ LifeInv' /\ ForkInv'
    <3>1. Types'
      BY <2>1 DEF Owned, Types
    <3>2. LifeInv'
      BY <2>1, LifeFrame DEF Owned, LifeInv
    <3>3. ForkInv'
      BY <2>1 DEF Owned, ForkInv
    <3>. QED
      BY <3>1, <3>2, <3>3
  <2>3. PagesOwned'
    BY <2>1, NoStep DEF Owned
  <2>. QED
    BY <2>2, <2>3 DEF Owned
<1>2. ASSUME NEW p \in Proc, NEW q \in Proc, Fork(p, q) \/ Wait(p, q) PROVE Owned'
  BY <1>2, Fork_Owned, Wait_Owned
<1>3. ASSUME NEW p \in Proc,
             \/ Exec(p) \/ Setupkvm(p) \/ SetupkvmFails(p) \/ AllocPage(p) \/ Map(p)
             \/ AllocFails(p) \/ Bad(p) \/ ForkEnd(p) \/ ExecStack(p) \/ ExecEnd(p)
             \/ Grow(p) \/ GrowEnd(p) \/ Shrink(p) \/ Exit(p)
      PROVE  Owned'
  BY <1>3, Exec_Owned, Setupkvm_Owned, SetupkvmFails_Owned, AllocPage_Owned, Map_Owned,
     AllocFails_Owned, Bad_Owned, ForkEnd_Owned, ExecStack_Owned, ExecEnd_Owned, Grow_Owned,
     GrowEnd_Owned, Shrink_Owned, Exit_Owned
<1>. QED
  BY <1>1, <1>2, <1>3 DEF Next

\* The invariant holds in every reachable state.
THEOREM Ownership == Spec => []Owned
  BY Init_Owned, Next_Owned, PTL DEF Spec

\* kalloc() and kfree() under fork, exec, sbrk, exit and wait, each of which may run out
\* of memory at any page: a page is free or has one owner, so none is lost, freed twice
\* or shared.
THEOREM PagesAreOwned == Spec => []PagesOwned
<1>1. Owned => PagesOwned
  BY DEF Owned
<1>. QED
  BY <1>1, Ownership, PTL

-----------------------------------------------------------------------------
(* Sizes *)

\* Addresses of pages, and the number of pages of a size.
LEMMA Bases ==
  ASSUME NEW j \in Nat, NEW k \in Nat
  PROVE  /\ Base(k) \in Nat /\ Base(0) = 0 /\ Base(k + 1) = Base(k) + PGSIZE
         /\ Base(j) < Base(k) <=> j < k
         /\ Base(j) <= Base(k) <=> j <= k
         /\ Up(Base(k)) = k
<1>1. Base(k) \in Nat /\ Base(0) = 0 /\ Base(k + 1) = Base(k) + PGSIZE
  BY Sizes DEF Base
<1>2. ASSUME NEW i \in Nat, NEW l \in Nat, i < l PROVE Base(i) < Base(l)
  <2>1. l - i >= 1 /\ (l - i) * PGSIZE >= PGSIZE /\ (l - i) * PGSIZE = l * PGSIZE - i * PGSIZE
    BY <1>2, Sizes
  <2>2. i * PGSIZE \in Nat /\ l * PGSIZE \in Nat
    BY Sizes
  <2>. QED
    BY <2>1, <2>2, Sizes DEF Base
<1>3. \A i \in Nat : Base(i) \in Nat
  BY Sizes DEF Base
<1>4. \A i, l \in Nat : (Base(i) < Base(l) <=> i < l) /\ (Base(i) <= Base(l) <=> i <= l)
  BY <1>2, <1>3
<1>5. Up(Base(k)) = k
  <2>1. Up(Base(k)) \in Nat /\ \A v \in Nat : Base(v) < Base(k) <=> v < Up(Base(k))
    BY <1>1, RoundUp
  <2>2. ~(k < Up(Base(k))) /\ ~(Up(Base(k)) < k)
    BY <1>4, <2>1
  <2>. QED
    BY <2>1, <2>2
<1>. QED
  BY <1>1, <1>4, <1>5

\* The pages of a larger size, and the page a whole number of pages ends at.
LEMMA Ups ==
  ASSUME NEW m \in Nat, NEW n \in Nat
  PROVE  /\ Up(n) \in Nat /\ Up(0) = 0
         /\ m <= n => Up(m) <= Up(n)
         /\ m = Base(Up(m)) => m \div PGSIZE = Up(m)
<1>1. Up(n) \in Nat /\ Up(m) \in Nat
  BY RoundUp
<1>2. Up(0) = 0
  BY Bases
<1>3. m <= n => Up(m) <= Up(n)
  <2>. SUFFICES ASSUME m <= n, Up(n) < Up(m) PROVE FALSE
    BY <1>1
  <2>1. Base(Up(n)) < m /\ ~(Base(Up(n)) < n)
    BY <1>1, RoundUp
  <2>. QED
    BY <1>1, <2>1, Bases
<1>4. ASSUME NEW k \in Nat, m = k * PGSIZE PROVE m \div PGSIZE = k
  BY <1>4, Sizes
<1>. QED
  BY <1>1, <1>2, <1>3, <1>4 DEF Base

\* What deallocuvm() frees.
LEMMA AboveIs ==
  ASSUME NEW from \in Nat, NEW to \in Nat, NEW v \in VPage
  PROVE  v \in Nat /\ (v \in Above(from, to) <=> Up(to) <= v /\ v < Up(from))
<1>1. v \in Nat /\ Up(to) \in Nat /\ PGROUNDUP(to) = Base(Up(to))
  BY RoundUp, Sizes DEF VPage
<1>2. Base(v) < from <=> v < Up(from)
  BY <1>1, RoundUp
<1>3. Base(Up(to)) <= Base(v) <=> Up(to) <= v
  BY <1>1, Bases
<1>4. v \in Above(from, to) <=> PGROUNDUP(to) <= Base(v) /\ Base(v) < from
  BY DEF Above, Base
<1>. QED
  BY <1>1, <1>2, <1>3, <1>4

\* After deallocuvm() from k pages down to the size `to'.
LEMMA MapsLess ==
  ASSUME NEW s \in Spaces, NEW from \in Nat, NEW to \in Nat, NEW k \in Nat,
         Maps(s, k), Up(to) <= k, k <= Up(from)
  PROVE  Maps(Unmapped(s, Above(from, to)), Up(to))
<1>. DEFINE vs == Above(from, to)
            u == Unmapped(s, vs)
<1>1. vs \in SUBSET VPage
  BY DEF Above
<1>2. \A v \in VPage : u.pte[v] = IF v \in vs THEN 0 ELSE s.pte[v]
  BY <1>1, UnmappedIs
<1>3. \A v \in VPage : v \in Nat /\ (v \in vs <=> Up(to) <= v /\ v < Up(from))
  BY AboveIs
<1>. HIDE DEF vs, u
<1>4. Up(to) \in Nat /\ Up(from) \in Nat
  BY Ups
<1>5. \A v \in VPage : u.pte[v] # 0 <=> v < Up(to)
  BY <1>2, <1>3, <1>4 DEF Maps
<1>. QED
  BY <1>5 DEF Maps, u, vs

\* No page of an address space that is not there is mapped.
LEMMA MapsNone == Maps(NoSpace, 0)
<1>1. \A v \in VPage : NoSpace.pte[v] = 0 /\ v \in Nat
  BY Sizes DEF NoSpace, VPage
<1>. QED
  BY <1>1 DEF Maps

\* The types of a process's memory and size.
LEMMA MemoryIs ==
  ASSUME Types, NEW r \in Proc
  PROVE  as[r] \in Spaces /\ new[r] \in Spaces /\ sz[r] \in Nat
<1>1. as[r] \in Spaces /\ new[r] \in Spaces
  BY DEF Types
<1>2. sz[r] \in 0 .. KERNBASE - 1 /\ KERNBASE \in Nat
  BY Sizes DEF Types
<1>3. sz[r] \in Nat
  BY ONLY <1>2
<1>. QED
  BY <1>1, <1>3

\* A process to which nothing happens.
LEMMA FitFrame ==
  ASSUME NEW r \in Proc, Fit(r), state'[r] = state[r], as'[r] = as[r], sz'[r] = sz[r],
         pc'[r] = pc[r], job'[r] = job[r], new'[r] = new[r]
  PROVE  Fit(r)'
  BY DEF Fit

\* A process that is, or is back, in user mode.
LEMMA FitIdle ==
  ASSUME NEW r \in Proc, job'[r] = NoJob, pc'[r] = "user",
         state'[r] \in {"run", "zombie"} => Maps(as'[r], Up(sz'[r]))
  PROVE  Fit(r)'
<1>1. Base(Up(0)) = 0 /\ Up(0) <= Up(0)
  BY Ups, Bases
<1>. QED
  BY <1>1, NoJobIs DEF Fit

\* What the invariants say of a process in user mode, or at the end of its loop.
LEMMA FitUser ==
  ASSUME Owned, SizesFit, NEW r \in Proc, pc[r] = "user"
  PROVE  /\ job[r] = NoJob /\ new[r] = NoSpace
         /\ state[r] \in {"run", "zombie"} => Maps(as[r], Up(sz[r]))
<1>1. Life(r) /\ Fit(r)
  BY DEF Owned, LifeInv, SizesFit
<1>. QED
  BY <1>1, NoJobIs DEF Life, Fit

\* What they say of a process at the end of its loop.
LEMMA FitEnd ==
  ASSUME Owned, SizesFit, NEW r \in Proc, AllocEnds(r)
  PROVE  /\ Up(job[r].a) = Up(job[r].newsz) /\ pc[r] = "alloc" /\ Fit(r)
         /\ job[r].op \in {"fork", "exec", "stack"} => Maps(new[r], Up(job[r].newsz))
         /\ job[r].op = "grow" => Maps(as[r], Up(job[r].newsz))
<1>1. /\ Fit(r) /\ pc[r] = "alloc" /\ job[r].a >= job[r].newsz
      /\ job[r].a \in Nat /\ job[r].newsz \in Nat
  BY JobIs, Sizes DEF Owned, SizesFit, AllocEnds
<1>2. Up(job[r].newsz) <= Up(job[r].a) /\ Up(job[r].newsz) \in Nat /\ Up(job[r].a) \in Nat
  BY <1>1, Ups
<1>3. Up(job[r].a) = Up(job[r].newsz)
  BY <1>1, <1>2 DEF Fit
<1>. QED
  BY <1>1, <1>3 DEF Fit

-----------------------------------------------------------------------------
(* The steps: what is mapped *)

\* fork() and exec() start to build an address space.
LEMMA Start_Fit ==
  ASSUME Owned, SizesFit, NEW p \in Proc, NEW op \in {"fork", "exec"}, NEW m \in Nat,
         pc[p] = "user", pc'[p] = "setupkvm", job'[p].op = op, job'[p].a = 0, job'[p].newsz = m,
         op = "fork" => m = sz[p], UNCHANGED <<as, sz, new>>, state'[p] = state[p]
  PROVE  Fit(p)'
<1>1. /\ new[p] = NoSpace /\ (state[p] \in {"run", "zombie"} => Maps(as[p], Up(sz[p])))
  BY FitUser
<1>2. Base(Up(0)) = 0 /\ Up(0) = 0 /\ Up(0) <= Up(m)
  <2>1. Up(m) \in Nat /\ Up(0) = 0 /\ Base(0) = 0
    BY Ups, Bases
  <2>. QED
    BY <2>1
<1>. QED
  BY <1>1, <1>2, MapsNone DEF Fit

\* The step Exec keeps the sizes.
LEMMA Exec_Fit ==
  ASSUME Owned, SizesFit, NEW p \in Proc, Exec(p)
  PROVE  SizesFit'
<1>. Types
  BY DEF Owned
<1>1. PICK m \in Images : job' = [job EXCEPT ![p] = [NoJob EXCEPT !.op = "exec", !.newsz = m]]
  BY DEF Exec
<1>2. /\ pc[p] = "user" /\ pc' = [pc EXCEPT ![p] = "setupkvm"]
      /\ UNCHANGED <<state, as, sz, new>>
  BY DEF Exec, Goto, procVars
<1>3. /\ job'[p].op = "exec" /\ job'[p].a = 0 /\ job'[p].newsz = m /\ m \in Nat
      /\ pc'[p] = "setupkvm"
  BY <1>1, <1>2, Sizes DEF Types, NoJob
<1>4. Fit(p)'
  BY <1>2, <1>3, Start_Fit
<1>5. ASSUME NEW r \in Proc \ {p} PROVE Fit(r)'
  BY <1>1, <1>2, FitFrame DEF Types, SizesFit
<1>. QED
  BY <1>4, <1>5 DEF SizesFit

\* The step Fork keeps the sizes.
LEMMA Fork_Fit ==
  ASSUME Owned, SizesFit, NEW p \in Proc, NEW q \in Proc, Fork(p, q)
  PROVE  SizesFit'
<1>. Types
  BY DEF Owned
<1>1. /\ pc[p] = "user" /\ state[p] = "run" /\ state[q] = "unused"
      /\ state' = [state EXCEPT ![q] = "embryo"]
      /\ job' = [job EXCEPT ![p] = [NoJob EXCEPT !.op = "fork", !.child = q, !.newsz = sz[p]]]
      /\ pc' = [pc EXCEPT ![p] = "setupkvm"] /\ UNCHANGED <<as, sz, new>>
  BY DEF Fork, Goto
<1>2. p # q
  BY <1>1
<1>3. /\ job'[p].op = "fork" /\ job'[p].a = 0 /\ job'[p].newsz = sz[p] /\ sz[p] \in Nat
      /\ pc'[p] = "setupkvm" /\ state'[p] = state[p]
  BY <1>1, <1>2, Sizes DEF Types, NoJob
<1>4. Fit(p)'
  BY <1>1, <1>3, Start_Fit
<1>5. Fit(q)'
  <2>1. Life(q)
    BY DEF Owned, LifeInv
  <2>2. pc[q] = "user" /\ job[q] = NoJob
    BY <1>1, <2>1 DEF Life
  <2>3. pc'[q] = "user" /\ job'[q] = NoJob /\ state'[q] = "embryo"
    BY <1>1, <1>2, <2>2 DEF Types
  <2>. QED
    BY <2>3, FitIdle
<1>6. ASSUME NEW r \in Proc \ {p, q} PROVE Fit(r)'
  BY <1>1, FitFrame DEF Types, SizesFit
<1>. QED
  BY <1>4, <1>5, <1>6 DEF SizesFit

\* setupkvm() maps no user page.
LEMMA Setupkvm_Fit ==
  ASSUME Owned, SizesFit, NEW p \in Proc, Setupkvm(p)
  PROVE  SizesFit'
<1>. Types
  BY DEF Owned
<1>1. /\ pc[p] = "setupkvm" /\ UNCHANGED <<state, as, sz, job>>
      /\ new' = [new EXCEPT ![p] = IF new[p].dir = 0 THEN [new[p] EXCEPT !.dir = kalloc]
                                     ELSE [new[p] EXCEPT !.ktab = @ \cup {kalloc}]]
      /\ \E l : pc' = [pc EXCEPT ![p] = l]
  BY DEF Setupkvm, Goto, procVars
<1>2. new'[p].pte = new[p].pte /\ job[p].a = 0 /\ Fit(p)
  <2>1. Fit(p)
    BY DEF SizesFit
  <2>2. new'[p].pte = new[p].pte
    BY <1>1 DEF Types, Spaces
  <2>. QED
    BY <1>1, <2>1, <2>2 DEF Fit
<1>3. \A k : Maps(new'[p], k) <=> Maps(new[p], k)
  BY <1>2 DEF Maps
<1>4. Fit(p)'
  BY <1>1, <1>2, <1>3 DEF Fit
<1>5. ASSUME NEW r \in Proc \ {p} PROVE Fit(r)'
  BY <1>1, FitFrame DEF Types, SizesFit
<1>. QED
  BY <1>4, <1>5 DEF SizesFit

\* The step SetupkvmFails keeps the sizes.
LEMMA SetupkvmFails_Fit ==
  ASSUME Owned, SizesFit, NEW p \in Proc, SetupkvmFails(p)
  PROVE  SizesFit'
<1>. Types
  BY DEF Owned
<1>1. pc' = [pc EXCEPT ![p] = "bad"] /\ UNCHANGED <<state, as, sz, new, job>>
  BY DEF SetupkvmFails, Goto, procVars
<1>2. Fit(p)'
  <2>1. Fit(p) /\ pc'[p] = "bad"
    BY <1>1 DEF SizesFit, Types
  <2>. QED
    BY <1>1, <2>1 DEF Fit
<1>3. ASSUME NEW r \in Proc \ {p} PROVE Fit(r)'
  BY <1>1, FitFrame DEF Types, SizesFit
<1>. QED
  BY <1>2, <1>3 DEF SizesFit

\* The step AllocPage keeps the sizes.
LEMMA AllocPage_Fit ==
  ASSUME Owned, SizesFit, NEW p \in Proc, AllocPage(p)
  PROVE  SizesFit'
<1>. Types
  BY DEF Owned
<1>1. /\ pc' = [pc EXCEPT ![p] = "map"] /\ job' = [job EXCEPT ![p].mem = kalloc]
      /\ UNCHANGED <<state, as, sz, new>>
  BY DEF AllocPage, Goto, procVars
<1>2. /\ Fit(p) /\ pc'[p] = "map"
      /\ job'[p].op = job[p].op /\ job'[p].a = job[p].a /\ job'[p].oldsz = job[p].oldsz
      /\ job'[p].newsz = job[p].newsz
  BY <1>1 DEF SizesFit, Types, Jobs
<1>3. Fit(p)'
  BY <1>1, <1>2 DEF Fit
<1>4. ASSUME NEW r \in Proc \ {p} PROVE Fit(r)'
  BY <1>1, FitFrame DEF Types, SizesFit
<1>. QED
  BY <1>3, <1>4 DEF SizesFit

\* mappages() maps the page after the last one mapped.
LEMMA Map_Fit ==
  ASSUME Owned, SizesFit, NEW p \in Proc, Map(p)
  PROVE  SizesFit'
<1>. Types
  BY DEF Owned
<1>. DEFINE v == job[p].a \div PGSIZE
            s == Space(p)
            grow == job[p].op = "grow"
<1>1. PICK tab : SetSpace(p, [s EXCEPT !.utab[PDX(v)] = tab, !.pte[v] = job[p].mem])
  BY DEF Map
<1>2. /\ pc[p] = "map" /\ pc' = [pc EXCEPT ![p] = "alloc"]
      /\ job' = [job EXCEPT ![p].a = @ + PGSIZE, ![p].mem = 0]
      /\ UNCHANGED <<state, kstack, sz>>
  BY DEF Map, Goto
<1>3. /\ Fit(p) /\ Life(p) /\ job[p].a \in Nat /\ job[p].newsz \in Nat /\ job[p].mem # 0
      /\ job[p].a < job[p].newsz /\ job[p].a < KERNBASE
  <2>1. Fit(p) /\ Life(p)
    BY DEF SizesFit, Owned, LifeInv
  <2>2. job[p].a \in Nat /\ job[p].newsz \in 0 .. KERNBASE - 1 /\ KERNBASE \in Nat
    BY JobIs, Sizes
  <2>3. job[p].mem # 0 /\ job[p].a < job[p].newsz
    BY <1>2, <2>1 DEF Life
  <2>. QED
    BY <2>1, <2>2, <2>3
<1>4. /\ v = Up(job[p].a) /\ v \in VPage /\ v \in Nat /\ PDX(v) \in UTab
      /\ Up(job[p].a + PGSIZE) = v + 1 /\ job[p].a + PGSIZE = Base(v + 1)
      /\ v + 1 <= Up(job[p].newsz)
  <2>1. v = Up(job[p].a) /\ v \in Nat /\ job[p].a = Base(v)
    BY <1>3, Ups DEF Fit
  <2>2. v \in VPage /\ PDX(v) \in UTab
    BY <1>3, LoopPage
  <2>. HIDE DEF v
  <2>3. job[p].a + PGSIZE = Base(v + 1) /\ Up(Base(v + 1)) = v + 1
    BY <2>1, Bases
  <2>4. Up(job[p].newsz) \in Nat /\ v < Up(job[p].newsz)
    BY <1>3, <2>1, RoundUp
  <2>. QED
    BY <2>1, <2>2, <2>3, <2>4
<1>. HIDE DEF v
<1>5. ASSUME NEW S, S = [s EXCEPT !.utab[PDX(v)] = tab, !.pte[v] = job[p].mem], Maps(s, v)
      PROVE  Maps(S, v + 1)
  <2>1. s \in Spaces
    BY DEF Types, Space
  <2>2. \A u \in VPage : u \in Nat /\ S.pte[u] = IF u = v THEN job[p].mem ELSE s.pte[u]
    <3>1. S.pte = [s.pte EXCEPT ![v] = job[p].mem] /\ s.pte \in [VPage -> Page \cup {0}]
      BY <1>5, <2>1 DEF Spaces
    <3>. QED
      BY <3>1, Sizes DEF VPage
  <2>. QED
    BY <1>3, <1>4, <1>5, <2>2 DEF Maps
<1>6. /\ pc'[p] = "alloc" /\ job'[p].op = job[p].op /\ job'[p].a = job[p].a + PGSIZE
      /\ job'[p].oldsz = job[p].oldsz /\ job'[p].newsz = job[p].newsz
  BY <1>2 DEF Types, Jobs
<1>7. \A r \in Proc \ {p} : as'[r] = as[r] /\ new'[r] = new[r] /\ job'[r] = job[r] /\ pc'[r] = pc[r]
  BY <1>1, <1>2 DEF SetSpace, Types
<1>8. Fit(p)'
  <2>1. CASE grow
    <3>1. Maps(as[p], v) /\ s = as[p]
      BY <1>3, <1>4, <2>1 DEF Fit, Space
    <3>2. as'[p] = [s EXCEPT !.utab[PDX(v)] = tab, !.pte[v] = job[p].mem]
      BY <1>1, <2>1 DEF SetSpace, Types
    <3>3. Maps(as'[p], v + 1)
      BY <1>5, <3>1, <3>2
    <3>4. /\ Up(sz[p]) <= v + 1 /\ job[p].oldsz = sz[p]
      <4>1. Up(sz[p]) <= v /\ Up(sz[p]) \in Nat /\ job[p].oldsz = sz[p]
        BY <1>3, <1>4, <2>1, Ups, Sizes DEF Fit, Types
      <4>. QED
        BY <1>4, <4>1
    <3>. QED
      BY <1>2, <1>4, <1>6, <2>1, <3>3, <3>4 DEF Fit
  <2>2. CASE ~grow
    <3>1. s = new[p] /\ as' = as
      BY <1>1, <2>2 DEF SetSpace, Space
    <3>2. new'[p] = [s EXCEPT !.utab[PDX(v)] = tab, !.pte[v] = job[p].mem]
      BY <1>1, <2>2 DEF SetSpace, Types
    <3>3. job[p].op \in {"fork", "exec", "stack"} => Maps(new'[p], v + 1)
      BY <1>3, <1>4, <1>5, <3>1, <3>2 DEF Fit
    <3>. QED
      BY <1>2, <1>3, <1>4, <1>6, <2>2, <3>1, <3>3 DEF Fit
  <2>. QED
    BY <2>1, <2>2
<1>9. ASSUME NEW r \in Proc \ {p} PROVE Fit(r)'
  BY <1>2, <1>7, FitFrame DEF SizesFit
<1>. QED
  BY <1>8, <1>9 DEF SizesFit

\* sbrk() goes back to the pages of p->sz.
LEMMA AllocFails_Fit ==
  ASSUME Owned, SizesFit, NEW p \in Proc, AllocFails(p)
  PROVE  SizesFit'
<1>. Types
  BY DEF Owned
<1>1. /\ Fit(p) /\ UNCHANGED <<state, sz, new>> /\ as[p] \in Spaces
      /\ job[p].a \in Nat /\ job[p].newsz \in Nat /\ sz[p] \in Nat
  <2>1. Fit(p) /\ UNCHANGED <<state, sz, new>>
    BY DEF SizesFit, AllocFails
  <2>2. as[p] \in Spaces /\ sz[p] \in Nat
    BY MemoryIs
  <2>3. job[p].a \in Nat /\ job[p].newsz \in Nat
    BY JobIs, Sizes
  <2>. QED
    BY <2>1, <2>2, <2>3
<1>2. CASE job[p].op = "grow"
  <2>1. /\ as' = [as EXCEPT ![p] = Unmapped(as[p], Above(job[p].newsz, job[p].oldsz))]
        /\ job' = [job EXCEPT ![p] = NoJob] /\ pc' = [pc EXCEPT ![p] = "user"]
    BY <1>2 DEF AllocFails, Space, Goto
  <2>2. /\ job[p].oldsz = sz[p] /\ Maps(as[p], Up(job[p].a)) /\ Up(sz[p]) <= Up(job[p].a)
        /\ Up(job[p].a) <= Up(job[p].newsz) /\ Up(job[p].a) \in Nat
    BY <1>1, <1>2, Ups DEF Fit
  <2>3. Maps(Unmapped(as[p], Above(job[p].newsz, sz[p])), Up(sz[p]))
    BY <1>1, <2>2, MapsLess
  <2>4. /\ as'[p] = Unmapped(as[p], Above(job[p].newsz, sz[p])) /\ job'[p] = NoJob
        /\ pc'[p] = "user" /\ sz'[p] = sz[p]
    BY <1>1, <2>1, <2>2 DEF Types
  <2>5. Fit(p)'
    BY <2>3, <2>4, FitIdle
  <2>6. ASSUME NEW r \in Proc \ {p} PROVE Fit(r)'
    BY <1>1, <2>1, FitFrame DEF Types, SizesFit
  <2>. QED
    BY <2>5, <2>6 DEF SizesFit
<1>3. CASE job[p].op # "grow"
  <2>1. /\ job' = [job EXCEPT ![p].mem = 0] /\ pc' = [pc EXCEPT ![p] = "bad"] /\ UNCHANGED as
    BY <1>3 DEF AllocFails, Goto
  <2>2. /\ pc'[p] = "bad"
        /\ job'[p].op = job[p].op /\ job'[p].a = job[p].a /\ job'[p].oldsz = job[p].oldsz
        /\ job'[p].newsz = job[p].newsz
    BY <2>1 DEF Types, Jobs
  <2>3. Fit(p)'
    BY <1>1, <2>1, <2>2 DEF Fit
  <2>4. ASSUME NEW r \in Proc \ {p} PROVE Fit(r)'
    BY <1>1, <2>1, FitFrame DEF Types, SizesFit
  <2>. QED
    BY <2>3, <2>4 DEF SizesFit
<1>. QED
  BY <1>2, <1>3

\* The step Bad keeps the sizes.
LEMMA Bad_Fit ==
  ASSUME Owned, SizesFit, NEW p \in Proc, Bad(p)
  PROVE  SizesFit'
<1>. Types
  BY DEF Owned
<1>. PICK q \in Proc : q = job[p].child
  BY JobIs
<1>1. /\ new' = [new EXCEPT ![p] = NoSpace] /\ job' = [job EXCEPT ![p] = NoJob]
      /\ pc' = [pc EXCEPT ![p] = "user"] /\ UNCHANGED <<as, sz>>
      /\ job[p].op = "fork" => state' = [state EXCEPT ![q] = "unused"]
      /\ job[p].op # "fork" => state' = state
  BY DEF Bad, Goto
<1>2. /\ Fit(p) /\ Life(p) /\ pc[p] # "user" /\ job[p].op \in {"fork", "exec", "stack"}
  <2>1. Fit(p) /\ Life(p)
    BY DEF SizesFit, Owned, LifeInv
  <2>. QED
    BY <2>1 DEF Bad, Life
<1>3. state[p] = "run" /\ (job[p].op = "fork" => p # q /\ state[q] = "embryo")
  <2>1. job[p].op = "fork" => state[q] = "embryo"
    BY DEF Owned, ForkInv
  <2>2. state[p] = "run"
    BY <1>2 DEF Life
  <2>. QED
    BY <2>1, <2>2
<1>4. Fit(p)'
  <2>1. Maps(as[p], Up(sz[p]))
    BY <1>2, <1>3 DEF Fit
  <2>2. job'[p] = NoJob /\ pc'[p] = "user" /\ as'[p] = as[p] /\ sz'[p] = sz[p]
    BY <1>1 DEF Types
  <2>. QED
    BY <2>1, <2>2, FitIdle
<1>5. ASSUME job[p].op = "fork" PROVE Fit(q)'
  <2>1. Life(q) /\ state[q] = "embryo" /\ p # q
    BY <1>3, <1>5 DEF Owned, LifeInv
  <2>2. pc[q] = "user" /\ job[q] = NoJob
    BY <2>1 DEF Life
  <2>3. pc'[q] = "user" /\ job'[q] = NoJob /\ state'[q] = "unused"
    BY <1>1, <1>5, <2>1, <2>2 DEF Types
  <2>. QED
    BY <2>3, FitIdle
<1>6. ASSUME NEW r \in Proc, r # p, job[p].op # "fork" \/ r # q PROVE Fit(r)'
  <2>1. state'[r] = state[r]
    BY <1>1, <1>6 DEF Types
  <2>. QED
    BY <1>1, <1>6, <2>1, FitFrame DEF Types, SizesFit
<1>. QED
  BY <1>4, <1>5, <1>6 DEF SizesFit

\* The child has the pages of the parent's size.
LEMMA ForkEnd_Fit ==
  ASSUME Owned, SizesFit, NEW p \in Proc, ForkEnd(p)
  PROVE  SizesFit'
<1>. Types
  BY DEF Owned
<1>. PICK q \in Proc : q = job[p].child
  BY JobIs
<1>1. /\ AllocEnds(p) /\ job[p].op = "fork"
      /\ as' = [as EXCEPT ![q] = new[p]] /\ sz' = [sz EXCEPT ![q] = sz[p]]
      /\ state' = [state EXCEPT ![q] = "run"]
      /\ new' = [new EXCEPT ![p] = NoSpace] /\ job' = [job EXCEPT ![p] = NoJob]
      /\ pc' = [pc EXCEPT ![p] = "user"]
  BY DEF ForkEnd, Goto
<1>2. /\ Fit(p) /\ Life(p) /\ Life(q) /\ pc[p] = "alloc" /\ state[q] = "embryo"
      /\ Maps(new[p], Up(job[p].newsz))
  BY <1>1, FitEnd DEF Owned, LifeInv, ForkInv
<1>3. state[p] = "run" /\ p # q /\ pc[q] = "user" /\ job[q] = NoJob /\ job[p].newsz = sz[p]
  BY <1>1, <1>2 DEF Life, Fit
<1>4. Fit(p)'
  <2>1. Maps(as[p], Up(sz[p]))
    BY <1>1, <1>2, <1>3 DEF Fit
  <2>2. job'[p] = NoJob /\ pc'[p] = "user" /\ as'[p] = as[p] /\ sz'[p] = sz[p]
    BY <1>1, <1>3 DEF Types
  <2>. QED
    BY <2>1, <2>2, FitIdle
<1>5. Fit(q)'
  <2>1. pc'[q] = "user" /\ job'[q] = NoJob /\ as'[q] = new[p] /\ sz'[q] = sz[p]
    BY <1>1, <1>3 DEF Types
  <2>. QED
    BY <1>2, <1>3, <2>1, FitIdle
<1>6. ASSUME NEW r \in Proc \ {p, q} PROVE Fit(r)'
  BY <1>1, FitFrame DEF Types, SizesFit
<1>. QED
  BY <1>4, <1>5, <1>6 DEF SizesFit

\* exec() goes on with the pages of the stack.
LEMMA ExecStack_Fit ==
  ASSUME Owned, SizesFit, NEW p \in Proc, ExecStack(p)
  PROVE  SizesFit'
<1>. Types
  BY DEF Owned
<1>. DEFINE top == PGROUNDUP(job[p].newsz)
<1>1. /\ job[p].op = "exec" /\ UNCHANGED <<state, as, sz, pc, new>>
      /\ job' = [job EXCEPT ![p] = [@ EXCEPT !.op = "stack", !.newsz = top + 2 * PGSIZE]]
  BY DEF ExecStack, procVars
<1>2. /\ Fit(p) /\ job[p].a \in Nat /\ job[p].newsz \in Nat
      /\ top \in Nat /\ top + 2 * PGSIZE \in Nat
  <2>1. Fit(p) /\ job[p].a \in Nat /\ job[p].newsz \in Nat
    BY JobIs, Sizes DEF SizesFit
  <2>2. top \in Nat
    BY <2>1, RoundUp
  <2>. QED
    BY <2>1, <2>2, Sizes
<1>3. Up(job[p].a) <= Up(top + 2 * PGSIZE)
  <2>1. Up(job[p].newsz) <= Up(top) /\ Up(top) <= Up(top + 2 * PGSIZE)
    <3>1. Up(job[p].newsz) \in Nat /\ top = Base(Up(job[p].newsz))
      BY <1>2, RoundUp
    <3>2. Up(top) = Up(job[p].newsz)
      BY <3>1, Bases
    <3>3. top <= top + 2 * PGSIZE
      BY <1>2, Sizes
    <3>. HIDE DEF top
    <3>4. Up(top) <= Up(top + 2 * PGSIZE)
      BY <1>2, <3>3, Ups
    <3>. QED
      BY <3>1, <3>2, <3>4
  <2>2. /\ Up(job[p].a) \in Nat /\ Up(job[p].newsz) \in Nat /\ Up(top) \in Nat
        /\ Up(top + 2 * PGSIZE) \in Nat
    BY <1>2, Ups
  <2>3. Up(job[p].a) <= Up(job[p].newsz)
    BY <1>2 DEF Fit
  <2>. QED
    BY <2>1, <2>2, <2>3
<1>. HIDE DEF top
<1>4. /\ job'[p].op = "stack" /\ job'[p].a = job[p].a /\ job'[p].newsz = top + 2 * PGSIZE
  BY <1>1 DEF Types, Jobs
<1>5. Fit(p)'
  BY <1>1, <1>2, <1>3, <1>4 DEF Fit
<1>6. ASSUME NEW r \in Proc \ {p} PROVE Fit(r)'
  BY <1>1, FitFrame DEF Types, SizesFit
<1>. QED
  BY <1>5, <1>6 DEF SizesFit

\* The step ExecEnd keeps the sizes.
LEMMA ExecEnd_Fit ==
  ASSUME Owned, SizesFit, NEW p \in Proc, ExecEnd(p)
  PROVE  SizesFit'
<1>. Types
  BY DEF Owned
<1>1. /\ AllocEnds(p) /\ job[p].op = "stack"
      /\ as' = [as EXCEPT ![p] = new[p]] /\ sz' = [sz EXCEPT ![p] = job[p].newsz]
      /\ new' = [new EXCEPT ![p] = NoSpace] /\ job' = [job EXCEPT ![p] = NoJob]
      /\ pc' = [pc EXCEPT ![p] = "user"] /\ UNCHANGED state
  BY DEF ExecEnd, Goto
<1>2. Maps(new[p], Up(job[p].newsz))
  BY <1>1, FitEnd
<1>3. job'[p] = NoJob /\ pc'[p] = "user" /\ as'[p] = new[p] /\ sz'[p] = job[p].newsz
  BY <1>1 DEF Types
<1>4. Fit(p)'
  BY <1>2, <1>3, FitIdle
<1>5. ASSUME NEW r \in Proc \ {p} PROVE Fit(r)'
  BY <1>1, FitFrame DEF Types, SizesFit
<1>. QED
  BY <1>4, <1>5 DEF SizesFit

\* The loop of sbrk() starts behind the last page of p->sz.
LEMMA Grow_Fit ==
  ASSUME Owned, SizesFit, NEW p \in Proc, Grow(p)
  PROVE  SizesFit'
<1>. Types
  BY DEF Owned
<1>1. PICK m \in Deltas :
        /\ m > 0 /\ Fits(sz[p] + m)
        /\ job' = [job EXCEPT ![p] = [NoJob EXCEPT !.op = "grow", !.a = PGROUNDUP(sz[p]),
                                                   !.oldsz = sz[p], !.newsz = sz[p] + m]]
  BY DEF Grow
<1>2. /\ pc[p] = "user" /\ state[p] = "run" /\ pc' = [pc EXCEPT ![p] = "alloc"]
      /\ UNCHANGED <<state, as, sz, new>>
  BY DEF Grow, Goto, procVars
<1>3. Maps(as[p], Up(sz[p])) /\ sz[p] \in Nat /\ sz[p] + m \in Nat /\ sz[p] <= sz[p] + m
  <2>1. Maps(as[p], Up(sz[p])) /\ sz[p] \in Nat
    BY <1>2, FitUser, MemoryIs
  <2>2. m \in Int
    BY Sizes
  <2>. QED
    BY <1>1, <2>1, <2>2
<1>4. /\ PGROUNDUP(sz[p]) = Base(Up(sz[p])) /\ Up(sz[p]) \in Nat /\ Up(Base(Up(sz[p]))) = Up(sz[p])
      /\ Up(sz[p]) <= Up(sz[p] + m)
  <2>1. PGROUNDUP(sz[p]) = Base(Up(sz[p])) /\ Up(sz[p]) \in Nat
    BY <1>3, RoundUp
  <2>2. Up(Base(Up(sz[p]))) = Up(sz[p])
    BY <2>1, Bases
  <2>3. Up(sz[p]) <= Up(sz[p] + m)
    BY <1>3, Ups
  <2>. QED
    BY <2>1, <2>2, <2>3
<1>5. /\ job'[p].op = "grow" /\ job'[p].a = Base(Up(sz[p])) /\ job'[p].oldsz = sz[p]
      /\ job'[p].newsz = sz[p] + m /\ pc'[p] = "alloc"
  BY <1>1, <1>2, <1>4 DEF Types, NoJob
<1>6. Fit(p)'
  <2>1. Up(job'[p].a) = Up(sz[p]) /\ Up(sz[p]) <= Up(sz[p])
    BY <1>4, <1>5
  <2>. QED
    BY <1>2, <1>3, <1>4, <1>5, <2>1 DEF Fit
<1>7. ASSUME NEW r \in Proc \ {p} PROVE Fit(r)'
  BY <1>1, <1>2, FitFrame DEF Types, SizesFit
<1>. QED
  BY <1>6, <1>7 DEF SizesFit

\* The step GrowEnd keeps the sizes.
LEMMA GrowEnd_Fit ==
  ASSUME Owned, SizesFit, NEW p \in Proc, GrowEnd(p)
  PROVE  SizesFit'
<1>. Types
  BY DEF Owned
<1>1. /\ AllocEnds(p) /\ job[p].op = "grow" /\ sz' = [sz EXCEPT ![p] = job[p].newsz]
      /\ job' = [job EXCEPT ![p] = NoJob] /\ pc' = [pc EXCEPT ![p] = "user"]
      /\ UNCHANGED <<state, as, new>>
  BY DEF GrowEnd, Goto
<1>2. Maps(as[p], Up(job[p].newsz))
  BY <1>1, FitEnd
<1>3. job'[p] = NoJob /\ pc'[p] = "user" /\ as'[p] = as[p] /\ sz'[p] = job[p].newsz
  BY <1>1 DEF Types
<1>4. Fit(p)'
  BY <1>2, <1>3, FitIdle
<1>5. ASSUME NEW r \in Proc \ {p} PROVE Fit(r)'
  BY <1>1, FitFrame DEF Types, SizesFit
<1>. QED
  BY <1>4, <1>5 DEF SizesFit

\* A size that is not 0 is reached by unmapping what is above it.
LEMMA Shrink_Fit ==
  ASSUME Owned, SizesFit, KeepsMemory, NEW p \in Proc, Shrink(p)
  PROVE  SizesFit'
<1>. Types
  BY DEF Owned
<1>1. PICK m \in Deltas :
        /\ m < 0 /\ sz[p] + m >= 0
        /\ as' = [as EXCEPT ![p] = Unmapped(as[p], Above(sz[p], sz[p] + m))]
        /\ sz' = [sz EXCEPT ![p] = IF sz[p] + m = 0 THEN @ ELSE sz[p] + m]
  BY DEF Shrink, ShrinkFrees
<1>2. pc[p] = "user" /\ state[p] = "run" /\ UNCHANGED <<state, pc, new, job>> /\ sz' # sz
  BY DEF Shrink, KeepsMemory
<1>3. sz[p] + m # 0
  BY <1>1, <1>2 DEF Types
<1>4. PICK to \in Nat : to = sz[p] + m /\ to <= sz[p] /\ sz[p] \in Nat
  BY <1>1, Sizes DEF Types
<1>5. Maps(as[p], Up(sz[p])) /\ job[p] = NoJob /\ as[p] \in Spaces
  BY <1>2, FitUser DEF Types
<1>6. Maps(Unmapped(as[p], Above(sz[p], to)), Up(to))
  <2>1. Up(sz[p]) \in Nat /\ Up(to) <= Up(sz[p]) /\ Up(sz[p]) <= Up(sz[p])
    BY <1>4, Ups
  <2>. QED
    BY <1>4, <1>5, <2>1, MapsLess
<1>7. /\ as'[p] = Unmapped(as[p], Above(sz[p], to)) /\ sz'[p] = to
      /\ job'[p] = NoJob /\ pc'[p] = "user"
  BY <1>1, <1>2, <1>3, <1>4, <1>5 DEF Types
<1>8. Fit(p)'
  BY <1>6, <1>7, FitIdle
<1>9. ASSUME NEW r \in Proc \ {p} PROVE Fit(r)'
  BY <1>1, <1>2, FitFrame DEF Types, SizesFit
<1>. QED
  BY <1>8, <1>9 DEF SizesFit

\* The step Exit keeps the sizes.
LEMMA Exit_Fit ==
  ASSUME Owned, SizesFit, NEW p \in Proc, Exit(p)
  PROVE  SizesFit'
<1>. Types
  BY DEF Owned
<1>1. /\ pc[p] = "user" /\ state[p] = "run" /\ state' = [state EXCEPT ![p] = "zombie"]
      /\ UNCHANGED <<as, sz, pc, new, job>>
  BY DEF Exit
<1>2. Fit(p)'
  BY <1>1, FitUser, FitIdle
<1>3. ASSUME NEW r \in Proc \ {p} PROVE Fit(r)'
  BY <1>1, FitFrame DEF Types, SizesFit
<1>. QED
  BY <1>2, <1>3 DEF SizesFit

\* The step Wait keeps the sizes.
LEMMA Wait_Fit ==
  ASSUME Owned, SizesFit, NEW p \in Proc, NEW q \in Proc, Wait(p, q)
  PROVE  SizesFit'
<1>. Types
  BY DEF Owned
<1>1. /\ state[q] = "zombie" /\ as' = [as EXCEPT ![q] = NoSpace]
      /\ state' = [state EXCEPT ![q] = "unused"] /\ sz' = [sz EXCEPT ![q] = 0]
      /\ UNCHANGED <<pc, new, job>>
  BY DEF Wait
<1>2. Life(q)
  BY DEF Owned, LifeInv
<1>3. pc[q] = "user" /\ job[q] = NoJob
  BY <1>1, <1>2 DEF Life
<1>4. Fit(q)'
  <2>1. pc'[q] = "user" /\ job'[q] = NoJob /\ state'[q] = "unused"
    BY <1>1, <1>3 DEF Types
  <2>. QED
    BY <2>1, FitIdle
<1>5. ASSUME NEW r \in Proc \ {q} PROVE Fit(r)'
  BY <1>1, FitFrame DEF Types, SizesFit
<1>. QED
  BY <1>4, <1>5 DEF SizesFit

-----------------------------------------------------------------------------
(* What is mapped is what p->sz says. *)

\* userinit() establishes it: init has one page.
LEMMA Init_Fit == Init => SizesFit
<1>. SUFFICES ASSUME Init, NEW p \in Proc PROVE Fit(p)
  BY DEF SizesFit
<1>1. job[p] = NoJob /\ pc[p] = "user"
  BY DEF Init
<1>2. Base(Up(0)) = 0 /\ Up(0) <= Up(0)
  BY Ups, Bases
<1>3. state[p] \in {"run", "zombie"} => Maps(as[p], Up(sz[p]))
  <2>. SUFFICES ASSUME p = initproc PROVE Maps(as[p], Up(sz[p]))
    BY DEF Init
  <2>1. sz[p] = PGSIZE /\ as[p] = [NoSpace EXCEPT !.dir = 2, !.utab[0] = 3, !.pte[0] = 4,
                                                  !.ktab = 5 .. NKTAB + 4]
    BY DEF Init
  <2>2. \A v \in VPage : v \in Nat /\ as[p].pte[v] = IF v = 0 THEN 4 ELSE 0
    BY <2>1, Sizes DEF NoSpace, VPage
  <2>3. Up(PGSIZE) = 1
    <3>1. PGSIZE = Base(1)
      BY Sizes DEF Base
    <3>. QED
      BY <3>1, Bases
  <2>. QED
    BY <2>1, <2>2, <2>3 DEF Maps
<1>. QED
  BY <1>1, <1>2, <1>3, NoJobIs DEF Fit

\* Every step of programs that keep some memory preserves it.
LEMMA Next_Fit == Owned /\ SizesFit /\ [Next]_vars /\ [KeepsMemory]_vars => SizesFit'
<1>. SUFFICES ASSUME Owned, SizesFit, [Next]_vars, [KeepsMemory]_vars PROVE SizesFit'
  OBVIOUS
<1>1. CASE UNCHANGED vars
  <2>1. UNCHANGED <<state, as, sz, pc, new, job>>
    BY <1>1 DEF vars, procVars
  <2>. QED
    BY <2>1, FitFrame DEF SizesFit
<1>2. ASSUME NEW p \in Proc, NEW q \in Proc, Fork(p, q) \/ Wait(p, q) PROVE SizesFit'
  BY <1>2, Fork_Fit, Wait_Fit
<1>3. ASSUME NEW p \in Proc,
             \/ Exec(p) \/ Setupkvm(p) \/ SetupkvmFails(p) \/ AllocPage(p) \/ Map(p)
             \/ AllocFails(p) \/ Bad(p) \/ ForkEnd(p) \/ ExecStack(p) \/ ExecEnd(p)
             \/ Grow(p) \/ GrowEnd(p) \/ Exit(p)
      PROVE  SizesFit'
  BY <1>3, Exec_Fit, Setupkvm_Fit, SetupkvmFails_Fit, AllocPage_Fit, Map_Fit,
     AllocFails_Fit, Bad_Fit, ForkEnd_Fit, ExecStack_Fit, ExecEnd_Fit, Grow_Fit,
     GrowEnd_Fit, Exit_Fit
<1>4. ASSUME NEW p \in Proc, Shrink(p), KeepsMemory PROVE SizesFit'
  BY <1>4, Shrink_Fit
<1>. QED
  BY <1>1, <1>2, <1>3, <1>4 DEF Next

\* allocuvm(), deallocuvm() and copyuvm() against sbrk, fork and exec: the memory below
\* p->sz is mapped and none above it, for sizes that end anywhere in a page, as long as
\* no program gives back all of its memory.
THEOREM SizesAreMapped == Spec /\ [][KeepsMemory]_vars => []SizeMapped
<1>1. Owned /\ SizesFit => SizeMapped
  <2>. SUFFICES ASSUME Owned, SizesFit, NEW p \in Proc, state[p] \in {"run", "zombie"},
                       NEW v \in VPage
                PROVE  /\ v * PGSIZE < sz[p] => as[p].pte[v] # 0
                       /\ v * PGSIZE >= PGROUNDUP(IF job[p].op = "grow" THEN job[p].a ELSE sz[p])
                            => as[p].pte[v] = 0
    BY DEF SizeMapped
  <2>1. v \in Nat /\ Fit(p) /\ sz[p] \in Nat /\ job[p].a \in Nat /\ v * PGSIZE = Base(v)
    <3>1. Types /\ Fit(p)
      BY DEF Owned, SizesFit
    <3>2. sz[p] \in Nat /\ job[p].a \in Nat
      BY <3>1, MemoryIs, JobIs
    <3>3. v \in Nat /\ v * PGSIZE = Base(v)
      BY Sizes DEF VPage, Base
    <3>. QED
      BY <3>1, <3>2, <3>3
  <2>2. \A k \in Nat : /\ Up(k) \in Nat /\ PGROUNDUP(k) = Base(Up(k))
                       /\ Base(v) < k <=> v < Up(k)
                       /\ Base(v) >= Base(Up(k)) => ~(v < Up(k))
    <3>. SUFFICES ASSUME NEW k \in Nat
                  PROVE  /\ Up(k) \in Nat /\ PGROUNDUP(k) = Base(Up(k))
                         /\ Base(v) < k <=> v < Up(k)
                         /\ Base(v) >= Base(Up(k)) => ~(v < Up(k))
      OBVIOUS
    <3>1. Up(k) \in Nat /\ PGROUNDUP(k) = Base(Up(k)) /\ (Base(v) < k <=> v < Up(k))
      BY <2>1, RoundUp
    <3>2. Base(Up(k)) <= Base(v) <=> Up(k) <= v
      BY <2>1, <3>1, Bases
    <3>3. Base(Up(k)) \in Nat /\ Base(v) \in Nat
      BY <2>1, <3>1, Bases
    <3>. QED
      BY <2>1, <3>1, <3>2, <3>3
  <2>3. CASE job[p].op = "grow"
    <3>1. /\ as[p].pte[v] # 0 <=> v < Up(job[p].a)
          /\ Up(sz[p]) <= Up(job[p].a)
      BY <2>1, <2>3 DEF Fit, Maps
    <3>2. /\ v \in Nat /\ Up(job[p].a) \in Nat /\ PGROUNDUP(job[p].a) = Base(Up(job[p].a))
          /\ Base(v) >= Base(Up(job[p].a)) => ~(v < Up(job[p].a))
          /\ Up(sz[p]) \in Nat /\ (Base(v) < sz[p] <=> v < Up(sz[p]))
      BY <2>1, <2>2
    <3>3. Base(v) < sz[p] => as[p].pte[v] # 0
      <4>1. v < Up(sz[p]) => v < Up(job[p].a)
        BY ONLY <3>1, <3>2
      <4>. QED
        BY ONLY <3>1, <3>2, <4>1
    <3>4. Base(v) >= PGROUNDUP(job[p].a) => as[p].pte[v] = 0
      BY <3>1, <3>2
    <3>. QED
      BY <2>1, <2>3, <3>3, <3>4
  <2>4. CASE job[p].op # "grow"
    <3>1. as[p].pte[v] # 0 <=> v < Up(sz[p])
      BY <2>1, <2>4 DEF Fit, Maps
    <3>. QED
      BY <2>1, <2>2, <2>4, <3>1
  <2>. QED
    BY <2>3, <2>4
<1>2. Spec /\ [][KeepsMemory]_vars => []SizesFit
  BY Init_Fit, Next_Fit, Ownership, PTL DEF Spec
<1>. QED
  BY <1>1, <1>2, Ownership, PTL
=============================================================================
