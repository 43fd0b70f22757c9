------------------------------ MODULE FsProofs ------------------------------
(***************************************************************************)
(* Inodes, directories and open files: reference counts, link counts, the  *)
(* free map, the inode locks and the tree of directories agree with each   *)
(* other at every step of every call, for any number of processes, inodes, *)
(* blocks, files and names.                                                *)
(***************************************************************************)
EXTENDS Fs, FiniteSetTheorems, WellFoundedInduction, TLAPS

-----------------------------------------------------------------------------
(* The inductive invariant *)

Inum0 == Inum \cup {0}
Location == {"unused", "idle", "exit", "walk", "named", "opened", "exists", "made",
             "unlink", "notempty", "erased", "linked", "bad", "putip"}
Locals == [op : Ops \cup {"none"}, elems : Seq(Elem), parent : BOOLEAN, new : Path,
           wp : Inum0, ip : Inum0, dp : Inum0, drop : Inum0, ret : Location]
Entry == [ref : Nat, valid : BOOLEAN, d : DInode]

\* The types, of the locals too.
Types ==
  /\ dinode \in [Inum -> DInode]
  /\ dents \in [Inum -> [Name \cup {".."} -> Inum0]]
  /\ used \subseteq Block
  /\ icache \in [Inum -> Entry]
  /\ lock \in [Inum -> Proc \cup {NoProc}]
  /\ ftable \in [File -> [ref : Nat, ip : Inum0, writable : BOOLEAN]]
  /\ ofile \in [Proc -> [Fd -> File \cup {0}]]
  /\ cwd \in [Proc -> Inum0]
  /\ pc \in [Proc -> Location \cup {"put", "deref"}]
  /\ l \in [Proc -> Locals]

\* Where a process is in its call, once the iput() it may be in has returned.
Loc(p) == IF pc[p] \in {"put", "deref"} THEN l[p].ret ELSE pc[p]

\* Which references a process owns at each place.
Ctl(p) ==
  /\ l[p].drop # 0 <=> pc[p] \in {"put", "deref"}
  /\ Loc(p) \in {"unused", "idle", "exit"} => l[p].wp = 0 /\ l[p].ip = 0 /\ l[p].dp = 0
  /\ Loc(p) \in {"walk", "named"} =>
       /\ l[p].wp # 0 /\ l[p].dp = 0
       /\ l[p].ip # 0 => l[p].op = "link"
       /\ l[p].parent <=> l[p].op \in Creating \cup {"unlink"} \/ l[p].ip # 0
  /\ Loc(p) = "named" /\ l[p].parent => Len(l[p].elems) = 1
  /\ Loc(p) \in {"opened", "exists", "made", "erased", "bad", "putip"} =>
       l[p].wp = 0 /\ l[p].ip # 0 /\ l[p].dp = 0
  /\ Loc(p) \in {"unlink", "linked"} => l[p].wp = 0 /\ l[p].ip # 0 /\ l[p].dp # 0
  /\ Loc(p) = "notempty" => l[p].wp = 0 /\ l[p].ip = 0 /\ l[p].dp # 0
  /\ Loc(p) = "unused" => cwd[p] = 0 /\ \A fd \in Fd : ofile[p][fd] = 0
  /\ Loc(p) # "unused" => cwd[p] # 0

CtlInv == \A p \in Proc : Ctl(p)

\* The inodes a process has locked while it is outside of a section.
Locks(p, i) ==
  \/ Loc(p) \in {"opened", "made", "erased"} /\ l[p].ip = i
  \/ Loc(p) \in {"unlink", "notempty", "linked"} /\ l[p].dp = i

LockInv == \A p \in Proc, i \in Inum : lock[i] = p <=> Locks(p, i)

\* The cache agrees with the disk, and a locked inode has been read.
CacheInv ==
  \A i \in Inum :
    /\ icache[i].valid => icache[i].d = dinode[i] /\ dinode[i].type # "free"
    /\ lock[i] # NoProc => icache[i].valid

RefInv == \A i \in Inum : icache[i].ref = Refs(i)

Descriptors(f) == {x \in Proc \X Fd : ofile[x[1]][x[2]] = f}

FileInv ==
  \A f \in File :
    /\ ftable[f].ref = Cardinality(Descriptors(f))
    /\ ftable[f].ref = 0 <=> ftable[f].ip = 0

IsDir(i) == dinode[i].type = "dir"
Live(i) == dinode[i].type # "free"

\* What is free is empty; only directories have entries, and all of them a "..",
\* which is where a directory's name is.
DirInv ==
  /\ IsDir(ROOTINO) /\ dents[ROOTINO][".."] = ROOTINO
  /\ \A i \in Inum :
       /\ ~Live(i) => dinode[i] = NoInode
       /\ ~IsDir(i) => dents[i] = NoEntries
       /\ IsDir(i) => dents[i][".."] # 0
  /\ \A d \in Inum, n \in Name :
       dents[d][n] # 0 /\ IsDir(dents[d][n]) => dents[dents[d][n]][".."] = d

\* The names of subdirectories in directory i.
Subdirs(i) == {n \in Name : dents[i][n] # 0 /\ IsDir(dents[i][n])}

\* link() counts a name before it enters it, unlink() after it has erased it.
Owes(p) ==
  \/ Loc(p) \in {"erased", "linked", "bad"}
  \/ Loc(p) \in {"walk", "named"} /\ l[p].ip # 0
Owing(i) == {p \in Proc : Owes(p) /\ l[p].ip = i}

\* nlink covers the names of an inode, the ".." of its subdirectories, the calls
\* that owe it a name, and for the root what mkfs gave it.
LinkInv ==
  \A i \in Inum :
    dinode[i].nlink >= Cardinality(Entries(i)) + Cardinality(Subdirs(i))
                       + Cardinality(Owing(i)) + (IF i = ROOTINO THEN 1 ELSE 0)

\* An inode has an indirect block exactly when it has more than NDIRECT blocks.
SizeInv ==
  \A i \in Inum :
    /\ Len(dinode[i].data) <= MAXFILE
    /\ dinode[i].ind # 0 <=> Len(dinode[i].data) > NDIRECT

\* What is referenced is allocated, but for what a lookup of ".." may have found.
LiveOf(p) ==
  /\ cwd[p] # 0 => Live(cwd[p])
  /\ l[p].ip # 0 /\ Loc(p) # "exists" => Live(l[p].ip)
  /\ l[p].dp # 0 => Live(l[p].dp)

LiveInv ==
  /\ \A p \in Proc : LiveOf(p)
  /\ \A f \in File : ftable[f].ip # 0 => Live(ftable[f].ip)

\* A call that enters or erases a name does so in a directory; directories have
\* one name.
NameOf(p) ==
  /\ Loc(p) = "named" /\ l[p].parent => IsDir(l[p].wp)
  /\ Owes(p) /\ Loc(p) # "erased" => ~IsDir(l[p].ip)
  /\ Loc(p) = "unlink" =>
       /\ l[p].elems # <<>> /\ Head(l[p].elems) \in Name
       /\ IsDir(l[p].dp) /\ dents[l[p].dp][Head(l[p].elems)] = l[p].ip

NameInv == \A p \in Proc : NameOf(p)

\* rank orders the directories: a subdirectory comes after its directory.
Ranks(rank, m) ==
  /\ \A i \in Inum : rank[i] <= m
  /\ \A d \in Inum, n \in Name :
       dents[d][n] # 0 /\ IsDir(dents[d][n]) => rank[d] < rank[dents[d][n]]

\* The directories have no cycle.
TreeInv == \E m \in Nat : \E rank \in [Inum -> Nat] : Ranks(rank, m)

IInv ==
  /\ Types /\ CtlInv /\ LockInv /\ CacheInv /\ RefInv /\ FileInv
  /\ DirInv /\ LinkInv /\ SizeInv /\ BlocksOwned
  /\ LiveInv /\ NameInv /\ TreeInv

-----------------------------------------------------------------------------
(* Facts the steps share *)

\* What the assumptions say of the constants and of the sets made from them.
LEMMA Consts ==
  /\ IsFiniteSet(Proc) /\ initproc \in Proc /\ NoProc \notin Proc
  /\ ninodes \in Nat /\ Inum \subseteq Nat /\ 0 \notin Inum /\ ROOTINO \in Inum
  /\ IsFiniteSet(Inum) /\ IsFiniteSet(Block) /\ IsFiniteSet(Name)
  /\ Block \subseteq Nat /\ 0 \notin Block /\ Block # {}
  /\ NDIRECT \in Nat /\ NINDIRECT \in Nat /\ NFILE \in Nat /\ NOFILE \in Nat /\ NDIRECT > 0
  /\ MAXFILE \in Nat /\ MAXFILE > 0
  /\ File \subseteq Nat /\ 0 \notin File /\ IsFiniteSet(File)
  /\ Fd \subseteq Nat /\ IsFiniteSet(Fd)
  /\ "." \notin Name /\ ".." \notin Name
<1>1. /\ IsFiniteSet(1 .. ninodes - 1) /\ IsFiniteSet(1 .. NFILE)
      /\ IsFiniteSet(0 .. NOFILE - 1)
  <2>1. /\ 1 \in Int /\ 0 \in Int /\ ninodes - 1 \in Int /\ NFILE \in Int
        /\ NOFILE - 1 \in Int
    BY FsAssumption
  <2>2. \A a, b \in Int : IsFiniteSet(a .. b)
    BY FS_Interval
  <2>. QED
    BY <2>1, <2>2
<1>. QED
  BY <1>1, FsAssumption DEF Inum, ROOTINO, File, Fd, MAXFILE

\* A set of numbers that is not empty has a least one.
LEMMA Least ==
  ASSUME NEW S, S \subseteq Nat, S # {}
  PROVE  \E x \in S : \A y \in S : x <= y
<1>. DEFINE R == OpToRel(<, Nat)
            Q == {ss \in Nat \X Nat : ss[1] < ss[2]}
<1>1. \E x \in S : \A y \in S : ~(<<y, x>> \in R)
  BY NatLessThanWellFounded, WFMin
<1>2. R = Q
  BY Zenon DEF OpToRel
<1>. HIDE DEF R
<1>3. \A x, y \in Nat : <<x, y>> \in Q <=> x < y
  OBVIOUS
<1>. HIDE DEF Q
<1>4. PICK x \in S : \A y \in S : ~(<<y, x>> \in Q)
  BY Zenon, <1>1, <1>2
<1>5. \A y \in S : ~(y < x)
  BY <1>3, <1>4
<1>. QED
  BY <1>5

\* balloc() and fdalloc() take the least of a set: it is in the set.
LEMMA MinIs ==
  ASSUME NEW S, S \subseteq Nat, S # {}
  PROVE  Min(S) \in S
  BY Least DEF Min

One(b) == IF b THEN 1 ELSE 0

\* Adding an element on a condition adds one to the cardinality on that
\* condition.
LEMMA AddIf ==
  ASSUME NEW S, IsFiniteSet(S), NEW x, x \notin S, NEW c \in BOOLEAN
  PROVE  /\ IsFiniteSet(S \cup (IF c THEN {x} ELSE {}))
         /\ Cardinality(S \cup (IF c THEN {x} ELSE {})) = Cardinality(S) + One(c)
<1>1. CASE c
  BY <1>1, FS_AddElement DEF One
<1>2. CASE ~c
  <2>1. S \cup (IF c THEN {x} ELSE {}) = S
    BY <1>2
  <2>2. Cardinality(S) \in Nat
    BY FS_CardinalityType
  <2>. QED
    BY <1>2, <2>1, <2>2 DEF One
<1>. QED
  BY <1>1, <1>2

\* The references of process p to inode i, and those of the others.
Pointer == {"wp", "ip", "dp", "drop"}
Share(p, i) == One(l[p].wp = i) + One(l[p].ip = i) + One(l[p].dp = i) + One(l[p].drop = i)
               + One(cwd[p] = i)
Others(p, i) ==
  Cardinality({x \in (Proc \ {p}) \X Pointer : l[x[1]][x[2]] = i})
  + Cardinality({r \in Proc \ {p} : cwd[r] = i})
FilesOf(i) == {f \in File : ftable[f].ip = i}

\* The references to an inode are those of process p, of the others, and of the
\* file table.
LEMMA RefsSplit ==
  ASSUME Types, NEW p \in Proc, NEW i
  PROVE  /\ Refs(i) = Others(p, i) + Share(p, i) + Cardinality(FilesOf(i))
         /\ Others(p, i) \in Nat /\ Cardinality(FilesOf(i)) \in Nat /\ Share(p, i) \in Nat
<1>. DEFINE A == {x \in Proc \X Pointer : l[x[1]][x[2]] = i}
            B == {x \in (Proc \ {p}) \X Pointer : l[x[1]][x[2]] = i}
            c(v) == l[p][v] = i
            S1 == B \cup (IF c("wp") THEN {<<p, "wp">>} ELSE {})
            S2 == S1 \cup (IF c("ip") THEN {<<p, "ip">>} ELSE {})
            S3 == S2 \cup (IF c("dp") THEN {<<p, "dp">>} ELSE {})
            S4 == S3 \cup (IF c("drop") THEN {<<p, "drop">>} ELSE {})
<1>1. IsFiniteSet(Proc \X Pointer)
  <2>1. IsFiniteSet({"wp"} \cup {"ip"} \cup {"dp"} \cup {"drop"})
    BY FS_Singleton, FS_Union
  <2>2. Pointer = {"wp"} \cup {"ip"} \cup {"dp"} \cup {"drop"}
    BY DEF Pointer
  <2>. QED
    BY <2>1, <2>2, Consts, FS_Product
<1>2. IsFiniteSet(B) /\ \A v \in Pointer : <<p, v>> \notin B
  <2>1. B \in SUBSET (Proc \X Pointer)
    OBVIOUS
  <2>. QED
    BY <1>1, <2>1, FS_Subset
<1>3. A = S4
  BY DEF Pointer
<1>4. /\ Cardinality(S1) = Cardinality(B) + One(c("wp")) /\ IsFiniteSet(S1)
      /\ <<p, "ip">> \notin S1 /\ <<p, "dp">> \notin S1 /\ <<p, "drop">> \notin S1
  <2>1. <<p, "wp">> \notin B /\ c("wp") \in BOOLEAN
    BY <1>2 DEF Pointer
  <2>2. Cardinality(S1) = Cardinality(B) + One(c("wp")) /\ IsFiniteSet(S1)
    BY <1>2, <2>1, AddIf
  <2>. QED
    BY <1>2, <2>2 DEF Pointer
<1>. HIDE DEF S1
<1>5. /\ Cardinality(S2) = Cardinality(S1) + One(c("ip")) /\ IsFiniteSet(S2)
      /\ <<p, "dp">> \notin S2 /\ <<p, "drop">> \notin S2
  <2>1. c("ip") \in BOOLEAN
    OBVIOUS
  <2>2. Cardinality(S2) = Cardinality(S1) + One(c("ip")) /\ IsFiniteSet(S2)
    BY <1>4, <2>1, AddIf
  <2>. QED
    BY <1>4, <2>2
<1>. HIDE DEF S2
<1>6. /\ Cardinality(S3) = Cardinality(S2) + One(c("dp")) /\ IsFiniteSet(S3)
      /\ <<p, "drop">> \notin S3
  <2>1. c("dp") \in BOOLEAN
    OBVIOUS
  <2>2. Cardinality(S3) = Cardinality(S2) + One(c("dp")) /\ IsFiniteSet(S3)
    BY <1>5, <2>1, AddIf
  <2>. QED
    BY <1>5, <2>2
<1>. HIDE DEF S3
<1>7. Cardinality(S4) = Cardinality(S3) + One(c("drop"))
  <2>1. c("drop") \in BOOLEAN
    OBVIOUS
  <2>. QED
    BY <1>6, <2>1, AddIf
<1>8. Cardinality(B) \in Nat
  BY <1>2, FS_CardinalityType
<1>. DEFINE X == {r \in Proc : cwd[r] = i}
            Y == {r \in Proc \ {p} : cwd[r] = i}
<1>9. Cardinality(X) = Cardinality(Y) + One(cwd[p] = i) /\ Cardinality(Y) \in Nat
  <2>1. IsFiniteSet(Y)
    BY Consts, FS_Subset
  <2>2. X = Y \cup (IF cwd[p] = i THEN {p} ELSE {})
    OBVIOUS
  <2>3. p \notin Y /\ (cwd[p] = i) \in BOOLEAN
    OBVIOUS
  <2>4. Cardinality(Y \cup (IF cwd[p] = i THEN {p} ELSE {})) = Cardinality(Y) + One(cwd[p] = i)
    BY <2>1, <2>3, AddIf
  <2>5. Cardinality(Y) \in Nat
    BY <2>1, FS_CardinalityType
  <2>. QED
    BY <2>2, <2>4, <2>5
<1>10. Cardinality(FilesOf(i)) \in Nat
  BY Consts, FS_Subset, FS_CardinalityType DEF FilesOf
<1>11. /\ One(c("wp")) = One(l[p].wp = i) /\ One(c("ip")) = One(l[p].ip = i)
       /\ One(c("dp")) = One(l[p].dp = i) /\ One(c("drop")) = One(l[p].drop = i)
  OBVIOUS
<1>12. Refs(i) = Cardinality(A) + Cardinality(X) + Cardinality(FilesOf(i))
  BY DEF Refs, FilesOf, Pointer
<1>13. Others(p, i) = Cardinality(B) + Cardinality(Y)
  BY DEF Others
<1>14. \A b \in BOOLEAN : One(b) \in Nat
  BY DEF One
<1>15. /\ One(l[p].wp = i) \in Nat /\ One(l[p].ip = i) \in Nat /\ One(l[p].dp = i) \in Nat
       /\ One(l[p].drop = i) \in Nat /\ One(cwd[p] = i) \in Nat
  BY DEF One
<1>. HIDE DEF A, B, X, Y, S4, c
<1>. QED
  BY <1>3, <1>4, <1>5, <1>6, <1>7, <1>8, <1>9, <1>10, <1>11, <1>12, <1>13, <1>15 DEF Share

SplitIs ==
  \A p \in Proc, i \in Inum :
    /\ Refs(i) = Others(p, i) + Share(p, i) + Cardinality(FilesOf(i))
    /\ Others(p, i) \in Nat /\ Cardinality(FilesOf(i)) \in Nat /\ Share(p, i) \in Nat

\* That splitting of the references holds now.
LEMMA SplitNow == Types => SplitIs
  BY RefsSplit DEF SplitIs

\* And after the step.
LEMMA SplitNext == Types' => SplitIs'
  BY SplitNow, PTL

\* Only process p moves.
Alone(p) ==
  \A r \in Proc \ {p} :
    l'[r] = l[r] /\ pc'[r] = pc[r] /\ cwd'[r] = cwd[r] /\ ofile'[r] = ofile[r]

\* A step of p alone leaves the place, the locks and the debts of the others as
\* they are.
LEMMA OthersStay ==
  ASSUME NEW p \in Proc, Alone(p), NEW r \in Proc \ {p}
  PROVE  /\ Loc(r)' = Loc(r) /\ (Owes(r)' <=> Owes(r))
         /\ \A i \in Inum : Locks(r, i)' <=> Locks(r, i)
  BY DEF Alone, Loc, Owes, Locks

\* Reference counts stay right when the count moves with the references of the
\* process that steps.
LEMMA RefsMove ==
  ASSUME Types, Types', RefInv, NEW p \in Proc, Alone(p),
         \A f \in File : ftable'[f].ip = ftable[f].ip,
         \A i \in Inum : icache'[i].ref + Share(p, i) = icache[i].ref + Share(p, i)'
  PROVE  RefInv'
<1>. SUFFICES ASSUME NEW i \in Inum PROVE icache'[i].ref = Refs(i)'
  BY DEF RefInv
<1>1. FilesOf(i)' = FilesOf(i)
  BY DEF FilesOf
<1>2. Others(p, i)' = Others(p, i)
  <2>1. {x \in (Proc \ {p}) \X Pointer : l[x[1]][x[2]] = i}'
          = {x \in (Proc \ {p}) \X Pointer : l[x[1]][x[2]] = i}
    BY DEF Alone
  <2>2. {r \in Proc \ {p} : cwd[r] = i}' = {r \in Proc \ {p} : cwd[r] = i}
    BY DEF Alone
  <2>. QED
    BY <2>1, <2>2 DEF Others
<1>3. /\ Refs(i) = Others(p, i) + Share(p, i) + Cardinality(FilesOf(i))
      /\ Others(p, i) \in Nat /\ Cardinality(FilesOf(i)) \in Nat /\ Share(p, i) \in Nat
  BY SplitNow DEF SplitIs
<1>4. /\ Refs(i)' = Others(p, i)' + Share(p, i)' + Cardinality(FilesOf(i))'
      /\ Share(p, i)' \in Nat
  BY SplitNext DEF SplitIs
<1>5. icache[i].ref = Refs(i) /\ icache'[i].ref \in Nat
  BY DEF RefInv, Types, Entry
<1>6. Cardinality(FilesOf(i))' = Cardinality(FilesOf(i))
  BY <1>1
<1>. QED
  BY <1>2, <1>3, <1>4, <1>5, <1>6

\* The locks agree with the places of the processes when the step moves both
\* together.
LEMMA LockMove ==
  ASSUME LockInv, NEW p \in Proc, Alone(p),
         \A i \in Inum : lock'[i] = p <=> Locks(p, i)',
         \A i \in Inum, r \in Proc \ {p} : lock'[i] = r <=> lock[i] = r
  PROVE  LockInv'
<1>. SUFFICES ASSUME NEW r \in Proc, NEW i \in Inum PROVE lock'[i] = r <=> Locks(r, i)'
  BY DEF LockInv
<1>1. CASE r = p
  BY <1>1
<1>2. CASE r # p
  BY <1>2, OthersStay DEF LockInv
<1>. QED
  BY <1>1, <1>2

\* The facts about the disk, after a step that does not change it.
LEMMA DiskSame ==
  ASSUME IInv, NEW p \in Proc, Alone(p), UNCHANGED diskVars,
         Owes(p)' <=> Owes(p), Owes(p) => l'[p].ip = l[p].ip
  PROVE  DirInv' /\ LinkInv' /\ SizeInv' /\ BlocksOwned' /\ TreeInv'
<1>1. DirInv' /\ SizeInv' /\ BlocksOwned'
  BY DEF IInv, diskVars, DirInv, SizeInv, BlocksOwned, IsDir, Live, Blocks, Distinct
<1>2. LinkInv'
  <2>. SUFFICES ASSUME NEW i \in Inum
                PROVE  dinode'[i].nlink >= Cardinality(Entries(i)') + Cardinality(Subdirs(i)')
                         + Cardinality(Owing(i)') + (IF i = ROOTINO THEN 1 ELSE 0)
    BY DEF LinkInv
  <2>1. dinode' = dinode /\ Entries(i)' = Entries(i) /\ Subdirs(i)' = Subdirs(i)
    BY DEF diskVars, Entries, Subdirs, IsDir
  <2>2. Owing(i)' = Owing(i)
    <3>1. \A r \in Proc \ {p} : (Owes(r)' <=> Owes(r)) /\ l'[r] = l[r]
      BY OthersStay DEF Alone
    <3>. QED
      BY <3>1 DEF Owing
  <2>. QED
    BY <2>1, <2>2 DEF IInv, LinkInv
<1>3. TreeInv'
  BY DEF IInv, TreeInv, Ranks, IsDir, diskVars
<1>. QED
  BY <1>1, <1>2, <1>3

\* On an unchanged disk only the process that steps has to be looked at.
LEMMA PlacesSame ==
  ASSUME IInv, NEW p \in Proc, Alone(p), UNCHANGED diskVars, Ctl(p)', LiveOf(p)', NameOf(p)'
  PROVE  CtlInv' /\ (\A r \in Proc : LiveOf(r)') /\ NameInv'
<1>. SUFFICES ASSUME NEW r \in Proc PROVE Ctl(r)' /\ LiveOf(r)' /\ NameOf(r)'
  BY DEF CtlInv, NameInv
<1>1. CASE r = p
  BY <1>1
<1>2. CASE r # p
  <2>1. /\ Loc(r)' = Loc(r) /\ (Owes(r)' <=> Owes(r)) /\ l'[r] = l[r] /\ cwd'[r] = cwd[r]
        /\ pc'[r] = pc[r] /\ ofile'[r] = ofile[r]
    BY <1>2, OthersStay DEF Alone
  <2>2. Ctl(r) /\ LiveOf(r) /\ NameOf(r)
    BY DEF IInv, CtlInv, LiveInv, NameInv
  <2>3. \A i : (Live(i)' <=> Live(i)) /\ (IsDir(i)' <=> IsDir(i))
    BY DEF Live, IsDir, diskVars
  <2>4. dents' = dents
    BY DEF diskVars
  <2>5. Ctl(r)'
    BY <2>1, <2>2 DEF Ctl
  <2>6. LiveOf(r)'
    BY <2>1, <2>2, <2>3 DEF LiveOf
  <2>7. NameOf(r)'
    BY <2>1, <2>2, <2>3, <2>4 DEF NameOf
  <2>. QED
    BY <2>5, <2>6, <2>7
<1>. QED
  BY <1>1, <1>2

\* Nothing on disk and no open file changes.
Still == dinode' = dinode /\ dents' = dents /\ used' = used /\ ftable' = ftable /\ ofile' = ofile

\* A step of p that changes nothing on disk and no open file.
LEMMA QuietStep ==
  ASSUME IInv, NEW p \in Proc, Still,
         l' \in [Proc -> Locals], pc' \in [Proc -> Location \cup {"put", "deref"}],
         cwd' \in [Proc -> Inum0], icache' \in [Inum -> Entry],
         lock' \in [Inum -> Proc \cup {NoProc}],
         \A q \in Proc \ {p} : l'[q] = l[q] /\ pc'[q] = pc[q],
         \A q \in Proc \ {p} : cwd'[q] = cwd[q],
         Owes(p)' <=> Owes(p), Owes(p) => l'[p].ip = l[p].ip,
         Ctl(p)', LiveOf(p)', NameOf(p)',
         \A i \in Inum : icache'[i].ref + Share(p, i) = icache[i].ref + Share(p, i)',
         \A i \in Inum : icache'[i].valid => icache'[i].d = dinode[i] /\ Live(i),
         \A i \in Inum : lock'[i] # NoProc => icache'[i].valid,
         \A i \in Inum : lock'[i] = p <=> Locks(p, i)',
         \A i \in Inum, r \in Proc \ {p} : lock'[i] = r <=> lock[i] = r
  PROVE  IInv'
<1>. UNCHANGED <<diskVars, ftable, ofile>>
  BY DEF Still, diskVars
<1>. Types'
  BY DEF IInv, Types, diskVars
<1>. Alone(p)
  BY DEF Alone
<1>1. CtlInv' /\ (\A r \in Proc : LiveOf(r)') /\ NameInv'
  BY PlacesSame DEF diskVars
<1>2. DirInv' /\ LinkInv' /\ SizeInv' /\ BlocksOwned' /\ TreeInv'
  BY DiskSame DEF diskVars
<1>3. LockInv'
  BY LockMove DEF IInv
<1>4. RefInv'
  BY RefsMove DEF IInv
<1>5. CacheInv'
  BY DEF CacheInv, diskVars, Live
<1>6. FileInv'
  BY DEF IInv, FileInv, Descriptors
<1>7. LiveInv'
  <2>1. \A f \in File : ftable[f].ip # 0 => dinode[ftable[f].ip].type # "free"
    BY DEF IInv, LiveInv, Live
  <2>2. dinode' = dinode /\ ftable' = ftable
    BY DEF diskVars
  <2>. QED
    BY <1>1, <2>1, <2>2 DEF LiveInv, Live
<1>. QED
  BY <1>1, <1>2, <1>3, <1>4, <1>5, <1>6, <1>7 DEF IInv

-----------------------------------------------------------------------------
(* The locals of a call, after an assignment *)

\* s is r with new values of wp, ip and dp.
Becomes(r, s, w, i, d) ==
  /\ s \in Locals
  /\ s.op = r.op /\ s.elems = r.elems /\ s.parent = r.parent /\ s.new = r.new
  /\ s.wp = w /\ s.ip = i /\ s.dp = d /\ s.drop = r.drop

WpIp(r, a, b) == [r EXCEPT !.wp = a, !.ip = b]
WpDp(r, a, b) == [r EXCEPT !.wp = a, !.dp = b]
WpDpIp(r, a, b, c) == [r EXCEPT !.wp = a, !.dp = b, !.ip = c]

\* What an update of the locals leaves in them: the walk's inode.
LEMMA WpSet ==
  ASSUME NEW r \in Locals, NEW a \in Inum0
  PROVE  Becomes(r, [r EXCEPT !.wp = a], a, r.ip, r.dp)
  BY DEF Locals, Becomes

\* The same, for the inode the call is about.
LEMMA IpSet ==
  ASSUME NEW r \in Locals, NEW a \in Inum0
  PROVE  Becomes(r, [r EXCEPT !.ip = a], r.wp, a, r.dp)
  BY DEF Locals, Becomes

\* The same, for its directory.
LEMMA DpSet ==
  ASSUME NEW r \in Locals, NEW a \in Inum0
  PROVE  Becomes(r, [r EXCEPT !.dp = a], r.wp, r.ip, a)
  BY DEF Locals, Becomes

\* The same, for the walk's inode and the call's.
LEMMA WpIpSet ==
  ASSUME NEW r \in Locals, NEW a \in Inum0, NEW b \in Inum0
  PROVE  Becomes(r, WpIp(r, a, b), a, b, r.dp)
  BY DEF Locals, Becomes, WpIp

\* The same, for the walk's inode and the directory.
LEMMA WpDpSet ==
  ASSUME NEW r \in Locals, NEW a \in Inum0, NEW b \in Inum0
  PROVE  Becomes(r, WpDp(r, a, b), a, r.ip, b)
  BY DEF Locals, Becomes, WpDp

\* The same, for all three.
LEMMA AllSet ==
  ASSUME NEW r \in Locals, NEW a \in Inum0, NEW b \in Inum0, NEW c \in Inum0
  PROVE  Becomes(r, WpDpIp(r, a, b, c), a, c, b)
  BY DEF Locals, Becomes, WpDpIp

\* The locals when a path element has been looked up.
Walked(r, a) == [r EXCEPT !.wp = a, !.elems = Tail(@)]

\* A step of namex() moves the walk's inode and keeps the other references.
LEMMA WalkSet ==
  ASSUME NEW r \in Locals, r.elems # <<>>, NEW a \in Inum0
  PROVE  /\ Walked(r, a) \in Locals /\ Walked(r, a).op = r.op /\ Walked(r, a).parent = r.parent
         /\ Walked(r, a).wp = a /\ Walked(r, a).ip = r.ip /\ Walked(r, a).dp = r.dp
<1>. DEFINE s == Walked(r, a)
<1>1. r.elems \in Seq(Elem)
  BY DEF Locals
<1>2. Tail(r.elems) \in Seq(Elem)
  BY <1>1
<1>. DEFINE t == Tail(r.elems)
<1>3. s = [r EXCEPT !.wp = a, !.elems = t]
  BY DEF Walked
<1>4. t \in Seq(Elem)
  BY <1>2
<1>. HIDE DEF t
<1>. QED
  BY <1>3, <1>4 DEF Locals

\* The element namex() looks up is one, and dirlookup() finds an inode or
\* nothing.
LEMMA FirstIs ==
  ASSUME IInv, NEW p \in Proc, NEW i \in Inum, l[p].elems # <<>>
  PROVE  Head(l[p].elems) \in Elem /\ dirlookup(i, Head(l[p].elems)) \in Inum0
<1>1. l[p].elems \in Seq(Elem) /\ dents \in [Inum -> [Name \cup {".."} -> Inum0]]
  BY DEF IInv, Types, Locals
<1>2. Head(l[p].elems) \in Elem
  BY <1>1
<1>. QED
  BY <1>1, <1>2 DEF dirlookup, Elem, Inum0

\* A process that is in no call holds no reference.
LEMMA NoCallIs ==
  /\ NoCall \in Locals /\ NoCall.wp = 0 /\ NoCall.ip = 0 /\ NoCall.dp = 0 /\ NoCall.drop = 0
<1>1. <<>> \in Seq(Elem)
  OBVIOUS
<1>2. [abs |-> TRUE, elems |-> <<>>] \in Path
  BY <1>1 DEF Path
<1>3. "none" \in Ops \cup {"none"} /\ "idle" \in Location /\ 0 \in Inum0
  BY DEF Location, Inum0
<1>. QED
  BY <1>1, <1>2, <1>3 DEF NoCall, Locals

\* iput() has returned.
LEMMA DropSet ==
  ASSUME NEW r \in Locals, NEW s, s = [r EXCEPT !.drop = 0]
  PROVE  /\ s \in Locals
         /\ s.op = r.op /\ s.elems = r.elems /\ s.parent = r.parent
         /\ s.wp = r.wp /\ s.ip = r.ip /\ s.dp = r.dp /\ s.drop = 0
  BY DEF Locals, Inum0

\* The locals of a call that starts at inode w.
Started(c, w) ==
  [NoCall EXCEPT !.op = c.op, !.elems = c.path.elems, !.new = c.new, !.wp = w,
                 !.parent = c.op \in {"creat", "mkdir", "mknod", "unlink"}]

\* A call starts with a reference to the inode its walk begins at, and no
\* other.
LEMMA StartedIs ==
  ASSUME NEW p \in Proc, NEW c \in Calls[p], NEW w \in Inum0, NEW s, s = Started(c, w)
  PROVE  /\ s \in Locals
         /\ s.op = c.op /\ (s.parent <=> c.op \in Creating \cup {"unlink"})
         /\ s.wp = w /\ s.ip = 0 /\ s.dp = 0 /\ s.drop = 0
<1>1. c.op \in Ops /\ c.path \in Path /\ c.new \in Path
  BY FsAssumption
<1>2. c.path.elems \in Seq(Elem)
  BY <1>1 DEF Path
<1>. DEFINE b == c.op \in {"creat", "mkdir", "mknod", "unlink"}
            e == c.path.elems
            o == c.op
            m == c.new
<1>3. b \in BOOLEAN /\ e \in Seq(Elem) /\ o \in Ops /\ m \in Path
  BY <1>1, <1>2
<1>4. b <=> c.op \in Creating \cup {"unlink"}
  BY DEF Creating
<1>5. s = [op |-> o, elems |-> e, parent |-> b, new |-> m, wp |-> w, ip |-> 0, dp |-> 0,
           drop |-> 0, ret |-> "idle"]
  BY DEF Started, NoCall
<1>. HIDE DEF b, e, o, m
<1>6. "idle" \in Location /\ 0 \in Inum0
  BY DEF Location, Inum0
<1>7. s \in Locals
  BY <1>3, <1>5, <1>6 DEF Locals
<1>8. o = c.op
  BY DEF o
<1>. QED
  BY <1>4, <1>5, <1>7, <1>8

\* An inode as itrunc() and the freeing of it leave it is an inode.
LEMMA NoInodeIs == NoInode \in DInode
  BY DEF NoInode, DInode

-----------------------------------------------------------------------------
(* How a process moves *)

Place == Location \cup {"put", "deref"}

\* The step leaves p at place to with the locals r, and the others alone.
Moved(p, r, to) ==
  /\ l' \in [Proc -> Locals] /\ pc' \in [Proc -> Location \cup {"put", "deref"}]
  /\ l'[p] = r /\ pc'[p] = to
  /\ \A q \in Proc \ {p} : l'[q] = l[q] /\ pc'[q] = pc[q]

\* The step begins an iput(i), after which p goes on at ret with the locals r.
Putting(p, r, i, ret) ==
  /\ l' \in [Proc -> Locals] /\ pc' \in [Proc -> Location \cup {"put", "deref"}]
  /\ l'[p].op = r.op /\ l'[p].elems = r.elems /\ l'[p].parent = r.parent
  /\ l'[p].wp = r.wp /\ l'[p].ip = r.ip /\ l'[p].dp = r.dp
  /\ l'[p].drop = i /\ i # 0
  /\ pc'[p] = "put" /\ Loc(p)' = ret
  /\ \A q \in Proc \ {p} : l'[q] = l[q] /\ pc'[q] = pc[q]

\* A step that sets the locals and moves on, as the moves below use it.
LEMMA SetIs ==
  ASSUME Types, NEW p \in Proc, NEW r \in Locals, NEW to \in Place, Set(p, r), Goto(p, to)
  PROVE  Moved(p, r, to)
  BY DEF Types, Set, Goto, Place, Moved

\* A step that goes on to iput(), as the moves below use it.
LEMMA iputIs ==
  ASSUME Types, NEW p \in Proc, NEW r \in Locals, NEW i \in Inum, NEW ret \in Location,
         iput(p, r, i, ret)
  PROVE  Putting(p, r, i, ret)
<1>. DEFINE s == [r EXCEPT !.drop = i, !.ret = ret]
<1>1. s \in Locals
  BY DEF Locals, Inum0
<1>2. /\ s.op = r.op /\ s.elems = r.elems /\ s.parent = r.parent /\ s.wp = r.wp /\ s.ip = r.ip
      /\ s.dp = r.dp /\ s.drop = i /\ s.ret = ret
  BY DEF Locals
<1>3. Set(p, s) /\ Goto(p, "put") /\ "put" \in Place
  BY DEF iput, Place
<1>. HIDE DEF s
<1>4. Moved(p, s, "put")
  BY <1>1, <1>3, SetIs
<1>. QED
  BY <1>2, <1>4, Consts DEF Loc, Moved, Putting

\* ilock() reads the inode if it has to, and leaves the other entries of the
\* cache alone.
LEMMA IlockIs ==
  ASSUME IInv, NEW i \in Inum, CanLock(i)
  PROVE  /\ ilock(i) \in [Inum -> Entry]
         /\ ilock(i)[i].d = dinode[i] /\ ilock(i)[i].valid /\ Live(i) /\ lock[i] = NoProc
         /\ \A j \in Inum : ilock(i)[j].ref = icache[j].ref
         /\ \A j \in Inum \ {i} : ilock(i)[j] = icache[j]
         /\ \A j \in Inum : ilock(i)[j].valid => ilock(i)[j].d = dinode[j] /\ Live(j)
         /\ \A j \in Inum : lock[j] # NoProc => ilock(i)[j].valid
<1>1. /\ icache \in [Inum -> Entry] /\ dinode \in [Inum -> DInode]
  BY DEF IInv, Types
<1>2. \A j \in Inum : icache[j].valid => icache[j].d = dinode[j] /\ Live(j)
  BY DEF IInv, CacheInv, Live
<1>3. \A j \in Inum : lock[j] # NoProc => icache[j].valid
  BY DEF IInv, CacheInv
<1>4. ilock(i) = [icache EXCEPT ![i] = [ref |-> icache[i].ref, valid |-> TRUE, d |-> dinode[i]]]
  <2>1. icache[i] \in Entry /\ (icache[i].valid => icache[i].d = dinode[i])
    BY <1>1, <1>2
  <2>2. icache[i].valid => icache[i] = [ref |-> icache[i].ref, valid |-> TRUE, d |-> dinode[i]]
    BY <2>1 DEF Entry
  <2>. QED
    BY <1>1, <2>2 DEF ilock
<1>5. lock[i] = NoProc /\ Live(i)
  BY <1>2 DEF CanLock, Live
<1>6. [ref |-> icache[i].ref, valid |-> TRUE, d |-> dinode[i]] \in Entry
  BY <1>1 DEF Entry
<1>. QED
  BY <1>1, <1>2, <1>3, <1>4, <1>5, <1>6

\* iget() and idup() add one to the count of one entry and change nothing else.
LEMMA igetIs ==
  ASSUME NEW c \in [Inum -> Entry], NEW i \in Inum
  PROVE  /\ iget(c, i) \in [Inum -> Entry]
         /\ \A j \in Inum : /\ iget(c, i)[j].ref = c[j].ref + One(j = i)
                            /\ iget(c, i)[j].valid = c[j].valid /\ iget(c, i)[j].d = c[j].d
  BY DEF iget, Entry, One

\* ilock(i), then iget(n).
LEMMA IlockGetIs ==
  ASSUME IInv, NEW i \in Inum, CanLock(i), NEW n \in Inum
  PROVE  /\ iget(ilock(i), n) \in [Inum -> Entry]
         /\ \A j \in Inum : iget(ilock(i), n)[j].ref = icache[j].ref + One(j = n)
         /\ \A j \in Inum : /\ iget(ilock(i), n)[j].valid = ilock(i)[j].valid
                            /\ iget(ilock(i), n)[j].d = ilock(i)[j].d
         /\ iget(ilock(i), n)[i].valid /\ Live(i) /\ lock[i] = NoProc
         /\ \A j \in Inum : iget(ilock(i), n)[j].valid =>
              iget(ilock(i), n)[j].d = dinode[j] /\ Live(j)
         /\ \A j \in Inum : lock[j] # NoProc => iget(ilock(i), n)[j].valid
<1>1. /\ ilock(i) \in [Inum -> Entry] /\ ilock(i)[i].valid /\ Live(i) /\ lock[i] = NoProc
      /\ \A j \in Inum : ilock(i)[j].ref = icache[j].ref
      /\ \A j \in Inum : ilock(i)[j].valid => ilock(i)[j].d = dinode[j] /\ Live(j)
      /\ \A j \in Inum : lock[j] # NoProc => ilock(i)[j].valid
  BY IlockIs
<1>. DEFINE c == ilock(i)
<1>. HIDE DEF c
<1>2. /\ iget(c, n) \in [Inum -> Entry]
      /\ \A j \in Inum : /\ iget(c, n)[j].ref = c[j].ref + One(j = n)
                         /\ iget(c, n)[j].valid = c[j].valid /\ iget(c, n)[j].d = c[j].d
  BY <1>1, igetIs DEF c
<1>. QED
  BY <1>1, <1>2 DEF c

\* iget(n) alone.
LEMMA CacheGetIs ==
  ASSUME IInv, NEW n \in Inum
  PROVE  /\ iget(icache, n) \in [Inum -> Entry]
         /\ \A j \in Inum : iget(icache, n)[j].ref = icache[j].ref + One(j = n)
         /\ \A j \in Inum : iget(icache, n)[j].valid =>
              iget(icache, n)[j].d = dinode[j] /\ Live(j)
         /\ \A j \in Inum : lock[j] # NoProc => iget(icache, n)[j].valid
<1>1. icache \in [Inum -> Entry]
  BY DEF IInv, Types
<1>2. /\ \A j \in Inum : icache[j].valid => icache[j].d = dinode[j] /\ Live(j)
      /\ \A j \in Inum : lock[j] # NoProc => icache[j].valid
  BY DEF IInv, CacheInv, Live
<1>. DEFINE c == iget(icache, n)
<1>3. /\ c \in [Inum -> Entry]
      /\ \A j \in Inum : /\ c[j].ref = icache[j].ref + One(j = n)
                         /\ c[j].valid = icache[j].valid /\ c[j].d = icache[j].d
  BY <1>1, igetIs
<1>. HIDE DEF c
<1>. QED
  BY <1>2, <1>3 DEF c

\* p has taken, or given back, the lock of inode i.
Taken(p, i) ==
  /\ lock' \in [Inum -> Proc \cup {NoProc}]
  /\ \A j \in Inum, q \in Proc \ {p} : lock'[j] = q <=> lock[j] = q
  /\ \A j \in Inum : lock'[j] = p <=> lock[j] = p \/ j = i
  /\ \A j \in Inum : lock'[j] # NoProc => lock[j] # NoProc \/ j = i

Given(p, i) ==
  /\ lock' \in [Inum -> Proc \cup {NoProc}]
  /\ \A j \in Inum, q \in Proc \ {p} : lock'[j] = q <=> lock[j] = q
  /\ \A j \in Inum : lock'[j] = p <=> lock[j] = p /\ j # i
  /\ \A j \in Inum : lock'[j] # NoProc => lock[j] # NoProc

\* Taking a free lock gives it to the process and moves no other.
LEMMA TakeLock ==
  ASSUME IInv, NEW p \in Proc, NEW i \in Inum, lock[i] = NoProc, lock' = [lock EXCEPT ![i] = p]
  PROVE  Taken(p, i)
<1>1. lock \in [Inum -> Proc \cup {NoProc}]
  BY DEF IInv, Types
<1>. QED
  BY <1>1, Consts DEF Taken

\* Giving a lock up frees it and moves no other.
LEMMA GiveLock ==
  ASSUME IInv, NEW p \in Proc, NEW i \in Inum, lock[i] = p, lock' = [lock EXCEPT ![i] = NoProc]
  PROVE  Given(p, i)
<1>1. lock \in [Inum -> Proc \cup {NoProc}]
  BY DEF IInv, Types
<1>. QED
  BY <1>1, Consts DEF Given

-----------------------------------------------------------------------------
(* References and names *)

\* When the reference that p drops is the last, nobody else points to the inode.
LEMMA OnlyRef ==
  ASSUME IInv, NEW p \in Proc, NEW i \in Inum, l[p].drop = i, icache[i].ref = 1
  PROVE  /\ l[p].wp # i /\ l[p].ip # i /\ l[p].dp # i /\ cwd[p] # i
         /\ \A q \in Proc \ {p} : l[q].wp # i /\ l[q].ip # i /\ l[q].dp # i /\ cwd[q] # i
         /\ \A f \in File : ftable[f].ip # i
<1>1. /\ 1 = Others(p, i) + Share(p, i) + Cardinality(FilesOf(i))
      /\ Others(p, i) \in Nat /\ Cardinality(FilesOf(i)) \in Nat /\ Share(p, i) \in Nat
  BY SplitNow DEF SplitIs, IInv, RefInv
<1>2. /\ Share(p, i) >= 1
      /\ Share(p, i) = 1 => l[p].wp # i /\ l[p].ip # i /\ l[p].dp # i /\ cwd[p] # i
  BY DEF Share, One
<1>3. Others(p, i) = 0 /\ Share(p, i) = 1 /\ Cardinality(FilesOf(i)) = 0
  BY <1>1, <1>2
<1>. DEFINE B == {x \in (Proc \ {p}) \X Pointer : l[x[1]][x[2]] = i}
            Y == {r \in Proc \ {p} : cwd[r] = i}
<1>4. IsFiniteSet(B) /\ IsFiniteSet(Y) /\ IsFiniteSet(FilesOf(i))
  <2>1. IsFiniteSet(Proc \ {p}) /\ IsFiniteSet(FilesOf(i))
    BY Consts, FS_Subset DEF FilesOf
  <2>2. IsFiniteSet({"wp"} \cup {"ip"} \cup {"dp"} \cup {"drop"})
    BY FS_Singleton, FS_Union
  <2>3. Pointer = {"wp"} \cup {"ip"} \cup {"dp"} \cup {"drop"}
    BY DEF Pointer
  <2>4. IsFiniteSet((Proc \ {p}) \X Pointer)
    BY <2>1, <2>2, <2>3, FS_Product
  <2>. QED
    BY <2>1, <2>4, FS_Subset
<1>5. Others(p, i) = Cardinality(B) + Cardinality(Y)
  BY DEF Others
<1>6. Cardinality(B) \in Nat /\ Cardinality(Y) \in Nat
  BY <1>4, FS_CardinalityType
<1>7. Cardinality(B) = 0 /\ Cardinality(Y) = 0
  BY <1>3, <1>5, <1>6
<1>8. B = {} /\ Y = {} /\ FilesOf(i) = {}
  BY <1>3, <1>4, <1>7, FS_EmptySet
<1>9. \A q \in Proc \ {p} : l[q].wp # i /\ l[q].ip # i /\ l[q].dp # i
  <2>. SUFFICES ASSUME NEW q \in Proc \ {p}
                PROVE  l[q].wp # i /\ l[q].ip # i /\ l[q].dp # i
    OBVIOUS
  <2>1. <<q, "wp">> \notin B /\ <<q, "ip">> \notin B /\ <<q, "dp">> \notin B
    BY <1>8
  <2>. QED
    BY <2>1 DEF Pointer
<1>10. \A q \in Proc \ {p} : cwd[q] # i
  BY <1>8
<1>. QED
  BY <1>2, <1>3, <1>8, <1>9, <1>10 DEF FilesOf

\* What p points to is counted.
LEMMA RefPos ==
  ASSUME IInv, NEW p \in Proc, NEW i \in Inum, l[p].drop = i
  PROVE  icache[i].ref > 0
<1>1. /\ icache[i].ref = Others(p, i) + Share(p, i) + Cardinality(FilesOf(i))
      /\ Others(p, i) \in Nat /\ Cardinality(FilesOf(i)) \in Nat /\ Share(p, i) \in Nat
  BY SplitNow DEF SplitIs, IInv, RefInv
<1>2. Share(p, i) >= 1
  BY DEF Share, One
<1>. QED
  BY <1>1, <1>2

\* An inode is locked only by a process that has a reference to it.
LEMMA LastUnlocked ==
  ASSUME IInv, NEW p \in Proc, NEW i \in Inum, l[p].drop = i, icache[i].ref = 1
  PROVE  lock[i] = NoProc
<1>1. lock[i] \in Proc \cup {NoProc}
  BY DEF IInv, Types
<1>2. ASSUME NEW q \in Proc, lock[i] = q PROVE FALSE
  <2>1. l[q].ip = i \/ l[q].dp = i
    BY <1>2 DEF IInv, LockInv, Locks
  <2>. QED
    BY <2>1, OnlyRef
<1>. QED
  BY <1>1, <1>2

\* Every count of LinkInv is of a finite set.
LEMMA LinkSets ==
  ASSUME NEW i
  PROVE  IsFiniteSet(Entries(i)) /\ IsFiniteSet(Subdirs(i)) /\ IsFiniteSet(Owing(i))
<1>1. IsFiniteSet(Inum \X Name)
  BY Consts, FS_Product
<1>. QED
  BY <1>1, Consts, FS_Subset DEF Entries, Subdirs, Owing

\* An inode without links has no name, no subdirectory and nobody who owes it one.
LEMMA NoLinks ==
  ASSUME IInv, NEW i \in Inum, dinode[i].nlink = 0
  PROVE  Entries(i) = {} /\ Subdirs(i) = {} /\ Owing(i) = {} /\ i # ROOTINO
<1>1. /\ Cardinality(Entries(i)) \in Nat /\ Cardinality(Subdirs(i)) \in Nat
      /\ Cardinality(Owing(i)) \in Nat
  BY LinkSets, FS_CardinalityType
<1>2. 0 >= Cardinality(Entries(i)) + Cardinality(Subdirs(i))
             + Cardinality(Owing(i)) + (IF i = ROOTINO THEN 1 ELSE 0)
  BY DEF IInv, LinkInv
<1>3. /\ Cardinality(Entries(i)) = 0 /\ Cardinality(Subdirs(i)) = 0
      /\ Cardinality(Owing(i)) = 0 /\ i # ROOTINO
  BY <1>1, <1>2
<1>. QED
  BY <1>3, LinkSets, FS_EmptySet

\* What has a name is allocated.
LEMMA NamedLive ==
  ASSUME IInv, NEW d \in Inum, NEW n \in Name, NEW i \in Inum, dents[d][n] = i
  PROVE  Live(i) /\ dinode[i].nlink \in Nat /\ dinode[i].nlink > 0
<1>1. <<d, n>> \in Entries(i)
  BY DEF Entries
<1>2. dinode[i].nlink # 0 /\ dinode[i].nlink \in Nat
  BY <1>1, NoLinks DEF IInv, Types, DInode
<1>3. ~Live(i) => dinode[i].nlink = 0
  BY DEF IInv, DirInv, NoInode
<1>. QED
  BY <1>2, <1>3

\* An open file refers to an allocated inode.
LEMMA OpenFile ==
  ASSUME IInv, NEW p \in Proc, NEW fd \in Fd, ofile[p][fd] # 0
  PROVE  /\ ofile[p][fd] \in File /\ ftable[ofile[p][fd]].ref > 0
         /\ ftable[ofile[p][fd]].ip \in Inum /\ Live(ftable[ofile[p][fd]].ip)
<1>. DEFINE f == ofile[p][fd]
<1>1. f \in File
  BY DEF IInv, Types
<1>2. <<p, fd>> \in Descriptors(f) /\ IsFiniteSet(Descriptors(f))
  <2>1. IsFiniteSet(Proc \X Fd)
    BY Consts, FS_Product
  <2>. QED
    BY <2>1, FS_Subset DEF Descriptors
<1>3. Cardinality(Descriptors(f)) # 0 /\ Cardinality(Descriptors(f)) \in Nat
  BY <1>2, FS_EmptySet, FS_CardinalityType
<1>4. ftable[f].ref = Cardinality(Descriptors(f)) /\ (ftable[f].ref = 0 <=> ftable[f].ip = 0)
  BY <1>1 DEF IInv, FileInv
<1>5. ftable[f].ip \in Inum0
  BY <1>1 DEF IInv, Types
<1>. QED
  BY <1>1, <1>3, <1>4, <1>5 DEF IInv, LiveInv, Inum0

-----------------------------------------------------------------------------
(* The steps that change nothing on disk *)

\* A pointer to an inode may be null.
LEMMA Zero == 0 \in Inum0 /\ Inum \subseteq Inum0
  BY DEF Inum0

\* What the invariant says about p.
LEMMA Here ==
  ASSUME IInv, NEW p \in Proc
  PROVE  /\ Types /\ Ctl(p) /\ LiveOf(p) /\ NameOf(p) /\ l[p] \in Locals
         /\ \A i \in Inum : lock[i] = p <=> Locks(p, i)
         /\ \A i \in Inum : icache[i].valid => icache[i].d = dinode[i] /\ Live(i)
         /\ \A i \in Inum : lock[i] # NoProc => icache[i].valid
         /\ icache \in [Inum -> Entry] /\ lock \in [Inum -> Proc \cup {NoProc}]
         /\ cwd \in [Proc -> Inum0]
  BY DEF IInv, CtlInv, LiveInv, NameInv, Types, LockInv, CacheInv, Live

\* The step WalkEnd preserves the invariant.
LEMMA WalkEnd_Inv ==
  ASSUME IInv, NEW p \in Proc, WalkEnd(p)
  PROVE  IInv'
<1>1. CASE l[p].parent
  <2>. DEFINE r == [l[p] EXCEPT !.wp = 0]
  <2>1. /\ Still /\ cwd' = cwd /\ lock' = lock /\ icache' = icache
        /\ Loc(p) = "walk" /\ l[p].wp \in Inum /\ l[p].dp = 0 /\ l[p].drop = 0
    BY Here DEF WalkEnd, Still, diskVars, fileVars, Loc, Ctl, Locals, Inum0
  <2>2. Becomes(l[p], r, 0, l[p].ip, l[p].dp)
    <3>1. l[p] \in Locals /\ 0 \in Inum0 /\ Inum \subseteq Inum0
      BY Here, Zero
    <3>. QED
      BY <2>1, <3>1, WpSet
  <2>3. iput(p, r, l[p].wp, Failed(p)) /\ Failed(p) \in Location /\ l[p].wp \in Inum
    BY <2>1, <1>1 DEF WalkEnd, Failed, Location
  <2>. HIDE DEF r
  <2>4. Putting(p, r, l[p].wp, Failed(p))
    BY <2>2, <2>3, Here, iputIs DEF Becomes
  <2>5. /\ icache' \in [Inum -> Entry] /\ lock' \in [Inum -> Proc \cup {NoProc}]
        /\ \A j \in Inum : icache'[j].ref = icache[j].ref
        /\ \A j \in Inum : icache'[j].valid => icache'[j].d = dinode[j] /\ Live(j)
        /\ \A j \in Inum : lock'[j] # NoProc => icache'[j].valid
        /\ \A j \in Inum, q \in Proc \ {p} : lock'[j] = q <=> lock[j] = q
    BY <2>1, Here, <1>1
  <2>6. Ctl(p)'
    BY <2>1, <2>2, <2>4, Here, Consts, <1>1
       DEF Putting, Becomes, Ctl, Failed, Creating, Still
  <2>7. LiveOf(p)'
    BY <2>1, <2>2, <2>4, Here, Consts, <1>1
       DEF Putting, Becomes, LiveOf, Live, Failed, Still
  <2>8. NameOf(p)' /\ (Owes(p)' <=> Owes(p)) /\ (Owes(p) => l'[p].ip = l[p].ip)
    BY <2>1, <2>2, <2>4, Here, Consts, <1>1
       DEF Putting, Becomes, NameOf, Owes, IsDir, Failed, Still
  <2>9. \A j \in Inum : icache'[j].ref + Share(p, j) = icache[j].ref + Share(p, j)'
    <3>1. \A j \in Inum : j # 0 /\ icache[j].ref \in Nat
      BY Here, Consts DEF Entry
    <3>. QED
      BY <2>1, <1>1, <2>2, <2>4, <2>5, <3>1 DEF Putting, Becomes, Share, One
  <2>10. \A j \in Inum : lock'[j] = p <=> Locks(p, j)'
    BY <2>1, <2>2, <2>4, Here, Consts, <1>1 DEF Putting, Becomes, Locks, Failed
  <2>. QED
    BY <2>1, <2>4, <2>5, <2>6, <2>7, <2>8, <2>9, <2>10, Here, <1>1, QuietStep
       DEF Putting, Becomes
<1>2. CASE ~l[p].parent
  <2>1. /\ Still /\ cwd' = cwd /\ lock' = lock /\ icache' = icache
        /\ Loc(p) = "walk" /\ l[p].drop = 0
    BY Here DEF WalkEnd, Still, diskVars, fileVars, Loc, Ctl, Locals, Inum0
  <2>2. l[p] \in Locals
    BY Here
  <2>3. Set(p, l[p]) /\ Goto(p, "named") /\ "named" \in Place
    BY <2>1, Here, <1>2 DEF WalkEnd, Place, Location, Set, Types
  <2>4. Moved(p, l[p], "named")
    BY <2>2, <2>3, Here, SetIs
  <2>5. /\ icache' \in [Inum -> Entry] /\ lock' \in [Inum -> Proc \cup {NoProc}]
        /\ \A j \in Inum : icache'[j].ref = icache[j].ref
        /\ \A j \in Inum : icache'[j].valid => icache'[j].d = dinode[j] /\ Live(j)
        /\ \A j \in Inum : lock'[j] # NoProc => icache'[j].valid
        /\ \A j \in Inum, q \in Proc \ {p} : lock'[j] = q <=> lock[j] = q
    BY <2>1, Here, <1>2
  <2>6. Ctl(p)'
    BY <2>1, <2>2, <2>4, Here, Consts, <1>2 DEF Moved, Loc, Ctl, Failed, Creating, Still
  <2>7. LiveOf(p)'
    BY <2>1, <2>2, <2>4, Here, Consts, <1>2 DEF Moved, Loc, LiveOf, Live, Failed, Still
  <2>8. NameOf(p)' /\ (Owes(p)' <=> Owes(p)) /\ (Owes(p) => l'[p].ip = l[p].ip)
    BY <2>1, <2>2, <2>4, Here, Consts, <1>2
       DEF Moved, Loc, NameOf, Owes, IsDir, Failed, Still
  <2>9. \A j \in Inum : icache'[j].ref + Share(p, j) = icache[j].ref + Share(p, j)'
    <3>1. \A j \in Inum : j # 0 /\ icache[j].ref \in Nat
      BY Here, Consts DEF Entry
    <3>. QED
      BY <2>1, <1>2, <2>2, <2>4, <2>5, <3>1 DEF Moved, Loc, Share, One
  <2>10. \A j \in Inum : lock'[j] = p <=> Locks(p, j)'
    BY <2>1, <2>2, <2>4, Here, Consts, <1>2 DEF Moved, Loc, Locks, Failed
  <2>. QED
    BY <2>1, <2>4, <2>5, <2>6, <2>7, <2>8, <2>9, <2>10, Here, <1>2, QuietStep DEF Moved, Loc
<1>. QED
  BY <1>1, <1>2

\* The step Walk preserves the invariant.
LEMMA Walk_Inv ==
  ASSUME IInv, NEW p \in Proc, Walk(p)
  PROVE  IInv'
<1>. DEFINE w == l[p].wp
            n == dirlookup(w, Head(l[p].elems))
<1>1. /\ Still /\ cwd' = cwd /\ lock' = lock
      /\ Loc(p) = "walk" /\ w \in Inum /\ l[p].dp = 0 /\ l[p].drop = 0
      /\ CanLock(w) /\ l[p].elems # <<>>
  BY Here DEF Walk, Still, diskVars, fileVars, Loc, Ctl, Locals, Inum0
<1>2. ilock(w)[w].d = dinode[w] /\ n \in Inum0
  BY <1>1, IlockIs, FirstIs
<1>3. CASE icache' = ilock(w) /\ iput(p, [l[p] EXCEPT !.wp = 0], w, Failed(p))
  <2>. DEFINE r == [l[p] EXCEPT !.wp = 0]
  <2>2. Becomes(l[p], r, 0, l[p].ip, l[p].dp)
    <3>1. l[p] \in Locals /\ 0 \in Inum0 /\ Inum \subseteq Inum0
      BY Here, Zero
    <3>. QED
      BY <1>1, <3>1, WpSet
  <2>3. iput(p, r, w, Failed(p)) /\ Failed(p) \in Location /\ w \in Inum
    BY <1>1, <1>3 DEF Failed, Location
  <2>. HIDE DEF r
  <2>4. Putting(p, r, w, Failed(p))
    BY <2>2, <2>3, Here, iputIs DEF Becomes
  <2>5. /\ icache' \in [Inum -> Entry] /\ lock' \in [Inum -> Proc \cup {NoProc}]
        /\ \A j \in Inum : icache'[j].ref = icache[j].ref
        /\ \A j \in Inum : icache'[j].valid => icache'[j].d = dinode[j] /\ Live(j)
        /\ \A j \in Inum : lock'[j] # NoProc => icache'[j].valid
        /\ \A j \in Inum, q \in Proc \ {p} : lock'[j] = q <=> lock[j] = q
    BY <1>1, Here, <1>3, IlockIs
  <2>6. Ctl(p)'
    BY <1>1, <2>2, <2>4, Here, Consts, <1>3
       DEF Putting, Becomes, Ctl, Failed, Creating, Still
  <2>7. LiveOf(p)'
    BY <1>1, <2>2, <2>4, Here, Consts, <1>3
       DEF Putting, Becomes, LiveOf, Live, Failed, Still
  <2>8. NameOf(p)' /\ (Owes(p)' <=> Owes(p)) /\ (Owes(p) => l'[p].ip = l[p].ip)
    BY <1>1, <2>2, <2>4, Here, Consts, <1>3
       DEF Putting, Becomes, NameOf, Owes, IsDir, Failed, Still
  <2>9. \A j \in Inum : icache'[j].ref + Share(p, j) = icache[j].ref + Share(p, j)'
    <3>1. \A j \in Inum : j # 0 /\ icache[j].ref \in Nat
      BY Here, Consts DEF Entry
    <3>. QED
      BY <1>1, <1>3, <2>2, <2>4, <2>5, <3>1 DEF Putting, Becomes, Share, One
  <2>10. \A j \in Inum : lock'[j] = p <=> Locks(p, j)'
    BY SMTT(30), <1>1, <2>2, <2>4, Here, Consts, <1>3 DEF Putting, Becomes, Locks, Failed
  <2>. QED
    BY <1>1, <2>4, <2>5, <2>6, <2>7, <2>8, <2>9, <2>10, Here, <1>3, QuietStep
       DEF Putting, Becomes
<1>4. CASE /\ IsDir(w) /\ Len(l[p].elems) = 1
           /\ icache' = ilock(w) /\ Goto(p, "named") /\ UNCHANGED l
  <2>2. l[p] \in Locals
    BY Here
  <2>3. Set(p, l[p]) /\ Goto(p, "named") /\ "named" \in Place
    BY <1>1, Here, <1>4 DEF Place, Location, Set, Types
  <2>4. Moved(p, l[p], "named")
    BY <2>2, <2>3, Here, SetIs
  <2>5. /\ icache' \in [Inum -> Entry] /\ lock' \in [Inum -> Proc \cup {NoProc}]
        /\ \A j \in Inum : icache'[j].ref = icache[j].ref
        /\ \A j \in Inum : icache'[j].valid => icache'[j].d = dinode[j] /\ Live(j)
        /\ \A j \in Inum : lock'[j] # NoProc => icache'[j].valid
        /\ \A j \in Inum, q \in Proc \ {p} : lock'[j] = q <=> lock[j] = q
    BY <1>1, Here, <1>4, IlockIs
  <2>6. Ctl(p)'
    BY <1>1, <2>2, <2>4, Here, Consts, <1>4 DEF Moved, Loc, Ctl, Failed, Creating, Still
  <2>7. LiveOf(p)'
    BY <1>1, <2>2, <2>4, Here, Consts, <1>4 DEF Moved, Loc, LiveOf, Live, Failed, Still
  <2>8. NameOf(p)' /\ (Owes(p)' <=> Owes(p)) /\ (Owes(p) => l'[p].ip = l[p].ip)
    BY <1>1, <2>2, <2>4, Here, Consts, <1>4
       DEF Moved, Loc, NameOf, Owes, IsDir, Failed, Still
  <2>9. \A j \in Inum : icache'[j].ref + Share(p, j) = icache[j].ref + Share(p, j)'
    <3>1. \A j \in Inum : j # 0 /\ icache[j].ref \in Nat
      BY Here, Consts DEF Entry
    <3>. QED
      BY <1>1, <1>4, <2>2, <2>4, <2>5, <3>1 DEF Moved, Loc, Share, One
  <2>10. \A j \in Inum : lock'[j] = p <=> Locks(p, j)'
    BY SMTT(30), <1>1, <2>2, <2>4, Here, Consts, <1>4 DEF Moved, Loc, Locks, Failed
  <2>. QED
    BY <1>1, <2>4, <2>5, <2>6, <2>7, <2>8, <2>9, <2>10, Here, <1>4, QuietStep DEF Moved, Loc
<1>5. CASE /\ n \in Inum /\ icache' = iget(ilock(w), n)
           /\ iput(p, [l[p] EXCEPT !.wp = n, !.elems = Tail(@)], w, "walk")
  <2>. DEFINE r == Walked(l[p], n)
  <2>2. /\ r \in Locals /\ r.wp = n /\ r.ip = l[p].ip /\ r.dp = l[p].dp
        /\ r.op = l[p].op /\ r.parent = l[p].parent
    <3>1. l[p] \in Locals /\ 0 \in Inum0 /\ Inum \subseteq Inum0
      BY Here, Zero
    <3>. QED
      BY <1>1, <1>5, <3>1, WalkSet
  <2>3. iput(p, r, w, "walk") /\ "walk" \in Location /\ w \in Inum
    BY <1>1, <1>5 DEF Walked, Failed, Location
  <2>. HIDE DEF r
  <2>4. Putting(p, r, w, "walk")
    BY <2>2, <2>3, Here, iputIs
  <2>5. /\ icache' \in [Inum -> Entry] /\ lock' \in [Inum -> Proc \cup {NoProc}]
        /\ \A j \in Inum : icache'[j].ref = icache[j].ref + One(j = n)
        /\ \A j \in Inum : icache'[j].valid => icache'[j].d = dinode[j] /\ Live(j)
        /\ \A j \in Inum : lock'[j] # NoProc => icache'[j].valid
        /\ \A j \in Inum, q \in Proc \ {p} : lock'[j] = q <=> lock[j] = q
    BY <1>1, <1>5, Here, IlockGetIs
  <2>6. Ctl(p)'
    BY <1>1, <1>5, <2>2, <2>4, Here, Consts DEF Putting, Ctl, Failed, Creating, Still
  <2>7. LiveOf(p)'
    BY <1>1, <1>5, <2>2, <2>4, Here, Consts DEF Putting, LiveOf, Live, Failed, Still
  <2>8. NameOf(p)' /\ (Owes(p)' <=> Owes(p)) /\ (Owes(p) => l'[p].ip = l[p].ip)
    BY SMTT(30), <1>1, <1>5, <2>2, <2>4, Here, Consts
       DEF Putting, NameOf, Owes, IsDir, Failed, Still
  <2>9. \A j \in Inum : icache'[j].ref + Share(p, j) = icache[j].ref + Share(p, j)'
    <3>1. \A j \in Inum : j # 0 /\ icache[j].ref \in Nat
      BY Here, Consts DEF Entry
    <3>. QED
      BY <1>1, <1>5, <2>2, <2>4, <2>5, <3>1 DEF Putting, Share, One
  <2>10. \A j \in Inum : lock'[j] = p <=> Locks(p, j)'
    BY <1>1, <1>5, <2>2, <2>4, Here, Consts DEF Putting, Locks, Failed
  <2>. QED
    BY <1>1, <1>5, <2>4, <2>5, <2>6, <2>7, <2>8, <2>9, <2>10, Here, QuietStep DEF Putting
<1>. QED
  BY <1>1, <1>2, <1>3, <1>4, <1>5 DEF Walk, IsDir, Inum0

\* The step Begin preserves the invariant.
LEMMA Begin_Inv ==
  ASSUME IInv, NEW p \in Proc, Begin(p)
  PROVE  IInv'
<1>1. PICK c \in Calls[p] :
        /\ l' = [l EXCEPT ![p] = Started(c, From(p, c.path))]
        /\ icache' = iget(icache, From(p, c.path))
  BY DEF Begin, Started, Set
<1>. DEFINE w == From(p, c.path)
<1>2. /\ Still /\ cwd' = cwd /\ lock' = lock /\ pc[p] = "idle" /\ Goto(p, "walk")
      /\ Loc(p) = "idle" /\ l[p].wp = 0 /\ l[p].ip = 0 /\ l[p].dp = 0 /\ l[p].drop = 0
      /\ w \in Inum /\ l' = [l EXCEPT ![p] = Started(c, w)] /\ icache' = iget(icache, w)
  BY <1>1, Here, Consts DEF Begin, Still, diskVars, fileVars, Loc, Ctl, From, Inum0
<1>. HIDE DEF w
<1>3. IInv'
  <2>. DEFINE r == Started(c, w)
  <2>2. /\ r \in Locals /\ r.op = c.op /\ (r.parent <=> c.op \in Creating \cup {"unlink"})
        /\ r.wp = w /\ r.ip = 0 /\ r.dp = 0 /\ r.drop = 0
    <3>1. l[p] \in Locals /\ 0 \in Inum0 /\ Inum \subseteq Inum0
      BY Here, Zero
    <3>2. r = Started(c, w)
      OBVIOUS
    <3>. HIDE DEF r
    <3>. QED
      BY <1>2, <3>1, <3>2, StartedIs
  <2>3. Set(p, r) /\ Goto(p, "walk") /\ "walk" \in Place
    BY <1>2, Here DEF Place, Location, Set, Types
  <2>. HIDE DEF r
  <2>4. Moved(p, r, "walk")
    BY <2>2, <2>3, Here, SetIs
  <2>5. /\ icache' \in [Inum -> Entry] /\ lock' \in [Inum -> Proc \cup {NoProc}]
        /\ \A j \in Inum : icache'[j].ref = icache[j].ref + One(j = w)
        /\ \A j \in Inum : icache'[j].valid => icache'[j].d = dinode[j] /\ Live(j)
        /\ \A j \in Inum : lock'[j] # NoProc => icache'[j].valid
        /\ \A j \in Inum, q \in Proc \ {p} : lock'[j] = q <=> lock[j] = q
    BY <1>2, Here, CacheGetIs
  <2>6. Ctl(p)'
    BY <1>2, <2>2, <2>4, Here, Consts DEF Moved, Loc, Ctl, Failed, Creating, Still
  <2>7. LiveOf(p)'
    BY <1>2, <2>2, <2>4, Here, Consts DEF Moved, Loc, LiveOf, Live, Failed, Still
  <2>8. NameOf(p)' /\ (Owes(p)' <=> Owes(p)) /\ (Owes(p) => l'[p].ip = l[p].ip)
    BY <1>2, <2>2, <2>4, Here, Consts DEF Moved, Loc, NameOf, Owes, IsDir, Failed, Still
  <2>9. \A j \in Inum : icache'[j].ref + Share(p, j) = icache[j].ref + Share(p, j)'
    <3>1. \A j \in Inum : j # 0 /\ icache[j].ref \in Nat
      BY Here, Consts DEF Entry
    <3>. QED
      BY <1>2, <2>2, <2>4, <2>5, <3>1 DEF Moved, Loc, Share, One
  <2>10. \A j \in Inum : lock'[j] = p <=> Locks(p, j)'
    BY <1>2, <2>2, <2>4, Here, Consts DEF Moved, Loc, Locks, Failed
  <2>. QED
    BY <1>2, <2>4, <2>5, <2>6, <2>7, <2>8, <2>9, <2>10, Here, QuietStep DEF Moved, Loc
<1>. QED
  BY <1>3

\* The step Deref preserves the invariant.
LEMMA Deref_Inv ==
  ASSUME IInv, NEW p \in Proc, Deref(p)
  PROVE  IInv'
<1>. DEFINE i == l[p].drop
            b == l[p].ret \in {"idle", "unused", "exit"}
<1>1. /\ Still /\ cwd' = cwd /\ lock' = lock /\ pc[p] = "deref" /\ Loc(p) = l[p].ret
      /\ i \in Inum /\ l[p].ret \in Location
      /\ Set(p, IF b THEN NoCall ELSE [l[p] EXCEPT !.drop = 0]) /\ Goto(p, l[p].ret)
  BY Here, Consts DEF Deref, Still, diskVars, fileVars, Loc, Ctl, Inum0, Locals
<1>2. /\ icache' \in [Inum -> Entry]
      /\ \A j \in Inum : icache'[j].ref + One(j = i) = icache[j].ref
      /\ \A j \in Inum : icache'[j].valid => icache'[j].d = dinode[j] /\ Live(j)
      /\ \A j \in Inum : lock'[j] # NoProc => icache'[j].valid
  <2>1. icache[i] \in Entry /\ icache[i].ref \in Nat /\ icache[i].ref > 0
    BY <1>1, Here, RefPos DEF Entry
  <2>2. icache[i].ref = 1 => lock[i] = NoProc
    BY <1>1, LastUnlocked
  <2>4. CASE icache[i].ref = 1
    <3>1. icache' = [icache EXCEPT ![i] = [ref |-> 0, valid |-> FALSE, d |-> NoInode]]
      BY <2>4 DEF Deref
    <3>2. [ref |-> 0, valid |-> FALSE, d |-> NoInode] \in Entry
      BY NoInodeIs DEF Entry
    <3>. QED
      BY <1>1, <2>1, <2>2, <2>4, <3>1, <3>2, Here DEF One, Entry
  <2>5. CASE icache[i].ref # 1
    <3>1. icache' = [icache EXCEPT ![i].ref = @ - 1]
      BY <2>5 DEF Deref
    <3>2. icache \in [Inum -> Entry]
      BY Here
    <3>3. /\ icache' \in [Inum -> Entry]
          /\ \A j \in Inum : icache'[j].ref + One(j = i) = icache[j].ref
          /\ \A j \in Inum : icache'[j].valid = icache[j].valid /\ icache'[j].d = icache[j].d
      BY <1>1, <2>1, <3>1, <3>2 DEF Entry, One
    <3>. QED
      BY <1>1, <3>3, Here
  <2>. QED
    BY <2>4, <2>5
<1>. HIDE DEF i
<1>3. PICK r \in Locals :
        /\ Set(p, r) /\ r.wp = l[p].wp /\ r.ip = l[p].ip /\ r.dp = l[p].dp /\ r.drop = 0
        /\ ~b => r.op = l[p].op /\ r.elems = l[p].elems /\ r.parent = l[p].parent
  <2>1. CASE b
    <3>1. l[p].wp = 0 /\ l[p].ip = 0 /\ l[p].dp = 0
      BY <1>1, <2>1, Here DEF Ctl
    <3>. QED
      BY <1>1, <2>1, <3>1, NoCallIs
  <2>2. CASE ~b
    <3>. DEFINE s == [l[p] EXCEPT !.drop = 0]
    <3>1. /\ s \in Locals /\ s.op = l[p].op /\ s.elems = l[p].elems /\ s.parent = l[p].parent
          /\ s.wp = l[p].wp /\ s.ip = l[p].ip /\ s.dp = l[p].dp /\ s.drop = 0
      BY Here, DropSet
    <3>2. Set(p, s)
      BY <1>1, <2>2
    <3>. HIDE DEF s
    <3>. QED
      BY <3>1, <3>2
  <2>. QED
    BY <2>1, <2>2
<1>4. Moved(p, r, l[p].ret)
  BY <1>1, <1>3, Here, SetIs DEF Place
<1>5. Loc(p)' = Loc(p) /\ pc'[p] \notin {"put", "deref"}
  BY <1>1, <1>4 DEF Moved, Loc, Location
<1>6. Ctl(p)'
  BY <1>1, <1>3, <1>4, <1>5, Here DEF Moved, Ctl, Still
<1>7. LiveOf(p)' /\ NameOf(p)' /\ (Owes(p)' <=> Owes(p)) /\ (Owes(p) => l'[p].ip = l[p].ip)
  BY <1>1, <1>3, <1>4, <1>5, Here DEF Moved, LiveOf, Live, NameOf, Owes, IsDir, Still
<1>8. \A j \in Inum : icache'[j].ref + Share(p, j) = icache[j].ref + Share(p, j)'
  <2>1. \A j \in Inum : j # 0 /\ icache'[j].ref \in Nat
    BY <1>2, Consts DEF Entry
  <2>. QED
    BY <1>1, <1>2, <1>3, <1>4, <2>1 DEF Moved, Share, One, i
<1>9. \A j \in Inum : lock'[j] = p <=> Locks(p, j)'
  BY <1>1, <1>3, <1>4, <1>5, Here DEF Moved, Locks
<1>. QED
  BY <1>1, <1>2, <1>4, <1>6, <1>7, <1>8, <1>9, Here, QuietStep DEF Moved

\* The step Open preserves the invariant.
LEMMA Open_Inv ==
  ASSUME IInv, NEW p \in Proc, Open(p)
  PROVE  IInv'
<1>. DEFINE i == l[p].wp
<1>1. /\ Still /\ cwd' = cwd /\ Loc(p) = "named" /\ i \in Inum /\ l[p].ip = 0
      /\ l[p].dp = 0 /\ l[p].drop = 0 /\ CanLock(i)
  BY Here DEF Open, Named, Still, diskVars, fileVars, Loc, Ctl, Locals, Inum0
<1>2. CASE icache' = ilock(i) /\ lock' = lock /\ iput(p, [l[p] EXCEPT !.wp = 0], i, "idle")
  <2>. DEFINE r == [l[p] EXCEPT !.wp = 0]
  <2>2. Becomes(l[p], r, 0, l[p].ip, l[p].dp)
    <3>1. l[p] \in Locals /\ 0 \in Inum0 /\ Inum \subseteq Inum0
      BY Here, Zero
    <3>. QED
      BY <1>1, <3>1, WpSet
  <2>3. iput(p, r, i, "idle") /\ "idle" \in Location /\ i \in Inum
    BY <1>1, <1>2 DEF Failed, Location
  <2>. HIDE DEF r
  <2>4. Putting(p, r, i, "idle")
    BY <2>2, <2>3, Here, iputIs DEF Becomes
  <2>5. /\ icache' \in [Inum -> Entry] /\ lock' \in [Inum -> Proc \cup {NoProc}]
        /\ \A j \in Inum : icache'[j].ref = icache[j].ref
        /\ \A j \in Inum : icache'[j].valid => icache'[j].d = dinode[j] /\ Live(j)
        /\ \A j \in Inum : lock'[j] # NoProc => icache'[j].valid
        /\ \A j \in Inum, q \in Proc \ {p} : lock'[j] = q <=> lock[j] = q
    BY <1>1, Here, <1>2, IlockIs
  <2>6. Ctl(p)'
    BY <1>1, <2>2, <2>4, Here, Consts, <1>2
       DEF Putting, Becomes, Ctl, Failed, Creating, Still
  <2>7. LiveOf(p)'
    BY <1>1, <2>2, <2>4, Here, Consts, <1>2
       DEF Putting, Becomes, LiveOf, Live, Failed, Still
  <2>8. NameOf(p)' /\ (Owes(p)' <=> Owes(p)) /\ (Owes(p) => l'[p].ip = l[p].ip)
    BY <1>1, <2>2, <2>4, Here, Consts, <1>2
       DEF Putting, Becomes, NameOf, Owes, IsDir, Failed, Still
  <2>9. \A j \in Inum : icache'[j].ref + Share(p, j) = icache[j].ref + Share(p, j)'
    <3>1. \A j \in Inum : j # 0 /\ icache[j].ref \in Nat
      BY Here, Consts DEF Entry
    <3>. QED
      BY <1>1, <1>2, <2>2, <2>4, <2>5, <3>1 DEF Putting, Becomes, Share, One
  <2>10. \A j \in Inum : lock'[j] = p <=> Locks(p, j)'
    BY <1>1, <2>2, <2>4, Here, Consts, <1>2 DEF Putting, Becomes, Locks, Failed
  <2>. QED
    BY <1>1, <2>4, <2>5, <2>6, <2>7, <2>8, <2>9, <2>10, Here, <1>2, QuietStep
       DEF Putting, Becomes
<1>3. CASE /\ icache' = ilock(i) /\ lock' = [lock EXCEPT ![i] = p]
           /\ Set(p, WpIp(l[p], 0, i)) /\ Goto(p, "opened")
  <2>0. Taken(p, i) /\ Live(i)
    BY <1>1, <1>3, IlockIs, TakeLock
  <2>. DEFINE r == WpIp(l[p], 0, i)
  <2>2. Becomes(l[p], r, 0, i, l[p].dp)
    <3>1. l[p] \in Locals /\ 0 \in Inum0 /\ Inum \subseteq Inum0
      BY Here, Zero
    <3>. QED
      BY <1>1, <3>1, WpIpSet
  <2>3. Set(p, r) /\ Goto(p, "opened") /\ "opened" \in Place
    BY <1>1, Here, <1>3, <2>0 DEF Place, Location, Set, Types
  <2>. HIDE DEF r
  <2>4. Moved(p, r, "opened")
    BY <2>2, <2>3, Here, SetIs DEF Becomes
  <2>5. /\ icache' \in [Inum -> Entry] /\ lock' \in [Inum -> Proc \cup {NoProc}]
        /\ \A j \in Inum : icache'[j].ref = icache[j].ref
        /\ \A j \in Inum : icache'[j].valid => icache'[j].d = dinode[j] /\ Live(j)
        /\ \A j \in Inum : lock'[j] # NoProc => icache'[j].valid
        /\ \A j \in Inum, q \in Proc \ {p} : lock'[j] = q <=> lock[j] = q
    BY <1>1, Here, <1>3, <2>0, IlockIs DEF Taken
  <2>6. Ctl(p)'
    BY <1>1, <2>2, <2>4, Here, Consts, <1>3, <2>0
       DEF Moved, Loc, Becomes, Ctl, Failed, Creating, Still
  <2>7. LiveOf(p)'
    BY <1>1, <2>2, <2>4, Here, Consts, <1>3, <2>0
       DEF Moved, Loc, Becomes, LiveOf, Live, Failed, Still
  <2>8. NameOf(p)' /\ (Owes(p)' <=> Owes(p)) /\ (Owes(p) => l'[p].ip = l[p].ip)
    BY <1>1, <2>2, <2>4, Here, Consts, <1>3, <2>0
       DEF Moved, Loc, Becomes, NameOf, Owes, IsDir, Failed, Still
  <2>9. \A j \in Inum : icache'[j].ref + Share(p, j) = icache[j].ref + Share(p, j)'
    <3>1. \A j \in Inum : j # 0 /\ icache[j].ref \in Nat
      BY Here, Consts DEF Entry
    <3>. QED
      BY <1>1, <1>3, <2>0, <2>2, <2>4, <2>5, <3>1 DEF Moved, Loc, Becomes, Share, One
  <2>10. \A j \in Inum : lock'[j] = p <=> Locks(p, j)'
    BY <1>1, <2>2, <2>4, Here, Consts, <1>3, <2>0
       DEF Moved, Loc, Becomes, Locks, Failed, Taken
  <2>. QED
    BY <1>1, <2>4, <2>5, <2>6, <2>7, <2>8, <2>9, <2>10, Here, <1>3, <2>0, QuietStep
       DEF Moved, Loc, Becomes
<1>. QED
  BY <1>2, <1>3 DEF Open, Set, Goto, iput, WpIp

\* The step CreateFound preserves the invariant.
LEMMA CreateFound_Inv ==
  ASSUME IInv, NEW p \in Proc, CreateFound(p)
  PROVE  IInv'
<1>. DEFINE i == l[p].wp
            n == dirlookup(i, Head(l[p].elems))
<1>1. /\ Still /\ cwd' = cwd /\ Loc(p) = "named" /\ i \in Inum /\ l[p].ip = 0
      /\ l[p].dp = 0 /\ l[p].drop = 0 /\ CanLock(i) /\ n # 0
      /\ lock' = lock /\ l[p].elems # <<>>
  BY Here
     DEF CreateFound, Named, Creating, Still, diskVars, fileVars, Loc, Ctl, Locals, Inum0
<1>2. n \in Inum /\ n \in Inum0
  BY <1>1, FirstIs DEF Inum0
<1>3. icache' = iget(ilock(i), n) /\ iput(p, WpIp(l[p], 0, n), i, "exists")
  BY DEF CreateFound, WpIp
<1>. HIDE DEF n
<1>4. IInv'
  <2>. DEFINE r == WpIp(l[p], 0, n)
  <2>2. Becomes(l[p], r, 0, n, l[p].dp)
    <3>1. l[p] \in Locals /\ 0 \in Inum0 /\ Inum \subseteq Inum0
      BY Here, Zero
    <3>. QED
      BY <1>2, <3>1, WpIpSet
  <2>3. iput(p, r, i, "exists") /\ "exists" \in Location /\ i \in Inum
    BY <1>1, <1>2, <1>3 DEF Failed, Location
  <2>. HIDE DEF r
  <2>4. Putting(p, r, i, "exists")
    BY <2>2, <2>3, Here, iputIs DEF Becomes
  <2>5. /\ icache' \in [Inum -> Entry] /\ lock' \in [Inum -> Proc \cup {NoProc}]
        /\ \A j \in Inum : icache'[j].ref = icache[j].ref + One(j = n)
        /\ \A j \in Inum : icache'[j].valid => icache'[j].d = dinode[j] /\ Live(j)
        /\ \A j \in Inum : lock'[j] # NoProc => icache'[j].valid
        /\ \A j \in Inum, q \in Proc \ {p} : lock'[j] = q <=> lock[j] = q
    BY <1>1, <1>2, Here, <1>3, IlockGetIs
  <2>6. Ctl(p)'
    BY <1>1, <1>2, <2>2, <2>4, Here, Consts, <1>3
       DEF Putting, Becomes, Ctl, Failed, Creating, Still
  <2>7. LiveOf(p)'
    BY <1>1, <1>2, <2>2, <2>4, Here, Consts, <1>3
       DEF Putting, Becomes, LiveOf, Live, Failed, Still
  <2>8. NameOf(p)' /\ (Owes(p)' <=> Owes(p)) /\ (Owes(p) => l'[p].ip = l[p].ip)
    BY <1>1, <1>2, <2>2, <2>4, Here, Consts, <1>3
       DEF Putting, Becomes, NameOf, Owes, IsDir, Failed, Still
  <2>9. \A j \in Inum : icache'[j].ref + Share(p, j) = icache[j].ref + Share(p, j)'
    <3>1. \A j \in Inum : j # 0 /\ icache[j].ref \in Nat
      BY Here, Consts DEF Entry
    <3>. QED
      BY <1>1, <1>2, <1>3, <2>2, <2>4, <2>5, <3>1 DEF Putting, Becomes, Share, One
  <2>10. \A j \in Inum : lock'[j] = p <=> Locks(p, j)'
    BY <1>1, <1>2, <2>2, <2>4, Here, Consts, <1>3 DEF Putting, Becomes, Locks, Failed
  <2>. QED
    BY <1>1, <1>2, <2>4, <2>5, <2>6, <2>7, <2>8, <2>9, <2>10, Here, <1>3, QuietStep
       DEF Putting, Becomes
<1>. QED
  BY <1>4

\* The step Exists preserves the invariant.
LEMMA Exists_Inv ==
  ASSUME IInv, NEW p \in Proc, Exists(p)
  PROVE  IInv'
<1>. DEFINE i == l[p].ip
<1>1. /\ Still /\ cwd' = cwd /\ pc[p] = "exists" /\ Loc(p) = "exists" /\ i \in Inum /\ l[p].wp = 0
      /\ l[p].dp = 0 /\ l[p].drop = 0 /\ CanLock(i) /\ icache' = ilock(i)
  BY Here DEF Exists, Still, diskVars, fileVars, Loc, Ctl, Locals, Inum0
<1>2. CASE lock' = lock /\ iput(p, [l[p] EXCEPT !.ip = 0], i, "idle")
  <2>. DEFINE r == [l[p] EXCEPT !.ip = 0]
  <2>2. Becomes(l[p], r, l[p].wp, 0, l[p].dp)
    <3>1. l[p] \in Locals /\ 0 \in Inum0 /\ Inum \subseteq Inum0
      BY Here, Zero
    <3>. QED
      BY <1>1, <3>1, IpSet
  <2>3. iput(p, r, i, "idle") /\ "idle" \in Location /\ i \in Inum
    BY <1>1, <1>2 DEF Failed, Location
  <2>. HIDE DEF r
  <2>4. Putting(p, r, i, "idle")
    BY <2>2, <2>3, Here, iputIs DEF Becomes
  <2>5. /\ icache' \in [Inum -> Entry] /\ lock' \in [Inum -> Proc \cup {NoProc}]
        /\ \A j \in Inum : icache'[j].ref = icache[j].ref
        /\ \A j \in Inum : icache'[j].valid => icache'[j].d = dinode[j] /\ Live(j)
        /\ \A j \in Inum : lock'[j] # NoProc => icache'[j].valid
        /\ \A j \in Inum, q \in Proc \ {p} : lock'[j] = q <=> lock[j] = q
    BY <1>1, Here, <1>2, IlockIs
  <2>6. Ctl(p)'
    BY <1>1, <2>2, <2>4, Here, Consts, <1>2
       DEF Putting, Becomes, Ctl, Failed, Creating, Still
  <2>7. LiveOf(p)'
    BY <1>1, <2>2, <2>4, Here, Consts, <1>2
       DEF Putting, Becomes, LiveOf, Live, Failed, Still
  <2>8. NameOf(p)' /\ (Owes(p)' <=> Owes(p)) /\ (Owes(p) => l'[p].ip = l[p].ip)
    BY <1>1, <2>2, <2>4, Here, Consts, <1>2
       DEF Putting, Becomes, NameOf, Owes, IsDir, Failed, Still
  <2>9. \A j \in Inum : icache'[j].ref + Share(p, j) = icache[j].ref + Share(p, j)'
    <3>1. \A j \in Inum : j # 0 /\ icache[j].ref \in Nat
      BY Here, Consts DEF Entry
    <3>. QED
      BY <1>1, <1>2, <2>2, <2>4, <2>5, <3>1 DEF Putting, Becomes, Share, One
  <2>10. \A j \in Inum : lock'[j] = p <=> Locks(p, j)'
    BY <1>1, <2>2, <2>4, Here, Consts, <1>2 DEF Putting, Becomes, Locks, Failed
  <2>. QED
    BY <1>1, <2>4, <2>5, <2>6, <2>7, <2>8, <2>9, <2>10, Here, <1>2, QuietStep
       DEF Putting, Becomes
<1>3. CASE lock' = [lock EXCEPT ![i] = p] /\ UNCHANGED l /\ Goto(p, "opened")
  <2>0. Taken(p, i) /\ Live(i)
    BY <1>1, <1>3, IlockIs, TakeLock
  <2>2. l[p] \in Locals
    BY Here
  <2>3. Set(p, l[p]) /\ Goto(p, "opened") /\ "opened" \in Place
    BY <1>1, Here, <1>3, <2>0 DEF Place, Location, Set, Types
  <2>4. Moved(p, l[p], "opened")
    BY <2>2, <2>3, Here, SetIs
  <2>5. /\ icache' \in [Inum -> Entry] /\ lock' \in [Inum -> Proc \cup {NoProc}]
        /\ \A j \in Inum : icache'[j].ref = icache[j].ref
        /\ \A j \in Inum : icache'[j].valid => icache'[j].d = dinode[j] /\ Live(j)
        /\ \A j \in Inum : lock'[j] # NoProc => icache'[j].valid
        /\ \A j \in Inum, q \in Proc \ {p} : lock'[j] = q <=> lock[j] = q
    BY <1>1, Here, <1>3, <2>0, IlockIs DEF Taken
  <2>6. Ctl(p)'
    BY <1>1, <2>2, <2>4, Here, Consts, <1>3, <2>0
       DEF Moved, Loc, Ctl, Failed, Creating, Still
  <2>7. LiveOf(p)'
    BY <1>1, <2>2, <2>4, Here, Consts, <1>3, <2>0
       DEF Moved, Loc, LiveOf, Live, Failed, Still
  <2>8. NameOf(p)' /\ (Owes(p)' <=> Owes(p)) /\ (Owes(p) => l'[p].ip = l[p].ip)
    BY <1>1, <2>2, <2>4, Here, Consts, <1>3, <2>0
       DEF Moved, Loc, NameOf, Owes, IsDir, Failed, Still
  <2>9. \A j \in Inum : icache'[j].ref + Share(p, j) = icache[j].ref + Share(p, j)'
    <3>1. \A j \in Inum : j # 0 /\ icache[j].ref \in Nat
      BY Here, Consts DEF Entry
    <3>. QED
      BY <1>1, <1>3, <2>0, <2>2, <2>4, <2>5, <3>1 DEF Moved, Loc, Share, One
  <2>10. \A j \in Inum : lock'[j] = p <=> Locks(p, j)'
    BY <1>1, <2>2, <2>4, Here, Consts, <1>3, <2>0 DEF Moved, Loc, Locks, Failed, Taken
  <2>. QED
    BY <1>1, <2>4, <2>5, <2>6, <2>7, <2>8, <2>9, <2>10, Here, <1>3, <2>0, QuietStep
       DEF Moved, Loc
<1>. QED
  BY <1>2, <1>3 DEF Exists, Goto, iput

\* The step Made preserves the invariant.
LEMMA Made_Inv ==
  ASSUME IInv, NEW p \in Proc, Made(p)
  PROVE  IInv'
<1>. DEFINE i == l[p].ip
<1>1. /\ Still /\ cwd' = cwd /\ pc[p] = "made" /\ Loc(p) = "made" /\ i \in Inum /\ l[p].wp = 0
      /\ l[p].dp = 0 /\ l[p].drop = 0 /\ icache' = icache
  BY Here DEF Made, Still, diskVars, fileVars, Loc, Ctl, Locals, Inum0
<1>2. lock[i] = p
  BY <1>1, Here DEF Locks
<1>3. CASE lock' = lock /\ Goto(p, "opened") /\ UNCHANGED l
  <2>2. l[p] \in Locals
    BY Here
  <2>3. Set(p, l[p]) /\ Goto(p, "opened") /\ "opened" \in Place
    BY <1>1, Here, <1>3 DEF Place, Location, Set, Types
  <2>4. Moved(p, l[p], "opened")
    BY <2>2, <2>3, Here, SetIs
  <2>5. /\ icache' \in [Inum -> Entry] /\ lock' \in [Inum -> Proc \cup {NoProc}]
        /\ \A j \in Inum : icache'[j].ref = icache[j].ref
        /\ \A j \in Inum : icache'[j].valid => icache'[j].d = dinode[j] /\ Live(j)
        /\ \A j \in Inum : lock'[j] # NoProc => icache'[j].valid
        /\ \A j \in Inum, q \in Proc \ {p} : lock'[j] = q <=> lock[j] = q
    BY <1>1, Here, <1>3
  <2>6. Ctl(p)'
    BY <1>1, <2>2, <2>4, Here, Consts, <1>3 DEF Moved, Loc, Ctl, Failed, Creating, Still
  <2>7. LiveOf(p)'
    BY <1>1, <2>2, <2>4, Here, Consts, <1>3 DEF Moved, Loc, LiveOf, Live, Failed, Still
  <2>8. NameOf(p)' /\ (Owes(p)' <=> Owes(p)) /\ (Owes(p) => l'[p].ip = l[p].ip)
    BY <1>1, <2>2, <2>4, Here, Consts, <1>3
       DEF Moved, Loc, NameOf, Owes, IsDir, Failed, Still
  <2>9. \A j \in Inum : icache'[j].ref + Share(p, j) = icache[j].ref + Share(p, j)'
    <3>1. \A j \in Inum : j # 0 /\ icache[j].ref \in Nat
      BY Here, Consts DEF Entry
    <3>. QED
      BY <1>1, <1>3, <2>2, <2>4, <2>5, <3>1 DEF Moved, Loc, Share, One
  <2>10. \A j \in Inum : lock'[j] = p <=> Locks(p, j)'
    BY <1>1, <2>2, <2>4, Here, Consts, <1>3 DEF Moved, Loc, Locks, Failed
  <2>. QED
    BY <1>1, <2>4, <2>5, <2>6, <2>7, <2>8, <2>9, <2>10, Here, <1>3, QuietStep DEF Moved, Loc
<1>4. CASE lock' = [lock EXCEPT ![i] = NoProc] /\ iput(p, [l[p] EXCEPT !.ip = 0], i, "idle")
  <2>0. Given(p, i)
    BY <1>1, <1>2, <1>4, GiveLock
  <2>. DEFINE r == [l[p] EXCEPT !.ip = 0]
  <2>2. Becomes(l[p], r, l[p].wp, 0, l[p].dp)
    <3>1. l[p] \in Locals /\ 0 \in Inum0 /\ Inum \subseteq Inum0
      BY Here, Zero
    <3>. QED
      BY <1>1, <3>1, IpSet
  <2>3. iput(p, r, i, "idle") /\ "idle" \in Location /\ i \in Inum
    BY <1>1, <1>4, <2>0 DEF Failed, Location
  <2>. HIDE DEF r
  <2>4. Putting(p, r, i, "idle")
    BY <2>2, <2>3, Here, iputIs DEF Becomes
  <2>5. /\ icache' \in [Inum -> Entry] /\ lock' \in [Inum -> Proc \cup {NoProc}]
        /\ \A j \in Inum : icache'[j].ref = icache[j].ref
        /\ \A j \in Inum : icache'[j].valid => icache'[j].d = dinode[j] /\ Live(j)
        /\ \A j \in Inum : lock'[j] # NoProc => icache'[j].valid
        /\ \A j \in Inum, q \in Proc \ {p} : lock'[j] = q <=> lock[j] = q
    BY <1>1, Here, <1>4, <2>0 DEF Given
  <2>6. Ctl(p)'
    BY <1>1, <2>2, <2>4, Here, Consts, <1>4, <2>0
       DEF Putting, Becomes, Ctl, Failed, Creating, Still
  <2>7. LiveOf(p)'
    BY <1>1, <2>2, <2>4, Here, Consts, <1>4, <2>0
       DEF Putting, Becomes, LiveOf, Live, Failed, Still
  <2>8. NameOf(p)' /\ (Owes(p)' <=> Owes(p)) /\ (Owes(p) => l'[p].ip = l[p].ip)
    BY <1>1, <2>2, <2>4, Here, Consts, <1>4, <2>0
       DEF Putting, Becomes, NameOf, Owes, IsDir, Failed, Still
  <2>9. \A j \in Inum : icache'[j].ref + Share(p, j) = icache[j].ref + Share(p, j)'
    <3>1. \A j \in Inum : j # 0 /\ icache[j].ref \in Nat
      BY Here, Consts DEF Entry
    <3>. QED
      BY <1>1, <1>4, <2>0, <2>2, <2>4, <2>5, <3>1 DEF Putting, Becomes, Share, One
  <2>10. \A j \in Inum : lock'[j] = p <=> Locks(p, j)'
    BY <1>1, <2>2, <2>4, Here, Consts, <1>4, <2>0 DEF Putting, Becomes, Locks, Failed, Given
  <2>. QED
    BY <1>1, <2>4, <2>5, <2>6, <2>7, <2>8, <2>9, <2>10, Here, <1>4, <2>0, QuietStep
       DEF Putting, Becomes
<1>. QED
  BY <1>3, <1>4 DEF Made, Goto, iput

\* The step Unlink preserves the invariant.
LEMMA Unlink_Inv ==
  ASSUME IInv, NEW p \in Proc, Unlink(p)
  PROVE  IInv'
<1>. DEFINE i == l[p].wp
            e == Head(l[p].elems)
            n == dirlookup(i, e)
<1>1. /\ Still /\ cwd' = cwd /\ Loc(p) = "named" /\ i \in Inum /\ l[p].ip = 0
      /\ l[p].dp = 0 /\ l[p].drop = 0 /\ CanLock(i)
      /\ l[p].elems # <<>> /\ IsDir(i)
  BY Here
     DEF Unlink, Named, Creating, NameOf, Still, diskVars, fileVars, Loc, Ctl, Locals, Inum0
<1>2. CASE icache' = ilock(i) /\ lock' = lock /\ iput(p, [l[p] EXCEPT !.wp = 0], i, "idle")
  <2>. DEFINE r == [l[p] EXCEPT !.wp = 0]
  <2>2. Becomes(l[p], r, 0, l[p].ip, l[p].dp)
    <3>1. l[p] \in Locals /\ 0 \in Inum0 /\ Inum \subseteq Inum0
      BY Here, Zero
    <3>. QED
      BY <1>1, <3>1, WpSet
  <2>3. iput(p, r, i, "idle") /\ "idle" \in Location /\ i \in Inum
    BY <1>1, <1>2 DEF Failed, Location
  <2>. HIDE DEF r
  <2>4. Putting(p, r, i, "idle")
    BY <2>2, <2>3, Here, iputIs DEF Becomes
  <2>5. /\ icache' \in [Inum -> Entry] /\ lock' \in [Inum -> Proc \cup {NoProc}]
        /\ \A j \in Inum : icache'[j].ref = icache[j].ref
        /\ \A j \in Inum : icache'[j].valid => icache'[j].d = dinode[j] /\ Live(j)
        /\ \A j \in Inum : lock'[j] # NoProc => icache'[j].valid
        /\ \A j \in Inum, q \in Proc \ {p} : lock'[j] = q <=> lock[j] = q
    BY <1>1, Here, <1>2, IlockIs
  <2>6. Ctl(p)'
    BY <1>1, <2>2, <2>4, Here, Consts, <1>2
       DEF Putting, Becomes, Ctl, Failed, Creating, Still
  <2>7. LiveOf(p)'
    BY <1>1, <2>2, <2>4, Here, Consts, <1>2
       DEF Putting, Becomes, LiveOf, Live, Failed, Still
  <2>8. NameOf(p)' /\ (Owes(p)' <=> Owes(p)) /\ (Owes(p) => l'[p].ip = l[p].ip)
    BY <1>1, <2>2, <2>4, Here, Consts, <1>2
       DEF Putting, Becomes, NameOf, Owes, IsDir, Failed, Still
  <2>9. \A j \in Inum : icache'[j].ref + Share(p, j) = icache[j].ref + Share(p, j)'
    <3>1. \A j \in Inum : j # 0 /\ icache[j].ref \in Nat
      BY Here, Consts DEF Entry
    <3>. QED
      BY <1>1, <1>2, <2>2, <2>4, <2>5, <3>1 DEF Putting, Becomes, Share, One
  <2>10. \A j \in Inum : lock'[j] = p <=> Locks(p, j)'
    BY <1>1, <2>2, <2>4, Here, Consts, <1>2 DEF Putting, Becomes, Locks, Failed
  <2>. QED
    BY <1>1, <2>4, <2>5, <2>6, <2>7, <2>8, <2>9, <2>10, Here, <1>2, QuietStep
       DEF Putting, Becomes
<1>3. CASE /\ e \notin {".", ".."} /\ n # 0 /\ icache' = iget(ilock(i), n)
           /\ lock' = [lock EXCEPT ![i] = p]
           /\ Set(p, WpDpIp(l[p], 0, i, n)) /\ Goto(p, "unlink")
  <2>01. e \in Name /\ n \in Inum /\ n \in Inum0 /\ dents[i][e] = n
    BY <1>1, <1>3, FirstIs DEF Inum0, Elem, dirlookup
  <2>02. Taken(p, i) /\ Live(i) /\ Live(n)
    <3>1. lock[i] = NoProc /\ Live(i)
      BY <1>1, IlockIs
    <3>2. Taken(p, i)
      BY <1>1, <1>3, <3>1, TakeLock
    <3>3. Live(n)
      BY <1>1, <2>01, NamedLive
    <3>. QED
      BY <3>1, <3>2, <3>3
  <2>03. Set(p, WpDpIp(l[p], 0, i, n)) /\ Goto(p, "unlink") /\ icache' = iget(ilock(i), n)
    BY <1>3
  <2>04. i \in Inum0 /\ n \in Inum0
    BY <1>1, <2>01, Zero
  <2>. HIDE DEF n
  <2>. DEFINE r == WpDpIp(l[p], 0, i, n)
  <2>2. Becomes(l[p], r, 0, n, i)
    <3>1. l[p] \in Locals /\ 0 \in Inum0 /\ Inum \subseteq Inum0
      BY Here, Zero
    <3>. QED
      BY <2>04, <3>1, AllSet
  <2>3. Set(p, r) /\ Goto(p, "unlink") /\ "unlink" \in Place
    BY <1>1, <2>01, Here, <2>02, <2>03 DEF Place, Location, Set, Types
  <2>. HIDE DEF r
  <2>4. Moved(p, r, "unlink")
    BY <2>2, <2>3, Here, SetIs DEF Becomes
  <2>5. /\ icache' \in [Inum -> Entry] /\ lock' \in [Inum -> Proc \cup {NoProc}]
        /\ \A j \in Inum : icache'[j].ref = icache[j].ref + One(j = n)
        /\ \A j \in Inum : icache'[j].valid => icache'[j].d = dinode[j] /\ Live(j)
        /\ \A j \in Inum : lock'[j] # NoProc => icache'[j].valid
        /\ \A j \in Inum, q \in Proc \ {p} : lock'[j] = q <=> lock[j] = q
    BY <1>1, <2>01, Here, <2>02, <2>03, IlockGetIs DEF Taken
  <2>6. Ctl(p)'
    BY <1>1, <2>01, <2>2, <2>4, Here, Consts, <2>02, <2>03
       DEF Moved, Loc, Becomes, Ctl, Failed, Creating, Still
  <2>7. LiveOf(p)'
    BY <1>1, <2>01, <2>2, <2>4, Here, Consts, <2>02, <2>03
       DEF Moved, Loc, Becomes, LiveOf, Live, Failed, Still
  <2>8. NameOf(p)' /\ (Owes(p)' <=> Owes(p)) /\ (Owes(p) => l'[p].ip = l[p].ip)
    BY <1>1, <2>01, <2>2, <2>4, Here, Consts, <2>02, <2>03
       DEF Moved, Loc, Becomes, NameOf, Owes, IsDir, Failed, Still
  <2>9. \A j \in Inum : icache'[j].ref + Share(p, j) = icache[j].ref + Share(p, j)'
    <3>1. \A j \in Inum : j # 0 /\ icache[j].ref \in Nat
      BY Here, Consts DEF Entry
    <3>. QED
      BY <1>1, <2>01, <2>02, <2>03, <2>2, <2>4, <2>5, <3>1
         DEF Moved, Loc, Becomes, Share, One
  <2>10. \A j \in Inum : lock'[j] = p <=> Locks(p, j)'
    BY <1>1, <2>01, <2>2, <2>4, Here, Consts, <2>02, <2>03
       DEF Moved, Loc, Becomes, Locks, Failed, Taken
  <2>. QED
    BY SMTT(30), <1>1, <2>01, <2>4, <2>5, <2>6, <2>7, <2>8, <2>9, <2>10, Here, <2>02, <2>03,
       QuietStep
       DEF Moved, Loc, Becomes
<1>. QED
  BY <1>2, <1>3 DEF Unlink, Set, Goto, iput, WpDpIp

\* The step PutDir preserves the invariant.
LEMMA PutDir_Inv ==
  ASSUME IInv, NEW p \in Proc, PutDir(p)
  PROVE  IInv'
<1>. DEFINE i == l[p].dp
<1>1. /\ Still /\ cwd' = cwd /\ pc[p] \in {"notempty", "linked"} /\ Loc(p) = pc[p]
      /\ (pc[p] = "linked" <=> l[p].ip # 0) /\ i \in Inum
      /\ l[p].wp = 0 /\ l[p].drop = 0 /\ icache' = icache
      /\ lock' = [lock EXCEPT ![i] = NoProc] /\ iput(p, [l[p] EXCEPT !.dp = 0], i, Failed(p))
  BY Here DEF PutDir, Still, diskVars, fileVars, Loc, Ctl, Locals, Inum0
<1>2. Given(p, i)
  <2>1. lock[i] = p
    BY <1>1, Here DEF Locks
  <2>. QED
    BY <1>1, <2>1, GiveLock
<1>3. IInv'
  <2>. DEFINE r == [l[p] EXCEPT !.dp = 0]
  <2>2. Becomes(l[p], r, l[p].wp, l[p].ip, 0)
    <3>1. l[p] \in Locals /\ 0 \in Inum0 /\ Inum \subseteq Inum0
      BY Here, Zero
    <3>. QED
      BY <1>1, <1>2, <3>1, DpSet
  <2>3. iput(p, r, i, Failed(p)) /\ Failed(p) \in Location /\ i \in Inum
    BY <1>1, <1>2 DEF Failed, Location
  <2>. HIDE DEF r
  <2>4. Putting(p, r, i, Failed(p))
    BY <2>2, <2>3, Here, iputIs DEF Becomes
  <2>5. /\ icache' \in [Inum -> Entry] /\ lock' \in [Inum -> Proc \cup {NoProc}]
        /\ \A j \in Inum : icache'[j].ref = icache[j].ref
        /\ \A j \in Inum : icache'[j].valid => icache'[j].d = dinode[j] /\ Live(j)
        /\ \A j \in Inum : lock'[j] # NoProc => icache'[j].valid
        /\ \A j \in Inum, q \in Proc \ {p} : lock'[j] = q <=> lock[j] = q
    BY <1>1, <1>2, Here DEF Given
  <2>6. Ctl(p)'
    BY <1>1, <1>2, <2>2, <2>4, Here, Consts
       DEF Putting, Becomes, Ctl, Failed, Creating, Still
  <2>7. LiveOf(p)'
    BY <1>1, <1>2, <2>2, <2>4, Here, Consts
       DEF Putting, Becomes, LiveOf, Live, Failed, Still
  <2>8. NameOf(p)' /\ (Owes(p)' <=> Owes(p)) /\ (Owes(p) => l'[p].ip = l[p].ip)
    BY <1>1, <1>2, <2>2, <2>4, Here, Consts
       DEF Putting, Becomes, NameOf, Owes, IsDir, Failed, Still
  <2>9. \A j \in Inum : icache'[j].ref + Share(p, j) = icache[j].ref + Share(p, j)'
    <3>1. \A j \in Inum : j # 0 /\ icache[j].ref \in Nat
      BY Here, Consts DEF Entry
    <3>. QED
      BY <1>1, <1>2, <2>2, <2>4, <2>5, <3>1 DEF Putting, Becomes, Share, One
  <2>10. \A j \in Inum : lock'[j] = p <=> Locks(p, j)'
    BY <1>1, <1>2, <2>2, <2>4, Here, Consts DEF Putting, Becomes, Locks, Failed, Given
  <2>. QED
    BY <1>1, <1>2, <2>4, <2>5, <2>6, <2>7, <2>8, <2>9, <2>10, Here, QuietStep
       DEF Putting, Becomes
<1>. QED
  BY <1>3

\* The step LinkEnd preserves the invariant.
LEMMA LinkEnd_Inv ==
  ASSUME IInv, NEW p \in Proc, LinkEnd(p)
  PROVE  IInv'
<1>. DEFINE i == l[p].ip
<1>1. /\ Still /\ cwd' = cwd /\ pc[p] = "putip" /\ Loc(p) = "putip"
      /\ i \in Inum /\ l[p].wp = 0 /\ l[p].dp = 0 /\ l[p].drop = 0 /\ icache' = icache
      /\ lock' = lock /\ iput(p, [l[p] EXCEPT !.ip = 0], i, "idle")
  BY Here DEF LinkEnd, Still, diskVars, fileVars, Loc, Ctl, Locals, Inum0
<1>2. IInv'
  <2>. DEFINE r == [l[p] EXCEPT !.ip = 0]
  <2>2. Becomes(l[p], r, l[p].wp, 0, l[p].dp)
    <3>1. l[p] \in Locals /\ 0 \in Inum0 /\ Inum \subseteq Inum0
      BY Here, Zero
    <3>. QED
      BY <1>1, <3>1, IpSet
  <2>3. iput(p, r, i, "idle") /\ "idle" \in Location /\ i \in Inum
    BY <1>1 DEF Failed, Location
  <2>. HIDE DEF r
  <2>4. Putting(p, r, i, "idle")
    BY <2>2, <2>3, Here, iputIs DEF Becomes
  <2>5. /\ icache' \in [Inum -> Entry] /\ lock' \in [Inum -> Proc \cup {NoProc}]
        /\ \A j \in Inum : icache'[j].ref = icache[j].ref
        /\ \A j \in Inum : icache'[j].valid => icache'[j].d = dinode[j] /\ Live(j)
        /\ \A j \in Inum : lock'[j] # NoProc => icache'[j].valid
        /\ \A j \in Inum, q \in Proc \ {p} : lock'[j] = q <=> lock[j] = q
    BY <1>1, Here
  <2>6. Ctl(p)'
    BY <1>1, <2>2, <2>4, Here, Consts DEF Putting, Becomes, Ctl, Failed, Creating, Still
  <2>7. LiveOf(p)'
    BY <1>1, <2>2, <2>4, Here, Consts DEF Putting, Becomes, LiveOf, Live, Failed, Still
  <2>8. NameOf(p)' /\ (Owes(p)' <=> Owes(p)) /\ (Owes(p) => l'[p].ip = l[p].ip)
    BY <1>1, <2>2, <2>4, Here, Consts
       DEF Putting, Becomes, NameOf, Owes, IsDir, Failed, Still
  <2>9. \A j \in Inum : icache'[j].ref + Share(p, j) = icache[j].ref + Share(p, j)'
    <3>1. \A j \in Inum : j # 0 /\ icache[j].ref \in Nat
      BY Here, Consts DEF Entry
    <3>. QED
      BY <1>1, <2>2, <2>4, <2>5, <3>1 DEF Putting, Becomes, Share, One
  <2>10. \A j \in Inum : lock'[j] = p <=> Locks(p, j)'
    BY <1>1, <2>2, <2>4, Here, Consts DEF Putting, Becomes, Locks, Failed
  <2>. QED
    BY <1>1, <2>4, <2>5, <2>6, <2>7, <2>8, <2>9, <2>10, Here, QuietStep DEF Putting, Becomes
<1>. QED
  BY <1>2

\* The step Exit preserves the invariant.
LEMMA Exit_Inv ==
  ASSUME IInv, NEW p \in Proc, Exit(p)
  PROVE  IInv'
<1>. DEFINE i == l[p].wp
<1>1. /\ Still /\ cwd' = cwd /\ pc[p] = "idle" /\ Loc(p) = "idle" /\ i = 0
      /\ l[p].ip = 0 /\ l[p].dp = 0 /\ l[p].drop = 0 /\ icache' = icache
      /\ lock' = lock /\ Goto(p, "exit") /\ UNCHANGED l
  BY Here DEF Exit, Still, diskVars, fileVars, Loc, Ctl, Locals, Inum0
<1>2. IInv'
  <2>2. l[p] \in Locals
    BY Here
  <2>3. Set(p, l[p]) /\ Goto(p, "exit") /\ "exit" \in Place
    BY <1>1, Here DEF Place, Location, Set, Types
  <2>4. Moved(p, l[p], "exit")
    BY <2>2, <2>3, Here, SetIs
  <2>5. /\ icache' \in [Inum -> Entry] /\ lock' \in [Inum -> Proc \cup {NoProc}]
        /\ \A j \in Inum : icache'[j].ref = icache[j].ref
        /\ \A j \in Inum : icache'[j].valid => icache'[j].d = dinode[j] /\ Live(j)
        /\ \A j \in Inum : lock'[j] # NoProc => icache'[j].valid
        /\ \A j \in Inum, q \in Proc \ {p} : lock'[j] = q <=> lock[j] = q
    BY <1>1, Here
  <2>6. Ctl(p)'
    BY <1>1, <2>2, <2>4, Here, Consts DEF Moved, Loc, Ctl, Failed, Creating, Still
  <2>7. LiveOf(p)'
    BY <1>1, <2>2, <2>4, Here, Consts DEF Moved, Loc, LiveOf, Live, Failed, Still
  <2>8. NameOf(p)' /\ (Owes(p)' <=> Owes(p)) /\ (Owes(p) => l'[p].ip = l[p].ip)
    BY <1>1, <2>2, <2>4, Here, Consts DEF Moved, Loc, NameOf, Owes, IsDir, Failed, Still
  <2>9. \A j \in Inum : icache'[j].ref + Share(p, j) = icache[j].ref + Share(p, j)'
    <3>1. \A j \in Inum : j # 0 /\ icache[j].ref \in Nat
      BY Here, Consts DEF Entry
    <3>. QED
      BY <1>1, <2>2, <2>4, <2>5, <3>1 DEF Moved, Loc, Share, One
  <2>10. \A j \in Inum : lock'[j] = p <=> Locks(p, j)'
    BY <1>1, <2>2, <2>4, Here, Consts DEF Moved, Loc, Locks, Failed
  <2>. QED
    BY <1>1, <2>4, <2>5, <2>6, <2>7, <2>8, <2>9, <2>10, Here, QuietStep DEF Moved, Loc
<1>. QED
  BY <1>2

\* The step Access preserves the invariant.
LEMMA Access_Inv ==
  ASSUME IInv, NEW p \in Proc, NEW fd \in Fd, Access(p, fd)
  PROVE  IInv'
<1>. DEFINE i == ftable[ofile[p][fd]].ip
<1>1. /\ Still /\ cwd' = cwd /\ pc[p] = "idle" /\ Loc(p) = "idle" /\ l[p].wp = 0
      /\ l[p].ip = 0 /\ l[p].dp = 0 /\ l[p].drop = 0 /\ icache' = ilock(i)
      /\ lock' = lock /\ UNCHANGED <<pc, l>> /\ CanLock(i) /\ ofile[p][fd] # 0
  BY Here DEF Access, Still, diskVars, fileVars, Loc, Ctl, Locals, Inum0
<1>2. i \in Inum /\ Goto(p, "idle")
  BY SMTT(30), <1>1, Here, OpenFile DEF Goto, Types
<1>3. IInv'
  <2>2. l[p] \in Locals
    BY Here
  <2>3. Set(p, l[p]) /\ Goto(p, "idle") /\ "idle" \in Place
    BY <1>1, <1>2, Here DEF Place, Location, Set, Types
  <2>4. Moved(p, l[p], "idle")
    BY <2>2, <2>3, Here, SetIs
  <2>5. /\ icache' \in [Inum -> Entry] /\ lock' \in [Inum -> Proc \cup {NoProc}]
        /\ \A j \in Inum : icache'[j].ref = icache[j].ref
        /\ \A j \in Inum : icache'[j].valid => icache'[j].d = dinode[j] /\ Live(j)
        /\ \A j \in Inum : lock'[j] # NoProc => icache'[j].valid
        /\ \A j \in Inum, q \in Proc \ {p} : lock'[j] = q <=> lock[j] = q
    BY <1>1, <1>2, Here, IlockIs
  <2>6. Ctl(p)'
    BY <1>1, <1>2, <2>2, <2>4, Here, Consts DEF Moved, Loc, Ctl, Failed, Creating, Still
  <2>7. LiveOf(p)'
    BY <1>1, <1>2, <2>2, <2>4, Here, Consts DEF Moved, Loc, LiveOf, Live, Failed, Still
  <2>8. NameOf(p)' /\ (Owes(p)' <=> Owes(p)) /\ (Owes(p) => l'[p].ip = l[p].ip)
    BY SMTT(30), <1>1, <1>2, <2>2, <2>4, Here, Consts
       DEF Moved, Loc, NameOf, Owes, IsDir, Failed, Still
  <2>9. \A j \in Inum : icache'[j].ref + Share(p, j) = icache[j].ref + Share(p, j)'
    <3>1. \A j \in Inum : j # 0 /\ icache[j].ref \in Nat
      BY Here, Consts DEF Entry
    <3>. QED
      BY <1>1, <1>2, <2>2, <2>4, <2>5, <3>1 DEF Moved, Loc, Share, One
  <2>10. \A j \in Inum : lock'[j] = p <=> Locks(p, j)'
    BY <1>1, <1>2, <2>2, <2>4, Here, Consts DEF Moved, Loc, Locks, Failed
  <2>. QED
    BY <1>1, <1>2, <2>4, <2>5, <2>6, <2>7, <2>8, <2>9, <2>10, Here, QuietStep DEF Moved, Loc
<1>. QED
  BY <1>3

\* The step ExitCwd preserves the invariant.
LEMMA ExitCwd_Inv ==
  ASSUME IInv, NEW p \in Proc, ExitCwd(p)
  PROVE  IInv'
<1>. DEFINE i == cwd[p]
<1>1. /\ Still /\ pc[p] = "exit" /\ Loc(p) = "exit" /\ i \in Inum /\ l[p].wp = 0
      /\ l[p].ip = 0 /\ l[p].dp = 0 /\ l[p].drop = 0 /\ icache' = icache
      /\ lock' = lock /\ iput(p, NoCall, i, "unused") /\ \A fd \in Fd : ofile[p][fd] = 0
      /\ cwd' \in [Proc -> Inum0] /\ cwd'[p] = 0 /\ \A q \in Proc \ {p} : cwd'[q] = cwd[q]
  BY Here DEF ExitCwd, Still, diskVars, fileVars, Loc, Ctl, Locals, Inum0
<1>2. IInv'
  <2>. DEFINE r == NoCall
  <2>2. r \in Locals /\ r.wp = 0 /\ r.ip = 0 /\ r.dp = 0
    <3>1. l[p] \in Locals /\ 0 \in Inum0 /\ Inum \subseteq Inum0
      BY Here, Zero
    <3>. QED
      BY <1>1, <3>1, NoCallIs
  <2>3. iput(p, r, i, "unused") /\ "unused" \in Location /\ i \in Inum
    BY <1>1 DEF Failed, Location
  <2>. HIDE DEF r
  <2>4. Putting(p, r, i, "unused")
    BY <2>2, <2>3, Here, iputIs
  <2>5. /\ icache' \in [Inum -> Entry] /\ lock' \in [Inum -> Proc \cup {NoProc}]
        /\ \A j \in Inum : icache'[j].ref = icache[j].ref
        /\ \A j \in Inum : icache'[j].valid => icache'[j].d = dinode[j] /\ Live(j)
        /\ \A j \in Inum : lock'[j] # NoProc => icache'[j].valid
        /\ \A j \in Inum, q \in Proc \ {p} : lock'[j] = q <=> lock[j] = q
    BY <1>1, Here
  <2>6. Ctl(p)'
    BY <1>1, <2>2, <2>4, Here, Consts DEF Putting, Ctl, Failed, Creating, Still
  <2>7. LiveOf(p)'
    BY <1>1, <2>2, <2>4, Here, Consts DEF Putting, LiveOf, Live, Failed, Still
  <2>8. NameOf(p)' /\ (Owes(p)' <=> Owes(p)) /\ (Owes(p) => l'[p].ip = l[p].ip)
    BY <1>1, <2>2, <2>4, Here, Consts DEF Putting, NameOf, Owes, IsDir, Failed, Still
  <2>9. \A j \in Inum : icache'[j].ref + Share(p, j) = icache[j].ref + Share(p, j)'
    <3>1. \A j \in Inum : j # 0 /\ icache[j].ref \in Nat
      BY Here, Consts DEF Entry
    <3>. QED
      BY <1>1, <2>2, <2>4, <2>5, <3>1 DEF Putting, Share, One
  <2>10. \A j \in Inum : lock'[j] = p <=> Locks(p, j)'
    BY <1>1, <2>2, <2>4, Here, Consts DEF Putting, Locks, Failed
  <2>. QED
    BY <1>1, <2>4, <2>5, <2>6, <2>7, <2>8, <2>9, <2>10, Here, QuietStep DEF Putting
<1>. QED
  BY <1>2

\* The step Chdir preserves the invariant.
LEMMA Chdir_Inv ==
  ASSUME IInv, NEW p \in Proc, Chdir(p)
  PROVE  IInv'
<1>. DEFINE i == l[p].wp
<1>1. /\ Still /\ Loc(p) = "named" /\ i \in Inum /\ l[p].ip = 0
      /\ l[p].dp = 0 /\ l[p].drop = 0 /\ CanLock(i)
      /\ icache' = ilock(i) /\ lock' = lock /\ cwd[p] \in Inum
  BY Here DEF Chdir, Named, Creating, Still, diskVars, fileVars, Loc, Ctl, Locals, Inum0
<1>2. CASE cwd' = cwd /\ iput(p, [l[p] EXCEPT !.wp = 0], i, "idle")
  <2>. DEFINE r == [l[p] EXCEPT !.wp = 0]
  <2>2. Becomes(l[p], r, 0, l[p].ip, l[p].dp)
    <3>1. l[p] \in Locals /\ 0 \in Inum0 /\ Inum \subseteq Inum0
      BY Here, Zero
    <3>. QED
      BY <1>1, <3>1, WpSet
  <2>3. iput(p, r, i, "idle") /\ "idle" \in Location /\ i \in Inum
    BY <1>1, <1>2 DEF Failed, Location
  <2>. HIDE DEF r
  <2>4. Putting(p, r, i, "idle")
    BY <2>2, <2>3, Here, iputIs DEF Becomes
  <2>5. /\ icache' \in [Inum -> Entry] /\ lock' \in [Inum -> Proc \cup {NoProc}]
        /\ \A j \in Inum : icache'[j].ref = icache[j].ref
        /\ \A j \in Inum : icache'[j].valid => icache'[j].d = dinode[j] /\ Live(j)
        /\ \A j \in Inum : lock'[j] # NoProc => icache'[j].valid
        /\ \A j \in Inum, q \in Proc \ {p} : lock'[j] = q <=> lock[j] = q
    BY <1>1, Here, <1>2, IlockIs
  <2>6. Ctl(p)'
    BY <1>1, <2>2, <2>4, Here, Consts, <1>2
       DEF Putting, Becomes, Ctl, Failed, Creating, Still
  <2>7. LiveOf(p)'
    BY <1>1, <2>2, <2>4, Here, Consts, <1>2
       DEF Putting, Becomes, LiveOf, Live, Failed, Still
  <2>8. NameOf(p)' /\ (Owes(p)' <=> Owes(p)) /\ (Owes(p) => l'[p].ip = l[p].ip)
    BY <1>1, <2>2, <2>4, Here, Consts, <1>2
       DEF Putting, Becomes, NameOf, Owes, IsDir, Failed, Still
  <2>9. \A j \in Inum : icache'[j].ref + Share(p, j) = icache[j].ref + Share(p, j)'
    <3>1. \A j \in Inum : j # 0 /\ icache[j].ref \in Nat
      BY Here, Consts DEF Entry
    <3>. QED
      BY <1>1, <1>2, <2>2, <2>4, <2>5, <3>1 DEF Putting, Becomes, Share, One
  <2>10. \A j \in Inum : lock'[j] = p <=> Locks(p, j)'
    BY <1>1, <2>2, <2>4, Here, Consts, <1>2 DEF Putting, Becomes, Locks, Failed
  <2>. QED
    BY <1>1, <2>4, <2>5, <2>6, <2>7, <2>8, <2>9, <2>10, Here, <1>2, QuietStep
       DEF Putting, Becomes
<1>3. CASE cwd' = [cwd EXCEPT ![p] = i] /\ iput(p, [l[p] EXCEPT !.wp = 0], cwd[p], "idle")
  <2>01. /\ cwd' \in [Proc -> Inum0] /\ cwd'[p] = i /\ Live(i)
         /\ \A q \in Proc \ {p} : cwd'[q] = cwd[q]
    BY <1>1, <1>3, Here, IlockIs, Zero
  <2>. DEFINE r == [l[p] EXCEPT !.wp = 0]
  <2>2. Becomes(l[p], r, 0, l[p].ip, l[p].dp)
    <3>1. l[p] \in Locals /\ 0 \in Inum0 /\ Inum \subseteq Inum0
      BY Here, Zero
    <3>. QED
      BY <1>1, <2>01, <3>1, WpSet
  <2>3. iput(p, r, cwd[p], "idle") /\ "idle" \in Location /\ cwd[p] \in Inum
    BY <1>1, <2>01, <1>3 DEF Failed, Location
  <2>. HIDE DEF r
  <2>4. Putting(p, r, cwd[p], "idle")
    BY <2>2, <2>3, Here, iputIs DEF Becomes
  <2>5. /\ icache' \in [Inum -> Entry] /\ lock' \in [Inum -> Proc \cup {NoProc}]
        /\ \A j \in Inum : icache'[j].ref = icache[j].ref
        /\ \A j \in Inum : icache'[j].valid => icache'[j].d = dinode[j] /\ Live(j)
        /\ \A j \in Inum : lock'[j] # NoProc => icache'[j].valid
        /\ \A j \in Inum, q \in Proc \ {p} : lock'[j] = q <=> lock[j] = q
    BY <1>1, <2>01, Here, <1>3, IlockIs
  <2>6. Ctl(p)'
    BY <1>1, <2>01, <2>2, <2>4, Here, Consts, <1>3
       DEF Putting, Becomes, Ctl, Failed, Creating, Still
  <2>7. LiveOf(p)'
    BY <1>1, <2>01, <2>2, <2>4, Here, Consts, <1>3
       DEF Putting, Becomes, LiveOf, Live, Failed, Still
  <2>8. NameOf(p)' /\ (Owes(p)' <=> Owes(p)) /\ (Owes(p) => l'[p].ip = l[p].ip)
    BY <1>1, <2>01, <2>2, <2>4, Here, Consts, <1>3
       DEF Putting, Becomes, NameOf, Owes, IsDir, Failed, Still
  <2>9. \A j \in Inum : icache'[j].ref + Share(p, j) = icache[j].ref + Share(p, j)'
    <3>1. \A j \in Inum : j # 0 /\ icache[j].ref \in Nat
      BY Here, Consts DEF Entry
    <3>. QED
      BY <1>1, <2>01, <1>3, <2>2, <2>4, <2>5, <3>1 DEF Putting, Becomes, Share, One
  <2>10. \A j \in Inum : lock'[j] = p <=> Locks(p, j)'
    BY <1>1, <2>01, <2>2, <2>4, Here, Consts, <1>3 DEF Putting, Becomes, Locks, Failed
  <2>. QED
    BY <1>1, <2>01, <2>4, <2>5, <2>6, <2>7, <2>8, <2>9, <2>10, Here, <1>3, QuietStep
       DEF Putting, Becomes
<1>. QED
  BY <1>1, <1>2, <1>3 DEF Chdir, iput

\* iput() of an inode that is still used preserves the invariant.
LEMMA Iput_Keeps ==
  ASSUME IInv, NEW p \in Proc, Iput(p), ~Unused(l[p].drop)
  PROVE  IInv'
<1>. DEFINE i == l[p].drop
<1>1. /\ Still /\ cwd' = cwd /\ pc[p] = "put" /\ Loc(p) = l[p].ret
      /\ icache' = icache /\ lock' = lock /\ Goto(p, "deref") /\ UNCHANGED l
  BY Here DEF Iput, Still, diskVars, fileVars, Loc, Ctl, Locals, Inum0
<1>2. IInv'
  <2>2. l[p] \in Locals
    BY Here
  <2>3. Set(p, l[p]) /\ Goto(p, "deref") /\ "deref" \in Place
    BY <1>1, Here DEF Place, Location, Set, Types
  <2>4. Moved(p, l[p], "deref")
    BY <2>2, <2>3, Here, SetIs
  <2>5. /\ icache' \in [Inum -> Entry] /\ lock' \in [Inum -> Proc \cup {NoProc}]
        /\ \A j \in Inum : icache'[j].ref = icache[j].ref
        /\ \A j \in Inum : icache'[j].valid => icache'[j].d = dinode[j] /\ Live(j)
        /\ \A j \in Inum : lock'[j] # NoProc => icache'[j].valid
        /\ \A j \in Inum, q \in Proc \ {p} : lock'[j] = q <=> lock[j] = q
    BY <1>1, Here
  <2>6. Ctl(p)'
    BY <1>1, <2>2, <2>4, Here, Consts DEF Moved, Loc, Ctl, Failed, Creating, Still
  <2>7. LiveOf(p)'
    BY <1>1, <2>2, <2>4, Here, Consts DEF Moved, Loc, LiveOf, Live, Failed, Still
  <2>8. NameOf(p)' /\ (Owes(p)' <=> Owes(p)) /\ (Owes(p) => l'[p].ip = l[p].ip)
    BY <1>1, <2>2, <2>4, Here, Consts DEF Moved, Loc, NameOf, Owes, IsDir, Failed, Still
  <2>9. \A j \in Inum : icache'[j].ref + Share(p, j) = icache[j].ref + Share(p, j)'
    <3>1. \A j \in Inum : j # 0 /\ icache[j].ref \in Nat
      BY Here, Consts DEF Entry
    <3>. QED
      BY <1>1, <2>2, <2>4, <2>5, <3>1 DEF Moved, Loc, Share, One
  <2>10. \A j \in Inum : lock'[j] = p <=> Locks(p, j)'
    BY <1>1, <2>2, <2>4, Here, Consts DEF Moved, Loc, Locks, Failed
  <2>. QED
    BY <1>1, <2>4, <2>5, <2>6, <2>7, <2>8, <2>9, <2>10, Here, QuietStep DEF Moved, Loc
<1>. QED
  BY <1>2

\* link() of a directory, which fails, preserves the invariant.
LEMMA Link_Dir ==
  ASSUME IInv, NEW p \in Proc, Link(p), wpd(p).type = "dir"
  PROVE  IInv'
<1>. DEFINE i == l[p].wp
<1>1. /\ Still /\ cwd' = cwd /\ Loc(p) = "named" /\ i \in Inum /\ l[p].ip = 0
      /\ l[p].dp = 0 /\ l[p].drop = 0 /\ CanLock(i)
      /\ icache' = ilock(i) /\ lock' = lock /\ iput(p, [l[p] EXCEPT !.wp = 0], i, "idle")
  BY Here DEF Link, Named, Still, diskVars, fileVars, Loc, Ctl, Locals, Inum0
<1>2. IInv'
  <2>. DEFINE r == [l[p] EXCEPT !.wp = 0]
  <2>2. Becomes(l[p], r, 0, l[p].ip, l[p].dp)
    <3>1. l[p] \in Locals /\ 0 \in Inum0 /\ Inum \subseteq Inum0
      BY Here, Zero
    <3>. QED
      BY <1>1, <3>1, WpSet
  <2>3. iput(p, r, i, "idle") /\ "idle" \in Location /\ i \in Inum
    BY <1>1 DEF Failed, Location
  <2>. HIDE DEF r
  <2>4. Putting(p, r, i, "idle")
    BY <2>2, <2>3, Here, iputIs DEF Becomes
  <2>5. /\ icache' \in [Inum -> Entry] /\ lock' \in [Inum -> Proc \cup {NoProc}]
        /\ \A j \in Inum : icache'[j].ref = icache[j].ref
        /\ \A j \in Inum : icache'[j].valid => icache'[j].d = dinode[j] /\ Live(j)
        /\ \A j \in Inum : lock'[j] # NoProc => icache'[j].valid
        /\ \A j \in Inum, q \in Proc \ {p} : lock'[j] = q <=> lock[j] = q
    BY <1>1, Here, IlockIs
  <2>6. Ctl(p)'
    BY <1>1, <2>2, <2>4, Here, Consts DEF Putting, Becomes, Ctl, Failed, Creating, Still
  <2>7. LiveOf(p)'
    BY <1>1, <2>2, <2>4, Here, Consts DEF Putting, Becomes, LiveOf, Live, Failed, Still
  <2>8. NameOf(p)' /\ (Owes(p)' <=> Owes(p)) /\ (Owes(p) => l'[p].ip = l[p].ip)
    BY <1>1, <2>2, <2>4, Here, Consts
       DEF Putting, Becomes, NameOf, Owes, IsDir, Failed, Still
  <2>9. \A j \in Inum : icache'[j].ref + Share(p, j) = icache[j].ref + Share(p, j)'
    <3>1. \A j \in Inum : j # 0 /\ icache[j].ref \in Nat
      BY Here, Consts DEF Entry
    <3>. QED
      BY <1>1, <2>2, <2>4, <2>5, <3>1 DEF Putting, Becomes, Share, One
  <2>10. \A j \in Inum : lock'[j] = p <=> Locks(p, j)'
    BY <1>1, <2>2, <2>4, Here, Consts DEF Putting, Becomes, Locks, Failed
  <2>. QED
    BY <1>1, <2>4, <2>5, <2>6, <2>7, <2>8, <2>9, <2>10, Here, QuietStep DEF Putting, Becomes
<1>. QED
  BY <1>2

\* link() to a name that exists, which fails, preserves the invariant.
LEMMA LinkEntry_Exists ==
  ASSUME IInv, NEW p \in Proc, LinkEntry(p), dirlookup(l[p].wp, Head(l[p].elems)) # 0
  PROVE  IInv'
<1>. DEFINE i == l[p].wp
            n == dirlookup(i, Head(l[p].elems))
<1>1. /\ Still /\ cwd' = cwd /\ Loc(p) = "named" /\ i \in Inum /\ l[p].ip # 0 /\ l[p].op = "link"
      /\ l[p].dp = 0 /\ l[p].drop = 0 /\ CanLock(i) /\ l[p].elems # <<>>
  BY Here
     DEF LinkEntry, Named, Creating, NameOf, Still, diskVars, fileVars, Loc, Ctl, Locals,
         Inum0
<1>2. n \in Inum /\ n \in Inum0
  BY <1>1, FirstIs DEF Inum0
<1>3. /\ icache' = iget(ilock(i), n) /\ iput(p, WpDp(l[p], 0, i), n, "linked")
      /\ lock' = [lock EXCEPT ![i] = p]
  BY DEF LinkEntry, WpDp
<1>. HIDE DEF n
<1>4. Taken(p, i) /\ Live(i)
  BY <1>1, <1>3, IlockIs, TakeLock
<1>0. i \in Inum
  BY <1>1
<1>5. IInv'
  <2>. DEFINE r == WpDp(l[p], 0, i)
  <2>2. Becomes(l[p], r, 0, l[p].ip, i)
    <3>1. l[p] \in Locals /\ 0 \in Inum0 /\ Inum \subseteq Inum0
      BY Here, Zero
    <3>. QED
      BY <1>0, <3>1, WpDpSet
  <2>3. iput(p, r, n, "linked") /\ "linked" \in Location /\ n \in Inum
    BY <1>1, <1>2, <1>3, <1>4 DEF Failed, Location
  <2>. HIDE DEF r
  <2>4. Putting(p, r, n, "linked")
    BY <2>2, <2>3, Here, iputIs DEF Becomes
  <2>5. /\ icache' \in [Inum -> Entry] /\ lock' \in [Inum -> Proc \cup {NoProc}]
        /\ \A j \in Inum : icache'[j].ref = icache[j].ref + One(j = n)
        /\ \A j \in Inum : icache'[j].valid => icache'[j].d = dinode[j] /\ Live(j)
        /\ \A j \in Inum : lock'[j] # NoProc => icache'[j].valid
        /\ \A j \in Inum, q \in Proc \ {p} : lock'[j] = q <=> lock[j] = q
    BY <1>1, <1>2, Here, <1>3, <1>4, IlockGetIs DEF Taken
  <2>6. Ctl(p)'
    BY <1>1, <1>2, <2>2, <2>4, Here, Consts, <1>3, <1>4
       DEF Putting, Becomes, Ctl, Failed, Creating, Still
  <2>7. LiveOf(p)'
    BY <1>1, <1>2, <2>2, <2>4, Here, Consts, <1>3, <1>4
       DEF Putting, Becomes, LiveOf, Live, Failed, Still
  <2>8. NameOf(p)' /\ (Owes(p)' <=> Owes(p)) /\ (Owes(p) => l'[p].ip = l[p].ip)
    BY <1>1, <1>2, <2>2, <2>4, Here, Consts, <1>3, <1>4
       DEF Putting, Becomes, NameOf, Owes, IsDir, Failed, Still
  <2>9. \A j \in Inum : icache'[j].ref + Share(p, j) = icache[j].ref + Share(p, j)'
    <3>1. \A j \in Inum : j # 0 /\ icache[j].ref \in Nat
      BY Here, Consts DEF Entry
    <3>. QED
      BY <1>1, <1>2, <1>3, <1>4, <2>2, <2>4, <2>5, <3>1 DEF Putting, Becomes, Share, One
  <2>10. \A j \in Inum : lock'[j] = p <=> Locks(p, j)'
    BY <1>1, <1>2, <2>2, <2>4, Here, Consts, <1>3, <1>4
       DEF Putting, Becomes, Locks, Failed, Taken
  <2>. QED
    BY <1>1, <1>2, <2>4, <2>5, <2>6, <2>7, <2>8, <2>9, <2>10, Here, <1>3, <1>4, QuietStep
       DEF Putting, Becomes
<1>. QED
  BY <1>5

\* unlink() of a directory that is not empty, which fails, preserves the
\* invariant.
LEMMA UnlinkEntry_Kept ==
  ASSUME IInv, NEW p \in Proc, UnlinkEntry(p), ~Removable(ilock(l[p].ip)[l[p].ip].d, l[p].ip)
  PROVE  IInv'
<1>. DEFINE i == l[p].ip
<1>1. /\ Still /\ cwd' = cwd /\ pc[p] = "unlink" /\ Loc(p) = "unlink" /\ i \in Inum /\ l[p].wp = 0
      /\ l[p].drop = 0 /\ CanLock(i) /\ icache' = ilock(i) /\ lock' = lock
      /\ iput(p, [l[p] EXCEPT !.ip = 0], i, "notempty") /\ l[p].dp # 0
  BY Here DEF UnlinkEntry, Still, diskVars, fileVars, Loc, Ctl, Locals, Inum0
<1>2. IInv'
  <2>. DEFINE r == [l[p] EXCEPT !.ip = 0]
  <2>2. Becomes(l[p], r, l[p].wp, 0, l[p].dp)
    <3>1. l[p] \in Locals /\ 0 \in Inum0 /\ Inum \subseteq Inum0
      BY Here, Zero
    <3>. QED
      BY <1>1, <3>1, IpSet
  <2>3. iput(p, r, i, "notempty") /\ "notempty" \in Location /\ i \in Inum
    BY <1>1 DEF Failed, Location
  <2>. HIDE DEF r
  <2>4. Putting(p, r, i, "notempty")
    BY <2>2, <2>3, Here, iputIs DEF Becomes
  <2>5. /\ icache' \in [Inum -> Entry] /\ lock' \in [Inum -> Proc \cup {NoProc}]
        /\ \A j \in Inum : icache'[j].ref = icache[j].ref
        /\ \A j \in Inum : icache'[j].valid => icache'[j].d = dinode[j] /\ Live(j)
        /\ \A j \in Inum : lock'[j] # NoProc => icache'[j].valid
        /\ \A j \in Inum, q \in Proc \ {p} : lock'[j] = q <=> lock[j] = q
    BY <1>1, Here, IlockIs
  <2>6. Ctl(p)'
    BY <1>1, <2>2, <2>4, Here, Consts DEF Putting, Becomes, Ctl, Failed, Creating, Still
  <2>7. LiveOf(p)'
    BY <1>1, <2>2, <2>4, Here, Consts DEF Putting, Becomes, LiveOf, Live, Failed, Still
  <2>8. NameOf(p)' /\ (Owes(p)' <=> Owes(p)) /\ (Owes(p) => l'[p].ip = l[p].ip)
    BY <1>1, <2>2, <2>4, Here, Consts
       DEF Putting, Becomes, NameOf, Owes, IsDir, Failed, Still
  <2>9. \A j \in Inum : icache'[j].ref + Share(p, j) = icache[j].ref + Share(p, j)'
    <3>1. \A j \in Inum : j # 0 /\ icache[j].ref \in Nat
      BY Here, Consts DEF Entry
    <3>. QED
      BY <1>1, <2>2, <2>4, <2>5, <3>1 DEF Putting, Becomes, Share, One
  <2>10. \A j \in Inum : lock'[j] = p <=> Locks(p, j)'
    BY <1>1, <2>2, <2>4, Here, Consts DEF Putting, Becomes, Locks, Failed
  <2>. QED
    BY <1>1, <2>4, <2>5, <2>6, <2>7, <2>8, <2>9, <2>10, Here, QuietStep DEF Putting, Becomes
<1>. QED
  BY <1>2

\* open() without a free file or descriptor, which fails, preserves the
\* invariant.
LEMMA Opened_Fails ==
  ASSUME IInv, NEW p \in Proc, Opened(p), FreeFiles = {} \/ FreeFds(p) = {}
  PROVE  IInv'
<1>. DEFINE i == l[p].ip
<1>1. /\ Still /\ cwd' = cwd /\ pc[p] = "opened" /\ Loc(p) = "opened" /\ i \in Inum /\ l[p].wp = 0
      /\ l[p].dp = 0 /\ l[p].drop = 0 /\ icache' = icache /\ lock' = [lock EXCEPT ![i] = NoProc]
      /\ iput(p, [l[p] EXCEPT !.ip = 0], i, "idle")
  BY Here DEF Opened, Still, diskVars, fileVars, Loc, Ctl, Locals, Inum0
<1>2. Given(p, i)
  <2>1. lock[i] = p
    BY <1>1, Here DEF Locks
  <2>. QED
    BY <1>1, <2>1, GiveLock
<1>3. IInv'
  <2>. DEFINE r == [l[p] EXCEPT !.ip = 0]
  <2>2. Becomes(l[p], r, l[p].wp, 0, l[p].dp)
    <3>1. l[p] \in Locals /\ 0 \in Inum0 /\ Inum \subseteq Inum0
      BY Here, Zero
    <3>. QED
      BY <1>1, <1>2, <3>1, IpSet
  <2>3. iput(p, r, i, "idle") /\ "idle" \in Location /\ i \in Inum
    BY <1>1, <1>2 DEF Failed, Location
  <2>. HIDE DEF r
  <2>4. Putting(p, r, i, "idle")
    BY <2>2, <2>3, Here, iputIs DEF Becomes
  <2>5. /\ icache' \in [Inum -> Entry] /\ lock' \in [Inum -> Proc \cup {NoProc}]
        /\ \A j \in Inum : icache'[j].ref = icache[j].ref
        /\ \A j \in Inum : icache'[j].valid => icache'[j].d = dinode[j] /\ Live(j)
        /\ \A j \in Inum : lock'[j] # NoProc => icache'[j].valid
        /\ \A j \in Inum, q \in Proc \ {p} : lock'[j] = q <=> lock[j] = q
    BY <1>1, <1>2, Here DEF Given
  <2>6. Ctl(p)'
    BY <1>1, <1>2, <2>2, <2>4, Here, Consts
       DEF Putting, Becomes, Ctl, Failed, Creating, Still
  <2>7. LiveOf(p)'
    BY <1>1, <1>2, <2>2, <2>4, Here, Consts
       DEF Putting, Becomes, LiveOf, Live, Failed, Still
  <2>8. NameOf(p)' /\ (Owes(p)' <=> Owes(p)) /\ (Owes(p) => l'[p].ip = l[p].ip)
    BY <1>1, <1>2, <2>2, <2>4, Here, Consts
       DEF Putting, Becomes, NameOf, Owes, IsDir, Failed, Still
  <2>9. \A j \in Inum : icache'[j].ref + Share(p, j) = icache[j].ref + Share(p, j)'
    <3>1. \A j \in Inum : j # 0 /\ icache[j].ref \in Nat
      BY Here, Consts DEF Entry
    <3>. QED
      BY <1>1, <1>2, <2>2, <2>4, <2>5, <3>1 DEF Putting, Becomes, Share, One
  <2>10. \A j \in Inum : lock'[j] = p <=> Locks(p, j)'
    BY <1>1, <1>2, <2>2, <2>4, Here, Consts DEF Putting, Becomes, Locks, Failed, Given
  <2>. QED
    BY <1>1, <1>2, <2>4, <2>5, <2>6, <2>7, <2>8, <2>9, <2>10, Here, QuietStep
       DEF Putting, Becomes
<1>. QED
  BY <1>3

-----------------------------------------------------------------------------
(* The steps on open files *)

\* Reference counts stay right when the file table changes too.
LEMMA RefsFiles ==
  ASSUME Types, Types', RefInv, NEW p \in Proc, Alone(p),
         \A i \in Inum : icache'[i].ref + Share(p, i) + Cardinality(FilesOf(i))
                           = icache[i].ref + Share(p, i)' + Cardinality(FilesOf(i))'
  PROVE  RefInv'
<1>. SUFFICES ASSUME NEW i \in Inum PROVE icache'[i].ref = Refs(i)'
  BY DEF RefInv
<1>1. Others(p, i)' = Others(p, i)
  <2>1. {x \in (Proc \ {p}) \X Pointer : l[x[1]][x[2]] = i}'
          = {x \in (Proc \ {p}) \X Pointer : l[x[1]][x[2]] = i}
    BY DEF Alone
  <2>2. {r \in Proc \ {p} : cwd[r] = i}' = {r \in Proc \ {p} : cwd[r] = i}
    BY DEF Alone
  <2>. QED
    BY <2>1, <2>2 DEF Others
<1>2. /\ Refs(i) = Others(p, i) + Share(p, i) + Cardinality(FilesOf(i))
      /\ Others(p, i) \in Nat /\ Cardinality(FilesOf(i)) \in Nat /\ Share(p, i) \in Nat
  BY SplitNow DEF SplitIs
<1>3. /\ Refs(i)' = Others(p, i)' + Share(p, i)' + Cardinality(FilesOf(i))'
      /\ Share(p, i)' \in Nat /\ Cardinality(FilesOf(i))' \in Nat
  BY SplitNext DEF SplitIs
<1>4. icache[i].ref = Refs(i) /\ icache'[i].ref \in Nat
  BY DEF RefInv, Types, Entry
<1>5. icache'[i].ref + Share(p, i) + Cardinality(FilesOf(i))
        = icache[i].ref + Share(p, i)' + Cardinality(FilesOf(i))'
  OBVIOUS
<1>. QED
  BY <1>1, <1>2, <1>3, <1>4, <1>5

\* A step of p that changes nothing on disk.
LEMMA FileStep_Inv ==
  ASSUME IInv, NEW p \in Proc, dinode' = dinode, dents' = dents, used' = used, Types', Alone(p),
         Owes(p)' <=> Owes(p), Owes(p) => l'[p].ip = l[p].ip,
         Ctl(p)', LiveOf(p)', NameOf(p)', RefInv', FileInv',
         \A f \in File : ftable'[f].ip # 0 => Live(ftable'[f].ip),
         \A i \in Inum : icache'[i].valid => icache'[i].d = dinode[i] /\ Live(i),
         \A i \in Inum : lock'[i] # NoProc => icache'[i].valid,
         \A i \in Inum : lock'[i] = p <=> Locks(p, i)',
         \A i \in Inum, r \in Proc \ {p} : lock'[i] = r <=> lock[i] = r
  PROVE  IInv'
<1>. UNCHANGED diskVars
  BY DEF diskVars
<1>1. CtlInv' /\ (\A r \in Proc : LiveOf(r)') /\ NameInv'
  BY PlacesSame
<1>2. DirInv' /\ LinkInv' /\ SizeInv' /\ BlocksOwned' /\ TreeInv'
  BY DiskSame
<1>3. LockInv'
  BY LockMove DEF IInv
<1>4. CacheInv'
  BY DEF CacheInv, Live
<1>5. LiveInv'
  BY <1>1 DEF LiveInv, Live
<1>. QED
  BY <1>1, <1>2, <1>3, <1>4, <1>5 DEF IInv

\* The sets the file table's counts are about are finite.
LEMMA FileSets ==
  ASSUME NEW f
  PROVE  IsFiniteSet(Descriptors(f)) /\ IsFiniteSet(FilesOf(f))
<1>1. IsFiniteSet(Proc \X Fd)
  BY Consts, FS_Product
<1>. QED
  BY <1>1, Consts, FS_Subset DEF Descriptors, FilesOf

\* open() that enters a file and a descriptor preserves the invariant.
LEMMA Opened_Opens ==
  ASSUME IInv, NEW p \in Proc, Opened(p), FreeFiles # {}, FreeFds(p) # {}
  PROVE  IInv'
<1>. DEFINE i == l[p].ip
            f == Min(FreeFiles)
            d == Min(FreeFds(p))
<1>1. /\ pc[p] = "opened" /\ Loc(p) = "opened" /\ i \in Inum /\ l[p].wp = 0 /\ l[p].dp = 0
      /\ l[p].drop = 0 /\ lock' = [lock EXCEPT ![i] = NoProc]
      /\ ftable' = [ftable EXCEPT ![f] = [ref |-> 1, ip |-> i, writable |-> l[p].op # "open"]]
      /\ ofile' = [ofile EXCEPT ![p][d] = f] /\ Goto(p, "idle") /\ Set(p, NoCall)
      /\ dinode' = dinode /\ dents' = dents /\ used' = used /\ icache' = icache /\ cwd' = cwd
  BY Here DEF Opened, Loc, Ctl, Locals, Inum0, diskVars
<1>2. f \in File /\ ftable[f].ref = 0 /\ d \in Fd /\ ofile[p][d] = 0
  <2>1. FreeFiles \subseteq Nat /\ FreeFds(p) \subseteq Nat
    BY Consts DEF FreeFiles, FreeFds
  <2>2. f \in FreeFiles /\ d \in FreeFds(p)
    BY <2>1, MinIs
  <2>. QED
    BY <2>2 DEF FreeFiles, FreeFds
<1>. HIDE DEF f, d
<1>3. ftable[f].ip = 0
  BY <1>2 DEF IInv, FileInv
<1>4. Moved(p, NoCall, "idle")
  BY <1>1, Here, SetIs, NoCallIs DEF Place, Location
<1>5. /\ ftable \in [File -> [ref : Nat, ip : Inum0, writable : BOOLEAN]]
      /\ ofile \in [Proc -> [Fd -> File \cup {0}]]
  BY DEF IInv, Types
<1>6. /\ ftable' \in [File -> [ref : Nat, ip : Inum0, writable : BOOLEAN]]
      /\ ftable'[f].ref = 1 /\ ftable'[f].ip = i
      /\ \A g \in File \ {f} : ftable'[g] = ftable[g]
  BY <1>1, <1>2, <1>5, Zero
<1>7. /\ ofile' \in [Proc -> [Fd -> File \cup {0}]]
      /\ ofile'[p][d] = f /\ \A e \in Fd \ {d} : ofile'[p][e] = ofile[p][e]
      /\ \A q \in Proc \ {p} : ofile'[q] = ofile[q]
  BY <1>1, <1>2, <1>5
<1>8. Given(p, i)
  <2>1. lock[i] = p
    BY <1>1, Here DEF Locks
  <2>. QED
    BY <1>1, <2>1, GiveLock
<1>9. Types'
  BY <1>1, <1>4, <1>6, <1>7, <1>8 DEF IInv, Types, Moved, Given
<1>10. Alone(p)
  BY <1>1, <1>4, <1>7 DEF Alone, Moved
<1>11. RefInv'
  <2>1. \A j \in Inum : icache[j].ref \in Nat /\ j # 0
    BY Consts DEF IInv, Types, Entry
  <2>2. SUFFICES ASSUME NEW j \in Inum
                 PROVE  icache'[j].ref + Share(p, j) + Cardinality(FilesOf(j))
                          = icache[j].ref + Share(p, j)' + Cardinality(FilesOf(j))'
    BY <1>9, <1>10, RefsFiles DEF IInv
  <2>3. Cardinality(FilesOf(j)) \in Nat
    BY FileSets, FS_CardinalityType
  <2>4. Cardinality(FilesOf(j))' = Cardinality(FilesOf(j)) + One(j = i)
    <3>1. CASE j = i
      <4>1. FilesOf(j)' = FilesOf(j) \cup {f} /\ f \notin FilesOf(j)
        BY <1>2, <1>3, <1>6, <2>1, <3>1 DEF FilesOf
      <4>. QED
        BY <3>1, <4>1, FileSets, FS_AddElement DEF One
    <3>2. CASE j # i
      <4>1. FilesOf(j)' = FilesOf(j)
        BY <1>2, <1>3, <1>6, <2>1, <3>2 DEF FilesOf
      <4>. QED
        BY <2>3, <3>2, <4>1 DEF One
    <3>. QED
      BY <3>1, <3>2
  <2>5. Share(p, j) = Share(p, j)' + One(j = i) /\ Share(p, j)' \in Nat
    BY <1>1, <1>4, <2>1, NoCallIs DEF Share, One, Moved
  <2>6. One(j = i) \in Nat
    BY DEF One
  <2>. QED
    BY <1>1, <2>1, <2>3, <2>4, <2>5, <2>6
<1>12. FileInv'
  <2>. SUFFICES ASSUME NEW g \in File
                PROVE  /\ ftable'[g].ref = Cardinality(Descriptors(g)')
                       /\ ftable'[g].ref = 0 <=> ftable'[g].ip = 0
    BY DEF FileInv
  <2>1. /\ ftable[g].ref = Cardinality(Descriptors(g))
        /\ ftable[g].ref = 0 <=> ftable[g].ip = 0
    BY DEF IInv, FileInv
  <2>2. CASE g = f
    <3>1. Descriptors(g) = {}
      BY <1>2, <2>1, <2>2, FileSets, FS_EmptySet
    <3>2. Descriptors(g)' = {<<p, d>>}
      <4>1. ASSUME NEW q \in Proc, NEW e \in Fd PROVE ofile[q][e] # f
        <5>1. <<q, e>> \notin Descriptors(f)
          BY <2>2, <3>1
        <5>. QED
          BY <5>1 DEF Descriptors
      <4>. QED
        BY <1>2, <1>7, <2>2, <4>1 DEF Descriptors
    <3>. QED
      <4>1. Cardinality(Descriptors(g)') = 1
        BY <3>2, FS_Singleton
      <4>. QED
        BY <1>1, <1>6, <2>2, <4>1, Consts
  <2>3. CASE g # f
    <3>1. Descriptors(g)' = Descriptors(g)
      <4>1. \A q \in Proc, e \in Fd : ofile'[q][e] = g <=> ofile[q][e] = g
        BY <1>2, <1>7, <2>3, Consts
      <4>. QED
        BY <4>1 DEF Descriptors
    <3>. QED
      BY <1>6, <2>1, <2>3, <3>1
  <2>. QED
    BY <2>2, <2>3
<1>13. Ctl(p)' /\ LiveOf(p)' /\ NameOf(p)' /\ ~Owes(p)' /\ ~Owes(p)
  BY <1>1, <1>4, NoCallIs, Here DEF Moved, Loc, Ctl, LiveOf, Live, NameOf, Owes
<1>14. \A g \in File : ftable'[g].ip # 0 => Live(ftable'[g].ip)
  BY <1>1, <1>6, Here DEF IInv, LiveInv, LiveOf
<1>15. \A j \in Inum : lock'[j] = p <=> Locks(p, j)'
  BY <1>1, <1>4, <1>8, Here, NoCallIs DEF Given, Locks, Moved, Loc
<1>16. /\ \A j \in Inum : icache'[j].valid => icache'[j].d = dinode[j] /\ Live(j)
       /\ \A j \in Inum : lock'[j] # NoProc => icache'[j].valid
       /\ \A j \in Inum, r \in Proc \ {p} : lock'[j] = r <=> lock[j] = r
  BY <1>1, <1>8, Here DEF Given
<1>. QED
  BY <1>1, <1>9, <1>10, <1>11, <1>12, <1>13, <1>14, <1>15, <1>16, FileStep_Inv

\* The step Dup preserves the invariant.
LEMMA Dup_Inv ==
  ASSUME IInv, NEW p \in Proc, NEW fd \in Fd, Dup(p, fd)
  PROVE  IInv'
<1>. DEFINE f == ofile[p][fd]
            d == Min(FreeFds(p))
<1>1. /\ pc[p] = "idle" /\ f # 0
      /\ ofile' = [ofile EXCEPT ![p][d] = f] /\ ftable' = [ftable EXCEPT ![f].ref = @ + 1]
      /\ dinode' = dinode /\ dents' = dents /\ used' = used /\ icache' = icache /\ cwd' = cwd
      /\ lock' = lock /\ pc' = pc /\ l' = l
  BY DEF Dup, diskVars
<1>2. f \in File /\ d \in Fd /\ ofile[p][d] = 0
  <2>1. FreeFds(p) \subseteq Nat /\ FreeFds(p) # {}
    BY Consts DEF FreeFds, Dup
  <2>2. d \in FreeFds(p)
    BY <2>1, MinIs
  <2>3. f \in File
    BY <1>1, OpenFile
  <2>. QED
    BY <2>2, <2>3 DEF FreeFds
<1>. HIDE DEF f, d
<1>3. /\ ftable \in [File -> [ref : Nat, ip : Inum0, writable : BOOLEAN]]
      /\ ofile \in [Proc -> [Fd -> File \cup {0}]]
  BY DEF IInv, Types
<1>4. /\ ftable' \in [File -> [ref : Nat, ip : Inum0, writable : BOOLEAN]]
      /\ ftable'[f].ref = ftable[f].ref + 1
      /\ \A g \in File : ftable'[g].ip = ftable[g].ip
      /\ \A g \in File \ {f} : ftable'[g].ref = ftable[g].ref
  BY <1>1, <1>2, <1>3
<1>5. /\ ofile' \in [Proc -> [Fd -> File \cup {0}]]
      /\ ofile'[p][d] = f /\ \A e \in Fd \ {d} : ofile'[p][e] = ofile[p][e]
      /\ \A q \in Proc \ {p} : ofile'[q] = ofile[q]
  BY <1>1, <1>2, <1>3
<1>6. Types'
  BY <1>1, <1>4, <1>5 DEF IInv, Types
<1>7. Alone(p)
  BY <1>1, <1>5 DEF Alone
<1>8. RefInv'
  <2>1. \A j \in Inum : Share(p, j)' = Share(p, j)
    BY <1>1 DEF Share
  <2>. QED
    BY <1>1, <1>4, <1>6, <1>7, <2>1, RefsMove DEF IInv
<1>9. FileInv'
  <2>. SUFFICES ASSUME NEW g \in File
                PROVE  /\ ftable'[g].ref = Cardinality(Descriptors(g)')
                       /\ ftable'[g].ref = 0 <=> ftable'[g].ip = 0
    BY DEF FileInv
  <2>1. /\ ftable[g].ref = Cardinality(Descriptors(g)) /\ ftable[g].ref \in Nat
        /\ ftable[g].ref = 0 <=> ftable[g].ip = 0
    BY <1>3 DEF IInv, FileInv
  <2>2. CASE g = f
    <3>1. Descriptors(g)' = Descriptors(g) \cup {<<p, d>>} /\ <<p, d>> \notin Descriptors(g)
      <4>1. \A q \in Proc, e \in Fd : ofile'[q][e] = f <=> ofile[q][e] = f \/ (q = p /\ e = d)
        BY <1>2, <1>5
      <4>2. f # 0
        BY <1>1
      <4>. QED
        BY <1>2, <2>2, <4>1, <4>2 DEF Descriptors
    <3>2. Cardinality(Descriptors(g)') = Cardinality(Descriptors(g)) + 1
      BY <3>1, FileSets, FS_AddElement
    <3>3. ftable[f].ip # 0
      BY <1>1, <1>2, OpenFile, Consts DEF f
    <3>. QED
      BY <1>4, <2>1, <2>2, <3>2, <3>3
  <2>3. CASE g # f
    <3>1. Descriptors(g)' = Descriptors(g)
      <4>1. \A q \in Proc, e \in Fd : ofile'[q][e] = g <=> ofile[q][e] = g
        BY <1>2, <1>5, <2>3, Consts
      <4>. QED
        BY <4>1 DEF Descriptors
    <3>. QED
      BY <1>4, <2>1, <2>3, <3>1
  <2>. QED
    BY <2>2, <2>3
<1>10. Loc(p)' = Loc(p) /\ (Owes(p)' <=> Owes(p)) /\ Loc(p) = "idle"
  BY <1>1 DEF Loc, Owes
<1>11. Ctl(p)' /\ LiveOf(p)' /\ NameOf(p)'
  BY <1>1, <1>10, Here DEF Ctl, LiveOf, Live, NameOf, IsDir
<1>12. \A g \in File : ftable'[g].ip # 0 => Live(ftable'[g].ip)
  BY <1>4 DEF IInv, LiveInv
<1>13. \A j \in Inum : lock'[j] = p <=> Locks(p, j)'
  BY <1>1, <1>10, Here DEF Locks
<1>14. /\ \A j \in Inum : icache'[j].valid => icache'[j].d = dinode[j] /\ Live(j)
       /\ \A j \in Inum : lock'[j] # NoProc => icache'[j].valid
  BY <1>1, Here
<1>. QED
  BY <1>1, <1>6, <1>7, <1>8, <1>9, <1>10, <1>11, <1>12, <1>13, <1>14, FileStep_Inv

\* What closing a descriptor does to the descriptors of every file.
LEMMA CloseDescriptors ==
  ASSUME IInv, NEW p \in Proc, NEW fd \in Fd, NEW f \in File, f = ofile[p][fd],
         ofile' = [ofile EXCEPT ![p][fd] = 0]
  PROVE  /\ ofile' \in [Proc -> [Fd -> File \cup {0}]]
         /\ \A q \in Proc \ {p} : ofile'[q] = ofile[q]
         /\ Cardinality(Descriptors(f)') = Cardinality(Descriptors(f)) - 1
         /\ \A g \in File \ {f} : Descriptors(g)' = Descriptors(g)
<1>1. ofile \in [Proc -> [Fd -> File \cup {0}]]
  BY DEF IInv, Types
<1>2. /\ ofile' \in [Proc -> [Fd -> File \cup {0}]]
      /\ ofile'[p][fd] = 0 /\ \A e \in Fd \ {fd} : ofile'[p][e] = ofile[p][e]
      /\ \A q \in Proc \ {p} : ofile'[q] = ofile[q]
  BY <1>1
<1>3. f # 0
  BY Consts
<1>4. Cardinality(Descriptors(f)') = Cardinality(Descriptors(f)) - 1
  <2>1. \A q \in Proc, e \in Fd : ofile'[q][e] = f <=> ofile[q][e] = f /\ ~(q = p /\ e = fd)
    BY <1>2, <1>3
  <2>2. Descriptors(f)' = Descriptors(f) \ {<<p, fd>>}
    BY <2>1 DEF Descriptors
  <2>3. <<p, fd>> \in Descriptors(f)
    BY DEF Descriptors
  <2>4. Cardinality(Descriptors(f) \ {<<p, fd>>}) = Cardinality(Descriptors(f)) - 1
    BY <2>3, FileSets, FS_RemoveElement
  <2>. QED
    BY <2>2, <2>4
<1>5. \A g \in File \ {f} : Descriptors(g)' = Descriptors(g)
  <2>1. \A g \in File \ {f}, q \in Proc, e \in Fd : ofile'[q][e] = g <=> ofile[q][e] = g
    BY <1>2, Consts
  <2>. QED
    BY <2>1 DEF Descriptors
<1>. QED
  BY <1>2, <1>4, <1>5

\* The step Close preserves the invariant.
LEMMA Close_Inv ==
  ASSUME IInv, NEW p \in Proc, NEW fd \in Fd, Close(p, fd)
  PROVE  IInv'
<1>1. /\ pc[p] \in {"idle", "exit"} /\ ofile[p][fd] # 0 /\ Loc(p) = pc[p]
      /\ ofile' = [ofile EXCEPT ![p][fd] = 0]
      /\ dinode' = dinode /\ dents' = dents /\ used' = used /\ icache' = icache /\ cwd' = cwd
      /\ lock' = lock /\ l[p].wp = 0 /\ l[p].ip = 0 /\ l[p].dp = 0 /\ l[p].drop = 0
  BY Here DEF Close, diskVars, Loc, Ctl
<1>2. PICK f \in File : f = ofile[p][fd]
  BY <1>1, OpenFile
<1>3. PICK i \in Inum : i = ftable[f].ip
  BY <1>1, <1>2, OpenFile
<1>4. Live(i) /\ ftable[f].ref > 0
  BY <1>1, <1>2, <1>3, OpenFile
<1>5. /\ ftable \in [File -> [ref : Nat, ip : Inum0, writable : BOOLEAN]]
  BY DEF IInv, Types
<1>6. /\ ofile' \in [Proc -> [Fd -> File \cup {0}]]
      /\ \A q \in Proc \ {p} : ofile'[q] = ofile[q]
      /\ Cardinality(Descriptors(f)') = Cardinality(Descriptors(f)) - 1
      /\ \A g \in File \ {f} : Descriptors(g)' = Descriptors(g)
  BY <1>1, <1>2, CloseDescriptors
<1>7. /\ \A j \in Inum : icache'[j].valid => icache'[j].d = dinode[j] /\ Live(j)
      /\ \A j \in Inum : lock'[j] # NoProc => icache'[j].valid
  BY <1>1, Here
<1>8. \A g \in File : /\ ftable[g].ref = Cardinality(Descriptors(g)) /\ ftable[g].ref \in Nat
                      /\ ftable[g].ref = 0 <=> ftable[g].ip = 0
  BY <1>5 DEF IInv, FileInv
<1>9. CASE ftable[f].ref > 1
  <2>1. ftable' = [ftable EXCEPT ![f].ref = @ - 1] /\ pc' = pc /\ l' = l
    BY <1>2, <1>9 DEF Close
  <2>2. /\ ftable' \in [File -> [ref : Nat, ip : Inum0, writable : BOOLEAN]]
        /\ ftable'[f].ref = ftable[f].ref - 1
        /\ \A g \in File : ftable'[g].ip = ftable[g].ip
        /\ \A g \in File \ {f} : ftable'[g].ref = ftable[g].ref
    BY <1>5, <1>9, <2>1
  <2>3. Types'
    BY <1>1, <1>6, <2>1, <2>2 DEF IInv, Types
  <2>4. Alone(p)
    BY <1>1, <1>6, <2>1 DEF Alone
  <2>5. RefInv'
    <3>1. \A j \in Inum : Share(p, j)' = Share(p, j)
      BY <1>1, <2>1 DEF Share
    <3>. QED
      BY <1>1, <2>2, <2>3, <2>4, <3>1, RefsMove DEF IInv
  <2>6. FileInv'
    <3>. SUFFICES ASSUME NEW g \in File
                  PROVE  /\ ftable'[g].ref = Cardinality(Descriptors(g)')
                         /\ ftable'[g].ref = 0 <=> ftable'[g].ip = 0
      BY DEF FileInv
    <3>. QED
      BY <1>6, <1>8, <1>9, <2>2
  <2>7. Loc(p)' = Loc(p) /\ (Owes(p)' <=> Owes(p)) /\ ~Owes(p)
    BY <1>1, <2>1 DEF Loc, Owes
  <2>8. Ctl(p)' /\ LiveOf(p)' /\ NameOf(p)'
    BY <1>1, <2>1, <2>7, Here DEF Ctl, LiveOf, Live, NameOf, IsDir
  <2>9. \A g \in File : ftable'[g].ip # 0 => Live(ftable'[g].ip)
    BY <2>2 DEF IInv, LiveInv
  <2>10. \A j \in Inum : lock'[j] = p <=> Locks(p, j)'
    BY <1>1, <2>1, <2>7, Here DEF Locks
  <2>. QED
    BY <1>1, <1>7, <2>3, <2>4, <2>5, <2>6, <2>7, <2>8, <2>9, <2>10, FileStep_Inv
<1>10. CASE ftable[f].ref = 1
  <2>1. ftable' = [ftable EXCEPT ![f] = NoFile] /\ iput(p, NoCall, i, pc[p])
    BY <1>2, <1>3, <1>10 DEF Close
  <2>2. /\ ftable' \in [File -> [ref : Nat, ip : Inum0, writable : BOOLEAN]]
        /\ ftable'[f].ref = 0 /\ ftable'[f].ip = 0
        /\ \A g \in File \ {f} : ftable'[g] = ftable[g]
    BY <1>5, <2>1, Zero DEF NoFile
  <2>3. Putting(p, NoCall, i, pc[p])
    BY <1>1, <2>1, NoCallIs, Here, iputIs DEF Location
  <2>4. Types'
    BY <1>1, <1>6, <2>2, <2>3 DEF IInv, Types, Putting
  <2>5. Alone(p)
    BY <1>1, <1>6, <2>3 DEF Alone, Putting
  <2>6. RefInv'
    <3>1. \A j \in Inum : icache[j].ref \in Nat /\ j # 0
      BY Consts DEF IInv, Types, Entry
    <3>2. SUFFICES ASSUME NEW j \in Inum
                   PROVE  icache'[j].ref + Share(p, j) + Cardinality(FilesOf(j))
                            = icache[j].ref + Share(p, j)' + Cardinality(FilesOf(j))'
      BY <2>4, <2>5, RefsFiles DEF IInv
    <3>3. Cardinality(FilesOf(j)) \in Nat
      BY FileSets, FS_CardinalityType
    <3>4. Cardinality(FilesOf(j))' = Cardinality(FilesOf(j)) - One(j = i)
      <4>1. CASE j = i
        <5>1. FilesOf(j)' = FilesOf(j) \ {f} /\ f \in FilesOf(j)
          BY <1>3, <2>2, <3>1, <4>1 DEF FilesOf
        <5>. QED
          BY <4>1, <5>1, FileSets, FS_RemoveElement DEF One
      <4>2. CASE j # i
        <5>1. FilesOf(j)' = FilesOf(j)
          BY <1>3, <2>2, <3>1, <4>2 DEF FilesOf
        <5>. QED
          BY <3>3, <4>2, <5>1 DEF One
      <4>. QED
        BY <4>1, <4>2
    <3>5. Share(p, j)' = Share(p, j) + One(j = i) /\ Share(p, j) \in Nat
      BY <1>1, <2>3, <3>1, NoCallIs DEF Share, One, Putting
    <3>6. One(j = i) \in Nat
      BY DEF One
    <3>. QED
      BY <1>1, <3>1, <3>3, <3>4, <3>5, <3>6
  <2>7. FileInv'
    <3>. SUFFICES ASSUME NEW g \in File
                  PROVE  /\ ftable'[g].ref = Cardinality(Descriptors(g)')
                         /\ ftable'[g].ref = 0 <=> ftable'[g].ip = 0
      BY DEF FileInv
    <3>. QED
      BY <1>6, <1>8, <1>10, <2>2
  <2>8. Ctl(p)' /\ LiveOf(p)' /\ NameOf(p)' /\ ~Owes(p)' /\ ~Owes(p)
    <3>1. Ctl(p)'
      <4>1. cwd'[p] # 0 /\ pc[p] # "unused"
        BY <1>1, Here DEF Ctl
      <4>. QED
        BY <1>1, <2>3, <4>1, NoCallIs DEF Putting, Ctl
    <3>. QED
      BY <1>1, <2>3, <3>1, NoCallIs, Here DEF Putting, LiveOf, Live, NameOf, Owes
  <2>9. \A g \in File : ftable'[g].ip # 0 => Live(ftable'[g].ip)
    BY <2>2 DEF IInv, LiveInv
  <2>10. \A j \in Inum : lock'[j] = p <=> Locks(p, j)'
    BY <1>1, <2>3, Here, NoCallIs DEF Locks, Putting
  <2>. QED
    BY <1>1, <1>7, <2>4, <2>5, <2>6, <2>7, <2>8, <2>9, <2>10, FileStep_Inv
<1>. QED
  BY <1>4, <1>8, <1>9, <1>10

\* The descriptors of the child of fork().
LEMMA ForkDescriptors ==
  ASSUME IInv, NEW p \in Proc, NEW q \in Proc, p # q, NEW g \in File,
         \A fd \in Fd : ofile[q][fd] = 0, ofile' = [ofile EXCEPT ![q] = ofile[p]]
  PROVE  /\ Cardinality(Descriptors(g)') = Cardinality(Descriptors(g)) + Copies(p, g)
         /\ Copies(p, g) \in Nat
         /\ Copies(p, g) # 0 => Cardinality(Descriptors(g)) # 0
<1>. DEFINE C == {fd \in Fd : ofile[p][fd] = g}
            D == {q} \X C
            E == Descriptors(g)
<1>1. ofile \in [Proc -> [Fd -> File \cup {0}]] /\ g # 0
  BY Consts DEF IInv, Types
<1>2. IsFiniteSet(C) /\ IsFiniteSet(E) /\ IsFiniteSet({q}) /\ Cardinality({q}) = 1
  BY Consts, FS_Subset, FS_Singleton, FileSets
<1>3. IsFiniteSet(D) /\ Cardinality(D) = Cardinality(C) /\ Cardinality(C) \in Nat
  <2>1. IsFiniteSet({q} \X C) /\ Cardinality({q} \X C) = Cardinality({q}) * Cardinality(C)
    BY <1>2, FS_Product
  <2>2. Cardinality(C) \in Nat
    BY <1>2, FS_CardinalityType
  <2>. HIDE DEF C
  <2>. QED
    BY <1>2, <2>1, <2>2
<1>4. Descriptors(g)' = E \cup D /\ E \cap D = {}
  <2>1. \A r \in Proc, e \in Fd : ofile'[r][e] = g <=> (r # q /\ ofile[r][e] = g)
                                                      \/ (r = q /\ ofile[p][e] = g)
    BY <1>1
  <2>2. \A e \in Fd : ofile[q][e] # g
    BY <1>1
  <2>. QED
    BY <2>1, <2>2 DEF Descriptors
<1>5. Cardinality(E \cup D) = Cardinality(E) + Cardinality(D) - Cardinality(E \cap D)
  BY <1>2, <1>3, FS_Union
<1>6. Cardinality(E \cap D) = 0 /\ Cardinality(E) \in Nat
  BY <1>2, <1>4, FS_EmptySet, FS_CardinalityType
<1>7. Copies(p, g) = Cardinality(C)
  BY DEF Copies
<1>8. Cardinality(C) # 0 => Cardinality(E) # 0
  <2>1. SUFFICES ASSUME Cardinality(C) # 0 PROVE E # {}
    BY <1>2, FS_EmptySet
  <2>2. PICK e \in Fd : ofile[p][e] = g
    BY <1>2, <2>1, FS_EmptySet
  <2>3. <<p, e>> \in E
    BY <2>2 DEF Descriptors
  <2>. QED
    BY <2>3
<1>. HIDE DEF C, D, E
<1>9. Cardinality(Descriptors(g)') = Cardinality(E) + Cardinality(C)
  BY <1>3, <1>4, <1>5, <1>6
<1>. QED
  BY <1>3, <1>7, <1>8, <1>9 DEF E

\* The step Fork preserves the invariant.
LEMMA Fork_Inv ==
  ASSUME IInv, NEW p \in Proc, NEW q \in Proc, Fork(p, q)
  PROVE  IInv'
<1>1. /\ pc[p] = "idle" /\ pc[q] = "unused" /\ Goto(q, "idle") /\ p # q
      /\ ofile' = [ofile EXCEPT ![q] = ofile[p]] /\ cwd' = [cwd EXCEPT ![q] = cwd[p]]
      /\ dinode' = dinode /\ dents' = dents /\ used' = used /\ lock' = lock /\ l' = l
  BY DEF Fork, diskVars
<1>2. Loc(p) = "idle" /\ Loc(q) = "unused"
  BY <1>1 DEF Loc
<1>3. /\ l[q].wp = 0 /\ l[q].ip = 0 /\ l[q].dp = 0 /\ l[q].drop = 0 /\ cwd[q] = 0
      /\ \A fd \in Fd : ofile[q][fd] = 0
  BY <1>1, <1>2, Here DEF Ctl
<1>4. PICK i \in Inum : i = cwd[p]
  BY <1>2, Here DEF Ctl, Inum0
<1>5. Live(i) /\ icache' = iget(icache, i)
  BY <1>1, <1>4, Here, Consts DEF LiveOf, Fork
<1>6. /\ ftable \in [File -> [ref : Nat, ip : Inum0, writable : BOOLEAN]]
      /\ ofile \in [Proc -> [Fd -> File \cup {0}]] /\ cwd \in [Proc -> Inum0]
      /\ pc \in [Proc -> Location \cup {"put", "deref"}]
  BY DEF IInv, Types
<1>7. \A g \in File :
        /\ Cardinality(Descriptors(g)') = Cardinality(Descriptors(g)) + Copies(p, g)
        /\ Copies(p, g) \in Nat
        /\ Copies(p, g) # 0 => Cardinality(Descriptors(g)) # 0
  BY <1>1, <1>3, ForkDescriptors
<1>8. /\ ftable' \in [File -> [ref : Nat, ip : Inum0, writable : BOOLEAN]]
      /\ \A g \in File : ftable'[g].ref = ftable[g].ref + Copies(p, g)
      /\ \A g \in File : ftable'[g].ip = ftable[g].ip
  <2>1. ftable' = [f \in File |-> [ftable[f] EXCEPT !.ref = @ + Copies(p, f)]]
    BY DEF Fork, ForkFiles
  <2>2. ASSUME NEW g \in File
        PROVE  /\ ftable'[g] \in [ref : Nat, ip : Inum0, writable : BOOLEAN]
               /\ ftable'[g].ref = ftable[g].ref + Copies(p, g)
               /\ ftable'[g].ip = ftable[g].ip
    <3>1. ftable'[g] = [ftable[g] EXCEPT !.ref = @ + Copies(p, g)]
      BY <2>1
    <3>2. PICK r \in [ref : Nat, ip : Inum0, writable : BOOLEAN] : r = ftable[g]
      BY <1>6
    <3>3. PICK c \in Nat : c = Copies(p, g)
      BY <1>7
    <3>4. ftable'[g] = [r EXCEPT !.ref = @ + c]
      BY <3>1, <3>2, <3>3
    <3>. QED
      BY <3>2, <3>3, <3>4
  <2>. QED
    BY <2>1, <2>2
<1>9. Types' /\ Alone(q)
  <2>1. iget(icache, i) \in [Inum -> Entry]
    BY CacheGetIs
  <2>2. /\ ofile' \in [Proc -> [Fd -> File \cup {0}]] /\ cwd' \in [Proc -> Inum0]
        /\ pc' \in [Proc -> Location \cup {"put", "deref"}]
        /\ \A r \in Proc \ {q} : ofile'[r] = ofile[r] /\ cwd'[r] = cwd[r] /\ pc'[r] = pc[r]
    BY <1>1, <1>6 DEF Goto, Location
  <2>. QED
    BY <1>1, <1>5, <1>8, <2>1, <2>2 DEF IInv, Types, Alone
<1>10. Loc(q)' = "idle" /\ pc'[q] = "idle" /\ cwd'[q] = i
  BY <1>1, <1>4, <1>6 DEF Loc, Goto
<1>11. RefInv'
  <2>1. \A j \in Inum : /\ j # 0 /\ icache[j].ref \in Nat
                       /\ icache'[j].ref = icache[j].ref + One(j = i)
    BY <1>5, Here, CacheGetIs, Consts DEF Entry
  <2>2. \A j \in Inum : icache'[j].ref + Share(q, j) = icache[j].ref + Share(q, j)'
    BY <1>1, <1>3, <1>10, <2>1 DEF Share, One
  <2>. QED
    BY <1>8, <1>9, <2>2, RefsMove DEF IInv
<1>12. FileInv'
  <2>. SUFFICES ASSUME NEW g \in File
                PROVE  /\ ftable'[g].ref = Cardinality(Descriptors(g)')
                       /\ ftable'[g].ref = 0 <=> ftable'[g].ip = 0
    BY DEF FileInv
  <2>1. /\ ftable[g].ref = Cardinality(Descriptors(g)) /\ ftable[g].ref \in Nat
        /\ ftable[g].ref = 0 <=> ftable[g].ip = 0
    BY <1>6 DEF IInv, FileInv
  <2>. QED
    BY <1>7, <1>8, <2>1
<1>13. Ctl(q)' /\ LiveOf(q)' /\ NameOf(q)' /\ ~Owes(q)' /\ ~Owes(q)
  BY <1>1, <1>2, <1>3, <1>5, <1>10, Consts DEF Ctl, LiveOf, Live, NameOf, Owes
<1>14. \A g \in File : ftable'[g].ip # 0 => Live(ftable'[g].ip)
  BY <1>8 DEF IInv, LiveInv
<1>15. \A j \in Inum : lock'[j] = q <=> Locks(q, j)'
  BY <1>1, <1>2, <1>10, Here DEF Locks
<1>16. /\ \A j \in Inum : icache'[j].valid => icache'[j].d = dinode[j] /\ Live(j)
       /\ \A j \in Inum : lock'[j] # NoProc => icache'[j].valid
  BY <1>1, <1>5, CacheGetIs
<1>. QED
  BY <1>1, <1>9, <1>11, <1>12, <1>13, <1>14, <1>15, <1>16, FileStep_Inv

-----------------------------------------------------------------------------
(* The steps that change the disk *)

\* The parts of the invariant, put together.
LEMMA DiskStep ==
  ASSUME IInv, Types', NEW p \in Proc, Alone(p), UNCHANGED fileVars,
         CtlInv', LiveInv', NameInv', CacheInv', DirInv', LinkInv', SizeInv',
         BlocksOwned', TreeInv',
         \A i \in Inum : icache'[i].ref + Share(p, i) = icache[i].ref + Share(p, i)',
         \A i \in Inum : lock'[i] = p <=> Locks(p, i)',
         \A i \in Inum, r \in Proc \ {p} : lock'[i] = r <=> lock[i] = r
  PROVE  IInv'
<1>1. LockInv'
  BY LockMove DEF IInv
<1>2. RefInv'
  BY RefsMove DEF IInv, fileVars
<1>3. FileInv'
  BY DEF IInv, FileInv, Descriptors, fileVars
<1>. QED
  BY <1>1, <1>2, <1>3 DEF IInv

\* No inode changes its type, and no directory gets a name.
KeptTree(p) ==
  /\ \A j \in Inum : dinode'[j].type = dinode[j].type /\ (~Live(j) => dinode'[j] = dinode[j])
  /\ \A j \in Inum : dents'[j][".."] = dents[j][".."] /\ (~IsDir(j) => dents'[j] = dents[j])
  /\ \A x \in Inum, n \in Name :
       dents'[x][n] # 0 /\ IsDir(dents'[x][n]) => dents'[x][n] = dents[x][n]
  /\ \A r \in Proc \ {p} : Loc(r) = "unlink" => dents'[l[r].dp] = dents[l[r].dp]

\* A step that keeps the types and the names of the inodes keeps what is said
\* of both.
LEMMA TreeKept ==
  ASSUME IInv, Types', NEW p \in Proc, Alone(p), UNCHANGED fileVars, KeptTree(p),
         Ctl(p)', LiveOf(p)', NameOf(p)'
  PROVE  CtlInv' /\ LiveInv' /\ NameInv' /\ DirInv' /\ TreeInv'
<1>1. \A j \in Inum : dinode'[j].type = dinode[j].type /\ (~Live(j) => dinode'[j] = dinode[j])
  BY DEF KeptTree
<1>2. \A j \in Inum : (Live(j)' <=> Live(j)) /\ (IsDir(j)' <=> IsDir(j))
  BY <1>1 DEF Live, IsDir
<1>3. ASSUME NEW r \in Proc PROVE Ctl(r)' /\ LiveOf(r)' /\ NameOf(r)'
  <2>1. CASE r = p
    BY <2>1
  <2>2. CASE r # p
    <3>1. /\ Loc(r)' = Loc(r) /\ (Owes(r)' <=> Owes(r)) /\ l'[r] = l[r] /\ cwd'[r] = cwd[r]
          /\ pc'[r] = pc[r] /\ ofile'[r] = ofile[r]
      BY <2>2, OthersStay DEF Alone
    <3>2. Ctl(r) /\ LiveOf(r) /\ NameOf(r) /\ l[r] \in Locals /\ cwd[r] \in Inum0
      BY Here
    <3>3. Ctl(r)'
      BY <3>1, <3>2 DEF Ctl
    <3>4. \A j \in Inum0 : j # 0 => (dinode'[j].type = dinode[j].type)
      BY <1>1 DEF Inum0
    <3>5. /\ l[r].ip \in Inum0 /\ l[r].dp \in Inum0 /\ l[r].wp \in Inum0
      BY <3>2 DEF Locals
    <3>6. LiveOf(r)'
      BY <3>1, <3>2, <3>4, <3>5 DEF LiveOf, Live
    <3>7. Loc(r) = "unlink" => dents'[l[r].dp] = dents[l[r].dp] /\ l[r].dp # 0
      BY <2>2, <3>2 DEF KeptTree, Ctl
    <3>8. (Loc(r) = "named" => l[r].wp # 0) /\ (Owes(r) => l[r].ip # 0)
      BY <3>2 DEF Ctl, Owes
    <3>9. NameOf(r)'
      BY <3>1, <3>2, <3>4, <3>5, <3>7, <3>8 DEF NameOf, IsDir
    <3>. QED
      BY <3>3, <3>6, <3>9
  <2>. QED
    BY <2>1, <2>2
<1>4. CtlInv' /\ NameInv'
  BY <1>3 DEF CtlInv, NameInv
<1>5. LiveInv'
  <2>1. \A f \in File : ftable'[f] = ftable[f] /\ ftable[f].ip \in Inum0
    BY DEF fileVars, IInv, Types
  <2>2. \A f \in File : ftable[f].ip # 0 => dinode[ftable[f].ip].type # "free"
    BY DEF IInv, LiveInv, Live
  <2>3. \A f \in File : ftable'[f].ip # 0 => dinode'[ftable'[f].ip].type # "free"
    BY <1>1, <2>1, <2>2 DEF Inum0
  <2>. QED
    BY <1>3, <2>3 DEF LiveInv, Live
<1>6. \A x \in Inum, n \in Name : dents'[x][n] \in Inum0 /\ dents[x][n] \in Inum0
  BY DEF IInv, Types
<1>7. \A x \in Inum, n \in Name :
        dents'[x][n] # 0 /\ dinode'[dents'[x][n]].type = "dir" =>
          dents'[x][n] = dents[x][n] /\ dinode[dents[x][n]].type = "dir"
  BY <1>1, <1>6 DEF KeptTree, IsDir, Inum0
<1>8. DirInv'
  <2>1. IsDir(ROOTINO)' /\ dents'[ROOTINO][".."] = ROOTINO
    BY <1>2, Consts DEF IInv, DirInv, KeptTree
  <2>2. \A j \in Inum : /\ ~Live(j)' => dinode'[j] = NoInode
                        /\ ~IsDir(j)' => dents'[j] = NoEntries
                        /\ IsDir(j)' => dents'[j][".."] # 0
    BY <1>1, <1>2 DEF IInv, DirInv, KeptTree
  <2>3. \A x \in Inum, n \in Name :
          dents'[x][n] # 0 /\ dinode'[dents'[x][n]].type = "dir" => dents'[dents'[x][n]][".."] = x
    <3>. SUFFICES ASSUME NEW x \in Inum, NEW n \in Name,
                         dents'[x][n] # 0, dinode'[dents'[x][n]].type = "dir"
                  PROVE  dents'[dents'[x][n]][".."] = x
      OBVIOUS
    <3>1. dents'[x][n] = dents[x][n] /\ dinode[dents[x][n]].type = "dir" /\ dents[x][n] \in Inum
      BY <1>6, <1>7 DEF Inum0
    <3>2. dents[dents[x][n]][".."] = x
      BY <3>1, Consts DEF IInv, DirInv, IsDir
    <3>. QED
      BY <3>1, <3>2 DEF KeptTree
  <2>. QED
    BY <2>1, <2>2, <2>3 DEF DirInv, IsDir
<1>9. TreeInv'
  <2>1. PICK m \in Nat, rank \in [Inum -> Nat] : Ranks(rank, m)
    BY DEF IInv, TreeInv
  <2>2. /\ \A i \in Inum : rank[i] <= m
        /\ \A x \in Inum, n \in Name :
             dents'[x][n] # 0 /\ dinode'[dents'[x][n]].type = "dir" => rank[x] < rank[dents'[x][n]]
    BY <1>7, <2>1 DEF Ranks, IsDir
  <2>. QED
    BY <2>2 DEF TreeInv, Ranks, IsDir
<1>. QED
  BY <1>4, <1>5, <1>8, <1>9

\* No inode changes its blocks.
LEMMA BlocksKept ==
  ASSUME IInv, used' = used,
         \A j \in Inum : dinode'[j].data = dinode[j].data /\ dinode'[j].ind = dinode[j].ind
  PROVE  SizeInv' /\ BlocksOwned'
<1>1. SizeInv'
  BY DEF IInv, SizeInv
<1>2. \A j \in Inum : /\ Blocks(dinode'[j]) = Blocks(dinode[j])
                     /\ (Distinct(dinode'[j]) <=> Distinct(dinode[j]))
  BY DEF Blocks, Distinct
<1>3. {Blocks(dinode'[j]) : j \in Inum} = {Blocks(dinode[j]) : j \in Inum}
  BY <1>2
<1>4. BlocksOwned
  BY DEF IInv
<1>. QED
  BY <1>1, <1>2, <1>3, <1>4 DEF BlocksOwned

\* The calls that owe inode i a name, before and after a step of p.
LEMMA OwingMove ==
  ASSUME NEW p \in Proc, Alone(p), NEW i
  PROVE  \E k \in Nat : /\ Cardinality(Owing(i)) = k + One(Owes(p) /\ l[p].ip = i)
                        /\ Cardinality(Owing(i)') = k + One(Owes(p)' /\ l'[p].ip = i)
<1>. DEFINE K == {r \in Proc \ {p} : Owes(r) /\ l[r].ip = i}
            b == Owes(p) /\ l[p].ip = i
            c == Owes(p)' /\ l'[p].ip = i
<1>1. IsFiniteSet(K) /\ p \notin K
  BY Consts, FS_Subset
<1>2. Owing(i) = K \cup (IF b THEN {p} ELSE {})
  BY DEF Owing
<1>3. Owing(i)' = K \cup (IF c THEN {p} ELSE {})
  <2>1. \A r \in Proc \ {p} : (Owes(r)' <=> Owes(r)) /\ l'[r] = l[r]
    BY OthersStay DEF Alone
  <2>. QED
    BY <2>1 DEF Owing
<1>4. b \in BOOLEAN /\ c \in BOOLEAN
  OBVIOUS
<1>. HIDE DEF b, c, K
<1>5. Cardinality(Owing(i)) = Cardinality(K) + One(b)
  BY <1>1, <1>2, <1>4, AddIf
<1>6. Cardinality(Owing(i)') = Cardinality(K) + One(c)
  BY <1>1, <1>3, <1>4, AddIf
<1>7. Cardinality(K) \in Nat
  BY <1>1, FS_CardinalityType
<1>. QED
  BY <1>5, <1>6, <1>7 DEF b, c

\* Names are what they were, and so are the directories among them.
LEMMA NamesKept ==
  ASSUME IInv, dents' = dents, \A j \in Inum : dinode'[j].type = dinode[j].type, NEW i \in Inum
  PROVE  Entries(i)' = Entries(i) /\ Subdirs(i)' = Subdirs(i)
<1>1. \A x \in Inum, n \in Name : dents[x][n] \in Inum0
  BY DEF IInv, Types
<1>. QED
  BY <1>1 DEF Entries, Subdirs, IsDir, Inum0

\* The link counts still cover the names when the step changes a count and what
\* it owes together.
LEMMA OwesMove ==
  ASSUME IInv, Types', NEW p \in Proc, Alone(p), dents' = dents,
         \A j \in Inum : dinode'[j].type = dinode[j].type,
         \A i \in Inum : dinode'[i].nlink + One(Owes(p) /\ l[p].ip = i)
                           >= dinode[i].nlink + One(Owes(p)' /\ l'[p].ip = i)
  PROVE  LinkInv'
<1>. SUFFICES ASSUME NEW i \in Inum
              PROVE  dinode'[i].nlink >= Cardinality(Entries(i)') + Cardinality(Subdirs(i)')
                       + Cardinality(Owing(i)') + (IF i = ROOTINO THEN 1 ELSE 0)
  BY DEF LinkInv
<1>1. Entries(i)' = Entries(i) /\ Subdirs(i)' = Subdirs(i)
  BY NamesKept
<1>2. PICK k \in Nat : /\ Cardinality(Owing(i)) = k + One(Owes(p) /\ l[p].ip = i)
                       /\ Cardinality(Owing(i)') = k + One(Owes(p)' /\ l'[p].ip = i)
  BY OwingMove
<1>3. Cardinality(Entries(i)) \in Nat /\ Cardinality(Subdirs(i)) \in Nat
  BY LinkSets, FS_CardinalityType
<1>4. dinode[i].nlink >= Cardinality(Entries(i)) + Cardinality(Subdirs(i))
                           + Cardinality(Owing(i)) + (IF i = ROOTINO THEN 1 ELSE 0)
  BY DEF IInv, LinkInv
<1>5. dinode[i].nlink \in Nat /\ dinode'[i].nlink \in Nat
  BY DEF IInv, Types, DInode
<1>. DEFINE a == One(Owes(p) /\ l[p].ip = i)
            b == One(Owes(p)' /\ l'[p].ip = i)
<1>6. a \in Nat /\ b \in Nat
  BY DEF One
<1>7. dinode'[i].nlink + a >= dinode[i].nlink + b
  OBVIOUS
<1>8. Cardinality(Owing(i)) = k + a /\ Cardinality(Owing(i)') = k + b
  BY <1>2
<1>. HIDE DEF a, b
<1>. QED
  BY <1>1, <1>3, <1>4, <1>5, <1>6, <1>7, <1>8

\* iupdate() writes one inode to the cache and to the disk.
LEMMA iupdateIs ==
  ASSUME IInv, NEW c \in [Inum -> Entry], NEW i \in Inum, NEW d \in DInode, iupdate(c, i, d)
  PROVE  /\ icache' \in [Inum -> Entry] /\ dinode' \in [Inum -> DInode]
         /\ icache'[i].d = d /\ dinode'[i] = d
         /\ \A j \in Inum : icache'[j].ref = c[j].ref /\ icache'[j].valid = c[j].valid
         /\ \A j \in Inum \ {i} : icache'[j].d = c[j].d /\ dinode'[j] = dinode[j]
<1>1. dinode \in [Inum -> DInode]
  BY DEF IInv, Types
<1>2. icache' = [c EXCEPT ![i].d = d] /\ dinode' = [dinode EXCEPT ![i] = d]
  BY DEF iupdate
<1>3. /\ icache' \in [Inum -> Entry] /\ icache'[i].d = d
      /\ \A j \in Inum : icache'[j].ref = c[j].ref /\ icache'[j].valid = c[j].valid
      /\ \A j \in Inum \ {i} : icache'[j].d = c[j].d
  BY <1>2 DEF Entry
<1>. QED
  BY <1>1, <1>2, <1>3

\* A link count is changed.
LEMMA NlinkSet ==
  ASSUME NEW d \in DInode, NEW k \in Nat
  PROVE  /\ [d EXCEPT !.nlink = k] \in DInode
         /\ [d EXCEPT !.nlink = k].nlink = k /\ [d EXCEPT !.nlink = k].type = d.type
         /\ [d EXCEPT !.nlink = k].data = d.data /\ [d EXCEPT !.nlink = k].ind = d.ind
<1>. DEFINE s == [d EXCEPT !.nlink = k]
<1>1. /\ s \in DInode /\ s.nlink = k /\ s.type = d.type /\ s.data = d.data /\ s.ind = d.ind
  BY DEF DInode
<1>. QED
  BY <1>1

\* An inode that is owed a name has a link count above zero: bad: and unlink()
\* can decrement it.
LEMMA OwedPos ==
  ASSUME IInv, NEW p \in Proc, Owes(p), l[p].ip \in Inum
  PROVE  dinode[l[p].ip].nlink \in Nat /\ dinode[l[p].ip].nlink > 0
<1>1. p \in Owing(l[p].ip)
  BY DEF Owing
<1>2. dinode[l[p].ip].nlink # 0
  BY <1>1, NoLinks
<1>. QED
  BY <1>2 DEF IInv, Types, DInode

\* A step that changes the link count of inode i, and no name.
LEMMA NlinkStep ==
  ASSUME IInv, NEW p \in Proc, Alone(p), UNCHANGED fileVars, dents' = dents, used' = used,
         l' \in [Proc -> Locals], pc' \in [Proc -> Location \cup {"put", "deref"}],
         lock' \in [Inum -> Proc \cup {NoProc}],
         NEW c \in [Inum -> Entry], NEW i \in Inum, NEW k \in Nat, Live(i), c[i].valid,
         iupdate(c, i, [dinode[i] EXCEPT !.nlink = k]),
         \A j \in Inum : c[j].valid => c[j].d = dinode[j] /\ Live(j),
         \A j \in Inum : lock'[j] # NoProc => c[j].valid,
         Ctl(p)',
         cwd'[p] # 0 => Live(cwd'[p]),
         l'[p].ip # 0 => Live(l'[p].ip), l'[p].dp = 0, Loc(p)' \notin {"named", "unlink"},
         Owes(p)' /\ Loc(p)' # "erased" => ~IsDir(l'[p].ip),
         \A j \in Inum : c[j].ref + Share(p, j) = icache[j].ref + Share(p, j)',
         \A j \in Inum : lock'[j] = p <=> Locks(p, j)',
         \A j \in Inum, r \in Proc \ {p} : lock'[j] = r <=> lock[j] = r,
         k + One(Owes(p) /\ l[p].ip = i) >= dinode[i].nlink + One(Owes(p)' /\ l'[p].ip = i),
         \A j \in Inum \ {i} : Owes(p)' /\ l'[p].ip = j => Owes(p) /\ l[p].ip = j
  PROVE  IInv'
<1>. DEFINE d == [dinode[i] EXCEPT !.nlink = k]
<1>1. dinode[i] \in DInode /\ dinode \in [Inum -> DInode]
  BY DEF IInv, Types
<1>2. /\ d \in DInode /\ d.nlink = k /\ d.type = dinode[i].type /\ d.data = dinode[i].data
      /\ d.ind = dinode[i].ind
  BY <1>1, NlinkSet
<1>3. iupdate(c, i, d)
  OBVIOUS
<1>. HIDE DEF d
<1>4. /\ icache' \in [Inum -> Entry] /\ dinode' \in [Inum -> DInode]
      /\ icache'[i].d = d /\ dinode'[i] = d
      /\ \A j \in Inum : icache'[j].ref = c[j].ref /\ icache'[j].valid = c[j].valid
      /\ \A j \in Inum \ {i} : icache'[j].d = c[j].d /\ dinode'[j] = dinode[j]
  BY <1>2, <1>3, iupdateIs
<1>5. Types'
  BY <1>4 DEF IInv, Types, fileVars
<1>6. \A j \in Inum : /\ dinode'[j].type = dinode[j].type /\ dinode'[j].data = dinode[j].data
                      /\ dinode'[j].ind = dinode[j].ind
  BY <1>2, <1>4
<1>7. KeptTree(p)
  <2>1. \A j \in Inum : ~Live(j) => dinode'[j] = dinode[j]
    BY <1>4
  <2>. QED
    BY <1>6, <2>1 DEF KeptTree
<1>8. LiveOf(p)' /\ NameOf(p)'
  <2>1. l'[p] \in Locals /\ cwd'[p] \in Inum0
    BY DEF fileVars, IInv, Types
  <2>2. l'[p].ip \in Inum0 /\ (Owes(p)' => l'[p].ip # 0)
    BY <2>1 DEF Locals, Owes, Ctl
  <2>5. \A j \in Inum0 : j # 0 => dinode'[j].type = dinode[j].type
    BY <1>6 DEF Inum0
  <2>3. LiveOf(p)'
    BY <2>1, <2>2, <2>5 DEF LiveOf, Live
  <2>4. NameOf(p)'
    BY <2>2, <2>5 DEF NameOf, IsDir
  <2>. QED
    BY <2>3, <2>4
<1>9. CtlInv' /\ LiveInv' /\ NameInv' /\ DirInv' /\ TreeInv'
  BY <1>5, <1>7, <1>8, TreeKept
<1>10. SizeInv' /\ BlocksOwned'
  BY <1>6, BlocksKept
<1>11. CacheInv'
  <2>1. \A j \in Inum : icache'[j].valid => icache'[j].d = dinode'[j] /\ dinode'[j].type # "free"
    BY <1>4, <1>6 DEF Live
  <2>. QED
    BY <1>4, <2>1 DEF CacheInv
<1>12. LinkInv'
  <2>1. ASSUME NEW j \in Inum
        PROVE  dinode'[j].nlink + One(Owes(p) /\ l[p].ip = j)
                 >= dinode[j].nlink + One(Owes(p)' /\ l'[p].ip = j)
    <3>1. CASE j = i
      BY <1>2, <1>4, <3>1
    <3>2. CASE j # i
      <4>1. dinode'[j] = dinode[j] /\ dinode[j].nlink \in Nat
        BY <1>1, <1>4, <3>2 DEF DInode
      <4>. QED
        BY <3>2, <4>1 DEF One
    <3>. QED
      BY <3>1, <3>2
  <2>. QED
    BY <1>5, <1>6, <2>1, OwesMove
<1>13. \A j \in Inum : icache'[j].ref + Share(p, j) = icache[j].ref + Share(p, j)'
  BY <1>4
<1>. QED
  BY <1>5, <1>9, <1>10, <1>11, <1>12, <1>13, DiskStep

\* The step Unlinked preserves the invariant.
LEMMA Unlinked_Inv ==
  ASSUME IInv, NEW p \in Proc, Unlinked(p)
  PROVE  IInv'
<1>. DEFINE r == [l[p] EXCEPT !.ip = 0]
<1>1. PICK i \in Inum : i = l[p].ip
  BY Here DEF Unlinked, Loc, Ctl, Locals, Inum0
<1>2. /\ pc[p] = "erased" /\ Loc(p) = "erased" /\ l[p].wp = 0 /\ l[p].dp = 0 /\ l[p].drop = 0
      /\ iupdate(icache, i, [icache[i].d EXCEPT !.nlink = @ - 1])
      /\ lock' = [lock EXCEPT ![i] = NoProc] /\ iput(p, r, i, "idle")
      /\ dents' = dents /\ used' = used /\ UNCHANGED fileVars
  BY <1>1, Here DEF Unlinked, Loc, Ctl
<1>3. lock[i] = p /\ icache[i].valid /\ icache[i].d = dinode[i] /\ Live(i)
  <2>1. lock[i] = p
    BY <1>1, <1>2, Here DEF Locks
  <2>2. lock[i] # NoProc
    BY <2>1, Consts
  <2>. QED
    BY <2>1, <2>2, Here
<1>4. Given(p, i)
  BY <1>2, <1>3, GiveLock
<1>5. Becomes(l[p], r, l[p].wp, 0, l[p].dp)
  BY Here, Zero, IpSet
<1>. HIDE DEF r
<1>6. Putting(p, r, i, "idle")
  <2>1. r \in Locals /\ "idle" \in Location
    BY <1>5 DEF Becomes, Location
  <2>. QED
    BY <1>2, <2>1, Here, iputIs
<1>7. Owes(p) /\ dinode[i].nlink \in Nat /\ dinode[i].nlink > 0
  <2>1. Owes(p)
    BY <1>2 DEF Owes
  <2>. QED
    BY <1>1, <2>1, OwedPos
<1>8. PICK k \in Nat : k = dinode[i].nlink - 1
  BY <1>7
<1>9. iupdate(icache, i, [dinode[i] EXCEPT !.nlink = k])
  BY <1>2, <1>3, <1>8
<1>10. Alone(p)
  BY <1>2, <1>6 DEF Alone, Putting, fileVars
<1>11. ~Owes(p)' /\ l'[p].ip = 0 /\ l'[p].dp = 0 /\ l'[p].wp = 0 /\ Loc(p)' = "idle"
  BY <1>2, <1>5, <1>6 DEF Owes, Putting, Becomes
<1>12. Ctl(p)'
  BY <1>2, <1>6, <1>11, Here DEF Ctl, Putting, fileVars
<1>13. \A j \in Inum : icache[j].ref + Share(p, j) = icache[j].ref + Share(p, j)'
  <2>1. \A j \in Inum : j # 0 /\ icache[j].ref \in Nat
    BY Here, Consts DEF Entry
  <2>. QED
    BY <1>1, <1>2, <1>6, <1>11, <2>1 DEF Putting, Share, One, fileVars
<1>14. \A j \in Inum : lock'[j] = p <=> Locks(p, j)'
  BY <1>1, <1>2, <1>4, <1>11, Here DEF Given, Locks
<1>15. cwd'[p] # 0 => Live(cwd'[p])
  BY <1>2, Here DEF LiveOf, fileVars
<1>16. k + One(Owes(p) /\ l[p].ip = i) >= dinode[i].nlink + One(Owes(p)' /\ l'[p].ip = i)
  BY <1>1, <1>7, <1>8, <1>11 DEF One
<1>17. /\ \A j \in Inum : icache[j].valid => icache[j].d = dinode[j] /\ Live(j)
       /\ \A j \in Inum : lock'[j] # NoProc => icache[j].valid
       /\ icache \in [Inum -> Entry]
  BY <1>4, Here DEF Given
<1>. QED
  BY <1>2, <1>3, <1>4, <1>6, <1>9, <1>10, <1>11, <1>12, <1>13, <1>14, <1>15, <1>16, <1>17,
     NlinkStep
     DEF Given, Putting

\* The step LinkBad preserves the invariant.
LEMMA LinkBad_Inv ==
  ASSUME IInv, NEW p \in Proc, LinkBad(p)
  PROVE  IInv'
<1>. DEFINE r == [l[p] EXCEPT !.ip = 0]
<1>1. PICK i \in Inum : i = l[p].ip
  BY Here DEF LinkBad, Loc, Ctl, Locals, Inum0
<1>2. /\ pc[p] = "bad" /\ Loc(p) = "bad" /\ l[p].wp = 0 /\ l[p].dp = 0 /\ l[p].drop = 0
      /\ CanLock(i) /\ iupdate(ilock(i), i, [ilock(i)[i].d EXCEPT !.nlink = @ - 1])
      /\ lock' = lock /\ iput(p, r, i, "idle")
      /\ dents' = dents /\ used' = used /\ UNCHANGED fileVars
  BY <1>1, Here DEF LinkBad, Loc, Ctl
<1>. DEFINE c == ilock(i)
<1>3. /\ c \in [Inum -> Entry] /\ c[i].d = dinode[i] /\ c[i].valid /\ Live(i)
      /\ \A j \in Inum : c[j].ref = icache[j].ref
      /\ \A j \in Inum : c[j].valid => c[j].d = dinode[j] /\ Live(j)
      /\ \A j \in Inum : lock[j] # NoProc => c[j].valid
  BY <1>2, IlockIs
<1>4. iupdate(c, i, [c[i].d EXCEPT !.nlink = @ - 1])
  BY <1>2
<1>. HIDE DEF c
<1>5. Becomes(l[p], r, l[p].wp, 0, l[p].dp)
  BY Here, Zero, IpSet
<1>. HIDE DEF r
<1>6. Putting(p, r, i, "idle")
  <2>1. r \in Locals /\ "idle" \in Location
    BY <1>5 DEF Becomes, Location
  <2>. QED
    BY <1>2, <2>1, Here, iputIs
<1>7. Owes(p) /\ dinode[i].nlink \in Nat /\ dinode[i].nlink > 0
  <2>1. Owes(p)
    BY <1>2 DEF Owes
  <2>. QED
    BY <1>1, <2>1, OwedPos
<1>8. PICK k \in Nat : k = dinode[i].nlink - 1
  BY <1>7
<1>9. iupdate(c, i, [dinode[i] EXCEPT !.nlink = k])
  BY <1>3, <1>4, <1>8
<1>10. Alone(p)
  BY <1>2, <1>6 DEF Alone, Putting, fileVars
<1>11. ~Owes(p)' /\ l'[p].ip = 0 /\ l'[p].dp = 0 /\ l'[p].wp = 0 /\ Loc(p)' = "idle"
  BY <1>2, <1>5, <1>6 DEF Owes, Putting, Becomes
<1>12. Ctl(p)'
  BY <1>2, <1>6, <1>11, Here DEF Ctl, Putting, fileVars
<1>13. \A j \in Inum : c[j].ref + Share(p, j) = icache[j].ref + Share(p, j)'
  <2>1. \A j \in Inum : j # 0 /\ icache[j].ref \in Nat /\ c[j].ref = icache[j].ref
    BY <1>3, Here, Consts DEF Entry
  <2>. QED
    BY <1>1, <1>2, <1>6, <1>11, <2>1 DEF Putting, Share, One, fileVars
<1>14. \A j \in Inum : lock'[j] = p <=> Locks(p, j)'
  BY <1>1, <1>2, <1>11, Here DEF Locks
<1>15. cwd'[p] # 0 => Live(cwd'[p])
  BY <1>2, Here DEF LiveOf, fileVars
<1>16. k + One(Owes(p) /\ l[p].ip = i) >= dinode[i].nlink + One(Owes(p)' /\ l'[p].ip = i)
  BY <1>1, <1>7, <1>8, <1>11 DEF One
<1>17. lock' \in [Inum -> Proc \cup {NoProc}]
  BY <1>2, Here
<1>. QED
  BY <1>2, <1>3, <1>6, <1>9, <1>10, <1>11, <1>12, <1>13, <1>14, <1>15, <1>16, <1>17,
     NlinkStep
     DEF Putting

\* The locals of link() while it looks up the new name.
Linking(r, i, w) == [r EXCEPT !.ip = i, !.wp = w, !.elems = r.new.elems, !.parent = TRUE]

\* s is r while link() looks up the new name of inode i from directory w on.
LinkingTo(r, s, i, w) ==
  /\ s \in Locals /\ s.op = r.op /\ s.parent = TRUE
  /\ s.wp = w /\ s.ip = i /\ s.dp = r.dp /\ s.drop = r.drop

\* After its first half link() holds the inode and starts to walk to the new
\* name.
LEMMA LinkingIs ==
  ASSUME NEW r \in Locals, NEW i \in Inum0, NEW w \in Inum0
  PROVE  LinkingTo(r, Linking(r, i, w), i, w)
<1>1. r.new \in Path
  BY DEF Locals
<1>2. PICK e \in Seq(Elem) : e = r.new.elems
  BY <1>1 DEF Path
<1>. DEFINE s == [r EXCEPT !.ip = i, !.wp = w, !.elems = e, !.parent = TRUE]
<1>3. Linking(r, i, w) = s
  BY <1>2 DEF Linking
<1>4. /\ s \in Locals /\ s.op = r.op /\ s.parent = TRUE
      /\ s.wp = w /\ s.ip = i /\ s.dp = r.dp /\ s.drop = r.drop
  BY DEF Locals
<1>. HIDE DEF s
<1>5. LinkingTo(r, s, i, w)
  BY <1>4 DEF LinkingTo
<1>. QED
  BY <1>3, <1>5

\* link() that has counted the new name preserves the invariant: it owes that
\* name.
LEMMA Link_File ==
  ASSUME IInv, NEW p \in Proc, Link(p), wpd(p).type # "dir"
  PROVE  IInv'
<1>1. PICK i \in Inum : i = l[p].wp
  BY Here DEF Link, Named, Loc, Ctl, Locals, Inum0
<1>2. /\ pc[p] = "named" /\ Loc(p) = "named" /\ l[p].op = "link" /\ l[p].ip = 0 /\ l[p].dp = 0
      /\ l[p].drop = 0 /\ CanLock(i) /\ lock' = lock
      /\ dents' = dents /\ used' = used /\ UNCHANGED fileVars /\ cwd[p] # 0
  BY <1>1, Here DEF Link, LinkUnlocks, Named, Loc, Ctl
<1>3. PICK w \in Inum : w = From(p, l[p].new)
  BY <1>2, Here, Consts DEF From, Inum0
<1>4. /\ iupdate(iget(ilock(i), w), i, [ilock(i)[i].d EXCEPT !.nlink = @ + 1])
      /\ Set(p, Linking(l[p], i, w)) /\ Goto(p, "walk")
  BY <1>1, <1>3 DEF Link, wpd, Linking
<1>. DEFINE c == iget(ilock(i), w)
            s == Linking(l[p], i, w)
<1>5. ilock(i)[i].d = dinode[i] /\ dinode[i].type # "dir"
  BY <1>1, <1>2, IlockIs DEF wpd
<1>6. /\ c \in [Inum -> Entry] /\ c[i].valid /\ Live(i)
      /\ \A j \in Inum : c[j].ref = icache[j].ref + One(j = w)
      /\ \A j \in Inum : c[j].valid => c[j].d = dinode[j] /\ Live(j)
      /\ \A j \in Inum : lock[j] # NoProc => c[j].valid
  BY <1>2, IlockGetIs
<1>7. PICK k \in Nat : k = dinode[i].nlink + 1
  BY DEF IInv, Types, DInode
<1>8. iupdate(c, i, [dinode[i] EXCEPT !.nlink = k])
  BY <1>4, <1>5, <1>7
<1>9. /\ s \in Locals /\ s.op = "link" /\ s.parent = TRUE
      /\ s.wp = w /\ s.ip = i /\ s.dp = 0 /\ s.drop = 0
  <2>1. l[p] \in Locals /\ i \in Inum0 /\ w \in Inum0
    BY Here, Zero
  <2>2. LinkingTo(l[p], s, i, w)
    BY <2>1, LinkingIs
  <2>. HIDE DEF s
  <2>. QED
    BY <1>2, <2>2 DEF LinkingTo
<1>10. Set(p, s)
  BY <1>4
<1>. HIDE DEF c, s
<1>11. Moved(p, s, "walk")
  BY <1>4, <1>9, <1>10, Here, SetIs DEF Place, Location
<1>12. Alone(p)
  BY <1>2, <1>11 DEF Alone, Moved, fileVars
<1>13. /\ l'[p].ip = i /\ l'[p].dp = 0 /\ l'[p].wp = w /\ l'[p].drop = 0 /\ Loc(p)' = "walk"
       /\ Owes(p)' /\ ~Owes(p) /\ i # 0 /\ w # 0
  BY <1>2, <1>9, <1>11, Consts DEF Owes, Moved, Loc
<1>14. Ctl(p)'
  BY <1>2, <1>9, <1>11, <1>13 DEF Ctl, Moved, fileVars
<1>15. \A j \in Inum : c[j].ref + Share(p, j) = icache[j].ref + Share(p, j)'
  <2>1. \A j \in Inum : j # 0 /\ icache[j].ref \in Nat /\ c[j].ref = icache[j].ref + One(j = w)
    BY <1>6, Here, Consts DEF Entry
  <2>. QED
    BY <1>1, <1>2, <1>13, <2>1 DEF Share, One, fileVars
<1>16. \A j \in Inum : lock'[j] = p <=> Locks(p, j)'
  BY <1>1, <1>2, <1>13, Here DEF Locks
<1>17. cwd'[p] # 0 => Live(cwd'[p])
  BY <1>2, Here DEF LiveOf, fileVars
<1>18. k + One(Owes(p) /\ l[p].ip = i) >= dinode[i].nlink + One(Owes(p)' /\ l'[p].ip = i)
  <2>1. dinode[i].nlink \in Nat
    BY DEF IInv, Types, DInode
  <2>. QED
    BY <1>7, <1>13, <2>1 DEF One
<1>19. lock' \in [Inum -> Proc \cup {NoProc}]
  BY <1>2, Here
<1>20. (l'[p].ip # 0 => Live(l'[p].ip)) /\ ~IsDir(l'[p].ip)
  BY <1>5, <1>6, <1>13 DEF IsDir
<1>21. \A j \in Inum \ {i} : ~(Owes(p)' /\ l'[p].ip = j)
  BY <1>13
<1>. QED
  BY <1>2, <1>6, <1>8, <1>11, <1>12, <1>13, <1>14, <1>15, <1>16, <1>17, <1>18, <1>19, <1>20,
     <1>21, NlinkStep DEF Moved

\* A name of a subdirectory.
Sub(d, e) == dents[d][e] # 0 /\ IsDir(dents[d][e])

\* Nothing changes about the names other than name e of directory d.
NamesElse(d, e) ==
  \A x \in Inum, n \in Name : x # d \/ n # e =>
    /\ dents'[x][n] = dents[x][n]
    /\ dents[x][n] # 0 => (dinode'[dents[x][n]].type = "dir" <=> dinode[dents[x][n]].type = "dir")

\* Changing one name changes the number of an inode's names by that name.
LEMMA EntriesMove ==
  ASSUME NEW d \in Inum, NEW e \in Name, NamesElse(d, e), NEW i
  PROVE  \E k \in Nat : /\ Cardinality(Entries(i)) = k + One(dents[d][e] = i)
                        /\ Cardinality(Entries(i)') = k + One(dents'[d][e] = i)
<1>. DEFINE K == {x \in Inum \X Name : x # <<d, e>> /\ dents[x[1]][x[2]] = i}
            b == dents[d][e] = i
            c == dents'[d][e] = i
<1>1. IsFiniteSet(K) /\ <<d, e>> \notin K
  <2>1. IsFiniteSet(Inum \X Name)
    BY Consts, FS_Product
  <2>. QED
    BY <2>1, FS_Subset
<1>2. Entries(i) = K \cup (IF b THEN {<<d, e>>} ELSE {})
  BY DEF Entries
<1>3. Entries(i)' = K \cup (IF c THEN {<<d, e>>} ELSE {})
  <2>1. \A x \in Inum \X Name : x # <<d, e>> => dents'[x[1]][x[2]] = dents[x[1]][x[2]]
    BY DEF NamesElse
  <2>. QED
    BY <2>1 DEF Entries
<1>4. b \in BOOLEAN /\ c \in BOOLEAN
  OBVIOUS
<1>. HIDE DEF b, c, K
<1>5. Cardinality(Entries(i)) = Cardinality(K) + One(b)
  BY <1>1, <1>2, <1>4, AddIf
<1>6. Cardinality(Entries(i)') = Cardinality(K) + One(c)
  BY <1>1, <1>3, <1>4, AddIf
<1>7. Cardinality(K) \in Nat
  BY <1>1, FS_CardinalityType
<1>. QED
  BY <1>5, <1>6, <1>7 DEF b, c

\* Changing one name changes the number of a directory's subdirectories by that
\* name.
LEMMA SubdirsMove ==
  ASSUME NEW d \in Inum, NEW e \in Name, NamesElse(d, e), NEW i \in Inum
  PROVE  \E k \in Nat : /\ Cardinality(Subdirs(i)) = k + One(i = d /\ Sub(d, e))
                        /\ Cardinality(Subdirs(i)') = k + One(i = d /\ Sub(d, e)')
<1>. DEFINE K == {n \in Name : /\ ~(i = d /\ n = e) /\ dents[i][n] # 0
                          /\ dinode[dents[i][n]].type = "dir"}
            b == i = d /\ Sub(d, e)
            c == i = d /\ Sub(d, e)'
<1>1. IsFiniteSet(K) /\ (i = d => e \notin K)
  BY Consts, FS_Subset
<1>2. Subdirs(i) = K \cup (IF b THEN {e} ELSE {})
  BY DEF Subdirs, Sub, IsDir
<1>3. Subdirs(i)' = K \cup (IF c THEN {e} ELSE {})
  <2>1. \A n \in Name : ~(i = d /\ n = e) =>
          (n \in Subdirs(i)' <=> n \in K)
    BY DEF NamesElse, Subdirs, IsDir
  <2>2. i = d => (e \in Subdirs(i)' <=> c)
    BY DEF Subdirs, Sub, IsDir
  <2>3. Subdirs(i)' \subseteq Name /\ K \subseteq Name
    BY DEF Subdirs
  <2>4. i # d => ~c
    OBVIOUS
  <2>5. i = d => e \notin K
    OBVIOUS
  <2>. HIDE DEF K, c
  <2>6. CASE i = d
    BY <2>1, <2>2, <2>3, <2>5, <2>6
  <2>7. CASE i # d
    BY <2>1, <2>3, <2>4, <2>7
  <2>. QED
    BY <2>6, <2>7
<1>4. b \in BOOLEAN /\ c \in BOOLEAN /\ (i # d => ~b /\ ~c)
  OBVIOUS
<1>. HIDE DEF b, c, K
<1>7. Cardinality(K) \in Nat
  BY <1>1, FS_CardinalityType
<1>8. CASE i = d
  <2>1. Cardinality(Subdirs(i)) = Cardinality(K) + One(b)
    BY <1>1, <1>2, <1>4, <1>8, AddIf
  <2>2. Cardinality(Subdirs(i)') = Cardinality(K) + One(c)
    BY <1>1, <1>3, <1>4, <1>8, AddIf
  <2>. QED
    BY <2>1, <2>2, <1>7 DEF b, c
<1>9. CASE i # d
  <2>1. Subdirs(i) = K /\ Subdirs(i)' = K
    BY <1>2, <1>3, <1>4, <1>9
  <2>2. One(b) = 0 /\ One(c) = 0
    BY <1>4, <1>9 DEF One
  <2>. QED
    BY <2>1, <2>2, <1>7 DEF b, c
<1>. QED
  BY <1>8, <1>9

\* The link counts, when one name changes.
LEMMA NameMove ==
  ASSUME IInv, Types', NEW p \in Proc, Alone(p), NEW d \in Inum, NEW e \in Name, NamesElse(d, e),
         \A i \in Inum :
           dinode'[i].nlink + One(dents[d][e] = i) + One(i = d /\ Sub(d, e))
               + One(Owes(p) /\ l[p].ip = i)
             >= dinode[i].nlink + One(dents'[d][e] = i) + One(i = d /\ Sub(d, e)')
               + One(Owes(p)' /\ l'[p].ip = i)
  PROVE  LinkInv'
<1>. SUFFICES ASSUME NEW i \in Inum
              PROVE  dinode'[i].nlink >= Cardinality(Entries(i)') + Cardinality(Subdirs(i)')
                       + Cardinality(Owing(i)') + (IF i = ROOTINO THEN 1 ELSE 0)
  BY DEF LinkInv
<1>. DEFINE a1 == One(dents[d][e] = i)
            a2 == One(i = d /\ Sub(d, e))
            a3 == One(Owes(p) /\ l[p].ip = i)
            b1 == One(dents'[d][e] = i)
            b2 == One(i = d /\ Sub(d, e)')
            b3 == One(Owes(p)' /\ l'[p].ip = i)
<1>1. PICK k1 \in Nat : Cardinality(Entries(i)) = k1 + a1 /\ Cardinality(Entries(i)') = k1 + b1
  BY EntriesMove
<1>2. PICK k2 \in Nat : Cardinality(Subdirs(i)) = k2 + a2 /\ Cardinality(Subdirs(i)') = k2 + b2
  BY SubdirsMove
<1>3. PICK k3 \in Nat : Cardinality(Owing(i)) = k3 + a3 /\ Cardinality(Owing(i)') = k3 + b3
  BY OwingMove
<1>4. dinode[i].nlink >= Cardinality(Entries(i)) + Cardinality(Subdirs(i))
                           + Cardinality(Owing(i)) + (IF i = ROOTINO THEN 1 ELSE 0)
  BY DEF IInv, LinkInv
<1>5. dinode[i].nlink \in Nat /\ dinode'[i].nlink \in Nat
  BY DEF IInv, Types, DInode
<1>6. a1 \in Nat /\ a2 \in Nat /\ a3 \in Nat /\ b1 \in Nat /\ b2 \in Nat /\ b3 \in Nat
  BY DEF One
<1>7. dinode'[i].nlink + a1 + a2 + a3 >= dinode[i].nlink + b1 + b2 + b3
  OBVIOUS
<1>. HIDE DEF a1, a2, a3, b1, b2, b3
<1>. QED
  BY <1>1, <1>2, <1>3, <1>4, <1>5, <1>6, <1>7

\* A directory that is not locked is in no unlink().
LEMMA UnlinkElsewhere ==
  ASSUME IInv, NEW r \in Proc, Loc(r) = "unlink", NEW i \in Inum, lock[i] # r
  PROVE  l[r].dp # i
  BY DEF IInv, LockInv, Locks

\* link() that enters the name it owes preserves the invariant.
LEMMA LinkEntry_New ==
  ASSUME IInv, NEW p \in Proc, LinkEntry(p), dirlookup(l[p].wp, Head(l[p].elems)) = 0
  PROVE  IInv'
<1>. DEFINE r == [l[p] EXCEPT !.wp = 0]
<1>1. PICK i \in Inum, ip \in Inum : i = l[p].wp /\ ip = l[p].ip
  BY Here DEF LinkEntry, Named, Loc, Ctl, Locals, Inum0
<1>2. /\ pc[p] = "named" /\ Loc(p) = "named" /\ l[p].op = "link" /\ l[p].ip # 0 /\ l[p].dp = 0
      /\ l[p].drop = 0 /\ l[p].parent /\ Len(l[p].elems) = 1 /\ CanLock(i) /\ lock' = lock
      /\ icache' = ilock(i) /\ iput(p, r, i, "putip")
      /\ dents' = [dents EXCEPT ![i][Head(l[p].elems)] = ip]
      /\ dinode' = dinode /\ used' = used /\ UNCHANGED fileVars /\ cwd[p] # 0
  BY <1>1, Here DEF LinkEntry, Named, Loc, Ctl
<1>3. IsDir(i) /\ ~IsDir(ip) /\ Owes(p)
  BY <1>1, <1>2, Here DEF NameOf, Owes
<1>4. PICK e \in Name : e = Head(l[p].elems) /\ dents[i][e] = 0
  <2>1. l[p].elems # <<>>
    <3>1. l[p].elems \in Seq(Elem)
      BY Here DEF Locals
    <3>. QED
      BY <1>2, <3>1
  <2>2. Head(l[p].elems) \in Elem
    BY <2>1, FirstIs
  <2>3. dents[i][".."] # 0
    BY <1>3 DEF IInv, DirInv
  <2>. QED
    BY <1>1, <2>2, <2>3, Consts DEF dirlookup, Elem
<1>5. dents' = [dents EXCEPT ![i][e] = ip] /\ dents \in [Inum -> [Name \cup {".."} -> Inum0]]
  BY <1>2, <1>4, Here DEF Types
<1>6. /\ dents' \in [Inum -> [Name \cup {".."} -> Inum0]] /\ dents'[i][e] = ip
      /\ \A x \in Inum, n \in Name \cup {".."} : x # i \/ n # e => dents'[x][n] = dents[x][n]
      /\ \A x \in Inum \ {i} : dents'[x] = dents[x]
  BY <1>5 DEF Inum0
<1>. DEFINE c == ilock(i)
<1>7. /\ c \in [Inum -> Entry] /\ Live(i) /\ lock[i] = NoProc
      /\ \A j \in Inum : c[j].ref = icache[j].ref
      /\ \A j \in Inum : c[j].valid => c[j].d = dinode[j] /\ Live(j)
      /\ \A j \in Inum : lock[j] # NoProc => c[j].valid
  BY <1>2, IlockIs
<1>8. icache' = c
  BY <1>2
<1>. HIDE DEF c
<1>9. Becomes(l[p], r, 0, l[p].ip, l[p].dp)
  BY Here, Zero, WpSet
<1>. HIDE DEF r
<1>10. Putting(p, r, i, "putip")
  <2>1. r \in Locals /\ "putip" \in Location
    BY <1>9 DEF Becomes, Location
  <2>. QED
    BY <1>2, <2>1, Here, iputIs
<1>11. Alone(p)
  BY <1>2, <1>10 DEF Alone, Putting, fileVars
<1>12. Types'
  BY <1>2, <1>6, <1>7, <1>8, <1>10, Here DEF Types, Putting, fileVars
<1>13. /\ ~Owes(p)' /\ l'[p].ip = ip /\ l'[p].dp = 0 /\ l'[p].wp = 0 /\ Loc(p)' = "putip"
       /\ l'[p].drop = i
  BY <1>1, <1>2, <1>9, <1>10 DEF Owes, Putting, Becomes
<1>14. Ctl(p)'
  BY <1>1, <1>2, <1>10, <1>13, Here DEF Ctl, Putting, fileVars
<1>15. LiveOf(p)' /\ NameOf(p)'
  <2>1. cwd'[p] # 0 => Live(cwd'[p])
    BY <1>2, Here DEF LiveOf, fileVars
  <2>2. Live(ip)
    BY <1>1, <1>2, Here DEF LiveOf
  <2>. QED
    BY <1>2, <1>13, <2>1, <2>2 DEF LiveOf, NameOf, Live
<1>16. KeptTree(p)
  <2>1. \A j \in Inum : dents'[j][".."] = dents[j][".."] /\ (~IsDir(j) => dents'[j] = dents[j])
    BY <1>3, <1>6, Consts
  <2>2. \A x \in Inum, n \in Name :
       dents'[x][n] # 0 /\ IsDir(dents'[x][n]) => dents'[x][n] = dents[x][n]
    BY <1>3, <1>6
  <2>3. \A s \in Proc \ {p} : Loc(s) = "unlink" => dents'[l[s].dp] = dents[l[s].dp]
    <3>. SUFFICES ASSUME NEW s \in Proc \ {p}, Loc(s) = "unlink"
                  PROVE  dents'[l[s].dp] = dents[l[s].dp]
      OBVIOUS
    <3>1. l[s].dp # i
      BY <1>7, UnlinkElsewhere, Consts
    <3>2. l[s].dp \in Inum
      BY Here DEF Ctl, Locals, Inum0
    <3>. QED
      BY <1>6, <3>1, <3>2
  <2>. QED
    BY <1>2, <2>1, <2>2, <2>3 DEF KeptTree
<1>17. CtlInv' /\ LiveInv' /\ NameInv' /\ DirInv' /\ TreeInv'
  BY <1>2, <1>11, <1>12, <1>14, <1>15, <1>16, TreeKept
<1>18. SizeInv' /\ BlocksOwned'
  BY <1>2, BlocksKept
<1>19. CacheInv'
  BY <1>2, <1>7, <1>8 DEF CacheInv, Live
<1>20. LinkInv'
  <2>1. NamesElse(i, e)
    BY <1>2, <1>6 DEF NamesElse
  <2>2. ~Sub(i, e) /\ ~Sub(i, e)'
    BY <1>2, <1>3, <1>4, <1>6 DEF Sub, IsDir
  <2>3. ASSUME NEW j \in Inum
        PROVE  dinode'[j].nlink + One(dents[i][e] = j) + One(j = i /\ Sub(i, e))
                   + One(Owes(p) /\ l[p].ip = j)
                 >= dinode[j].nlink + One(dents'[i][e] = j) + One(j = i /\ Sub(i, e)')
                   + One(Owes(p)' /\ l'[p].ip = j)
    <3>1. dinode[j].nlink \in Nat /\ j # 0 /\ dinode'[j] = dinode[j]
      BY SMTT(30), <1>2, Here, Consts DEF Types, DInode
    <3>. QED
      BY <1>1, <1>3, <1>4, <1>6, <1>13, <2>2, <3>1 DEF One
  <2>. QED
    BY <1>11, <1>12, <2>1, <2>3, NameMove
<1>21. \A j \in Inum : icache'[j].ref + Share(p, j) = icache[j].ref + Share(p, j)'
  <2>1. \A j \in Inum : j # 0 /\ icache[j].ref \in Nat /\ icache'[j].ref = icache[j].ref
    BY <1>7, <1>8, Here, Consts DEF Entry
  <2>. QED
    BY <1>1, <1>2, <1>13, <2>1 DEF Share, One, fileVars
<1>22. \A j \in Inum : lock'[j] = p <=> Locks(p, j)'
  BY <1>2, <1>13, Here DEF Locks
<1>. QED
  BY <1>2, <1>11, <1>12, <1>17, <1>18, <1>19, <1>20, <1>21, <1>22, DiskStep

\* unlink() that erases a name, and owes the decrement, preserves the
\* invariant.
LEMMA UnlinkEntry_Removes ==
  ASSUME IInv, NEW p \in Proc, UnlinkEntry(p), Removable(ilock(l[p].ip)[l[p].ip].d, l[p].ip)
  PROVE  IInv'
<1>. DEFINE r == [l[p] EXCEPT !.dp = 0]
<1>1. PICK i \in Inum, ip \in Inum : i = l[p].dp /\ ip = l[p].ip
  BY SMTT(30), Here DEF UnlinkEntry, Loc, Ctl, Locals, Inum0
<1>2. /\ pc[p] = "unlink" /\ Loc(p) = "unlink" /\ l[p].wp = 0 /\ l[p].drop = 0
      /\ CanLock(ip) /\ lock' = [lock EXCEPT ![i] = NoProc, ![ip] = p]
      /\ iput(p, r, i, "erased")
      /\ dents' = [dents EXCEPT ![i][Head(l[p].elems)] = 0]
      /\ used' = used /\ UNCHANGED fileVars /\ cwd[p] # 0
  BY <1>1, Here DEF UnlinkEntry, Loc, Ctl
<1>3. iupdate(ilock(ip), i,
              [icache[i].d EXCEPT !.nlink = IF ilock(ip)[ip].d.type = "dir" THEN @ - 1 ELSE @])
  BY <1>1 DEF UnlinkEntry
<1>4. PICK e \in Name : e = Head(l[p].elems) /\ dents[i][e] = ip /\ IsDir(i)
  BY <1>1, <1>2, Here DEF NameOf
<1>5. dents' = [dents EXCEPT ![i][e] = 0] /\ dents \in [Inum -> [Name \cup {".."} -> Inum0]]
  BY <1>2, <1>4, Here DEF Types
<1>6. /\ dents' \in [Inum -> [Name \cup {".."} -> Inum0]] /\ dents'[i][e] = 0
      /\ \A x \in Inum, n \in Name \cup {".."} : x # i \/ n # e => dents'[x][n] = dents[x][n]
      /\ \A x \in Inum \ {i} : dents'[x] = dents[x]
  BY <1>5 DEF Inum0
<1>. DEFINE c == ilock(ip)
<1>7. /\ c \in [Inum -> Entry] /\ c[ip].valid /\ c[ip].d = dinode[ip]
      /\ Live(ip) /\ lock[ip] = NoProc
      /\ \A j \in Inum : c[j].ref = icache[j].ref
      /\ \A j \in Inum : c[j].valid => c[j].d = dinode[j] /\ Live(j)
      /\ \A j \in Inum : lock[j] # NoProc => c[j].valid
  BY <1>2, IlockIs
<1>8. lock[i] = p /\ icache[i].d = dinode[i] /\ ip # i
  <2>1. lock[i] = p
    BY <1>1, <1>2, Here DEF Locks
  <2>2. lock[i] # NoProc
    BY <2>1, Consts
  <2>. QED
    BY <1>7, <2>1, <2>2, Here
<1>9. PICK k \in Nat : /\ k + One(IsDir(ip)) = dinode[i].nlink
                       /\ iupdate(c, i, [dinode[i] EXCEPT !.nlink = k])
  <2>1. dinode[i].nlink \in Nat
    BY Here DEF Types, DInode
  <2>2. IsDir(ip) => dinode[i].nlink > 0
    <3>. SUFFICES ASSUME IsDir(ip) PROVE dinode[i].nlink # 0
      BY <2>1
    <3>1. e \in Subdirs(i)
      BY <1>4, Consts DEF Subdirs
    <3>. QED
      BY <3>1, NoLinks
  <2>3. c[ip].d.type = "dir" <=> IsDir(ip)
    BY <1>7 DEF IsDir
  <2>4. iupdate(c, i, [dinode[i] EXCEPT !.nlink = IF IsDir(ip) THEN @ - 1 ELSE @])
    BY <1>3, <1>8, <2>3
  <2>5. CASE IsDir(ip)
    <3>1. PICK k \in Nat : k = dinode[i].nlink - 1
      BY <2>1, <2>2, <2>5
    <3>2. iupdate(c, i, [dinode[i] EXCEPT !.nlink = k])
      BY <2>4, <2>5, <3>1
    <3>3. k + One(IsDir(ip)) = dinode[i].nlink
      BY <2>1, <2>5, <3>1 DEF One
    <3>. QED
      BY <3>2, <3>3
  <2>6. CASE ~IsDir(ip)
    <3>1. PICK k \in Nat : k = dinode[i].nlink
      BY <2>1
    <3>2. iupdate(c, i, [dinode[i] EXCEPT !.nlink = k])
      BY <2>4, <2>6, <3>1
    <3>3. k + One(IsDir(ip)) = dinode[i].nlink
      BY <2>6, <3>1 DEF One
    <3>. QED
      BY <3>2, <3>3
  <2>. QED
    BY <2>5, <2>6
<1>. HIDE DEF c
<1>. DEFINE d == [dinode[i] EXCEPT !.nlink = k]
<1>10. /\ d \in DInode /\ d.nlink = k /\ d.type = dinode[i].type /\ d.data = dinode[i].data
       /\ d.ind = dinode[i].ind
  BY Here, NlinkSet DEF Types
<1>11. iupdate(c, i, d)
  BY <1>9
<1>. HIDE DEF d
<1>12. /\ icache' \in [Inum -> Entry] /\ dinode' \in [Inum -> DInode]
       /\ icache'[i].d = d /\ dinode'[i] = d
       /\ \A j \in Inum : icache'[j].ref = c[j].ref /\ icache'[j].valid = c[j].valid
       /\ \A j \in Inum \ {i} : icache'[j].d = c[j].d /\ dinode'[j] = dinode[j]
  BY <1>7, <1>10, <1>11, iupdateIs
<1>13. \A j \in Inum : /\ dinode'[j].type = dinode[j].type /\ dinode'[j].data = dinode[j].data
                       /\ dinode'[j].ind = dinode[j].ind
  BY <1>10, <1>12
<1>14. Becomes(l[p], r, l[p].wp, l[p].ip, 0)
  BY Here, Zero, DpSet
<1>. HIDE DEF r
<1>15. Putting(p, r, i, "erased")
  <2>1. r \in Locals /\ "erased" \in Location
    BY <1>14 DEF Becomes, Location
  <2>. QED
    BY <1>2, <2>1, Here, iputIs
<1>16. Alone(p)
  BY <1>2, <1>15 DEF Alone, Putting, fileVars
<1>17. /\ lock' \in [Inum -> Proc \cup {NoProc}]
       /\ \A j \in Inum : lock'[j] = IF j = ip THEN p ELSE IF j = i THEN NoProc ELSE lock[j]
  BY <1>2, <1>8, Here
<1>18. Types'
  BY <1>2, <1>6, <1>12, <1>15, <1>17, Here DEF Types, Putting, fileVars
<1>19. /\ Owes(p)' /\ l'[p].ip = ip /\ l'[p].dp = 0 /\ l'[p].wp = 0 /\ Loc(p)' = "erased"
       /\ l'[p].drop = i /\ ~Owes(p)
  BY <1>1, <1>2, <1>14, <1>15 DEF Owes, Putting, Becomes
<1>20. Ctl(p)'
  BY <1>1, <1>2, <1>15, <1>19, Here, Consts DEF Ctl, Putting, fileVars
<1>21. LiveOf(p)' /\ NameOf(p)'
  <2>1. cwd[p] # 0 => Live(cwd[p])
    BY Here DEF LiveOf
  <2>2. cwd'[p] = cwd[p] /\ cwd[p] \in Inum0
    BY <1>2, Here DEF fileVars
  <2>3. \A j \in Inum : dinode'[j].type = "free" <=> dinode[j].type = "free"
    BY <1>13
  <2>. QED
    BY <1>7, <1>19, <2>1, <2>2, <2>3 DEF LiveOf, NameOf, Live, Inum0
<1>22. KeptTree(p)
  <2>1. \A j \in Inum : dents'[j][".."] = dents[j][".."] /\ (~IsDir(j) => dents'[j] = dents[j])
    BY <1>4, <1>6, Consts
  <2>2. \A x \in Inum, n \in Name :
       dents'[x][n] # 0 /\ IsDir(dents'[x][n]) => dents'[x][n] = dents[x][n]
    BY <1>6
  <2>3. \A s \in Proc \ {p} : Loc(s) = "unlink" => dents'[l[s].dp] = dents[l[s].dp]
    <3>. SUFFICES ASSUME NEW s \in Proc \ {p}, Loc(s) = "unlink"
                  PROVE  dents'[l[s].dp] = dents[l[s].dp]
      OBVIOUS
    <3>1. l[s].dp # i
      BY <1>8, UnlinkElsewhere
    <3>2. l[s].dp \in Inum
      BY Here DEF Ctl, Locals, Inum0
    <3>. QED
      BY <1>6, <3>1, <3>2
  <2>4. \A j \in Inum : ~Live(j) => dinode'[j] = dinode[j]
    BY <1>4, <1>12 DEF Live, IsDir
  <2>. QED
    BY <1>13, <2>1, <2>2, <2>3, <2>4 DEF KeptTree
<1>23. CtlInv' /\ LiveInv' /\ NameInv' /\ DirInv' /\ TreeInv'
  BY <1>2, <1>16, <1>18, <1>20, <1>21, <1>22, TreeKept
<1>24. SizeInv' /\ BlocksOwned'
  BY <1>2, <1>13, BlocksKept
<1>25. CacheInv'
  <2>1. \A j \in Inum : icache'[j].valid => icache'[j].d = dinode'[j] /\ dinode'[j].type # "free"
    BY <1>7, <1>12, <1>13 DEF Live
  <2>2. \A j \in Inum : lock'[j] # NoProc => icache'[j].valid
    BY <1>7, <1>12, <1>17
  <2>. QED
    BY <2>1, <2>2 DEF CacheInv
<1>26. LinkInv'
  <2>1. NamesElse(i, e)
    <3>1. \A x \in Inum, n \in Name : dents[x][n] # 0 => dents[x][n] \in Inum
      BY <1>5 DEF Inum0
    <3>. QED
      BY <1>6, <1>13, <3>1 DEF NamesElse
  <2>2. (Sub(i, e) <=> IsDir(ip)) /\ ~Sub(i, e)'
    BY <1>4, <1>6, Consts DEF Sub
  <2>3. ASSUME NEW j \in Inum
        PROVE  dinode'[j].nlink + One(dents[i][e] = j) + One(j = i /\ Sub(i, e))
                   + One(Owes(p) /\ l[p].ip = j)
                 >= dinode[j].nlink + One(dents'[i][e] = j) + One(j = i /\ Sub(i, e)')
                   + One(Owes(p)' /\ l'[p].ip = j)
    <3>1. dinode[j].nlink \in Nat /\ j # 0 /\ dinode'[j].nlink \in Nat
      BY <1>18, Consts DEF IInv, Types, DInode
    <3>2. dinode'[j].nlink + One(j = i /\ IsDir(ip)) = dinode[j].nlink
      BY <1>9, <1>10, <1>12, <3>1 DEF One
    <3>3. /\ One(dents[i][e] = j) = One(ip = j) /\ One(dents'[i][e] = j) = 0
          /\ One(j = i /\ Sub(i, e)) = One(j = i /\ IsDir(ip))
          /\ One(j = i /\ Sub(i, e)') = 0 /\ One(Owes(p) /\ l[p].ip = j) = 0
          /\ One(Owes(p)' /\ l'[p].ip = j) = One(ip = j)
          /\ One(ip = j) \in Nat /\ One(j = i /\ IsDir(ip)) \in Nat
      BY <1>4, <1>6, <1>19, <2>2, <3>1 DEF One
    <3>. QED
      BY <3>1, <3>2, <3>3
  <2>. QED
    BY <1>16, <1>18, <2>1, <2>3, NameMove
<1>27. \A j \in Inum : icache'[j].ref + Share(p, j) = icache[j].ref + Share(p, j)'
  <2>1. \A j \in Inum : j # 0 /\ icache[j].ref \in Nat /\ icache'[j].ref = icache[j].ref
    <3>1. \A j \in Inum : j # 0 /\ icache[j].ref \in Nat
      BY Here, Consts DEF Entry
    <3>. QED
      BY <1>7, <1>12, <3>1
  <2>. QED
    BY <1>1, <1>2, <1>19, <2>1 DEF Share, One, fileVars
<1>28. \A j \in Inum : lock'[j] = p <=> Locks(p, j)'
  BY <1>1, <1>2, <1>8, <1>17, <1>19, Here, Consts DEF Locks
<1>29. \A j \in Inum, q \in Proc \ {p} : lock'[j] = q <=> lock[j] = q
  BY <1>7, <1>8, <1>17, Consts
<1>. QED
  BY <1>2, <1>16, <1>18, <1>23, <1>24, <1>25, <1>26, <1>27, <1>28, <1>29, DiskStep

\* A free inode has no link and no block.
LEMMA NoInodeHas ==
  /\ NoInode.type = "free" /\ NoInode.nlink = 0 /\ NoInode.data = <<>> /\ NoInode.ind = 0
  /\ Blocks(NoInode) = {} /\ Distinct(NoInode)
  BY DEF NoInode, Blocks, Distinct

\* A new directory has no name yet.
LEMMA NoEntriesIs ==
  /\ NoEntries \in [Name \cup {".."} -> Inum0]
  /\ \A n \in Name \cup {".."} : NoEntries[n] = 0
  BY DEF NoEntries, Inum0

\* iput() frees the inode.
LEMMA Iput_Frees ==
  ASSUME IInv, NEW p \in Proc, Iput(p), Unused(l[p].drop)
  PROVE  IInv'
<1>1. PICK i \in Inum : i = l[p].drop
  BY Here DEF Iput, Ctl, Locals, Inum0
<1>2. /\ pc[p] = "put" /\ lock[i] = NoProc
      /\ icache[i].valid /\ icache[i].d.nlink = 0 /\ icache[i].ref = 1
      /\ used' = used \ Blocks(icache[i].d)
      /\ dinode' = [dinode EXCEPT ![i] = NoInode]
      /\ dents' = [dents EXCEPT ![i] = NoEntries]
      /\ icache' = [icache EXCEPT ![i] = [ref |-> @.ref, valid |-> FALSE, d |-> NoInode]]
      /\ pc' = [pc EXCEPT ![p] = "deref"]
      /\ lock' = lock /\ l' = l /\ UNCHANGED fileVars
  BY <1>1 DEF Iput, Unused, itrunc, Goto
<1>3. icache[i].d = dinode[i] /\ dinode[i].nlink = 0
  BY <1>2, Here
<1>4. Entries(i) = {} /\ Subdirs(i) = {} /\ Owing(i) = {} /\ i # ROOTINO
  BY <1>3, NoLinks
<1>5. /\ \A q \in Proc : l[q].wp # i /\ l[q].ip # i /\ l[q].dp # i /\ cwd[q] # i
      /\ \A f \in File : ftable[f].ip # i
  BY <1>1, <1>2, OnlyRef
<1>6. /\ dinode' \in [Inum -> DInode] /\ dinode'[i] = NoInode
      /\ \A j \in Inum \ {i} : dinode'[j] = dinode[j]
  BY <1>2, NoInodeIs, Here DEF Types
<1>7. /\ dents' \in [Inum -> [Name \cup {".."} -> Inum0]] /\ dents'[i] = NoEntries
      /\ \A j \in Inum \ {i} : dents'[j] = dents[j]
  BY <1>2, NoEntriesIs, Here DEF Types
<1>8. /\ icache' \in [Inum -> Entry] /\ ~icache'[i].valid
      /\ \A j \in Inum : icache'[j].ref = icache[j].ref
      /\ \A j \in Inum \ {i} : icache'[j] = icache[j]
  <2>1. icache \in [Inum -> Entry] /\ icache[i].ref \in Nat
    BY Here DEF Entry
  <2>2. [ref |-> icache[i].ref, valid |-> FALSE, d |-> NoInode] \in Entry
    BY <2>1, NoInodeIs DEF Entry
  <2>. QED
    BY <1>2, <2>1, <2>2
<1>9. pc' \in [Proc -> Location \cup {"put", "deref"}] /\ \A q \in Proc \ {p} : pc'[q] = pc[q]
  BY <1>2, Here DEF Types
<1>10. Types'
  <2>1. used' \subseteq Block
    BY <1>2, Here DEF Types
  <2>. QED
    BY <1>2, <1>6, <1>7, <1>8, <1>9, <2>1, Here DEF Types, fileVars
<1>11. Alone(p)
  BY <1>2, <1>9 DEF Alone, fileVars
<1>12. \A q \in Proc : Loc(q)' = Loc(q) /\ (Owes(q)' <=> Owes(q))
  <2>1. Loc(p)' = Loc(p)
    BY <1>2, Here DEF Loc, Types
  <2>2. \A q \in Proc : Loc(q)' = Loc(q)
    BY <1>2, <1>9, <2>1 DEF Loc
  <2>. QED
    BY <1>2, <2>2 DEF Owes
<1>13. \A j \in Inum \ {i} : (Live(j)' <=> Live(j)) /\ (IsDir(j)' <=> IsDir(j))
  BY <1>6 DEF Live, IsDir
<1>14. ASSUME NEW q \in Proc PROVE Ctl(q)' /\ LiveOf(q)' /\ NameOf(q)'
  <2>1. Ctl(q) /\ LiveOf(q) /\ NameOf(q) /\ l[q] \in Locals /\ cwd[q] \in Inum0
    BY Here
  <2>2. /\ Loc(q)' = Loc(q) /\ (Owes(q)' <=> Owes(q)) /\ l'[q] = l[q]
        /\ cwd'[q] = cwd[q] /\ ofile'[q] = ofile[q]
    BY <1>2, <1>12 DEF fileVars
  <2>3. pc'[q] \in {"put", "deref"} <=> pc[q] \in {"put", "deref"}
    BY <1>2, <1>9, <1>10 DEF Types
  <2>4. Ctl(q)'
    BY <2>1, <2>2, <2>3 DEF Ctl
  <2>5. /\ l[q].ip \in Inum0 /\ l[q].dp \in Inum0 /\ l[q].wp \in Inum0
        /\ l[q].wp # i /\ l[q].ip # i /\ l[q].dp # i /\ cwd[q] # i
    BY <1>5, <2>1 DEF Locals
  <2>6. \A j \in Inum0 : j # 0 /\ j # i => (dinode'[j] = dinode[j]) /\ dents'[j] = dents[j]
    BY <1>6, <1>7 DEF Inum0
  <2>7. LiveOf(q)'
    BY <2>1, <2>2, <2>5, <2>6 DEF LiveOf, Live
  <2>8. /\ (Loc(q) = "named" => l[q].wp # 0) /\ (Owes(q) => l[q].ip # 0)
        /\ (Loc(q) = "unlink" => l[q].dp # 0)
    BY <2>1 DEF Ctl, Owes
  <2>9. NameOf(q)'
    BY <2>1, <2>2, <2>5, <2>6, <2>8 DEF NameOf, IsDir
  <2>. QED
    BY <2>4, <2>7, <2>9
<1>15. CtlInv' /\ NameInv'
  BY <1>14 DEF CtlInv, NameInv
<1>16. LiveInv'
  <2>1. \A f \in File : ftable'[f] = ftable[f] /\ ftable[f].ip \in Inum0 /\ ftable[f].ip # i
    BY <1>2, <1>5, Here DEF fileVars, Types
  <2>2. \A f \in File : ftable[f].ip # 0 => dinode[ftable[f].ip].type # "free"
    BY DEF IInv, LiveInv, Live
  <2>3. \A f \in File : ftable'[f].ip # 0 => dinode'[ftable'[f].ip].type # "free"
    BY <1>6, <2>1, <2>2 DEF Inum0
  <2>. QED
    BY <1>14, <2>3 DEF LiveInv, Live
<1>17. \A x \in Inum, n \in Name : dents'[x][n] # 0 =>
         x # i /\ dents'[x][n] = dents[x][n] /\ dents[x][n] \in Inum \ {i}
  <2>. SUFFICES ASSUME NEW x \in Inum, NEW n \in Name, dents'[x][n] # 0
                PROVE  x # i /\ dents'[x][n] = dents[x][n] /\ dents[x][n] \in Inum \ {i}
    OBVIOUS
  <2>1. x # i
    BY <1>7, NoEntriesIs
  <2>2. dents'[x][n] = dents[x][n] /\ dents[x][n] \in Inum
    BY <1>7, <2>1 DEF Inum0
  <2>3. dents[x][n] # i
    <3>1. <<x, n>> \notin Entries(i)
      BY <1>4
    <3>. QED
      BY <3>1 DEF Entries
  <2>. QED
    BY <2>1, <2>2, <2>3
<1>18. DirInv'
  <2>1. dinode'[ROOTINO].type = "dir" /\ dents'[ROOTINO][".."] = ROOTINO
    BY <1>4, <1>6, <1>7, Consts DEF IInv, DirInv, IsDir
  <2>2. ASSUME NEW j \in Inum
        PROVE  /\ dinode'[j].type = "free" => dinode'[j] = NoInode
               /\ dinode'[j].type # "dir" => dents'[j] = NoEntries
               /\ dinode'[j].type = "dir" => dents'[j][".."] # 0
    <3>1. CASE j = i
      BY <1>6, <1>7, <3>1, NoInodeHas
    <3>2. CASE j # i
      BY <1>6, <1>7, <3>2 DEF IInv, DirInv, Live, IsDir
    <3>. QED
      BY <3>1, <3>2
  <2>3. ASSUME NEW x \in Inum, NEW n \in Name,
               dents'[x][n] # 0, dinode'[dents'[x][n]].type = "dir"
        PROVE  dents'[dents'[x][n]][".."] = x
    <3>1. x # i /\ dents'[x][n] = dents[x][n] /\ dents[x][n] \in Inum \ {i}
      BY <1>17, <2>3
    <3>2. dinode[dents[x][n]].type = "dir" /\ dents[x][n] # 0
      BY <1>6, <2>3, <3>1
    <3>3. dents[dents[x][n]][".."] = x
      BY <3>2 DEF IInv, DirInv, IsDir
    <3>. QED
      BY <1>7, <3>1, <3>3
  <2>. QED
    BY <2>1, <2>2, <2>3 DEF DirInv, Live, IsDir
<1>19. TreeInv'
  <2>1. PICK m \in Nat, rank \in [Inum -> Nat] : Ranks(rank, m)
    BY DEF IInv, TreeInv
  <2>2. ASSUME NEW x \in Inum, NEW n \in Name,
               dents'[x][n] # 0, dinode'[dents'[x][n]].type = "dir"
        PROVE  rank[x] < rank[dents'[x][n]]
    <3>1. x # i /\ dents'[x][n] = dents[x][n] /\ dents[x][n] \in Inum \ {i}
      BY <1>17, <2>2
    <3>2. dinode[dents[x][n]].type = "dir" /\ dents[x][n] # 0
      BY <1>6, <2>2, <3>1
    <3>. QED
      BY <2>1, <3>1, <3>2 DEF Ranks, IsDir
  <2>3. \A j \in Inum : rank[j] <= m
    BY <2>1 DEF Ranks
  <2>. QED
    BY <2>2, <2>3 DEF TreeInv, Ranks, IsDir
<1>20. LinkInv'
  <2>. SUFFICES ASSUME NEW j \in Inum
                PROVE  dinode'[j].nlink >= Cardinality(Entries(j)') + Cardinality(Subdirs(j)')
                         + Cardinality(Owing(j)') + (IF j = ROOTINO THEN 1 ELSE 0)
    BY DEF LinkInv
  <2>1. Entries(j)' \subseteq Entries(j)
    <3>1. ASSUME NEW x \in Inum, NEW n \in Name, dents'[x][n] = j PROVE dents[x][n] = j
      BY <1>17, <3>1, Consts
    <3>. QED
      BY <3>1 DEF Entries
  <2>2. Subdirs(j)' \subseteq Subdirs(j)
    BY <1>6, <1>17 DEF Subdirs, IsDir
  <2>3. Owing(j)' = Owing(j)
    BY <1>2, <1>12 DEF Owing
  <2>4. /\ Cardinality(Entries(j)') <= Cardinality(Entries(j))
        /\ Cardinality(Subdirs(j)') <= Cardinality(Subdirs(j))
        /\ Cardinality(Entries(j)') \in Nat /\ Cardinality(Subdirs(j)') \in Nat
        /\ Cardinality(Entries(j)) \in Nat /\ Cardinality(Subdirs(j)) \in Nat
        /\ Cardinality(Owing(j)) \in Nat
    BY <2>1, <2>2, LinkSets, FS_Subset, FS_CardinalityType
  <2>5. dinode[j].nlink >= Cardinality(Entries(j)) + Cardinality(Subdirs(j))
                             + Cardinality(Owing(j)) + (IF j = ROOTINO THEN 1 ELSE 0)
    BY DEF IInv, LinkInv
  <2>6. dinode'[j].nlink = dinode[j].nlink /\ dinode[j].nlink \in Nat
    <3>1. dinode'[i].nlink = 0
      BY <1>6, NoInodeHas
    <3>. QED
      BY <1>3, <1>6, <3>1, Here DEF Types, DInode
  <2>. QED
    BY <2>3, <2>4, <2>5, <2>6
<1>21. SizeInv'
  <2>1. Len(dinode'[i].data) = 0 /\ dinode'[i].ind = 0
    BY <1>6, NoInodeHas
  <2>. QED
    BY <1>6, <2>1, Consts DEF IInv, SizeInv
<1>22. BlocksOwned'
  <2>1. BlocksOwned
    BY DEF IInv
  <2>. DEFINE B(j) == Blocks(dinode[j])
              C(j) == Blocks(dinode'[j])
  <2>2. /\ C(i) = {} /\ Distinct(dinode'[i])
        /\ \A j \in Inum \ {i} : C(j) = B(j) /\ (Distinct(dinode'[j]) <=> Distinct(dinode[j]))
    BY <1>6, NoInodeHas
  <2>3. used = UNION {B(j) : j \in Inum} /\ \A j, k \in Inum : j # k => B(j) \cap B(k) = {}
    BY <2>1 DEF BlocksOwned
  <2>4. used' = used \ B(i)
    BY <1>2, <1>3
  <2>5. \A j \in Inum : Distinct(dinode'[j])
    BY <2>1, <2>2 DEF BlocksOwned
  <2>. HIDE DEF B, C
  <2>6. used' = UNION {C(j) : j \in Inum}
    <3>1. ASSUME NEW b \in used' PROVE \E j \in Inum : b \in C(j)
      <4>1. b \in used /\ b \notin B(i)
        BY <2>4
      <4>2. PICK j \in Inum : b \in B(j)
        BY <2>3, <4>1
      <4>. QED
        BY <2>2, <4>1, <4>2
    <3>2. ASSUME NEW j \in Inum, NEW b \in C(j) PROVE b \in used'
      <4>1. j # i /\ b \in B(j)
        BY <2>2
      <4>2. b \in used /\ b \notin B(i)
        BY <2>3, <4>1
      <4>. QED
        BY <2>4, <4>2
    <3>. QED
      BY <3>1, <3>2
  <2>7. \A j, k \in Inum : j # k => C(j) \cap C(k) = {}
    BY <2>2, <2>3
  <2>8. BlocksOwned' <=> (/\ used' = UNION {Blocks(dinode'[j]) : j \in Inum}
                          /\ \A j \in Inum : Distinct(dinode'[j])
                          /\ \A j, k \in Inum :
                               j # k => Blocks(dinode'[j]) \cap Blocks(dinode'[k]) = {})
    BY DEF BlocksOwned
  <2>. QED
    BY <2>5, <2>6, <2>7, <2>8 DEF C
<1>23. CacheInv'
  <2>1. \A j \in Inum : icache'[j].valid => icache'[j].d = dinode'[j] /\ dinode'[j].type # "free"
    BY <1>6, <1>8, Here DEF Live
  <2>2. \A j \in Inum : lock'[j] # NoProc => icache'[j].valid
    BY <1>2, <1>8, Here
  <2>. QED
    BY <2>1, <2>2 DEF CacheInv
<1>24. \A j \in Inum : icache'[j].ref + Share(p, j) = icache[j].ref + Share(p, j)'
  BY <1>2, <1>8 DEF Share, fileVars
<1>25. \A j \in Inum : lock'[j] = p <=> Locks(p, j)'
  BY <1>2, <1>12, Here DEF Locks
<1>. QED
  BY <1>2, <1>10, <1>11, <1>15, <1>16, <1>18, <1>19, <1>20, <1>21, <1>22, <1>23, <1>24,
     <1>25,
     DiskStep

\* d is a new inode for create() of kind op: it has one link, and its block was free.
NewFor(op, d) ==
  /\ d \in DInode /\ d.nlink = 1 /\ d.type # "free" /\ (d.type = "dir" <=> op = "mkdir")
  /\ d.ind = 0 /\ Len(d.data) <= 1
  /\ Distinct(d) /\ Blocks(d) \subseteq Block /\ Blocks(d) \cap used = {}

\* An inode with one block has it once.
LEMMA OneBlock ==
  ASSUME NEW d, NEW b, d.data = <<b>>, d.ind = 0, b # 0
  PROVE  Distinct(d) /\ Blocks(d) = {b} /\ Len(d.data) = 1
<1>1. Len(<<b>>) = 1 /\ <<b>>[1] = b
  OBVIOUS
<1>2. Len(d.data) = 1 /\ d.data[1] = b
  BY <1>1
<1>3. 1 .. Len(d.data) = {1}
  BY <1>2
<1>. QED
  BY <1>2, <1>3 DEF Distinct, Blocks

\* What create() writes to a new inode: one link, and a block if it is a
\* directory.
LEMMA NewInodeIs ==
  ASSUME NEW op \in Creating, op = "mkdir" => FreeBlocks # {}
  PROVE  NewFor(op, NewInode(op))
<1>1. /\ Type(op) \in {"free", "dir", "file", "dev"} /\ Type(op) # "free"
      /\ Type(op) = "dir" <=> op = "mkdir"
  BY DEF Type, Creating
<1>2. CASE op = "mkdir"
  <2>1. PICK b : b = Min(FreeBlocks) /\ b \in FreeBlocks
    BY <1>2, MinIs, Consts DEF FreeBlocks
  <2>2. b \in Block /\ b \notin used /\ b # 0
    BY <2>1, Consts DEF FreeBlocks
  <2>. DEFINE s == <<b>>
  <2>3. s \in Seq(Block) /\ Len(s) = 1 /\ s[1] = b
    BY <2>2
  <2>4. NewInode(op) = [type |-> Type(op), nlink |-> 1, data |-> s, ind |-> 0]
    BY <1>2, <2>1 DEF NewInode
  <2>. HIDE DEF s
  <2>. DEFINE d == [type |-> Type(op), nlink |-> 1, data |-> s, ind |-> 0]
  <2>5. d \in DInode /\ d.nlink = 1 /\ d.type = Type(op) /\ d.ind = 0 /\ d.data = s
    BY <1>1, <2>3 DEF DInode
  <2>. HIDE DEF d
  <2>6. d.data = <<b>> /\ d.ind = 0
    BY <2>5 DEF s
  <2>7. Distinct(d) /\ Blocks(d) = {b} /\ Len(d.data) = 1
    BY <2>2, <2>6, OneBlock
  <2>8. NewFor(op, d)
    <3>1. Len(d.data) <= 1
      BY <2>7
    <3>2. Blocks(d) \subseteq Block /\ Blocks(d) \cap used = {}
      BY <2>2, <2>7
    <3>. QED
      BY <1>1, <2>5, <2>7, <3>1, <3>2 DEF NewFor
  <2>. QED
    BY <2>4, <2>8 DEF d
<1>3. CASE op # "mkdir"
  <2>. DEFINE d == [type |-> Type(op), nlink |-> 1, data |-> <<>>, ind |-> 0]
  <2>1. NewInode(op) = d
    BY <1>3 DEF NewInode
  <2>2. <<>> \in Seq(Block)
    OBVIOUS
  <2>3. d \in DInode /\ d.nlink = 1 /\ d.type = Type(op) /\ d.ind = 0 /\ d.data = <<>>
    BY <1>1, <2>2 DEF DInode
  <2>. HIDE DEF d
  <2>4. Distinct(d) /\ Blocks(d) = {}
    BY <2>3 DEF Distinct, Blocks
  <2>5. NewFor(op, d)
    BY <1>1, <2>3, <2>4 DEF NewFor
  <2>. QED
    BY <2>1, <2>5
<1>. QED
  BY <1>2, <1>3

\* t is the cache c with inode i updated and inode ip read.
CacheMade(c, t, i, ip, dd, d) ==
  t = [c EXCEPT ![i].d = dd, ![ip] = [ref |-> @.ref, valid |-> TRUE, d |-> d]]

\* create() writes two entries of the cache and keeps the others.
LEMMA CreatedCache ==
  ASSUME NEW c \in [Inum -> Entry], NEW i \in Inum, NEW ip \in Inum, i # ip,
         NEW dd \in DInode, NEW d \in DInode, NEW t, CacheMade(c, t, i, ip, dd, d)
  PROVE  /\ t \in [Inum -> Entry] /\ t[i].d = dd /\ t[ip].d = d /\ t[ip].valid
         /\ t[i].valid = c[i].valid /\ \A j \in Inum : t[j].ref = c[j].ref
         /\ \A j \in Inum \ {i, ip} : t[j] = c[j]
<1>. DEFINE u == [c EXCEPT ![i].d = dd]
<1>1. /\ u \in [Inum -> Entry] /\ u[i].d = dd /\ u[i].valid = c[i].valid /\ u[ip] = c[ip]
      /\ \A j \in Inum : u[j].ref = c[j].ref
      /\ \A j \in Inum \ {i} : u[j] = c[j]
  BY DEF Entry
<1>. DEFINE w == [ref |-> c[ip].ref, valid |-> TRUE, d |-> d]
<1>2. t = [u EXCEPT ![ip] = w]
  BY <1>1 DEF CacheMade
<1>3. w \in Entry /\ w.ref = c[ip].ref /\ w.valid = TRUE /\ w.d = d
  BY DEF Entry
<1>. HIDE DEF u, w
<1>. QED
  BY <1>1, <1>2, <1>3

\* Directory i gets the name e for inode ip, and this the parent u.
NamesMade(i, ip, e, u) == dents' = [dents EXCEPT ![i][e] = ip, ![ip][".."] = u]
NamesAre(i, ip, e, u) ==
  /\ dents' \in [Inum -> [Name \cup {".."} -> Inum0]]
  /\ dents'[i][e] = ip /\ dents'[ip][".."] = u
  /\ \A x \in Inum, n \in Name : x # i \/ n # e => dents'[x][n] = dents[x][n]
  /\ \A x \in Inum \ {ip} : dents'[x][".."] = dents[x][".."]
  /\ \A x \in Inum \ {i, ip} : dents'[x] = dents[x]

\* create() enters the new name, and the new directory's own ones.
LEMMA CreatedNames ==
  ASSUME NEW i \in Inum, NEW ip \in Inum, i # ip, NEW e \in Name, NEW u \in Inum0,
         dents \in [Inum -> [Name \cup {".."} -> Inum0]],
         NamesMade(i, ip, e, u)
  PROVE  NamesAre(i, ip, e, u)
  BY Consts DEF Inum0, NamesMade, NamesAre

\* A block that was free is given to inode i.
LEMMA BlocksGiven ==
  ASSUME IInv, NEW i \in Inum, NEW d, dinode'[i] = d,
         \A j \in Inum \ {i} : dinode'[j].data = dinode[j].data /\ dinode'[j].ind = dinode[j].ind,
         Distinct(d), Blocks(dinode[i]) \subseteq Blocks(d),
         Blocks(d) \cap used \subseteq Blocks(dinode[i]), used' = used \cup Blocks(d)
  PROVE  BlocksOwned'
<1>1. BlocksOwned
  BY DEF IInv
<1>. DEFINE B(j) == Blocks(dinode[j])
            C(j) == Blocks(dinode'[j])
<1>2. /\ C(i) = Blocks(d)
      /\ \A j \in Inum \ {i} : C(j) = B(j) /\ (Distinct(dinode'[j]) <=> Distinct(dinode[j]))
  BY DEF Blocks, Distinct
<1>3. used = UNION {B(j) : j \in Inum} /\ \A j, k \in Inum : j # k => B(j) \cap B(k) = {}
  BY <1>1 DEF BlocksOwned
<1>4. used' = used \cup C(i) /\ B(i) \subseteq C(i) /\ C(i) \cap used \subseteq B(i)
  BY <1>2
<1>5. \A j \in Inum : Distinct(dinode'[j])
  BY <1>1, <1>2 DEF BlocksOwned
<1>6. BlocksOwned' <=> (/\ used' = UNION {Blocks(dinode'[j]) : j \in Inum}
                        /\ \A j \in Inum : Distinct(dinode'[j])
                        /\ \A j, k \in Inum :
                             j # k => Blocks(dinode'[j]) \cap Blocks(dinode'[k]) = {})
  BY DEF BlocksOwned
<1>7. C(i) = Blocks(dinode'[i])
  OBVIOUS
<1>. HIDE DEF B, C
<1>8. used' = UNION {C(j) : j \in Inum}
  <2>1. ASSUME NEW b \in used' PROVE \E j \in Inum : b \in C(j)
    <3>1. CASE b \in C(i)
      BY <3>1
    <3>2. CASE b \in used
      <4>1. PICK j \in Inum : b \in B(j)
        BY <1>3, <3>2
      <4>. QED
        BY <1>2, <1>4, <4>1
    <3>. QED
      BY <1>4, <3>1, <3>2
  <2>2. ASSUME NEW j \in Inum, NEW b \in C(j) PROVE b \in used'
    <3>1. CASE j = i
      BY <1>4, <3>1
    <3>2. CASE j # i
      <4>1. b \in B(j)
        BY <1>2, <3>2
      <4>. QED
        BY <1>3, <1>4, <4>1
    <3>. QED
      BY <3>1, <3>2
  <2>. QED
    BY <2>1, <2>2
<1>9. ASSUME NEW j \in Inum \ {i} PROVE C(i) \cap C(j) = {}
  <2>1. C(j) \subseteq used /\ C(j) \cap B(i) = {}
    BY <1>2, <1>3
  <2>. QED
    BY <1>4, <2>1
<1>10. \A j, k \in Inum : j # k => C(j) \cap C(k) = {}
  BY <1>2, <1>3, <1>9
<1>. QED
  BY <1>5, <1>6, <1>8, <1>10 DEF C

\* The step CreateNew preserves the invariant.
LEMMA CreateNew_Inv ==
  ASSUME IInv, NEW p \in Proc, CreateNew(p)
  PROVE  IInv'
<1>1. PICK i \in Inum, op \in Creating : i = l[p].wp /\ op = l[p].op
  BY Here DEF CreateNew, Named, Loc, Ctl, Locals, Inum0
<1>2. /\ pc[p] = "named" /\ Loc(p) = "named" /\ l[p].ip = 0 /\ l[p].dp = 0
      /\ l[p].drop = 0 /\ l[p].parent /\ Len(l[p].elems) = 1 /\ CanLock(i) /\ cwd[p] # 0
  BY <1>1, Here DEF CreateNew, Named, Loc, Ctl, Creating
<1>3. PICK ip \in Inum : ip = Min(FreeInums) /\ dinode[ip].type = "free" /\ lock[ip] = NoProc
  BY MinIs, Consts DEF CreateNew, FreeInums
<1>. DEFINE r == [l[p] EXCEPT !.wp = 0, !.ip = ip]
            c == iget(ilock(i), ip)
            dd == [ilock(i)[i].d EXCEPT !.nlink = IF op = "mkdir" THEN @ + 1 ELSE @]
            d == NewInode(op)
            u == IF op = "mkdir" THEN i ELSE 0
<1>4. /\ dirlookup(i, Head(l[p].elems)) = 0 /\ (op = "mkdir" => FreeBlocks # {})
      /\ icache' = [c EXCEPT ![i].d = dd, ![ip] = [ref |-> @.ref, valid |-> TRUE, d |-> d]]
      /\ dinode' = [dinode EXCEPT ![i] = dd, ![ip] = d]
      /\ dents' = [dents EXCEPT ![i][Head(l[p].elems)] = ip, ![ip][".."] = u]
      /\ used' = used \cup Blocks(d)
      /\ lock' = [lock EXCEPT ![ip] = p] /\ iput(p, r, i, "made") /\ UNCHANGED fileVars
  BY <1>1, <1>3 DEF CreateNew, wpd
<1>5. IsDir(i) /\ ~Owes(p)
  BY <1>1, <1>2, Here DEF NameOf, Owes
<1>6. /\ i # ip /\ dinode[ip] = NoInode /\ dents[ip] = NoEntries /\ dinode[ip].nlink = 0
      /\ ~icache[ip].valid /\ ip # ROOTINO
  <2>1. i # ip
    BY <1>3, <1>5 DEF IsDir
  <2>2. dinode[ip] = NoInode /\ dents[ip] = NoEntries /\ ip # ROOTINO
    BY <1>3 DEF IInv, DirInv, Live, IsDir
  <2>. QED
    BY <1>3, <2>1, <2>2, NoInodeHas, Here DEF Live
<1>7. Entries(ip) = {} /\ Owing(ip) = {}
  BY SMTT(30), <1>6, NoLinks
<1>8. PICK e \in Name : e = Head(l[p].elems) /\ dents[i][e] = 0
  <2>1. l[p].elems # <<>>
    <3>1. l[p].elems \in Seq(Elem)
      BY Here DEF Locals
    <3>. QED
      BY <1>2, <3>1
  <2>2. Head(l[p].elems) \in Elem
    BY <2>1, FirstIs
  <2>3. dents[i][".."] # 0
    BY <1>5 DEF IInv, DirInv
  <2>. QED
    BY <1>1, <1>4, <2>2, <2>3, Consts DEF dirlookup, Elem
<1>9. /\ c \in [Inum -> Entry] /\ c[i].valid /\ Live(i) /\ lock[i] = NoProc
      /\ \A j \in Inum : c[j].ref = icache[j].ref + One(j = ip)
      /\ \A j \in Inum : c[j].valid => c[j].d = dinode[j] /\ Live(j)
      /\ \A j \in Inum : lock[j] # NoProc => c[j].valid
  BY <1>2, IlockGetIs
<1>10. /\ dd \in DInode /\ dd.nlink = dinode[i].nlink + One(op = "mkdir")
       /\ dd.type = dinode[i].type /\ dd.data = dinode[i].data /\ dd.ind = dinode[i].ind
  <2>1. ilock(i)[i].d = dinode[i]
    BY <1>2, IlockIs
  <2>2. dinode[i] \in DInode /\ dinode[i].nlink \in Nat
    BY Here DEF Types, DInode
  <2>3. PICK k \in Nat : k = dinode[i].nlink + One(op = "mkdir")
    BY <2>2 DEF One
  <2>4. dd = [dinode[i] EXCEPT !.nlink = k]
    BY <2>1, <2>2, <2>3 DEF One
  <2>. HIDE DEF dd
  <2>. QED
    BY <2>2, <2>3, <2>4, NlinkSet
<1>11. NewFor(op, d)
  BY <1>4, NewInodeIs
<1>12. d \in DInode /\ d.nlink = 1 /\ d.type # "free" /\ (d.type = "dir" <=> op = "mkdir")
  BY <1>11 DEF NewFor
<1>13. u \in Inum0 /\ (op = "mkdir" => u = i) /\ (op # "mkdir" => u = 0)
  BY DEF Inum0
<1>14. Becomes(l[p], r, 0, ip, l[p].dp)
  <2>1. Becomes(l[p], WpIp(l[p], 0, ip), 0, ip, l[p].dp)
    BY Here, Zero, WpIpSet
  <2>. QED
    BY <2>1 DEF WpIp
<1>. HIDE DEF r, c, dd, d, u
<1>15. /\ icache' \in [Inum -> Entry] /\ icache'[i].d = dd /\ icache'[ip].d = d
       /\ icache'[ip].valid /\ icache'[i].valid
       /\ \A j \in Inum : icache'[j].ref = c[j].ref
       /\ \A j \in Inum \ {i, ip} : icache'[j] = c[j]
  <2>1. CacheMade(c, icache', i, ip, dd, d)
    BY <1>4 DEF CacheMade
  <2>2. c \in [Inum -> Entry] /\ i # ip /\ dd \in DInode /\ d \in DInode /\ c[i].valid
    BY <1>6, <1>9, <1>10, <1>12
  <2>. QED
    BY <2>1, <2>2, CreatedCache
<1>16. /\ dinode' \in [Inum -> DInode] /\ dinode'[i] = dd /\ dinode'[ip] = d
       /\ \A j \in Inum \ {i, ip} : dinode'[j] = dinode[j]
  <2>1. dinode \in [Inum -> DInode]
    BY Here DEF Types
  <2>. QED
    BY <1>4, <1>6, <1>10, <1>12, <2>1
<1>17. /\ dents' \in [Inum -> [Name \cup {".."} -> Inum0]]
       /\ dents'[i][e] = ip /\ dents'[ip][".."] = u
       /\ \A x \in Inum, n \in Name : x # i \/ n # e => dents'[x][n] = dents[x][n]
       /\ \A x \in Inum \ {ip} : dents'[x][".."] = dents[x][".."]
       /\ \A x \in Inum \ {i, ip} : dents'[x] = dents[x]
  <2>1. /\ dents \in [Inum -> [Name \cup {".."} -> Inum0]]
        /\ NamesMade(i, ip, e, u)
    BY <1>4, <1>8, Here DEF Types, NamesMade
  <2>2. i # ip /\ u \in Inum0
    BY <1>6, <1>13
  <2>3. NamesAre(i, ip, e, u)
    BY <2>1, <2>2, CreatedNames
  <2>. QED
    BY <2>3 DEF NamesAre
<1>18. Putting(p, r, i, "made")
  <2>1. r \in Locals /\ "made" \in Location
    BY <1>14 DEF Becomes, Location
  <2>. QED
    BY <1>4, <2>1, Here, iputIs
<1>19. Alone(p)
  BY <1>4, <1>18 DEF Alone, Putting, fileVars
<1>20. Taken(p, ip)
  BY <1>3, <1>4, TakeLock
<1>21. Types'
  <2>1. used' \subseteq Block
    BY <1>4, <1>11, Here DEF Types, NewFor
  <2>. QED
    BY <1>4, <1>15, <1>16, <1>17, <1>18, <1>20, <2>1, Here
       DEF Types, Putting, Taken, fileVars
<1>22. /\ ~Owes(p)' /\ l'[p].ip = ip /\ l'[p].dp = 0 /\ l'[p].wp = 0 /\ Loc(p)' = "made"
       /\ l'[p].drop = i
  BY <1>2, <1>14, <1>18 DEF Owes, Putting, Becomes
<1>23. \A j \in Inum : dinode[j].type # "free" => j # ip /\ dinode'[j].type = dinode[j].type
  BY <1>3, <1>10, <1>16
<1>24. \A x \in Inum, n \in Name : (x # i \/ n # e) /\ dents[x][n] # 0 =>
         /\ dents'[x][n] = dents[x][n] /\ dents[x][n] \in Inum \ {ip} /\ x # ip
         /\ dinode'[dents[x][n]].type = dinode[dents[x][n]].type
  <2>. SUFFICES ASSUME NEW x \in Inum, NEW n \in Name, x # i \/ n # e, dents[x][n] # 0
                PROVE  /\ dents'[x][n] = dents[x][n] /\ dents[x][n] \in Inum \ {ip} /\ x # ip
                       /\ dinode'[dents[x][n]].type = dinode[dents[x][n]].type
    OBVIOUS
  <2>1. dents'[x][n] = dents[x][n] /\ dents[x][n] \in Inum
    BY <1>17, <1>21 DEF Inum0
  <2>2. dents[x][n] # ip
    <3>1. <<x, n>> \notin Entries(ip)
      BY <1>7
    <3>. QED
      BY <3>1 DEF Entries
  <2>3. x # ip
    BY <1>6, NoEntriesIs
  <2>. QED
    BY <1>10, <1>16, <2>1, <2>2, <2>3
<1>25. Ctl(p)'
  BY <1>1, <1>2, <1>4, <1>18, <1>22, Here, Consts DEF Ctl, Putting, fileVars
<1>26. LiveOf(p)' /\ NameOf(p)'
  <2>1. cwd[p] # 0 => Live(cwd[p])
    BY Here DEF LiveOf
  <2>2. cwd'[p] = cwd[p] /\ cwd[p] \in Inum0
    BY <1>4, Here DEF fileVars
  <2>3. dinode'[ip].type # "free"
    BY <1>12, <1>16
  <2>. QED
    BY <1>22, <1>23, <2>1, <2>2, <2>3 DEF LiveOf, NameOf, Live, Inum0
<1>27. ASSUME NEW q \in Proc PROVE Ctl(q)' /\ LiveOf(q)' /\ NameOf(q)'
  <2>1. CASE q = p
    BY <1>25, <1>26, <2>1
  <2>2. CASE q # p
    <3>1. /\ Loc(q)' = Loc(q) /\ (Owes(q)' <=> Owes(q)) /\ l'[q] = l[q] /\ cwd'[q] = cwd[q]
          /\ pc'[q] = pc[q] /\ ofile'[q] = ofile[q]
      BY <1>19, <2>2, OthersStay DEF Alone
    <3>2. Ctl(q) /\ LiveOf(q) /\ NameOf(q) /\ l[q] \in Locals /\ cwd[q] \in Inum0
      BY Here
    <3>3. Ctl(q)'
      BY <3>1, <3>2 DEF Ctl
    <3>4. \A j \in Inum0 : j # 0 /\ dinode[j].type # "free" =>
            j # ip /\ dinode'[j].type = dinode[j].type
      BY <1>23 DEF Inum0
    <3>5. /\ l[q].ip \in Inum0 /\ l[q].dp \in Inum0 /\ l[q].wp \in Inum0
      BY <3>2 DEF Locals
    <3>6. LiveOf(q)'
      BY <3>1, <3>2, <3>4, <3>5 DEF LiveOf, Live
    <3>7. /\ Loc(q) = "named" => l[q].wp # 0
          /\ Owes(q) => l[q].ip # 0 /\ Loc(q) # "exists"
          /\ Loc(q) = "unlink" => l[q].dp # 0 /\ l[q].dp # i
      <4>1. Loc(q) = "unlink" => l[q].dp # i
        BY <1>9, UnlinkElsewhere, Consts
      <4>. QED
        BY <3>2, <4>1 DEF Ctl, Owes
    <3>8. Loc(q) = "unlink" => dents'[l[q].dp] = dents[l[q].dp] /\ IsDir(l[q].dp)
      <4>1. Loc(q) = "unlink" => IsDir(l[q].dp)
        BY <3>2 DEF NameOf
      <4>2. Loc(q) = "unlink" => l[q].dp \in Inum \ {i, ip}
        BY <3>4, <3>5, <3>7, <4>1 DEF Inum0, IsDir
      <4>. QED
        BY <1>17, <4>1, <4>2
    <3>9. Loc(q)' = "named" /\ l'[q].parent => dinode'[l'[q].wp].type = "dir"
      BY <3>1, <3>2, <3>4, <3>5, <3>7 DEF NameOf, IsDir
    <3>10. Owes(q)' /\ Loc(q)' # "erased" => dinode'[l'[q].ip].type # "dir"
      BY <3>1, <3>2, <3>4, <3>5, <3>7 DEF NameOf, LiveOf, Live, IsDir
    <3>11. Loc(q)' = "unlink" =>
             /\ l'[q].elems # <<>> /\ Head(l'[q].elems) \in Name
             /\ dinode'[l'[q].dp].type = "dir" /\ dents'[l'[q].dp][Head(l'[q].elems)] = l'[q].ip
      BY <3>1, <3>2, <3>4, <3>5, <3>7, <3>8 DEF NameOf, IsDir
    <3>12. NameOf(q)'
      BY <3>9, <3>10, <3>11 DEF NameOf, IsDir
    <3>. QED
      BY <3>3, <3>6, <3>12
  <2>. QED
    BY <2>1, <2>2
<1>28. CtlInv' /\ NameInv'
  BY <1>27 DEF CtlInv, NameInv
<1>29. LiveInv'
  <2>1. \A f \in File : ftable'[f] = ftable[f] /\ ftable[f].ip \in Inum0
    BY <1>4, Here DEF fileVars, Types
  <2>2. \A f \in File : ftable[f].ip # 0 => dinode[ftable[f].ip].type # "free"
    BY DEF IInv, LiveInv, Live
  <2>3. \A f \in File : ftable'[f].ip # 0 => dinode'[ftable'[f].ip].type # "free"
    BY <1>23, <2>1, <2>2 DEF Inum0
  <2>. QED
    BY <1>27, <2>3 DEF LiveInv, Live
<1>30. DirInv'
  <2>1. dinode'[ROOTINO].type = "dir" /\ dents'[ROOTINO][".."] = ROOTINO
    BY <1>6, <1>17, <1>23, Consts DEF IInv, DirInv, IsDir
  <2>2. ASSUME NEW j \in Inum
        PROVE  /\ dinode'[j].type = "free" => dinode'[j] = NoInode
               /\ dinode'[j].type # "dir" => dents'[j] = NoEntries
               /\ dinode'[j].type = "dir" => dents'[j][".."] # 0
    <3>1. CASE j = ip
      <4>1. dinode'[ip].type # "free" /\ (dinode'[ip].type = "dir" <=> op = "mkdir")
        BY <1>12, <1>16
      <4>2. op = "mkdir" => dents'[ip][".."] # 0
        BY <1>13, <1>17, Consts
      <4>3. op # "mkdir" => dents'[ip] = NoEntries
        <5>. SUFFICES ASSUME op # "mkdir" PROVE dents'[ip] = NoEntries
          OBVIOUS
        <5>1. dents'[ip][".."] = 0
          BY <1>13, <1>17
        <5>2. \A n \in Name : dents'[ip][n] = 0
          BY <1>6, <1>17, NoEntriesIs
        <5>3. dents'[ip] \in [Name \cup {".."} -> Inum0]
          BY <1>17
        <5>4. \A n \in Name \cup {".."} : dents'[ip][n] = NoEntries[n]
          BY <5>1, <5>2, NoEntriesIs
        <5>. QED
          BY <5>3, <5>4, NoEntriesIs
      <4>. QED
        BY <3>1, <4>1, <4>2, <4>3
    <3>2. CASE j = i
      <4>1. dinode'[i].type = "dir" /\ dents'[i][".."] # 0
        BY <1>5, <1>6, <1>10, <1>16, <1>17 DEF IInv, DirInv, IsDir
      <4>. QED
        BY <3>2, <4>1
    <3>3. CASE j # i /\ j # ip
      BY <1>16, <1>17, <3>3 DEF IInv, DirInv, Live, IsDir
    <3>. QED
      BY <3>1, <3>2, <3>3
  <2>3. ASSUME NEW x \in Inum, NEW n \in Name,
               dents'[x][n] # 0, dinode'[dents'[x][n]].type = "dir"
        PROVE  dents'[dents'[x][n]][".."] = x
    <3>1. CASE x = i /\ n = e
      <4>1. dents'[x][n] = ip /\ dinode'[ip].type = "dir"
        BY <1>17, <2>3, <3>1
      <4>2. op = "mkdir"
        BY <1>12, <1>16, <4>1
      <4>. QED
        BY <1>13, <1>17, <3>1, <4>1, <4>2
    <3>2. CASE x # i \/ n # e
      <4>1. dents[x][n] # 0
        BY <1>17, <2>3, <3>2
      <4>2. /\ dents'[x][n] = dents[x][n] /\ dents[x][n] \in Inum \ {ip} /\ x # ip
            /\ dinode'[dents[x][n]].type = dinode[dents[x][n]].type
        BY <1>24, <3>2, <4>1
      <4>3. dents[dents[x][n]][".."] = x
        BY <2>3, <4>1, <4>2 DEF IInv, DirInv, IsDir
      <4>. QED
        BY <1>17, <4>2, <4>3
    <3>. QED
      BY <3>1, <3>2
  <2>. QED
    BY <2>1, <2>2, <2>3 DEF DirInv, Live, IsDir
<1>31. TreeInv'
  <2>1. PICK m \in Nat, rank \in [Inum -> Nat] : Ranks(rank, m)
    BY DEF IInv, TreeInv
  <2>. DEFINE new == [rank EXCEPT ![ip] = rank[i] + 1]
  <2>2. /\ new \in [Inum -> Nat] /\ new[ip] = rank[i] + 1 /\ rank[i] \in Nat
        /\ \A j \in Inum \ {ip} : new[j] = rank[j]
    OBVIOUS
  <2>. HIDE DEF new
  <2>3. \A j \in Inum : new[j] <= m + 1
    <3>1. \A j \in Inum : rank[j] <= m /\ rank[j] \in Nat
      BY <2>1 DEF Ranks
    <3>. QED
      BY <2>2, <3>1
  <2>4. ASSUME NEW x \in Inum, NEW n \in Name,
               dents'[x][n] # 0, dinode'[dents'[x][n]].type = "dir"
        PROVE  new[x] < new[dents'[x][n]]
    <3>1. CASE x = i /\ n = e
      BY <1>6, <1>17, <2>2, <3>1
    <3>2. CASE x # i \/ n # e
      <4>1. dents[x][n] # 0
        BY <1>17, <2>4, <3>2
      <4>2. /\ dents'[x][n] = dents[x][n] /\ dents[x][n] \in Inum \ {ip} /\ x # ip
            /\ dinode'[dents[x][n]].type = dinode[dents[x][n]].type
        BY <1>24, <3>2, <4>1
      <4>3. rank[x] < rank[dents[x][n]]
        BY <2>1, <2>4, <4>1, <4>2 DEF Ranks, IsDir
      <4>. QED
        BY <2>2, <4>2, <4>3
    <3>. QED
      BY <3>1, <3>2
  <2>5. m + 1 \in Nat
    OBVIOUS
  <2>6. Ranks(new, m + 1)'
    BY <2>3, <2>4 DEF Ranks, IsDir
  <2>. QED
    BY <2>2, <2>5, <2>6 DEF TreeInv
<1>32. LinkInv'
  <2>1. NamesElse(i, e)
    BY <1>17, <1>24 DEF NamesElse
  <2>2. ~Sub(i, e) /\ (Sub(i, e)' <=> op = "mkdir")
    BY <1>8, <1>12, <1>16, <1>17, Consts DEF Sub, IsDir
  <2>3. ASSUME NEW j \in Inum
        PROVE  dinode'[j].nlink + One(dents[i][e] = j) + One(j = i /\ Sub(i, e))
                   + One(Owes(p) /\ l[p].ip = j)
                 >= dinode[j].nlink + One(dents'[i][e] = j) + One(j = i /\ Sub(i, e)')
                   + One(Owes(p)' /\ l'[p].ip = j)
    <3>1. dinode[j].nlink \in Nat /\ j # 0 /\ dinode'[j].nlink \in Nat
      BY <1>21, Consts DEF IInv, Types, DInode
    <3>2. dinode'[j].nlink = dinode[j].nlink + One(j = i /\ op = "mkdir") + One(ip = j)
      <4>1. CASE j = ip
        BY <1>6, <1>12, <1>16, <4>1 DEF One
      <4>2. CASE j = i
        BY <1>6, <1>10, <1>16, <3>1, <4>2 DEF One
      <4>3. CASE j # i /\ j # ip
        BY <1>16, <3>1, <4>3 DEF One
      <4>. QED
        BY <4>1, <4>2, <4>3
    <3>3. /\ One(dents[i][e] = j) = 0 /\ One(dents'[i][e] = j) = One(ip = j)
          /\ One(j = i /\ Sub(i, e)) = 0
          /\ One(j = i /\ Sub(i, e)') = One(j = i /\ op = "mkdir")
          /\ One(Owes(p) /\ l[p].ip = j) = 0 /\ One(Owes(p)' /\ l'[p].ip = j) = 0
          /\ One(ip = j) \in Nat /\ One(j = i /\ op = "mkdir") \in Nat
      BY <1>5, <1>8, <1>17, <1>22, <2>2, <3>1 DEF One
    <3>. QED
      BY <3>1, <3>2, <3>3
  <2>. QED
    BY <1>19, <1>21, <2>1, <2>3, NameMove
<1>33. SizeInv'
  <2>1. Len(dinode'[ip].data) \in Nat /\ Len(dinode'[ip].data) <= 1 /\ dinode'[ip].ind = 0
    <3>1. dinode'[ip].data \in Seq(Block)
      BY <1>16 DEF DInode
    <3>. QED
      BY <1>11, <1>16, <3>1 DEF NewFor
  <2>2. ~(Len(dinode'[ip].data) > NDIRECT) /\ Len(dinode'[ip].data) <= MAXFILE
    BY <2>1, Consts
  <2>3. /\ Len(dinode'[i].data) <= MAXFILE
        /\ dinode'[i].ind # 0 <=> Len(dinode'[i].data) > NDIRECT
    BY <1>10, <1>16 DEF IInv, SizeInv
  <2>4. \A j \in Inum \ {i, ip} :
          /\ Len(dinode'[j].data) <= MAXFILE
          /\ dinode'[j].ind # 0 <=> Len(dinode'[j].data) > NDIRECT
    BY <1>16 DEF IInv, SizeInv
  <2>. QED
    BY <2>1, <2>2, <2>3, <2>4 DEF SizeInv
<1>34. BlocksOwned'
  <2>1. Blocks(dinode[ip]) = {}
    BY <1>6, NoInodeHas
  <2>2. \A j \in Inum \ {ip} : dinode'[j].data = dinode[j].data /\ dinode'[j].ind = dinode[j].ind
    BY <1>10, <1>16
  <2>3. Distinct(d) /\ Blocks(d) \cap used = {}
    BY <1>11 DEF NewFor
  <2>. QED
    BY <1>4, <1>16, <2>1, <2>2, <2>3, BlocksGiven
<1>35. CacheInv'
  <2>1. ASSUME NEW j \in Inum
        PROVE  /\ icache'[j].valid => icache'[j].d = dinode'[j] /\ dinode'[j].type # "free"
               /\ lock'[j] # NoProc => icache'[j].valid
    <3>1. CASE j = i
      <4>1. icache'[i].d = dinode'[i] /\ dinode'[i].type # "free" /\ icache'[i].valid
        BY <1>5, <1>10, <1>15, <1>16 DEF IsDir
      <4>. QED
        BY <3>1, <4>1
    <3>2. CASE j = ip
      BY <1>12, <1>15, <1>16, <3>2
    <3>3. CASE j # i /\ j # ip
      <4>1. icache'[j] = c[j] /\ dinode'[j] = dinode[j] /\ (lock'[j] # NoProc => lock[j] # NoProc)
        BY <1>15, <1>16, <1>20, <3>3 DEF Taken
      <4>. QED
        BY <1>9, <4>1 DEF Live
    <3>. QED
      BY <3>1, <3>2, <3>3
  <2>. QED
    BY <2>1 DEF CacheInv
<1>36. \A j \in Inum : icache'[j].ref + Share(p, j) = icache[j].ref + Share(p, j)'
  <2>1. \A j \in Inum : j # 0 /\ icache[j].ref \in Nat
    BY Here, Consts DEF Entry
  <2>2. \A j \in Inum : icache'[j].ref = icache[j].ref + One(j = ip)
    BY <1>9, <1>15
  <2>3. cwd' = cwd
    BY <1>4 DEF fileVars
  <2>. QED
    BY <1>1, <1>2, <1>22, <2>1, <2>2, <2>3 DEF Share, One
<1>37. \A j \in Inum : lock'[j] = p <=> Locks(p, j)'
  BY <1>2, <1>20, <1>22, Here DEF Locks, Taken
<1>. QED
  BY <1>4, <1>19, <1>20, <1>21, <1>28, <1>29, <1>30, <1>31, <1>32, <1>33, <1>34, <1>35,
     <1>36,
     <1>37, DiskStep DEF Taken

\* b is inode d with one more block, and its indirect block if it needs one.
Longer(d, b) ==
  /\ b \in DInode /\ b.type = d.type /\ b.nlink = d.nlink
  /\ Len(b.data) = Len(d.data) + 1 /\ (b.ind # 0 <=> Len(b.data) > NDIRECT)
  /\ Distinct(b) /\ Blocks(b) \subseteq Block
  /\ Blocks(d) \subseteq Blocks(b) /\ Blocks(b) \cap used \subseteq Blocks(d)

Appended(d, a, x) == [d EXCEPT !.data = Append(@, a), !.ind = x]

\* What bmap() adds was free.
LEMMA AppendedIs ==
  ASSUME NEW d \in DInode, Distinct(d), Blocks(d) \subseteq used,
         d.ind # 0 <=> Len(d.data) > NDIRECT,
         NEW a \in Block, a \notin used, NEW x \in Block \cup {0}, a # x,
         x # 0 <=> Len(d.data) + 1 > NDIRECT,
         x = d.ind \/ (d.ind = 0 /\ x \notin used)
  PROVE  Longer(d, Appended(d, a, x))
<1>1. d.data \in Seq(Block) /\ d.ind \in Block \cup {0} /\ Len(d.data) \in Nat
  BY DEF DInode
<1>. DEFINE s == Append(d.data, a)
            n == Len(d.data)
<1>2. /\ s \in Seq(Block) /\ Len(s) = n + 1 /\ s[n + 1] = a /\ n \in Nat
      /\ \A k \in 1 .. n : s[k] = d.data[k]
  BY <1>1
<1>. HIDE DEF s
<1>. DEFINE b == [d EXCEPT !.data = s, !.ind = x]
<1>3. Appended(d, a, x) = b
  BY DEF Appended, s
<1>4. /\ b \in DInode /\ b.type = d.type /\ b.nlink = d.nlink /\ b.data = s /\ b.ind = x
  BY <1>2 DEF DInode
<1>. HIDE DEF b
<1>5. \A k \in 1 .. n : d.data[k] \in Blocks(d) /\ d.data[k] \in Block /\ d.data[k] # d.ind
  <2>1. \A k \in 1 .. n : d.data[k] \in Block
    BY <1>1
  <2>. QED
    BY <2>1 DEF Blocks, Distinct
<1>6. \A k \in 1 .. n : s[k] \in used /\ s[k] # a /\ s[k] # x /\ s[k] # 0
  BY <1>2, <1>5, Consts
<1>7. 1 .. Len(s) = (1 .. n) \cup {n + 1}
  BY <1>2
<1>8. Distinct(b)
  <2>1. \A j, k \in 1 .. n : s[j] = s[k] => j = k
    BY <1>2 DEF Distinct
  <2>2. \A j, k \in 1 .. Len(s) : s[j] = s[k] => j = k
    BY <1>2, <1>6, <1>7, <2>1
  <2>3. \A j \in 1 .. Len(s) : s[j] # x
    BY <1>2, <1>6, <1>7
  <2>. QED
    BY <1>4, <2>2, <2>3 DEF Distinct
<1>. DEFINE old == {d.data[k] : k \in 1 .. n}
<1>9. Blocks(d) = old \cup ({d.ind} \ {0}) /\ Blocks(b) = old \cup {a} \cup ({x} \ {0})
  <2>1. {s[k] : k \in 1 .. Len(s)} = old \cup {a}
    BY <1>2, <1>7
  <2>. QED
    BY <1>4, <2>1 DEF Blocks
<1>10. old \subseteq Block
  BY <1>5
<1>. HIDE DEF old
<1>11. /\ Blocks(b) \subseteq Block /\ Blocks(d) \subseteq Blocks(b)
       /\ Blocks(b) \cap used \subseteq Blocks(d)
  BY <1>1, <1>9, <1>10
<1>12. b.ind # 0 <=> Len(b.data) > NDIRECT
  BY <1>2, <1>4
<1>13. Len(b.data) = Len(d.data) + 1
  BY <1>2, <1>4
<1>14. Longer(d, b)
  BY <1>4, <1>8, <1>11, <1>12, <1>13 DEF Longer
<1>. QED
  BY <1>3, <1>14

\* bmap() appends a block, and the indirect block when it is the first past
\* NDIRECT.
LEMMA BmapIs ==
  ASSUME IInv, NEW i \in Inum, NEW d, d = dinode[i],
         Cardinality(FreeBlocks) >= IF NeedsIndirect(d) THEN 2 ELSE 1
  PROVE  Longer(d, bmap(d))
<1>1. /\ d \in DInode /\ Distinct(d) /\ Blocks(d) \subseteq used
      /\ d.ind # 0 <=> Len(d.data) > NDIRECT
  BY DEF IInv, Types, BlocksOwned, SizeInv
<1>2. d.ind \in Block \cup {0} /\ Len(d.data) \in Nat
  BY <1>1 DEF DInode
<1>3. d.ind \notin FreeBlocks
  <2>1. d.ind # 0 => d.ind \in used
    BY <1>1 DEF Blocks
  <2>. QED
    BY <2>1, Consts DEF FreeBlocks
<1>4. /\ IsFiniteSet(FreeBlocks) /\ FreeBlocks \subseteq Nat /\ FreeBlocks \subseteq Block
      /\ Cardinality(FreeBlocks) \in Nat
  BY Consts, FS_Subset, FS_CardinalityType DEF FreeBlocks
<1>5. FreeBlocks # {}
  <2>1. Cardinality(FreeBlocks) # 0
    BY <1>4
  <2>. QED
    BY <2>1, FS_EmptySet
<1>. DEFINE x == IF NeedsIndirect(d) THEN Min(FreeBlocks) ELSE d.ind
<1>6. NeedsIndirect(d) => x \in FreeBlocks /\ FreeBlocks \ {x} # {}
  <2>. SUFFICES ASSUME NeedsIndirect(d) PROVE x \in FreeBlocks /\ FreeBlocks \ {x} # {}
    OBVIOUS
  <2>1. x \in FreeBlocks
    BY <1>4, <1>5, MinIs
  <2>2. Cardinality(FreeBlocks \ {x}) = Cardinality(FreeBlocks) - 1 /\ IsFiniteSet(FreeBlocks \ {x})
    BY <1>4, <2>1, FS_RemoveElement
  <2>3. Cardinality(FreeBlocks \ {x}) # 0
    BY <1>4, <2>2
  <2>. QED
    BY <2>1, <2>2, <2>3, FS_EmptySet
<1>7. ~NeedsIndirect(d) => x = d.ind /\ FreeBlocks \ {x} # {}
  BY <1>3, <1>5
<1>8. PICK a : a = Min(FreeBlocks \ {x}) /\ a \in FreeBlocks /\ a # x
  <2>1. FreeBlocks \ {x} # {} /\ FreeBlocks \ {x} \subseteq Nat
    BY <1>4, <1>6, <1>7
  <2>2. Min(FreeBlocks \ {x}) \in FreeBlocks \ {x}
    BY <2>1, MinIs
  <2>. QED
    BY <2>2
<1>9. bmap(d) = Appended(d, a, x)
  BY <1>8 DEF bmap, Appended
<1>10. a \in Block /\ a \notin used
  BY <1>8 DEF FreeBlocks
<1>11. /\ x \in Block \cup {0} /\ (x # 0 <=> Len(d.data) + 1 > NDIRECT)
       /\ x = d.ind \/ (d.ind = 0 /\ x \notin used)
  <2>1. CASE NeedsIndirect(d)
    <3>1. x \in Block /\ x \notin used /\ x # 0
      BY <1>6, <2>1, Consts DEF FreeBlocks
    <3>2. Len(d.data) >= NDIRECT /\ d.ind = 0
      BY <2>1 DEF NeedsIndirect
    <3>. QED
      BY <1>2, <3>1, <3>2, Consts
  <2>2. CASE ~NeedsIndirect(d)
    <3>1. x = d.ind
      BY <2>2
    <3>2. d.ind # 0 <=> Len(d.data) + 1 > NDIRECT
      BY <1>1, <1>2, <2>2, Consts DEF NeedsIndirect
    <3>. QED
      BY <1>2, <3>1, <3>2
  <2>. QED
    BY <2>1, <2>2
<1>. HIDE DEF x
<1>12. Longer(d, Appended(d, a, x))
  BY <1>1, <1>8, <1>10, <1>11, AppendedIs
<1>. QED
  BY <1>9, <1>12

\* The step Write preserves the invariant.
LEMMA Write_Inv ==
  ASSUME IInv, NEW p \in Proc, NEW fd \in Fd, Write(p, fd)
  PROVE  IInv'
<1>1. PICK i \in Inum : i = ftable[ofile[p][fd]].ip
  BY ZenonT(30), OpenFile DEF Write
<1>. DEFINE c == ilock(i)
            d == dinode[i]
            b == bmap(d)
<1>2. /\ CanLock(i) /\ Len(c[i].d.data) < MAXFILE
      /\ Cardinality(FreeBlocks) >= IF NeedsIndirect(c[i].d) THEN 2 ELSE 1
      /\ iupdate(c, i, bmap(c[i].d)) /\ used' = used \cup Blocks(bmap(c[i].d))
      /\ dents' = dents /\ lock' = lock /\ UNCHANGED fileVars /\ pc' = pc /\ l' = l
  BY <1>1 DEF Write, writei
<1>3. /\ c \in [Inum -> Entry] /\ c[i].d = d /\ c[i].valid /\ Live(i)
      /\ \A j \in Inum : c[j].ref = icache[j].ref
      /\ \A j \in Inum : c[j].valid => c[j].d = dinode[j] /\ Live(j)
      /\ \A j \in Inum : lock[j] # NoProc => c[j].valid
  BY <1>2, IlockIs
<1>4. /\ Len(d.data) < MAXFILE
      /\ Cardinality(FreeBlocks) >= IF NeedsIndirect(d) THEN 2 ELSE 1
      /\ iupdate(c, i, b) /\ used' = used \cup Blocks(b)
  BY <1>2, <1>3
<1>5. Longer(d, b)
  BY <1>4, BmapIs
<1>. HIDE DEF b, c
<1>6. b \in DInode /\ b.type = d.type /\ b.nlink = d.nlink
  BY <1>5 DEF Longer
<1>7. /\ icache' \in [Inum -> Entry] /\ dinode' \in [Inum -> DInode]
      /\ icache'[i].d = b /\ dinode'[i] = b
      /\ \A j \in Inum : icache'[j].ref = c[j].ref /\ icache'[j].valid = c[j].valid
      /\ \A j \in Inum \ {i} : icache'[j].d = c[j].d /\ dinode'[j] = dinode[j]
  BY <1>3, <1>4, <1>6, iupdateIs
<1>8. Types'
  <2>1. used' \subseteq Block
    BY <1>4, <1>5, Here DEF Types, Longer
  <2>. QED
    BY <1>2, <1>7, <2>1, Here DEF Types, fileVars
<1>9. Alone(p)
  BY <1>2 DEF Alone, fileVars
<1>10. \A j \in Inum : dinode'[j].type = dinode[j].type /\ dinode'[j].nlink = dinode[j].nlink
  BY <1>6, <1>7
<1>11. /\ Loc(p)' = Loc(p) /\ (Owes(p)' <=> Owes(p)) /\ \A j \in Inum : Locks(p, j)' <=> Locks(p, j)
  <2>1. Loc(p)' = Loc(p)
    BY <1>2 DEF Loc
  <2>. QED
    BY <1>2, <2>1 DEF Owes, Locks
<1>12. Ctl(p)' /\ LiveOf(p)' /\ NameOf(p)'
  <2>1. Ctl(p) /\ LiveOf(p) /\ NameOf(p) /\ l[p] \in Locals /\ cwd[p] \in Inum0
    BY Here
  <2>2. Ctl(p)'
    BY <1>2, <1>11, <2>1 DEF Ctl, fileVars
  <2>3. \A j \in Inum0 : j # 0 => dinode'[j].type = dinode[j].type
    BY <1>10 DEF Inum0
  <2>4. l[p].ip \in Inum0 /\ l[p].dp \in Inum0 /\ l[p].wp \in Inum0
    BY <2>1 DEF Locals
  <2>5. LiveOf(p)'
    BY <1>2, <1>11, <2>1, <2>3, <2>4 DEF LiveOf, Live, fileVars
  <2>6. /\ (Loc(p) = "named" => l[p].wp # 0) /\ (Owes(p) => l[p].ip # 0)
        /\ (Loc(p) = "unlink" => l[p].dp # 0)
    BY <2>1 DEF Ctl, Owes
  <2>7. NameOf(p)'
    BY <1>2, <1>11, <2>1, <2>3, <2>4, <2>6 DEF NameOf, IsDir
  <2>. QED
    BY <2>2, <2>5, <2>7
<1>13. KeptTree(p)
  <2>1. \A j \in Inum : ~Live(j) => dinode'[j] = dinode[j]
    BY <1>3, <1>7
  <2>. QED
    BY <1>2, <1>10, <2>1 DEF KeptTree
<1>14. CtlInv' /\ LiveInv' /\ NameInv' /\ DirInv' /\ TreeInv'
  BY <1>2, <1>8, <1>9, <1>12, <1>13, TreeKept
<1>15. LinkInv'
  <2>1. \A j \in Inum : dinode[j].nlink \in Nat
    BY Here DEF Types, DInode
  <2>2. \A j \in Inum : dinode'[j].nlink + One(Owes(p) /\ l[p].ip = j)
                          >= dinode[j].nlink + One(Owes(p)' /\ l'[p].ip = j)
    BY <1>2, <1>10, <1>11, <2>1 DEF One
  <2>. QED
    BY <1>2, <1>8, <1>9, <1>10, <2>2, OwesMove
<1>16. SizeInv'
  <2>1. Len(d.data) \in Nat
    BY Here DEF Types, DInode
  <2>2. Len(dinode'[i].data) <= MAXFILE /\ (dinode'[i].ind # 0 <=> Len(dinode'[i].data) > NDIRECT)
    BY <1>4, <1>5, <1>7, <2>1, Consts DEF Longer
  <2>3. \A j \in Inum \ {i} :
          /\ Len(dinode'[j].data) <= MAXFILE
          /\ dinode'[j].ind # 0 <=> Len(dinode'[j].data) > NDIRECT
    BY <1>7 DEF IInv, SizeInv
  <2>. QED
    BY <2>2, <2>3 DEF SizeInv
<1>17. BlocksOwned'
  <2>1. \A j \in Inum \ {i} : dinode'[j].data = dinode[j].data /\ dinode'[j].ind = dinode[j].ind
    BY <1>7
  <2>2. /\ Distinct(b) /\ Blocks(dinode[i]) \subseteq Blocks(b)
        /\ Blocks(b) \cap used \subseteq Blocks(dinode[i])
    BY <1>5 DEF Longer
  <2>. QED
    BY <1>4, <1>7, <2>1, <2>2, BlocksGiven
<1>18. CacheInv'
  <2>1. \A j \in Inum : icache'[j].valid => icache'[j].d = dinode'[j] /\ dinode'[j].type # "free"
    BY <1>3, <1>7, <1>10 DEF Live
  <2>2. \A j \in Inum : lock'[j] # NoProc => icache'[j].valid
    BY <1>2, <1>3, <1>7
  <2>. QED
    BY <2>1, <2>2 DEF CacheInv
<1>19. \A j \in Inum : icache'[j].ref + Share(p, j) = icache[j].ref + Share(p, j)'
  BY <1>2, <1>3, <1>7 DEF Share, fileVars
<1>20. \A j \in Inum : lock'[j] = p <=> Locks(p, j)'
  BY <1>2, <1>11, Here
<1>. QED
  BY SMTT(30), <1>2, <1>8, <1>9, <1>14, <1>15, <1>16, <1>17, <1>18, <1>19, <1>20, DiskStep

-----------------------------------------------------------------------------
(* The invariant holds *)

\* The types hold in the file system mkfs made.
LEMMA Init_Types ==
  ASSUME Init
  PROVE  Types
<1>1. Min(Block) \in Block
  BY MinIs, Consts
<1>. DEFINE d == [type |-> "dir", nlink |-> 1, data |-> <<Min(Block)>>, ind |-> 0]
            s == [NoEntries EXCEPT ![".."] = ROOTINO]
<1>2. d \in DInode /\ NoInode \in DInode
  BY <1>1, NoInodeIs DEF DInode
<1>3. s \in [Name \cup {".."} -> Inum0]
  BY NoEntriesIs, Consts DEF Inum0
<1>4. dinode \in [Inum -> DInode]
  <2>1. dinode = [i \in Inum |-> IF i = ROOTINO THEN d ELSE NoInode]
    BY DEF Init
  <2>. HIDE DEF d
  <2>. QED
    BY <1>2, <2>1
<1>5. dents \in [Inum -> [Name \cup {".."} -> Inum0]]
  <2>1. dents = [i \in Inum |-> IF i = ROOTINO THEN s ELSE NoEntries]
    BY DEF Init
  <2>. HIDE DEF s
  <2>. QED
    BY <1>3, <2>1, NoEntriesIs
<1>6. icache \in [Inum -> Entry]
  <2>1. \A k \in Nat : [ref |-> k, valid |-> FALSE, d |-> NoInode] \in Entry
    BY <1>2 DEF Entry
  <2>. QED
    BY <2>1 DEF Init
<1>7. ftable \in [File -> [ref : Nat, ip : Inum0, writable : BOOLEAN]]
  BY DEF Init, NoFile, Inum0
<1>8. /\ used \subseteq Block /\ lock \in [Inum -> Proc \cup {NoProc}]
      /\ ofile \in [Proc -> [Fd -> File \cup {0}]] /\ cwd \in [Proc -> Inum0]
      /\ pc \in [Proc -> Location \cup {"put", "deref"}]
  BY <1>1, Consts DEF Init, Inum0, Location
<1>9. l \in [Proc -> Locals]
  BY NoCallIs DEF Init
<1>. QED
  BY <1>4, <1>5, <1>6, <1>7, <1>8, <1>9 DEF Types

\* The step Init preserves the invariant.
LEMMA Init_Inv ==
  ASSUME Init
  PROVE  IInv
<1>1. Types
  BY Init_Types
<1>2. \A p \in Proc : /\ l[p].wp = 0 /\ l[p].ip = 0 /\ l[p].dp = 0 /\ l[p].drop = 0
  BY NoCallIs DEF Init
<1>3. /\ \A p \in Proc : pc[p] = IF p = initproc THEN "idle" ELSE "unused"
      /\ \A p \in Proc : cwd[p] = IF p = initproc THEN ROOTINO ELSE 0
      /\ \A p \in Proc, fd \in Fd : ofile[p][fd] = 0
      /\ \A i \in Inum : lock[i] = NoProc /\ ~icache[i].valid
      /\ \A i \in Inum : icache[i].ref = IF i = ROOTINO THEN 1 ELSE 0
      /\ \A f \in File : ftable[f].ref = 0 /\ ftable[f].ip = 0
  BY DEF Init, NoFile
<1>4. \A p \in Proc : Loc(p) = pc[p] /\ Loc(p) \in {"idle", "unused"} /\ ~Owes(p)
  BY <1>3 DEF Loc, Owes
<1>5. /\ dinode[ROOTINO].type = "dir" /\ dinode[ROOTINO].nlink = 1
      /\ dinode[ROOTINO].data = <<Min(Block)>> /\ dinode[ROOTINO].ind = 0
      /\ \A i \in Inum \ {ROOTINO} : dinode[i] = NoInode /\ dents[i] = NoEntries
  BY Consts DEF Init
<1>6. /\ dents[ROOTINO][".."] = ROOTINO /\ \A n \in Name : dents[ROOTINO][n] = 0
  <2>1. dents[ROOTINO] = [NoEntries EXCEPT ![".."] = ROOTINO]
    BY Consts DEF Init
  <2>. QED
    BY <2>1, NoEntriesIs, Consts
<1>7. \A i \in Inum, n \in Name : dents[i][n] = 0
  BY <1>5, <1>6, NoEntriesIs
<1>8. CtlInv
  BY <1>2, <1>3, <1>4, Consts DEF CtlInv, Ctl
<1>9. LockInv
  BY <1>3, <1>4, Consts DEF LockInv, Locks
<1>10. CacheInv
  BY <1>3 DEF CacheInv
<1>11. RefInv
  <2>. SUFFICES ASSUME NEW i \in Inum PROVE icache[i].ref = Refs(i)
    BY DEF RefInv
  <2>1. {x \in Proc \X {"wp", "ip", "dp", "drop"} : l[x[1]][x[2]] = i} = {}
    <3>1. \A p \in Proc : l[p]["wp"] = 0 /\ l[p]["ip"] = 0 /\ l[p]["dp"] = 0 /\ l[p]["drop"] = 0
      BY <1>2
    <3>. QED
      BY <3>1, Consts
  <2>2. {f \in File : ftable[f].ip = i} = {}
    BY <1>3, Consts
  <2>3. {p \in Proc : cwd[p] = i} = IF i = ROOTINO THEN {initproc} ELSE {}
    BY <1>3, Consts
  <2>4. Cardinality({initproc}) = 1 /\ Cardinality({}) = 0
    BY FS_Singleton, FS_EmptySet
  <2>5. Refs(i) = 0 + Cardinality({p \in Proc : cwd[p] = i}) + 0
    BY <2>1, <2>2, <2>4 DEF Refs
  <2>6. Cardinality({p \in Proc : cwd[p] = i}) = IF i = ROOTINO THEN 1 ELSE 0
    BY <2>3, <2>4
  <2>. QED
    BY <1>3, <2>5, <2>6
<1>12. FileInv
  <2>1. \A f \in File : Descriptors(f) = {}
    BY <1>3, Consts DEF Descriptors
  <2>2. Cardinality({}) = 0
    BY FS_EmptySet
  <2>. QED
    BY <1>3, <2>1, <2>2 DEF FileInv
<1>13. DirInv
  <2>1. \A i \in Inum \ {ROOTINO} : dinode[i].type = "free"
    BY <1>5, NoInodeHas
  <2>2. ROOTINO # 0
    BY DEF ROOTINO
  <2>3. \A i \in Inum :
          /\ dinode[i].type = "free" => dinode[i] = NoInode
          /\ dinode[i].type # "dir" => dents[i] = NoEntries
          /\ dinode[i].type = "dir" => dents[i][".."] # 0
    BY <1>5, <1>6, <2>1, <2>2
  <2>. QED
    BY <1>5, <1>6, <1>7, <2>3 DEF DirInv, IsDir, Live
<1>14. LinkInv
  <2>. SUFFICES ASSUME NEW i \in Inum
                PROVE  dinode[i].nlink >= Cardinality(Entries(i)) + Cardinality(Subdirs(i))
                         + Cardinality(Owing(i)) + (IF i = ROOTINO THEN 1 ELSE 0)
    BY DEF LinkInv
  <2>1. Entries(i) = {} /\ Subdirs(i) = {} /\ Owing(i) = {}
    BY <1>4, <1>7, Consts DEF Entries, Subdirs, Owing
  <2>2. Cardinality({}) = 0
    BY FS_EmptySet
  <2>3. dinode[i].nlink = IF i = ROOTINO THEN 1 ELSE 0
    BY <1>5, NoInodeHas
  <2>. QED
    BY <2>1, <2>2, <2>3
<1>15. /\ Blocks(dinode[ROOTINO]) = {Min(Block)} /\ Distinct(dinode[ROOTINO])
       /\ Len(dinode[ROOTINO].data) = 1
  <2>1. Min(Block) # 0
    BY MinIs, Consts
  <2>. QED
    BY <1>5, <2>1, OneBlock
<1>16. SizeInv
  <2>1. \A i \in Inum \ {ROOTINO} : Len(dinode[i].data) = 0 /\ dinode[i].ind = 0
    BY <1>5, NoInodeHas
  <2>2. ~(1 > NDIRECT) /\ ~(0 > NDIRECT) /\ 1 <= MAXFILE /\ 0 <= MAXFILE
    BY Consts
  <2>3. dinode[ROOTINO].ind = 0
    BY <1>5
  <2>. QED
    BY <1>15, <2>1, <2>2, <2>3 DEF SizeInv
<1>17. BlocksOwned
  <2>1. \A i \in Inum \ {ROOTINO} : Blocks(dinode[i]) = {} /\ Distinct(dinode[i])
    BY <1>5, NoInodeHas
  <2>2. used = {Min(Block)}
    BY DEF Init
  <2>3. used = UNION {Blocks(dinode[i]) : i \in Inum}
    BY <1>15, <2>1, <2>2, Consts
  <2>. QED
    BY <1>15, <2>1, <2>3 DEF BlocksOwned
<1>18. LiveInv
  BY <1>2, <1>3, <1>5 DEF LiveInv, LiveOf, Live
<1>19. NameInv
  BY <1>4 DEF NameInv, NameOf
<1>20. TreeInv
  <2>. DEFINE rank == [i \in Inum |-> 0]
  <2>1. rank \in [Inum -> Nat] /\ 0 \in Nat
    OBVIOUS
  <2>2. Ranks(rank, 0)
    BY <1>7 DEF Ranks
  <2>. QED
    BY <2>1, <2>2 DEF TreeInv
<1>. QED
  BY <1>1, <1>8, <1>9, <1>10, <1>11, <1>12, <1>13, <1>14, <1>16, <1>17, <1>18, <1>19, <1>20
     DEF IInv

\* The step Stutter preserves the invariant.
LEMMA Stutter_Inv ==
  ASSUME IInv, UNCHANGED vars
  PROVE  IInv'
<1>1. PICK p \in Proc : TRUE
  BY Consts
<1>2. Still /\ l' = l /\ pc' = pc /\ cwd' = cwd /\ icache' = icache /\ lock' = lock
  BY DEF vars, diskVars, fileVars, Still
<1>3. /\ Loc(p)' = Loc(p) /\ (Owes(p)' <=> Owes(p)) /\ \A i \in Inum : Locks(p, i)' <=> Locks(p, i)
  BY <1>2 DEF Loc, Owes, Locks
<1>4. Ctl(p)' /\ LiveOf(p)' /\ NameOf(p)'
  BY <1>2, <1>3, Here DEF Still, Ctl, LiveOf, NameOf, Live, IsDir
<1>5. \A i \in Inum : icache'[i].ref + Share(p, i) = icache[i].ref + Share(p, i)'
  BY <1>2 DEF Share
<1>. QED
  BY <1>2, <1>3, <1>4, <1>5, Here, QuietStep DEF Types

\* The step PathStep preserves the invariant.
LEMMA PathStep_Inv ==
  ASSUME IInv, NEW p \in Proc, PathStep(p)
  PROVE  IInv'
<1>1. CASE Iput(p)
  BY <1>1, Iput_Keeps, Iput_Frees
<1>. QED
  BY <1>1, Begin_Inv, Walk_Inv, WalkEnd_Inv, Deref_Inv DEF PathStep

\* The step CallStep preserves the invariant.
LEMMA CallStep_Inv ==
  ASSUME IInv, NEW p \in Proc, CallStep(p)
  PROVE  IInv'
<1>1. CASE Opened(p)
  BY <1>1, Opened_Opens, Opened_Fails
<1>2. CASE UnlinkEntry(p)
  BY <1>2, UnlinkEntry_Removes, UnlinkEntry_Kept
<1>3. CASE Link(p)
  BY <1>3, Link_Dir, Link_File
<1>4. CASE LinkEntry(p)
  BY <1>4, LinkEntry_New, LinkEntry_Exists
<1>5. CASE Open(p) \/ CreateFound(p) \/ Exists(p) \/ CreateNew(p) \/ Made(p) \/ Unlink(p)
  BY <1>5, Open_Inv, CreateFound_Inv, Exists_Inv, CreateNew_Inv, Made_Inv, Unlink_Inv
<1>6. CASE Unlinked(p) \/ PutDir(p) \/ LinkEnd(p) \/ LinkBad(p)
  BY <1>6, Unlinked_Inv, PutDir_Inv, LinkEnd_Inv, LinkBad_Inv
<1>7. CASE Chdir(p) \/ Exit(p) \/ ExitCwd(p)
  BY <1>7, Chdir_Inv, Exit_Inv, ExitCwd_Inv
<1>. QED
  BY <1>1, <1>2, <1>3, <1>4, <1>5, <1>6, <1>7 DEF CallStep

\* The steps on open files and descriptors preserve the invariant.
LEMMA FileStep_Keeps ==
  ASSUME IInv, NEW p \in Proc, FileStep(p)
  PROVE  IInv'
<1>1. PICK fd \in Fd : Access(p, fd) \/ Write(p, fd) \/ Dup(p, fd) \/ Close(p, fd)
  BY DEF FileStep
<1>. QED
  BY <1>1, Access_Inv, Write_Inv, Dup_Inv, Close_Inv

\* The step Next preserves the invariant.
LEMMA Next_Inv == IInv /\ [Next]_vars => IInv'
<1>. SUFFICES ASSUME IInv, [Next]_vars PROVE IInv'
  OBVIOUS
<1>1. CASE UNCHANGED vars
  BY <1>1, Stutter_Inv
<1>2. ASSUME NEW p \in Proc, PathStep(p) \/ CallStep(p) \/ FileStep(p) PROVE IInv'
  BY <1>2, PathStep_Inv, CallStep_Inv, FileStep_Keeps
<1>3. ASSUME NEW p \in Proc, NEW q \in Proc, Fork(p, q) PROVE IInv'
  BY <1>3, Fork_Inv
<1>. QED
  BY <1>1, <1>2, <1>3 DEF Next

\* Every part of the invariant holds in every reachable state: the counts,
\* locks, links, blocks and names of the file system agree whatever the
\* processes do.
THEOREM Invariance == Spec => []IInv
<1>1. Init => IInv
  BY Init_Inv
<1>. QED
  BY <1>1, Next_Inv, PTL DEF Spec

-----------------------------------------------------------------------------
(* What the invariant gives *)

\* TypeOK holds: every variable keeps its type, and an inode has an indirect block
\* exactly when it has more than NDIRECT blocks.
THEOREM TypeCorrect == Spec => []TypeOK
<1>1. IInv => TypeOK
  <2>. SUFFICES ASSUME IInv PROVE TypeOK
    OBVIOUS
  <2>1. Types
    BY DEF IInv
  <2>2. \A i \in Inum : /\ dinode[i] \in DInode /\ Len(dinode[i].data) <= MAXFILE
                        /\ (dinode[i].ind # 0) <=> Len(dinode[i].data) > NDIRECT
    BY <2>1 DEF Types, IInv, SizeInv
  <2>3. \A i \in Inum : /\ icache[i].ref \in Nat /\ icache[i].valid \in BOOLEAN
                       /\ icache[i].d \in DInode
    BY <2>1 DEF Types, Entry
  <2>4. \A f \in File : ftable[f].ref \in Nat /\ ftable[f].ip \in Inum \cup {0}
    BY <2>1 DEF Types, Inum0
  <2>5. \A p \in Proc : {l[p].wp, l[p].ip, l[p].dp, l[p].drop} \subseteq Inum \cup {0}
    BY <2>1 DEF Types, Locals, Inum0
  <2>. QED
    BY <2>1, <2>2, <2>3, <2>4, <2>5 DEF TypeOK, Types, Inum0
<1>. QED
  BY <1>1, Invariance, PTL

\* CacheConsistent holds: ip->ref and f->ref are the numbers of pointers and of
\* descriptors, and what the cache calls valid is what is on disk.
THEOREM CountsAgree == Spec => []CacheConsistent
<1>1. IInv => CacheConsistent
  BY DEF IInv, RefInv, CacheInv, FileInv, Descriptors, CacheConsistent
<1>. QED
  BY <1>1, Invariance, PTL

\* LinksCovered holds: a directory entry names an allocated inode and is counted
\* in its nlink.
THEOREM NamesCovered == Spec => []LinksCovered
<1>1. ASSUME IInv, NEW i \in Inum, Entries(i) # {}
      PROVE  dinode[i].type # "free" /\ dinode[i].nlink >= Cardinality(Entries(i))
  <2>1. dinode[i].nlink # 0 /\ dinode[i].nlink \in Nat
    BY <1>1, NoLinks DEF IInv, Types, DInode
  <2>2. dinode[i].type # "free"
    BY <1>1, <2>1, NoInodeHas DEF IInv, DirInv, Live
  <2>3. /\ Cardinality(Entries(i)) \in Nat /\ Cardinality(Subdirs(i)) \in Nat
        /\ Cardinality(Owing(i)) \in Nat
    BY LinkSets, FS_CardinalityType
  <2>4. dinode[i].nlink >= Cardinality(Entries(i)) + Cardinality(Subdirs(i))
                             + Cardinality(Owing(i)) + (IF i = ROOTINO THEN 1 ELSE 0)
    BY <1>1 DEF IInv, LinkInv
  <2>. QED
    BY <2>1, <2>2, <2>3, <2>4
<1>2. IInv => LinksCovered
  BY <1>1 DEF LinksCovered
<1>. QED
  BY <1>2, Invariance, PTL

\* BlocksOwned holds: the free map has exactly the blocks of the inodes, and no
\* block belongs to two inodes, or twice to one.
THEOREM BlocksAreOwned == Spec => []BlocksOwned
<1>1. IInv => BlocksOwned
  BY DEF IInv
<1>. QED
  BY <1>1, Invariance, PTL

\* A process of a circle that is not in iput() has locked the directory of the
\* name that it unlinks, and waits for the inode of that name.
LEMMA Holder ==
  ASSUME IInv, NEW p \in Proc, NEW q \in Proc, WaitsFor(p, q),
         pc[p] # "put", Wants(q) # 0, pc[q] # "put"
  PROVE  pc[q] = "unlink" /\ Wants(p) = l[q].dp /\ l[q].dp \in Inum
<1>1. /\ Types /\ Ctl(q) /\ l[q] \in Locals /\ l[p] \in Locals /\ Ctl(p)
  BY Here
<1>2. Wants(p) \in Inum /\ lock[Wants(p)] = q
  <2>1. Wants(p) \in Inum0
    BY <1>1 DEF Wants, Locals, Inum0
  <2>. QED
    BY <2>1 DEF WaitsFor, Inum0
<1>3. PICK i \in Inum : i = Wants(p)
  BY <1>2
<1>4. Locks(q, i)
  BY <1>2, <1>3, Here
<1>5. pc[q] \in {"named", "walk", "exists", "unlink", "bad"}
  BY DEF Wants
<1>6. pc[q] = "unlink" /\ l[q].dp = i
  BY <1>4, <1>5 DEF Locks, Loc
<1>. QED
  BY <1>3, <1>6

\* OnlyIputCycles holds: processes that wait for each other's inode locks in a
\* circle include one in iput(), because the others go down the directory tree.
THEOREM OnlyIputDeadlocks == Spec => []OnlyIputCycles
<1>1. ASSUME IInv, NEW S \in SUBSET Proc, S # {}, \A p \in S : \E q \in S : WaitsFor(p, q),
             \A p \in S : pc[p] # "put"
      PROVE  FALSE
  <2>. DEFINE U == {q \in S : pc[q] = "unlink"}
  <2>1. \A p \in S : \E q \in U : WaitsFor(p, q) /\ Wants(p) = l[q].dp /\ l[q].dp \in Inum
    <3>1. ASSUME NEW p \in S
          PROVE  \E q \in U : WaitsFor(p, q) /\ Wants(p) = l[q].dp /\ l[q].dp \in Inum
      <4>1. PICK q \in S : WaitsFor(p, q)
        BY <1>1
      <4>2. Wants(q) # 0
        BY <1>1 DEF WaitsFor
      <4>3. pc[q] = "unlink" /\ Wants(p) = l[q].dp /\ l[q].dp \in Inum
        BY <1>1, <4>1, <4>2, Holder
      <4>. QED
        BY <4>1, <4>3
    <3>. QED
      BY <3>1
  <2>2. PICK m \in Nat, rank \in [Inum -> Nat] : Ranks(rank, m)
    BY <1>1 DEF IInv, TreeInv
  <2>. DEFINE V == {q \in U : l[q].dp \in Inum}
              H(q) == m - rank[l[q].dp]
              K == {H(q) : q \in V}
  <2>3. V # {}
    <3>1. PICK p \in S : TRUE
      BY <1>1
    <3>. QED
      BY <2>1, <3>1
  <2>4. \A q \in V : H(q) \in Nat
    BY <2>2 DEF Ranks
  <2>5. K \subseteq Nat /\ K # {}
    BY <2>3, <2>4
  <2>. HIDE DEF H
  <2>6. PICK q \in V : \A r \in V : H(q) <= H(r)
    <3>1. \E x \in K : \A y \in K : x <= y
      BY <2>5, Least
    <3>. QED
      BY <3>1
  <2>7. PICK r \in V : Wants(q) = l[r].dp
    BY <2>1
  <2>8. l[q].ip = l[r].dp /\ pc[q] = "unlink" /\ pc[r] = "unlink" /\ q \in Proc /\ r \in Proc
    BY <1>1, <2>7 DEF Wants
  <2>9. /\ IsDir(l[r].dp)
        /\ Head(l[q].elems) \in Name /\ dents[l[q].dp][Head(l[q].elems)] = l[q].ip
    <3>1. Loc(q) = "unlink" /\ Loc(r) = "unlink"
      BY <2>8 DEF Loc
    <3>. QED
      BY <1>1, <2>8, <3>1, Here DEF NameOf
  <2>10. rank[l[q].dp] < rank[l[r].dp]
    <3>1. PICK d \in Inum, n \in Name : d = l[q].dp /\ n = Head(l[q].elems)
      BY <2>9
    <3>2. dents[d][n] = l[r].dp /\ l[r].dp # 0
      BY <2>8, <2>9, <3>1, Consts
    <3>. QED
      BY <2>2, <2>9, <3>1, <3>2 DEF Ranks
  <2>11. H(r) < H(q)
    BY <2>2, <2>10 DEF H
  <2>. QED
    BY <2>4, <2>6, <2>11
<1>2. IInv => OnlyIputCycles
  BY <1>1 DEF OnlyIputCycles
<1>. QED
  BY <1>2, Invariance, PTL

-----------------------------------------------------------------------------
(* No panic, unless ".." is looked up in a removed directory below the root *)

\* The inode a lookup has reached is allocated.
Held(p) ==
  /\ Loc(p) \in {"walk", "named"} => Live(l[p].wp)
  /\ Loc(p) = "exists" => Live(l[p].ip)

HeldInv == \A p \in Proc : Held(p)

\* No step looks up ".." in a directory that has lost its name, but where it leads
\* to the root, which is never freed.
ParentKept ==
  \A p \in Proc : (Walk(p) \/ CreateFound(p)) /\ Head(l[p].elems) = ".." =>
    dents[l[p].wp][".."] = ROOTINO \/ Entries(l[p].wp) # {}

\* What a lookup finds is allocated.
LEMMA FoundLive ==
  ASSUME IInv, NEW d \in Inum, IsDir(d), NEW e \in Elem,
         e = ".." => dents[d][".."] = ROOTINO \/ Entries(d) # {},
         NEW i \in Inum, i = dirlookup(d, e)
  PROVE  Live(i)
<1>1. CASE e = "."
  BY <1>1 DEF dirlookup, Live, IsDir
<1>2. CASE e = ".."
  <2>1. i = dents[d][".."]
    BY <1>2 DEF dirlookup
  <2>2. CASE dents[d][".."] = ROOTINO
    BY <2>1, <2>2 DEF IInv, DirInv, Live, IsDir
  <2>3. CASE Entries(d) # {}
    <3>1. PICK x \in Inum, n \in Name : dents[x][n] = d
      BY <2>3 DEF Entries
    <3>2. dents[d][".."] = x
      BY <3>1, Consts DEF IInv, DirInv
    <3>3. IsDir(x)
      <4>1. dents[x][n] # 0
        BY <3>1, Consts
      <4>. QED
        BY <4>1, NoEntriesIs DEF IInv, DirInv
    <3>. QED
      BY <2>1, <3>2, <3>3 DEF Live, IsDir
  <2>. QED
    BY <1>2, <2>2, <2>3
<1>3. CASE e \in Name
  <2>1. dents[d][e] = i
    BY <1>3, Consts DEF dirlookup
  <2>. QED
    BY <1>3, <2>1, NamedLive
<1>. QED
  BY <1>1, <1>2, <1>3 DEF Elem

\* The steps that leave the inodes on disk alone.
LEMMA SameInodes ==
  ASSUME NEW p \in Proc,
         \/ Begin(p) \/ Walk(p) \/ WalkEnd(p) \/ Deref(p) \/ Open(p) \/ Opened(p)
         \/ CreateFound(p) \/ Exists(p) \/ Made(p) \/ Unlink(p) \/ PutDir(p)
         \/ LinkEntry(p) \/ LinkEnd(p) \/ Chdir(p) \/ Exit(p) \/ ExitCwd(p)
         \/ \E fd \in Fd : Access(p, fd) \/ Dup(p, fd) \/ Close(p, fd)
         \/ \E q \in Proc : Fork(p, q)
  PROVE  dinode' = dinode
<1>1. CASE Begin(p) \/ Walk(p) \/ WalkEnd(p) \/ Deref(p) \/ Open(p) \/ Opened(p)
  BY <1>1 DEF Begin, Walk, WalkEnd, Deref, Open, Opened, diskVars
<1>2. CASE CreateFound(p) \/ Exists(p) \/ Made(p) \/ Unlink(p) \/ PutDir(p)
  BY <1>2 DEF CreateFound, Exists, Made, Unlink, PutDir, diskVars
<1>3. CASE LinkEntry(p) \/ LinkEnd(p) \/ Chdir(p) \/ Exit(p) \/ ExitCwd(p)
  BY SMTT(30), <1>3 DEF LinkEntry, LinkEnd, Chdir, Exit, ExitCwd, diskVars
<1>4. CASE \E fd \in Fd : Access(p, fd) \/ Dup(p, fd) \/ Close(p, fd)
  BY <1>4 DEF Access, Dup, Close, diskVars
<1>5. CASE \E q \in Proc : Fork(p, q)
  BY <1>5 DEF Fork, diskVars
<1>. QED
  BY ZenonT(30), <1>1, <1>2, <1>3, <1>4, <1>5

\* iupdate() of an inode that keeps its type.
LEMMA UpdateLive ==
  ASSUME IInv, NEW c, NEW i \in Inum, NEW d, iupdate(c, i, d), d.type = dinode[i].type,
         NEW j \in Inum
  PROVE  dinode'[j].type = dinode[j].type
<1>1. dinode' = [dinode EXCEPT ![i] = d] /\ dinode \in [Inum -> DInode]
  BY DEF iupdate, IInv, Types
<1>. QED
  BY <1>1

\* The steps that change an inode keep its type.
LEMMA SameTypes ==
  ASSUME IInv, NEW p \in Proc, NEW j \in Inum,
         \/ UnlinkEntry(p) \/ Unlinked(p) \/ Link(p) \/ LinkBad(p)
         \/ \E fd \in Fd : Write(p, fd)
  PROVE  dinode'[j].type = dinode[j].type
<1>0. dinode \in [Inum -> DInode]
  BY DEF IInv, Types
<1>. DEFINE N(d, k) == [d EXCEPT !.nlink = k]
<1>1. \A d \in DInode : \A k : N(d, k).type = d.type
  BY DEF DInode
<1>2. CASE UnlinkEntry(p)
  <2>1. PICK i \in Inum : i = l[p].dp
    BY <1>2, Here DEF UnlinkEntry, Loc, Ctl, Locals, Inum0
  <2>2. icache[i].d = dinode[i]
    <3>1. lock[i] = p
      BY <1>2, <2>1, Here DEF UnlinkEntry, Loc, Locks
    <3>. QED
      BY <3>1, Here, Consts
  <2>3. CASE dinode' = dinode
    BY <2>3
  <2>4. CASE \E k : iupdate(ilock(l[p].ip), i, N(icache[i].d, k))
    <3>1. PICK k : iupdate(ilock(l[p].ip), i, N(icache[i].d, k))
      BY <2>4
    <3>2. N(icache[i].d, k).type = dinode[i].type
      BY <1>0, <1>1, <2>2
    <3>. QED
      BY <3>1, <3>2, UpdateLive
  <2>. QED
    BY <1>2, <2>1, <2>3, <2>4 DEF UnlinkEntry
<1>3. CASE Unlinked(p)
  <2>1. PICK i \in Inum : i = l[p].ip
    BY <1>3, Here DEF Unlinked, Loc, Ctl, Locals, Inum0
  <2>2. icache[i].d = dinode[i]
    <3>1. lock[i] = p
      BY <1>3, <2>1, Here DEF Unlinked, Loc, Locks
    <3>. QED
      BY <3>1, Here, Consts
  <2>3. PICK k : iupdate(icache, i, N(icache[i].d, k))
    BY <1>3, <2>1 DEF Unlinked
  <2>4. N(icache[i].d, k).type = dinode[i].type
    BY <1>0, <1>1, <2>2
  <2>. QED
    BY <2>3, <2>4, UpdateLive
<1>4. CASE Link(p)
  <2>1. PICK i \in Inum : i = l[p].wp /\ CanLock(i)
    BY <1>4, Here DEF Link, Named, Loc, Ctl, Locals, Inum0
  <2>2. ilock(i)[i].d = dinode[i]
    BY <2>1, IlockIs
  <2>3. CASE dinode' = dinode
    BY <2>3
  <2>4. CASE \E k : iupdate(iget(ilock(i), From(p, l[p].new)), i, N(ilock(i)[i].d, k))
    <3>1. PICK k : iupdate(iget(ilock(i), From(p, l[p].new)), i, N(ilock(i)[i].d, k))
      BY <2>4
    <3>2. N(ilock(i)[i].d, k).type = dinode[i].type
      BY <1>0, <1>1, <2>2
    <3>. QED
      BY <3>1, <3>2, UpdateLive
  <2>. QED
    BY <1>4, <2>1, <2>3, <2>4 DEF Link, wpd
<1>5. CASE LinkBad(p)
  <2>1. PICK i \in Inum : i = l[p].ip /\ CanLock(i)
    BY <1>5, Here DEF LinkBad, Loc, Ctl, Locals, Inum0
  <2>2. ilock(i)[i].d = dinode[i]
    BY <2>1, IlockIs
  <2>3. PICK k : iupdate(ilock(i), i, N(ilock(i)[i].d, k))
    BY SMTT(30), <1>5, <2>1 DEF LinkBad
  <2>4. N(ilock(i)[i].d, k).type = dinode[i].type
    BY <1>0, <1>1, <2>2
  <2>. QED
    BY <2>3, <2>4, UpdateLive
<1>6. ASSUME NEW fd \in Fd, Write(p, fd) PROVE dinode'[j].type = dinode[j].type
  <2>1. PICK i \in Inum : i = ftable[ofile[p][fd]].ip /\ CanLock(i)
    BY <1>6, OpenFile DEF Write
  <2>2. ilock(i)[i].d = dinode[i]
    BY SMTT(30), <2>1, IlockIs
  <2>3. /\ iupdate(ilock(i), i, bmap(ilock(i)[i].d))
        /\ Cardinality(FreeBlocks) >= IF NeedsIndirect(ilock(i)[i].d) THEN 2 ELSE 1
    BY <1>6, <2>1 DEF Write, writei
  <2>4. Longer(dinode[i], bmap(dinode[i]))
    BY <2>2, <2>3, BmapIs
  <2>5. bmap(ilock(i)[i].d).type = dinode[i].type
    BY <2>2, <2>4 DEF Longer
  <2>. QED
    BY SMTT(30), <2>3, <2>5, UpdateLive
<1>. QED
  BY <1>2, <1>3, <1>4, <1>5, <1>6

\* create() frees no inode.
LEMMA CreateLive ==
  ASSUME IInv, NEW p \in Proc, CreateNew(p), NEW j \in Inum, Live(j)
  PROVE  dinode'[j].type # "free"
<1>1. PICK i \in Inum, op \in Creating : i = l[p].wp /\ op = l[p].op /\ CanLock(i)
  BY Here DEF CreateNew, Named, Loc, Ctl, Locals, Inum0
<1>2. PICK ip \in Inum : ip = Min(FreeInums)
  BY MinIs, Consts DEF CreateNew, FreeInums
<1>. DEFINE dd == [ilock(i)[i].d EXCEPT !.nlink = IF op = "mkdir" THEN @ + 1 ELSE @]
            d == NewInode(op)
<1>3. dinode' = [dinode EXCEPT ![i] = dd, ![ip] = d] /\ (op = "mkdir" => FreeBlocks # {})
  BY <1>1, <1>2 DEF CreateNew, wpd
<1>4. dinode \in [Inum -> DInode]
  BY DEF IInv, Types
<1>5. dd.type = dinode[i].type
  <2>1. ilock(i)[i].d = dinode[i] /\ dinode[i] \in DInode
    BY <1>1, <1>4, IlockIs
  <2>. QED
    BY <2>1 DEF DInode
<1>6. d.type # "free"
  BY <1>3, NewInodeIs DEF NewFor
<1>. HIDE DEF dd, d
<1>. QED
  BY <1>3, <1>4, <1>5, <1>6 DEF Live

\* iput() frees no inode that another process has found.
LEMMA IputLive ==
  ASSUME IInv, NEW p \in Proc, Iput(p), NEW j \in Inum, Live(j),
         \E q \in Proc : l[q].wp = j \/ l[q].ip = j
  PROVE  dinode'[j].type # "free"
<1>1. CASE ~Unused(l[p].drop)
  BY <1>1 DEF Iput, diskVars, Live
<1>2. CASE Unused(l[p].drop)
  <2>1. PICK i \in Inum : i = l[p].drop
    BY Here DEF Iput, Ctl, Locals, Inum0
  <2>2. icache[i].ref = 1
    BY <1>2, <2>1 DEF Unused
  <2>3. j # i
    BY <2>1, <2>2, OnlyRef
  <2>4. dinode' = [dinode EXCEPT ![i] = NoInode] /\ dinode \in [Inum -> DInode]
    BY <1>2, <2>1 DEF Iput, IInv, Types
  <2>. QED
    BY <2>3, <2>4 DEF Live
<1>. QED
  BY <1>1, <1>2

\* No step frees an inode that a call points to.
LEMMA LiveStays ==
  ASSUME IInv, Next, NEW j \in Inum, Live(j), \E q \in Proc : l[q].wp = j \/ l[q].ip = j
  PROVE  dinode'[j].type # "free"
<1>1. PICK p \in Proc : PathStep(p) \/ CallStep(p) \/ FileStep(p) \/ \E q \in Proc : Fork(p, q)
  BY DEF Next
<1>2. CASE dinode' = dinode
  BY <1>2 DEF Live
<1>3. CASE dinode'[j].type = dinode[j].type
  BY <1>3 DEF Live
<1>4. CASE PathStep(p)
  BY <1>2, <1>4, IputLive, SameInodes DEF PathStep
<1>5. CASE CallStep(p)
  BY <1>2, <1>3, <1>5, CreateLive, SameInodes, SameTypes DEF CallStep
<1>6. CASE FileStep(p)
  BY <1>2, <1>3, <1>6, SameInodes, SameTypes DEF FileStep
<1>. QED
  BY <1>1, <1>2, <1>4, <1>5, <1>6, SameInodes

\* A process that stays where it is keeps what it has reached.
LEMMA HeldStays ==
  ASSUME IInv, Next, NEW q \in Proc, Held(q),
         Loc(q)' = Loc(q), l'[q].wp = l[q].wp, l'[q].ip = l[q].ip
  PROVE  Held(q)'
<1>1. Ctl(q) /\ l[q].wp \in Inum0 /\ l[q].ip \in Inum0
  BY Here DEF Locals
<1>2. Loc(q) \in {"walk", "named"} => dinode'[l[q].wp].type # "free"
  <2>. SUFFICES ASSUME Loc(q) \in {"walk", "named"} PROVE dinode'[l[q].wp].type # "free"
    OBVIOUS
  <2>1. PICK j \in Inum : j = l[q].wp
    BY <1>1 DEF Ctl, Inum0
  <2>2. Live(j)
    BY <2>1 DEF Held
  <2>. QED
    BY <2>1, <2>2, LiveStays
<1>3. Loc(q) = "exists" => dinode'[l[q].ip].type # "free"
  <2>. SUFFICES ASSUME Loc(q) = "exists" PROVE dinode'[l[q].ip].type # "free"
    OBVIOUS
  <2>1. PICK j \in Inum : j = l[q].ip
    BY <1>1 DEF Ctl, Inum0
  <2>2. Live(j)
    BY <2>1 DEF Held
  <2>. QED
    BY <2>1, <2>2, LiveStays
<1>. QED
  BY <1>2, <1>3 DEF Held, Live

\* p goes on at place to, and the others stay.
Goes(p, to) ==
  /\ Loc(p)' = to
  /\ \A q \in Proc \ {p} : Loc(q)' = Loc(q) /\ l'[q] = l[q]

\* A step into iput() goes on to where iput() returns to.
LEMMA PutGoes ==
  ASSUME Types, NEW p \in Proc, NEW r \in Locals, NEW i, NEW ret, iput(p, r, i, ret)
  PROVE  Goes(p, ret)
<1>. DEFINE s == [r EXCEPT !.drop = i, !.ret = ret]
<1>1. s.ret = ret
  BY DEF Locals
<1>2. l' = [l EXCEPT ![p] = s] /\ pc' = [pc EXCEPT ![p] = "put"]
  BY DEF iput, Set, Goto
<1>. HIDE DEF s
<1>. QED
  BY <1>1, <1>2 DEF Goes, Loc, Types

\* A step that sets the locals goes on to its next place.
LEMMA SetGoes ==
  ASSUME Types, NEW p \in Proc, NEW to, to \notin {"put", "deref"}, Goto(p, to),
         l' = l \/ \E r : Set(p, r)
  PROVE  Goes(p, to)
<1>1. pc' = [pc EXCEPT ![p] = to] /\ pc \in [Proc -> Location \cup {"put", "deref"}]
  BY DEF Goto, Types
<1>2. \A q \in Proc \ {p} : l'[q] = l[q]
  BY DEF Set, Types
<1>. QED
  BY <1>1, <1>2 DEF Goes, Loc

\* Only the process that steps has to be looked at.
LEMMA GoesHeld ==
  ASSUME IInv, HeldInv, Next, NEW p \in Proc, NEW to, Goes(p, to), Held(p)'
  PROVE  HeldInv'
<1>1. ASSUME NEW q \in Proc \ {p} PROVE Held(q)'
  <2>1. Loc(q)' = Loc(q) /\ l'[q] = l[q] /\ Held(q)
    BY DEF Goes, HeldInv
  <2>. QED
    BY <2>1, HeldStays
<1>. QED
  BY <1>1 DEF HeldInv

\* The locals without one of their pointers.
LEMMA Cleared ==
  ASSUME IInv, NEW p \in Proc
  PROVE  /\ [l[p] EXCEPT !.wp = 0] \in Locals /\ [l[p] EXCEPT !.ip = 0] \in Locals
         /\ [l[p] EXCEPT !.dp = 0] \in Locals
<1>1. l[p] \in Locals /\ 0 \in Inum0
  BY Here, Zero
<1>. QED
  BY <1>1, WpSet, IpSet, DpSet DEF Becomes

\* p goes on where it has reached nothing.
Ended(p) == \E to : Goes(p, to) /\ to \notin {"walk", "named", "exists"}

\* iput() after one of the pointers has been given up.
WpPut(p, i, ret) == iput(p, [l[p] EXCEPT !.wp = 0], i, ret)
IpPut(p, i, ret) == iput(p, [l[p] EXCEPT !.ip = 0], i, ret)
DpPut(p, i, ret) == iput(p, [l[p] EXCEPT !.dp = 0], i, ret)

\* A step into iput() that leads out of the walk holds nothing unlocked
\* afterwards.
LEMMA PutEnds ==
  ASSUME IInv, NEW p \in Proc, NEW i, NEW ret, ret \notin {"walk", "named", "exists"},
         \/ WpPut(p, i, ret)
         \/ IpPut(p, i, ret)
         \/ DpPut(p, i, ret)
  PROVE  Ended(p)
<1>1. PICK r \in Locals : iput(p, r, i, ret)
  BY Cleared DEF WpPut, IpPut, DpPut
<1>2. Goes(p, ret)
  BY <1>1, Here, PutGoes
<1>. QED
  BY <1>2 DEF Ended

\* A step to a place out of the walk holds nothing unlocked afterwards.
LEMMA SetEnds ==
  ASSUME IInv, NEW p \in Proc, NEW to, to \notin {"walk", "named", "exists", "put", "deref"},
         Goto(p, to), l' = l \/ \E r : Set(p, r)
  PROVE  Ended(p)
<1>1. Goes(p, to)
  BY Here, SetGoes
<1>. QED
  BY <1>1 DEF Ended

\* Where the calls that look up no path go.
LEMMA Ends ==
  ASSUME IInv, NEW p \in Proc,
         \/ Open(p) \/ Opened(p) \/ Exists(p) \/ CreateNew(p) \/ Made(p) \/ Unlink(p)
         \/ UnlinkEntry(p) \/ Unlinked(p) \/ PutDir(p) \/ LinkEntry(p) \/ LinkEnd(p) \/ LinkBad(p)
         \/ Chdir(p) \/ Exit(p) \/ ExitCwd(p)
  PROVE  Ended(p)
<1>0. Types /\ l[p] \in Locals
  BY Here
<1>1. CASE Open(p)
  <2>1. CASE WpPut(p, l[p].wp, "idle")
    BY <2>1, PutEnds
  <2>2. CASE Goto(p, "opened") /\ \E r : Set(p, r)
    BY <2>2, SetEnds
  <2>. QED
    BY <1>1, <2>1, <2>2 DEF Open, WpPut, IpPut, DpPut
<1>2. CASE Opened(p)
  <2>1. CASE IpPut(p, l[p].ip, "idle")
    BY <2>1, PutEnds
  <2>2. CASE Goto(p, "idle") /\ \E r : Set(p, r)
    BY <2>2, SetEnds
  <2>. QED
    BY <1>2, <2>1, <2>2 DEF Opened, WpPut, IpPut, DpPut
<1>3. CASE Exists(p)
  <2>1. CASE IpPut(p, l[p].ip, "idle")
    BY <2>1, PutEnds
  <2>2. CASE Goto(p, "opened") /\ l' = l
    BY <2>2, SetEnds
  <2>. QED
    BY <1>3, <2>1, <2>2 DEF Exists, WpPut, IpPut, DpPut
<1>4. CASE CreateNew(p)
  <2>1. PICK ip \in Inum : ip = Min(FreeInums)
    BY <1>4, MinIs, Consts DEF CreateNew, FreeInums
  <2>2. iput(p, [l[p] EXCEPT !.wp = 0, !.ip = ip], l[p].wp, "made")
    BY <1>4, <2>1 DEF CreateNew
  <2>3. [l[p] EXCEPT !.wp = 0, !.ip = ip] \in Locals
    BY <1>0 DEF Locals, Inum0
  <2>. QED
    BY <1>0, <2>2, <2>3, PutGoes DEF Ended
<1>5. CASE Made(p)
  <2>1. CASE IpPut(p, l[p].ip, "idle")
    BY <2>1, PutEnds
  <2>2. CASE Goto(p, "opened") /\ l' = l
    BY <2>2, SetEnds
  <2>. QED
    BY <1>5, <2>1, <2>2 DEF Made, WpPut, IpPut, DpPut
<1>6. CASE Unlink(p)
  <2>1. CASE WpPut(p, l[p].wp, "idle")
    BY <2>1, PutEnds
  <2>2. CASE Goto(p, "unlink") /\ \E r : Set(p, r)
    BY <2>2, SetEnds
  <2>. QED
    BY <1>6, <2>1, <2>2 DEF Unlink, WpPut, IpPut, DpPut
<1>7. CASE UnlinkEntry(p)
  <2>1. CASE DpPut(p, l[p].dp, "erased")
    BY <2>1, PutEnds
  <2>2. CASE IpPut(p, l[p].ip, "notempty")
    BY <2>2, PutEnds
  <2>. QED
    BY <1>7, <2>1, <2>2 DEF UnlinkEntry, WpPut, IpPut, DpPut
<1>8. CASE Unlinked(p) \/ LinkEnd(p) \/ LinkBad(p)
  <2>1. IpPut(p, l[p].ip, "idle")
    BY <1>8 DEF Unlinked, LinkEnd, LinkBad, IpPut
  <2>. QED
    BY <2>1, PutEnds
<1>9. CASE PutDir(p)
  <2>1. DpPut(p, l[p].dp, Failed(p)) /\ Failed(p) \in {"bad", "idle"}
    BY <1>9 DEF PutDir, Failed, DpPut
  <2>. QED
    BY <2>1, PutEnds
<1>10. CASE LinkEntry(p)
  <2>1. CASE WpPut(p, l[p].wp, "putip")
    BY <2>1, PutEnds
  <2>2. CASE \E i : iput(p, [l[p] EXCEPT !.wp = 0, !.dp = l[p].wp], i, "linked")
    <3>1. [l[p] EXCEPT !.wp = 0, !.dp = l[p].wp] \in Locals
      BY <1>0 DEF Locals, Inum0
    <3>. QED
      BY <1>0, <2>2, <3>1, PutGoes DEF Ended
  <2>. QED
    BY <1>10, <2>1, <2>2 DEF LinkEntry, WpPut, IpPut, DpPut
<1>11. CASE Chdir(p)
  <2>1. \E i : WpPut(p, i, "idle")
    BY <1>11 DEF Chdir, WpPut
  <2>. QED
    BY <2>1, PutEnds
<1>12. CASE Exit(p)
  BY <1>12, SetEnds DEF Exit
<1>13. CASE ExitCwd(p)
  BY <1>0, <1>13, NoCallIs, PutGoes DEF ExitCwd, Ended
<1>. QED
  BY <1>1, <1>2, <1>3, <1>4, <1>5, <1>6, <1>7, <1>8, <1>9, <1>10, <1>11, <1>12, <1>13

\* A lookup starts at an allocated inode.
LEMMA FromLive ==
  ASSUME IInv, NEW p \in Proc, NEW path, cwd[p] # 0
  PROVE  From(p, path) \in Inum /\ Live(From(p, path))
<1>1. cwd[p] \in Inum /\ Live(cwd[p])
  BY Here DEF LiveOf, Inum0
<1>2. ROOTINO \in Inum /\ Live(ROOTINO)
  BY Consts DEF IInv, DirInv, Live, IsDir
<1>. QED
  BY <1>1, <1>2 DEF From

\* Such a step keeps what is held.
LEMMA Ended_Held ==
  ASSUME IInv, HeldInv, Next, NEW p \in Proc, Ended(p)
  PROVE  HeldInv'
<1>1. PICK to : Goes(p, to) /\ to \notin {"walk", "named", "exists"}
  BY DEF Ended
<1>2. Held(p)'
  BY <1>1 DEF Goes, Held
<1>. QED
  BY <1>1, <1>2, GoesHeld

\* A call begins at the root or at the working directory, both allocated.
LEMMA Begin_Held ==
  ASSUME IInv, HeldInv, Next, NEW p \in Proc, Begin(p)
  PROVE  HeldInv'
<1>1. PICK c \in Calls[p] : Set(p, Started(c, From(p, c.path))) /\ Goto(p, "walk")
  BY DEF Begin, Started
<1>2. cwd[p] # 0 /\ dinode' = dinode
  BY Here, SameInodes DEF Begin, Loc, Ctl
<1>3. PICK w \in Inum : w = From(p, c.path) /\ Live(w)
  BY <1>2, FromLive
<1>. DEFINE s == Started(c, w)
<1>4. s \in Locals /\ s.wp = w
  <2>1. w \in Inum0
    BY Zero
  <2>2. PICK x : x = Started(c, w)
    OBVIOUS
  <2>3. x \in Locals /\ x.wp = w
    BY <2>1, <2>2, StartedIs
  <2>. QED
    BY <2>2, <2>3
<1>5. Set(p, s)
  BY <1>1, <1>3
<1>. HIDE DEF s
<1>6. Goes(p, "walk")
  BY <1>1, <1>5, Here, SetGoes
<1>7. l'[p] = s
  BY <1>5, Here DEF Set, Types
<1>8. Held(p)'
  BY <1>2, <1>3, <1>4, <1>6, <1>7 DEF Held, Goes, Live
<1>. QED
  BY <1>6, <1>8, GoesHeld

\* A step of namex() finds an allocated inode.
LEMMA Walk_Held ==
  ASSUME IInv, HeldInv, Next, ParentKept, NEW p \in Proc, Walk(p)
  PROVE  HeldInv'
<1>1. /\ pc[p] = "walk" /\ Loc(p) = "walk" /\ l[p].elems # <<>> /\ dinode' = dinode
  BY SameInodes DEF Walk, Loc
<1>2. PICK i \in Inum : i = l[p].wp /\ CanLock(i) /\ Live(i)
  BY <1>1, Here DEF Walk, Ctl, Locals, Inum0, HeldInv, Held
<1>3. CASE WpPut(p, i, Failed(p))
  <2>1. Failed(p) \notin {"walk", "named", "exists"}
    BY DEF Failed
  <2>. QED
    BY <1>3, <2>1, PutEnds, Ended_Held
<1>4. CASE Goto(p, "named") /\ l' = l
  <2>1. Goes(p, "named")
    BY <1>4, Here, SetGoes
  <2>2. Held(p)'
    BY <1>1, <1>2, <1>4, <2>1 DEF Held, Goes, Live
  <2>. QED
    BY <2>1, <2>2, GoesHeld
<1>5. CASE /\ ilock(i)[i].d.type = "dir" /\ dirlookup(i, Head(l[p].elems)) # 0
           /\ iput(p, Walked(l[p], dirlookup(i, Head(l[p].elems))), i, "walk")
  <2>1. PICK e \in Elem : e = Head(l[p].elems)
    BY <1>1, <1>2, FirstIs
  <2>2. PICK n \in Inum : n = dirlookup(i, e)
    BY <1>1, <1>2, <1>5, <2>1, FirstIs DEF Inum0
  <2>3. IsDir(i)
    BY <1>2, <1>5, IlockIs DEF IsDir
  <2>4. e = ".." => dents[i][".."] = ROOTINO \/ Entries(i) # {}
    BY <1>2, <2>1 DEF ParentKept
  <2>5. Live(n)
    BY <2>2, <2>3, <2>4, FoundLive
  <2>. DEFINE r == Walked(l[p], n)
  <2>6. r \in Locals /\ r.wp = n
    BY <1>1, Here, Zero, WalkSet
  <2>7. iput(p, r, i, "walk") /\ "walk" \in Location
    BY <1>5, <2>1, <2>2 DEF Location
  <2>. HIDE DEF r
  <2>8. Putting(p, r, i, "walk") /\ Goes(p, "walk")
    BY <2>6, <2>7, Here, iputIs, PutGoes
  <2>9. Held(p)'
    BY <1>1, <2>5, <2>6, <2>8 DEF Held, Live, Putting
  <2>. QED
    BY <2>8, <2>9, GoesHeld
<1>. QED
  BY SMTT(30), <1>2, <1>3, <1>4, <1>5 DEF Walk, WpPut, Walked

\* The last step of namex() keeps what is held.
LEMMA WalkEnd_Held ==
  ASSUME IInv, HeldInv, Next, NEW p \in Proc, WalkEnd(p)
  PROVE  HeldInv'
<1>1. pc[p] = "walk" /\ Loc(p) = "walk" /\ dinode' = dinode
  BY SameInodes DEF WalkEnd, Loc
<1>2. Live(l[p].wp)
  BY <1>1 DEF HeldInv, Held
<1>3. CASE WpPut(p, l[p].wp, Failed(p))
  <2>1. Failed(p) \notin {"walk", "named", "exists"}
    BY DEF Failed
  <2>. QED
    BY <1>3, <2>1, PutEnds, Ended_Held
<1>4. CASE Goto(p, "named") /\ l' = l
  <2>1. Goes(p, "named")
    BY <1>4, Here, SetGoes
  <2>2. Held(p)'
    BY <1>1, <1>2, <1>4, <2>1 DEF Held, Goes, Live
  <2>. QED
    BY <2>1, <2>2, GoesHeld
<1>. QED
  BY <1>3, <1>4 DEF WalkEnd, WpPut

\* iput() keeps what is held: it frees what nobody else refers to.
LEMMA Iput_Held ==
  ASSUME IInv, HeldInv, Next, NEW p \in Proc, Iput(p)
  PROVE  HeldInv'
<1>1. pc[p] = "put" /\ pc' = [pc EXCEPT ![p] = "deref"] /\ l' = l
  BY DEF Iput, Goto
<1>2. Goes(p, Loc(p))
  BY <1>1, Here DEF Goes, Loc, Types
<1>3. Held(p)'
  BY <1>1, <1>2, HeldStays DEF Goes, HeldInv
<1>. QED
  BY <1>2, <1>3, GoesHeld

\* The end of iput() keeps what is held.
LEMMA Deref_Held ==
  ASSUME IInv, HeldInv, Next, NEW p \in Proc, Deref(p)
  PROVE  HeldInv'
<1>1. /\ pc[p] = "deref" /\ Goto(p, l[p].ret) /\ Loc(p) = l[p].ret
      /\ Set(p, IF l[p].ret \in {"idle", "unused", "exit"} THEN NoCall
                ELSE [l[p] EXCEPT !.drop = 0])
  BY DEF Deref, Loc
<1>2. l[p].ret \in Location /\ l[p].ret \notin {"put", "deref"}
  BY Here DEF Locals, Location
<1>3. Goes(p, l[p].ret)
  <2>1. \E r : Set(p, r)
    BY <1>1
  <2>. QED
    BY <1>1, <1>2, <2>1, Here, SetGoes
<1>4. CASE l[p].ret \in {"idle", "unused", "exit"}
  BY <1>3, <1>4, Ended_Held DEF Ended
<1>5. CASE l[p].ret \notin {"idle", "unused", "exit"}
  <2>. DEFINE s == [l[p] EXCEPT !.drop = 0]
  <2>1. s.wp = l[p].wp /\ s.ip = l[p].ip
    BY Here DEF Locals
  <2>2. l'[p] = s
    BY <1>1, <1>5, Here DEF Set, Types
  <2>. HIDE DEF s
  <2>3. Held(p)'
    BY <1>1, <1>3, <2>1, <2>2, HeldStays DEF Goes, HeldInv
  <2>. QED
    BY <1>3, <2>3, GoesHeld
<1>. QED
  BY <1>4, <1>5

\* create() that finds its name finds an allocated inode.
LEMMA CreateFound_Held ==
  ASSUME IInv, HeldInv, Next, ParentKept, NEW p \in Proc, CreateFound(p)
  PROVE  HeldInv'
<1>1. /\ pc[p] = "named" /\ Loc(p) = "named" /\ l[p].parent /\ Len(l[p].elems) = 1
      /\ dinode' = dinode
  BY Here, SameInodes DEF CreateFound, Named, Loc, Ctl, Creating
<1>2. PICK i \in Inum : i = l[p].wp /\ IsDir(i)
  BY <1>1, Here DEF Ctl, Locals, Inum0, NameOf
<1>3. l[p].elems # <<>>
  <2>1. ASSUME NEW s, s = <<>> PROVE Len(s) = 0
    BY <2>1
  <2>2. Len(l[p].elems) # 0
    BY <1>1
  <2>. QED
    BY Zenon, <2>1, <2>2
<1>4. PICK e \in Elem : e = Head(l[p].elems)
  BY <1>2, <1>3, FirstIs
<1>5. PICK n \in Inum : n = dirlookup(i, e)
  BY <1>2, <1>3, <1>4, FirstIs DEF CreateFound, Inum0
<1>6. e = ".." => dents[i][".."] = ROOTINO \/ Entries(i) # {}
  BY <1>2, <1>4 DEF ParentKept
<1>7. Live(n)
  BY <1>2, <1>5, <1>6, FoundLive
<1>. DEFINE r == WpIp(l[p], 0, n)
<1>8. Becomes(l[p], r, 0, n, l[p].dp)
  BY Here, Zero, WpIpSet
<1>9. iput(p, r, i, "exists") /\ "exists" \in Location
  BY <1>2, <1>4, <1>5 DEF CreateFound, Location, WpIp
<1>. HIDE DEF r
<1>10. Putting(p, r, i, "exists") /\ Goes(p, "exists")
  BY <1>8, <1>9, Here, iputIs, PutGoes DEF Becomes
<1>11. Held(p)'
  BY <1>1, <1>7, <1>8, <1>10 DEF Held, Live, Putting, Becomes
<1>. QED
  BY <1>10, <1>11, GoesHeld

\* link() keeps what is held.
LEMMA Link_Held ==
  ASSUME IInv, HeldInv, Next, NEW p \in Proc, Link(p)
  PROVE  HeldInv'
<1>1. PICK i \in Inum : i = l[p].wp
  BY Here DEF Link, Named, Loc, Ctl, Locals, Inum0
<1>2. CASE WpPut(p, i, "idle")
  BY <1>2, PutEnds, Ended_Held
<1>3. CASE Set(p, Linking(l[p], i, From(p, l[p].new))) /\ Goto(p, "walk")
  <2>1. cwd[p] # 0
    BY Here DEF Link, Named, Loc, Ctl
  <2>2. PICK w \in Inum : w = From(p, l[p].new) /\ Live(w)
    BY <2>1, FromLive
  <2>. DEFINE s == Linking(l[p], i, w)
  <2>3. LinkingTo(l[p], s, i, w)
    BY Here, Zero, LinkingIs
  <2>4. Set(p, s)
    BY <1>3, <2>2
  <2>. HIDE DEF s
  <2>5. Goes(p, "walk")
    BY <1>3, <2>4, Here, SetGoes
  <2>6. l'[p] = s
    BY <2>4, Here DEF Set, Types
  <2>7. dinode'[w].type # "free"
    BY <2>2, SameTypes DEF Live
  <2>8. Held(p)'
    BY SMTT(30), <2>3, <2>5, <2>6, <2>7 DEF Held, Goes, Live, LinkingTo
  <2>. QED
    BY <2>5, <2>8, GoesHeld
<1>. QED
  BY <1>1, <1>2, <1>3 DEF Link, WpPut, Linking

\* The steps on open files keep what is held.
LEMMA FileStep_Held ==
  ASSUME IInv, HeldInv, Next, NEW p \in Proc, FileStep(p)
  PROVE  HeldInv'
<1>1. CASE l' = l /\ pc' = pc
  <2>1. Goes(p, Loc(p))
    BY <1>1 DEF Goes, Loc
  <2>2. Held(p)'
    BY <1>1, <2>1, HeldStays DEF Goes, HeldInv
  <2>. QED
    BY <2>1, <2>2, GoesHeld
<1>2. ASSUME NEW i, NEW ret \in {"idle", "exit"}, iput(p, NoCall, i, ret) PROVE HeldInv'
  <2>1. Goes(p, ret)
    BY <1>2, Here, NoCallIs, PutGoes
  <2>. QED
    BY <2>1, Ended_Held DEF Ended
<1>3. PICK fd \in Fd : Access(p, fd) \/ Write(p, fd) \/ Dup(p, fd) \/ Close(p, fd)
  BY DEF FileStep
<1>4. CASE Close(p, fd)
  BY <1>1, <1>2, <1>4 DEF Close
<1>. QED
  BY <1>1, <1>3, <1>4 DEF Access, Write, Dup

\* fork() keeps what is held.
LEMMA Fork_Held ==
  ASSUME IInv, HeldInv, Next, NEW p \in Proc, NEW q \in Proc, Fork(p, q)
  PROVE  HeldInv'
<1>1. Goto(q, "idle") /\ l' = l
  BY DEF Fork
<1>2. Goes(q, "idle")
  BY <1>1, Here, SetGoes
<1>. QED
  BY <1>2, Ended_Held DEF Ended

\* So does every step.
LEMMA Next_Held == IInv /\ HeldInv /\ [Next]_vars /\ [ParentKept]_vars => HeldInv'
<1>. SUFFICES ASSUME IInv, HeldInv, [Next]_vars, [ParentKept]_vars PROVE HeldInv'
  OBVIOUS
<1>1. CASE UNCHANGED vars
  BY <1>1 DEF vars, diskVars, fileVars, HeldInv, Held, Loc, Live
<1>2. CASE Next /\ ParentKept
  <2>1. PICK p \in Proc : PathStep(p) \/ CallStep(p) \/ FileStep(p) \/ \E q \in Proc : Fork(p, q)
    BY <1>2 DEF Next
  <2>2. CASE PathStep(p)
    BY <1>2, <2>2, Begin_Held, Walk_Held, WalkEnd_Held, Iput_Held, Deref_Held DEF PathStep
  <2>3. CASE CallStep(p)
    <3>1. CASE CreateFound(p)
      BY <1>2, <3>1, CreateFound_Held
    <3>2. CASE Link(p)
      BY <1>2, <3>2, Link_Held
    <3>3. CASE Ended(p)
      BY <1>2, <3>3, Ended_Held
    <3>. QED
      BY <2>3, <3>1, <3>2, <3>3, Ends DEF CallStep
  <2>. QED
    BY <1>2, <2>1, <2>2, <2>3, FileStep_Held, Fork_Held
<1>. QED
  BY <1>1, <1>2

\* NoPanic holds unless namex() looks up ".." in a removed directory that was not
\* in the root: no process finds an inode it has to lock free, no link count drops
\* below zero, and no free block is freed.
THEOREM NoPanicUnlessOrphan == Spec /\ [][ParentKept]_vars => []NoPanic
<1>1. Init => HeldInv
  <2>. SUFFICES ASSUME Init, NEW p \in Proc PROVE Held(p)
    BY DEF HeldInv
  <2>1. Loc(p) \in {"idle", "unused"}
    BY DEF Init, Loc
  <2>. QED
    BY <2>1 DEF Held
<1>2. Spec /\ [][ParentKept]_vars => []HeldInv
  BY <1>1, Invariance, Next_Held, PTL DEF Spec
<1>3. ASSUME IInv, HeldInv, NEW p \in Proc
      PROVE  /\ (Wants(p) # 0 /\ pc[p] # "put") =>
                  icache[Wants(p)].valid \/ dinode[Wants(p)].type # "free"
             /\ (pc[p] = "unlink" /\ icache[l[p].ip].valid) => icache[l[p].ip].d.nlink > 0
             /\ (pc[p] = "put" /\ Unused(l[p].drop)) => Blocks(icache[l[p].drop].d) \subseteq used
  <2>1. Held(p) /\ LiveOf(p) /\ Ctl(p) /\ NameOf(p) /\ l[p] \in Locals
    BY <1>3, Here DEF HeldInv
  <2>2. (Wants(p) # 0 /\ pc[p] # "put") => Live(Wants(p))
    BY <2>1 DEF Wants, Held, LiveOf, Loc
  <2>3. ASSUME pc[p] = "unlink", icache[l[p].ip].valid PROVE icache[l[p].ip].d.nlink > 0
    <3>1. Loc(p) = "unlink"
      BY <2>3 DEF Loc
    <3>2. PICK i \in Inum, d \in Inum : i = l[p].ip /\ d = l[p].dp
      BY <2>1, <3>1 DEF Ctl, Locals, Inum0
    <3>3. PICK n \in Name : dents[d][n] = i
      BY <2>1, <3>1, <3>2 DEF NameOf
    <3>4. dinode[i].nlink > 0
      BY <1>3, <3>3, NamedLive
    <3>. QED
      BY <1>3, <2>3, <3>2, <3>4, Here
  <2>4. ASSUME pc[p] = "put", Unused(l[p].drop) PROVE Blocks(icache[l[p].drop].d) \subseteq used
    <3>1. PICK i \in Inum : i = l[p].drop
      BY <2>1, <2>4 DEF Ctl, Locals, Inum0
    <3>2. icache[i].d = dinode[i]
      BY <1>3, <2>4, <3>1, Here DEF Unused
    <3>. QED
      BY <1>3, <3>1, <3>2 DEF IInv, BlocksOwned
  <2>. QED
    BY <2>2, <2>3, <2>4 DEF Live
<1>4. IInv /\ HeldInv => NoPanic
  BY <1>3 DEF NoPanic
<1>. QED
  BY <1>2, <1>4, Invariance, PTL

=============================================================================
