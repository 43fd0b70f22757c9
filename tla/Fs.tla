--------------------------------- MODULE Fs ---------------------------------
(***************************************************************************)
(* Inodes, directories, path lookup and the calls on them (fs.c, sysfile.c, *)
(* file.c), down to the inode locks.  A section of a call between two       *)
(* blocking points is one action: it acquires at most one sleep lock, and   *)
(* what it touches is protected by the locks it holds.  iput() is two, as   *)
(* it releases ip->lock before it decrements ip->ref.                       *)
(*                                                                         *)
(* A process keeps in wp, ip, dp and drop the references its call owns,     *)
(* each worth one of ip->ref, and 0 where it owns none.  The log's          *)
(* begin_op() and end_op() are in Log: they wait for no inode.              *)
(*                                                                         *)
(* A step that would panic is not taken.  NoPanic is about the assertions; *)
(* a full disk, inode table or inode cache panics by design.               *)
(***************************************************************************)
EXTENDS Naturals, Sequences, FiniteSets, FiniteSetsExt

CONSTANTS
  Proc, initproc, NoProc,
  ninodes,              \* sb.ninodes
  Block,                \* numbers of the data blocks
  NDIRECT, NINDIRECT,
  NFILE, NOFILE,        \* open files in the system, in a process
  Name,                 \* file names other than "." and ".."
  Calls                 \* the calls on paths that each process makes

ROOTINO == 1
Inum == 1 .. ninodes - 1
MAXFILE == NDIRECT + NINDIRECT
Elem == Name \cup {".", ".."}
Path == [abs : BOOLEAN, elems : Seq(Elem)]
Ops == {"open", "openw", "creat", "mkdir", "mknod", "unlink", "link", "chdir"}

ASSUME FsAssumption ==
  /\ IsFiniteSet(Proc) /\ initproc \in Proc /\ NoProc \notin Proc
  /\ ninodes \in Nat /\ ninodes > 1
  /\ IsFiniteSet(Block) /\ Block \subseteq Nat \ {0} /\ Block # {}
  /\ {NDIRECT, NINDIRECT, NFILE, NOFILE} \subseteq Nat /\ NDIRECT > 0
  /\ IsFiniteSet(Name)
  /\ {".", ".."} \cap Name = {}
  /\ \A p \in Proc : \A c \in Calls[p] : c.op \in Ops /\ c.path \in Path /\ c.new \in Path

VARIABLES
  dinode,   \* on disk: type, nlink, data blocks in order, indirect block
  dents,    \* contents of the directories; "." is the directory itself
  used,     \* the free map
  icache,   \* in memory: ref, valid, and the copy of dinode
  lock,     \* the holder of each ip->lock
  ftable, ofile, cwd,
  pc, l     \* where each process is, and the locals of its call

diskVars == <<dinode, dents, used>>
fileVars == <<ftable, ofile, cwd>>
vars == <<diskVars, icache, lock, fileVars, pc, l>>

NoInode == [type |-> "free", nlink |-> 0, data |-> <<>>, ind |-> 0]
NoEntries == [n \in Name \cup {".."} |-> 0]
NoFile == [ref |-> 0, ip |-> 0, writable |-> FALSE]
NoCall == [op |-> "none", elems |-> <<>>, parent |-> FALSE, new |-> [abs |-> TRUE, elems |-> <<>>],
           wp |-> 0, ip |-> 0, dp |-> 0, drop |-> 0, ret |-> "idle"]
Fd == 0 .. NOFILE - 1
File == 1 .. NFILE

\* mkfs has written a root directory, of one block, that is its own parent.
Init ==
  /\ dinode = [i \in Inum |-> IF i = ROOTINO
        THEN [type |-> "dir", nlink |-> 1, data |-> <<Min(Block)>>, ind |-> 0] ELSE NoInode]
  /\ dents = [i \in Inum |-> IF i = ROOTINO THEN [NoEntries EXCEPT ![".."] = ROOTINO] ELSE NoEntries]
  /\ used = {Min(Block)}
  /\ icache = [i \in Inum |-> [ref |-> IF i = ROOTINO THEN 1 ELSE 0, valid |-> FALSE, d |-> NoInode]]
  /\ lock = [i \in Inum |-> NoProc]
  /\ ftable = [f \in File |-> NoFile]
  /\ ofile = [p \in Proc |-> [fd \in Fd |-> 0]]
  /\ cwd = [p \in Proc |-> IF p = initproc THEN ROOTINO ELSE 0]
  /\ pc = [p \in Proc |-> IF p = initproc THEN "idle" ELSE "unused"]
  /\ l = [p \in Proc |-> NoCall]

-----------------------------------------------------------------------------
(* The inode cache. *)

Goto(p, to) == pc' = [pc EXCEPT ![p] = to]
Set(p, r) == l' = [l EXCEPT ![p] = r]

\* iget() and idup().  The cache has room for every inode of the instance.
iget(c, i) == [c EXCEPT ![i].ref = @ + 1]

\* ilock() reads the inode from disk if its entry is not valid.
ilock(i) == [icache EXCEPT ![i] =
  IF @.valid THEN @ ELSE [ref |-> @.ref, valid |-> TRUE, d |-> dinode[i]]]
CanLock(i) == lock[i] = NoProc /\ (icache[i].valid \/ dinode[i].type # "free")

\* iunlock(), in the action that frees locks, and the beginning of iput().
iput(p, r, i, ret) ==
  /\ Set(p, [r EXCEPT !.drop = i, !.ret = ret])
  /\ Goto(p, "put")

\* The copy in memory is changed and written through: iupdate().
iupdate(c, i, d) ==
  /\ icache' = [c EXCEPT ![i].d = d]
  /\ dinode' = [dinode EXCEPT ![i] = d]

Blocks(d) == {d.data[k] : k \in 1 .. Len(d.data)} \cup ({d.ind} \ {0})

\* Mutant: the check leaves out the references.
Unused_AnyRef(i) == icache[i].valid /\ icache[i].d.nlink = 0

\* The test of iput(): no links, and the reference being dropped is the last.
Unused(i) == icache[i].valid /\ icache[i].d.nlink = 0 /\ icache[i].ref = 1

\* Mutant: the indirect block is not given back.
itrunc_KeepsIndirect(i) == used' = used \ (Blocks(icache[i].d) \ {icache[i].d.ind})

itrunc(i) == used' = used \ Blocks(icache[i].d)

\* iput() up to releasesleep(); itrunc() and the type 0 free the inode on disk.
Iput(p) ==
  LET i == l[p].drop IN
  /\ pc[p] = "put" /\ lock[i] = NoProc
  /\ IF Unused(i)
       THEN /\ Blocks(icache[i].d) \subseteq used
            /\ itrunc(i)
            /\ dinode' = [dinode EXCEPT ![i] = NoInode]
            /\ dents' = [dents EXCEPT ![i] = NoEntries]
            /\ icache' = [icache EXCEPT ![i] = [ref |-> @.ref, valid |-> FALSE, d |-> NoInode]]
       ELSE UNCHANGED <<diskVars, icache>>
  /\ Goto(p, "deref")
  /\ UNCHANGED <<lock, fileVars, l>>

\* The end of iput(): a cache entry without references is free.
Deref(p) ==
  LET i == l[p].drop IN
  /\ pc[p] = "deref"
  /\ icache' = IF icache[i].ref = 1
       THEN [icache EXCEPT ![i] = [ref |-> 0, valid |-> FALSE, d |-> NoInode]]
       ELSE [icache EXCEPT ![i].ref = @ - 1]
  /\ Goto(p, l[p].ret)
  /\ Set(p, IF l[p].ret \in {"idle", "unused", "exit"} THEN NoCall ELSE [l[p] EXCEPT !.drop = 0])
  /\ UNCHANGED <<diskVars, lock, fileVars>>

-----------------------------------------------------------------------------
(* Path lookup. *)

dirlookup(i, e) == IF e = "." THEN i ELSE dents[i][e]

\* The start of namex(): the root or the current directory.
From(p, path) == IF path.abs THEN ROOTINO ELSE cwd[p]

\* A call starts with namei() or nameiparent() of its path.
Begin(p) ==
  /\ pc[p] = "idle"
  /\ \E c \in Calls[p] :
       /\ Set(p, [NoCall EXCEPT !.op = c.op, !.elems = c.path.elems, !.new = c.new,
                                !.wp = From(p, c.path),
                                !.parent = c.op \in {"creat", "mkdir", "mknod", "unlink"}])
       /\ icache' = iget(icache, From(p, c.path))
  /\ Goto(p, "walk")
  /\ UNCHANGED <<diskVars, lock, fileVars>>

\* Where a failed lookup leads: link() has to undo its nlink++.
Failed(p) == IF l[p].ip # 0 THEN "bad" ELSE "idle"

\* One turn of the loop of namex(): ilock, dirlookup, iunlock, then iput.
Walk(p) ==
  LET r == l[p]
      gone == [r EXCEPT !.wp = 0]
      next == dirlookup(r.wp, Head(r.elems)) IN
  /\ pc[p] = "walk" /\ r.elems # <<>> /\ CanLock(r.wp)
  /\ \/ /\ ilock(r.wp)[r.wp].d.type # "dir"
        /\ icache' = ilock(r.wp) /\ iput(p, gone, r.wp, Failed(p))
     \/ /\ ilock(r.wp)[r.wp].d.type = "dir"
        /\ \/ /\ r.parent /\ Len(r.elems) = 1
              /\ icache' = ilock(r.wp) /\ Goto(p, "named") /\ UNCHANGED l
           \/ /\ ~(r.parent /\ Len(r.elems) = 1) /\ next = 0
              /\ icache' = ilock(r.wp) /\ iput(p, gone, r.wp, Failed(p))
           \/ /\ ~(r.parent /\ Len(r.elems) = 1) /\ next # 0
              /\ icache' = iget(ilock(r.wp), next)
              /\ iput(p, [r EXCEPT !.wp = next, !.elems = Tail(@)], r.wp, "walk")
  /\ UNCHANGED <<diskVars, lock, fileVars>>

\* The path is used up: namei() has its inode, nameiparent() fails.
WalkEnd(p) ==
  /\ pc[p] = "walk" /\ l[p].elems = <<>>
  /\ IF l[p].parent THEN iput(p, [l[p] EXCEPT !.wp = 0], l[p].wp, Failed(p))
                    ELSE Goto(p, "named") /\ UNCHANGED l
  /\ UNCHANGED <<diskVars, icache, lock, fileVars>>

-----------------------------------------------------------------------------
(* open, mkdir and mknod. *)

Named(p, ops) == pc[p] = "named" /\ l[p].op \in ops
wpd(p) == ilock(l[p].wp)[l[p].wp].d

\* sys_open() without O_CREATE: a directory can only be opened for reading.
Open(p) ==
  LET i == l[p].wp IN
  /\ Named(p, {"open", "openw"}) /\ CanLock(i)
  /\ icache' = ilock(i)
  /\ IF wpd(p).type = "dir" /\ l[p].op = "openw"
       THEN iput(p, [l[p] EXCEPT !.wp = 0], i, "idle") /\ UNCHANGED lock
       ELSE /\ Set(p, [l[p] EXCEPT !.wp = 0, !.ip = i]) /\ Goto(p, "opened")
            /\ lock' = [lock EXCEPT ![i] = p]
  /\ UNCHANGED <<diskVars, fileVars>>

FreeFiles == {f \in File : ftable[f].ref = 0}
FreeFds(p) == {fd \in Fd : ofile[p][fd] = 0}

\* The end of sys_open(): the new file takes over the reference, or all is undone.
Opened(p) ==
  LET i == l[p].ip IN
  /\ pc[p] = "opened"
  /\ lock' = [lock EXCEPT ![i] = NoProc]
  /\ IF FreeFiles # {} /\ FreeFds(p) # {}
       THEN LET f == Min(FreeFiles) IN
            /\ ftable' = [ftable EXCEPT ![f] =
                 [ref |-> 1, ip |-> i, writable |-> l[p].op # "open"]]
            /\ ofile' = [ofile EXCEPT ![p][Min(FreeFds(p))] = f]
            /\ Goto(p, "idle") /\ Set(p, NoCall)
       ELSE iput(p, [l[p] EXCEPT !.ip = 0], i, "idle") /\ UNCHANGED <<ftable, ofile>>
  /\ UNCHANGED <<diskVars, icache, cwd>>

FreeInums == {i \in Inum : dinode[i].type = "free"}
FreeBlocks == Block \ used
Type(op) == CASE op = "creat" -> "file" [] op = "mkdir" -> "dir" [] op = "mknod" -> "dev"
Creating == {"creat", "mkdir", "mknod"}

\* create() of a name that exists: the directory is unlocked and put first.
CreateFound(p) ==
  LET dp == l[p].wp
      ip == dirlookup(dp, Head(l[p].elems)) IN
  /\ Named(p, Creating) /\ CanLock(dp) /\ ip # 0
  /\ icache' = iget(ilock(dp), ip)
  /\ iput(p, [l[p] EXCEPT !.wp = 0, !.ip = ip], dp, "exists")
  /\ UNCHANGED <<diskVars, lock, fileVars>>

Exists(p) ==
  LET ip == l[p].ip IN
  /\ pc[p] = "exists" /\ CanLock(ip)
  /\ icache' = ilock(ip)
  /\ IF l[p].op = "creat" /\ ilock(ip)[ip].d.type = "file"
       THEN lock' = [lock EXCEPT ![ip] = p] /\ Goto(p, "opened") /\ UNCHANGED l
       ELSE iput(p, [l[p] EXCEPT !.ip = 0], ip, "idle") /\ UNCHANGED lock
  /\ UNCHANGED <<diskVars, fileVars>>

\* Mutant: ip->nlink = 1 is left out.
NewInode_NoLink(op) ==
  [type |-> Type(op), nlink |-> 0,
   data |-> IF op = "mkdir" THEN <<Min(FreeBlocks)>> ELSE <<>>, ind |-> 0]

\* ialloc(), nlink = 1, and the block that dirlink() gives "." and "..".
NewInode(op) ==
  [type |-> Type(op), nlink |-> 1,
   data |-> IF op = "mkdir" THEN <<Min(FreeBlocks)>> ELSE <<>>, ind |-> 0]

\* create() of a new name, with the directory locked, up to iunlock(dp): the
\* new inode stays locked.  Nobody else can reach it yet.
CreateNew(p) ==
  LET dp == l[p].wp
      e  == Head(l[p].elems)
      ip == Min(FreeInums)
      dd == [wpd(p) EXCEPT !.nlink = IF l[p].op = "mkdir" THEN @ + 1 ELSE @]
      d  == NewInode(l[p].op)
      c  == iget(ilock(dp), ip) IN
  /\ Named(p, Creating) /\ CanLock(dp) /\ dirlookup(dp, e) = 0
  /\ FreeInums # {} /\ (l[p].op = "mkdir" => FreeBlocks # {})
  /\ lock[ip] = NoProc
  /\ icache' = [c EXCEPT ![dp].d = dd, ![ip] = [ref |-> @.ref, valid |-> TRUE, d |-> d]]
  /\ dinode' = [dinode EXCEPT ![dp] = dd, ![ip] = d]
  /\ dents' = [dents EXCEPT ![dp][e] = ip, ![ip][".."] = IF l[p].op = "mkdir" THEN dp ELSE 0]
  /\ used' = used \cup Blocks(d)
  /\ lock' = [lock EXCEPT ![ip] = p]
  /\ iput(p, [l[p] EXCEPT !.wp = 0, !.ip = ip], dp, "made")
  /\ UNCHANGED <<fileVars>>

\* create() has returned: sys_open() goes on, mkdir and mknod put the inode.
Made(p) ==
  LET ip == l[p].ip IN
  /\ pc[p] = "made"
  /\ IF l[p].op = "creat" THEN Goto(p, "opened") /\ UNCHANGED <<lock, l>>
     ELSE /\ lock' = [lock EXCEPT ![ip] = NoProc]
          /\ iput(p, [l[p] EXCEPT !.ip = 0], ip, "idle")
  /\ UNCHANGED <<diskVars, icache, fileVars>>

-----------------------------------------------------------------------------
(* unlink and link. *)

isdirempty(i) == \A n \in Name : dents[i][n] = 0

\* sys_unlink() up to the lock of the inode: it keeps the directory locked.
Unlink(p) ==
  LET dp == l[p].wp
      e  == Head(l[p].elems)
      ip == dirlookup(dp, e) IN
  /\ Named(p, {"unlink"}) /\ CanLock(dp)
  /\ IF e \in {".", ".."} \/ ip = 0
       THEN /\ icache' = ilock(dp)
            /\ iput(p, [l[p] EXCEPT !.wp = 0], dp, "idle") /\ UNCHANGED lock
       ELSE /\ icache' = iget(ilock(dp), ip)
            /\ lock' = [lock EXCEPT ![dp] = p]
            /\ Set(p, [l[p] EXCEPT !.wp = 0, !.dp = dp, !.ip = ip]) /\ Goto(p, "unlink")
  /\ UNCHANGED <<diskVars, fileVars>>

Removable(d, i) == d.type = "dir" => isdirempty(i)

\* ... the inode is locked and its entry erased; iunlockput(dp) comes before
\* the inode is unlocked.
UnlinkEntry(p) ==
  LET r  == l[p]
      d  == ilock(r.ip)[r.ip].d
      dd == [icache[r.dp].d EXCEPT !.nlink = IF d.type = "dir" THEN @ - 1 ELSE @] IN
  /\ pc[p] = "unlink" /\ CanLock(r.ip) /\ d.nlink > 0
  /\ IF Removable(d, r.ip)
       THEN /\ dents' = [dents EXCEPT ![r.dp][Head(r.elems)] = 0]
            /\ iupdate(ilock(r.ip), r.dp, dd)
            /\ lock' = [lock EXCEPT ![r.dp] = NoProc, ![r.ip] = p]
            /\ iput(p, [r EXCEPT !.dp = 0], r.dp, "erased")
       ELSE /\ icache' = ilock(r.ip)
            /\ iput(p, [r EXCEPT !.ip = 0], r.ip, "notempty")
            /\ UNCHANGED <<dents, dinode, lock>>
  /\ UNCHANGED <<used, fileVars>>

\* ... the link is gone.
Unlinked(p) ==
  LET ip == l[p].ip IN
  /\ pc[p] = "erased"
  /\ iupdate(icache, ip, [icache[ip].d EXCEPT !.nlink = @ - 1])
  /\ lock' = [lock EXCEPT ![ip] = NoProc]
  /\ iput(p, [l[p] EXCEPT !.ip = 0], ip, "idle")
  /\ UNCHANGED <<dents, used, fileVars>>

\* ... label bad of unlink, and of link when the new name exists.
PutDir(p) ==
  LET dp == l[p].dp IN
  /\ pc[p] \in {"notempty", "linked"}
  /\ lock' = [lock EXCEPT ![dp] = NoProc]
  /\ iput(p, [l[p] EXCEPT !.dp = 0], dp, Failed(p))
  /\ UNCHANGED <<diskVars, icache, fileVars>>

\* Mutant: the inode stays locked while the new name is looked up.
LinkUnlocks_Not(p, i) == lock' = [lock EXCEPT ![i] = p]

LinkUnlocks(p, i) == UNCHANGED lock

\* sys_link(): nlink++ with the inode locked, then nameiparent() of the new name.
Link(p) ==
  LET i == l[p].wp
      w == From(p, l[p].new) IN
  /\ Named(p, {"link"}) /\ l[p].ip = 0 /\ CanLock(i)
  /\ IF wpd(p).type = "dir"
       THEN /\ icache' = ilock(i) /\ UNCHANGED dinode
            /\ iput(p, [l[p] EXCEPT !.wp = 0], i, "idle")
       ELSE /\ iupdate(iget(ilock(i), w), i, [wpd(p) EXCEPT !.nlink = @ + 1])
            /\ Set(p, [l[p] EXCEPT !.ip = i, !.wp = w, !.elems = l[p].new.elems, !.parent = TRUE])
            /\ Goto(p, "walk")
  /\ IF wpd(p).type = "dir" THEN UNCHANGED lock ELSE LinkUnlocks(p, i)
  /\ UNCHANGED <<dents, used, fileVars>>

\* ... dirlink(), which puts the inode it finds while dp is locked.
LinkEntry(p) ==
  LET r  == l[p]
      e  == Head(r.elems)
      ip == dirlookup(r.wp, e) IN
  /\ Named(p, {"link"}) /\ r.ip # 0 /\ CanLock(r.wp)
  /\ IF ip = 0
       THEN /\ dents' = [dents EXCEPT ![r.wp][e] = r.ip]
            /\ icache' = ilock(r.wp)
            /\ iput(p, [r EXCEPT !.wp = 0], r.wp, "putip") /\ UNCHANGED lock
       ELSE /\ icache' = iget(ilock(r.wp), ip)
            /\ lock' = [lock EXCEPT ![r.wp] = p]
            /\ iput(p, [r EXCEPT !.wp = 0, !.dp = r.wp], ip, "linked") /\ UNCHANGED dents
  /\ UNCHANGED <<dinode, used, fileVars>>

\* ... and the inode of the link is put.
LinkEnd(p) ==
  /\ pc[p] = "putip"
  /\ iput(p, [l[p] EXCEPT !.ip = 0], l[p].ip, "idle")
  /\ UNCHANGED <<diskVars, icache, lock, fileVars>>

\* ... label bad of sys_link(): nlink-- again.
LinkBad(p) ==
  LET ip == l[p].ip IN
  /\ pc[p] = "bad" /\ CanLock(ip)
  /\ iupdate(ilock(ip), ip, [ilock(ip)[ip].d EXCEPT !.nlink = @ - 1])
  /\ iput(p, [l[p] EXCEPT !.ip = 0], ip, "idle")
  /\ UNCHANGED <<dents, used, lock, fileVars>>

-----------------------------------------------------------------------------
(* chdir, and the calls on open files. *)

\* sys_chdir().  (cwd is assigned after the iput() of the old one; only the
\* process itself reads it.)
Chdir(p) ==
  LET i == l[p].wp IN
  /\ Named(p, {"chdir"}) /\ CanLock(i)
  /\ icache' = ilock(i)
  /\ IF wpd(p).type = "dir"
       THEN cwd' = [cwd EXCEPT ![p] = i] /\ iput(p, [l[p] EXCEPT !.wp = 0], cwd[p], "idle")
       ELSE iput(p, [l[p] EXCEPT !.wp = 0], i, "idle") /\ UNCHANGED cwd
  /\ UNCHANGED <<diskVars, lock, ftable, ofile>>

\* fileread(), filestat(), and filewrite() over blocks that exist or to a device.
\* f->off is abstracted: it is somewhere in the file.
Access(p, fd) ==
  LET i == ftable[ofile[p][fd]].ip IN
  /\ pc[p] = "idle" /\ ofile[p][fd] # 0 /\ CanLock(i)
  /\ icache' = ilock(i)
  /\ UNCHANGED <<diskVars, lock, fileVars, pc, l>>

\* Mutant: the first block after the direct ones is taken for a direct one.
NeedsIndirect_OffByOne(d) == Len(d.data) > NDIRECT /\ d.ind = 0

\* bmap() of the block after the last: the indirect block is allocated first.
NeedsIndirect(d) == Len(d.data) >= NDIRECT /\ d.ind = 0
bmap(d) ==
  LET ind == IF NeedsIndirect(d) THEN Min(FreeBlocks) ELSE d.ind IN
  [d EXCEPT !.data = Append(@, Min(FreeBlocks \ {ind})), !.ind = ind]

\* writei() past the end: the new block, and the new size.
writei(i, d) ==
  /\ iupdate(ilock(i), i, bmap(d))
  /\ used' = used \cup Blocks(bmap(d))

\* filewrite() of a block at the end of the file.
Write(p, fd) ==
  LET f == ofile[p][fd]
      i == ftable[f].ip
      d == ilock(i)[i].d IN
  /\ pc[p] = "idle" /\ f # 0 /\ CanLock(i)
  /\ ftable[f].writable /\ d.type # "dev" /\ Len(d.data) < MAXFILE
  /\ Cardinality(FreeBlocks) >= IF NeedsIndirect(d) THEN 2 ELSE 1
  /\ writei(i, d)
  /\ UNCHANGED <<dents, lock, fileVars, pc, l>>

\* sys_dup(): fdalloc() and filedup().
Dup(p, fd) ==
  LET f == ofile[p][fd] IN
  /\ pc[p] = "idle" /\ f # 0 /\ FreeFds(p) # {}
  /\ ofile' = [ofile EXCEPT ![p][Min(FreeFds(p))] = f]
  /\ ftable' = [ftable EXCEPT ![f].ref = @ + 1]
  /\ UNCHANGED <<diskVars, icache, lock, cwd, pc, l>>

\* sys_close(), and the loop of exit(): the last fileclose() puts the inode.
Close(p, fd) ==
  LET f == ofile[p][fd] IN
  /\ pc[p] \in {"idle", "exit"} /\ f # 0
  /\ ofile' = [ofile EXCEPT ![p][fd] = 0]
  /\ IF ftable[f].ref > 1
       THEN ftable' = [ftable EXCEPT ![f].ref = @ - 1] /\ UNCHANGED <<pc, l>>
       ELSE ftable' = [ftable EXCEPT ![f] = NoFile] /\ iput(p, NoCall, ftable[f].ip, pc[p])
  /\ UNCHANGED <<diskVars, icache, lock, cwd>>

Copies(p, f) == Cardinality({fd \in Fd : ofile[p][fd] = f})

\* Mutant: the child has the parent's descriptors without filedup().
ForkFiles_NoDup(p) == ftable

ForkFiles(p) == [f \in File |-> [ftable[f] EXCEPT !.ref = @ + Copies(p, f)]]

\* fork(): the child gets the open files and the current directory.
Fork(p, q) ==
  /\ pc[p] = "idle" /\ pc[q] = "unused"
  /\ ofile' = [ofile EXCEPT ![q] = ofile[p]]
  /\ ftable' = ForkFiles(p)
  /\ cwd' = [cwd EXCEPT ![q] = cwd[p]]
  /\ icache' = iget(icache, cwd[p])
  /\ Goto(q, "idle")
  /\ UNCHANGED <<diskVars, lock, l>>

\* exit(): after every file is closed the current directory is put.
Exit(p) ==
  /\ pc[p] = "idle" /\ p # initproc
  /\ Goto(p, "exit")
  /\ UNCHANGED <<diskVars, icache, lock, fileVars, l>>

ExitCwd(p) ==
  /\ pc[p] = "exit" /\ \A fd \in Fd : ofile[p][fd] = 0
  /\ cwd' = [cwd EXCEPT ![p] = 0]
  /\ iput(p, NoCall, cwd[p], "unused")
  /\ UNCHANGED <<diskVars, icache, lock, ftable, ofile>>

-----------------------------------------------------------------------------
\* The inode p has to lock to go on.
Wants(p) ==
  CASE pc[p] = "put" -> l[p].drop
    [] pc[p] = "named" \/ (pc[p] = "walk" /\ l[p].elems # <<>>) -> l[p].wp
    [] pc[p] \in {"exists", "unlink", "bad"} -> l[p].ip
    [] OTHER -> 0

PathStep(p) == Begin(p) \/ Walk(p) \/ WalkEnd(p) \/ Iput(p) \/ Deref(p)
CallStep(p) ==
  \/ Open(p) \/ Opened(p) \/ CreateFound(p) \/ Exists(p) \/ CreateNew(p) \/ Made(p)
  \/ Unlink(p) \/ UnlinkEntry(p) \/ Unlinked(p) \/ PutDir(p)
  \/ Link(p) \/ LinkEntry(p) \/ LinkEnd(p) \/ LinkBad(p)
  \/ Chdir(p) \/ Exit(p) \/ ExitCwd(p)
FileStep(p) == \E fd \in Fd : Access(p, fd) \/ Write(p, fd) \/ Dup(p, fd) \/ Close(p, fd)

Next == \E p \in Proc : PathStep(p) \/ CallStep(p) \/ FileStep(p) \/ \E q \in Proc : Fork(p, q)

Spec == Init /\ [][Next]_vars

-----------------------------------------------------------------------------
(* Properties. *)

DInode == [type : {"free", "dir", "file", "dev"}, nlink : Nat, data : Seq(Block), ind : Block \cup {0}]

\* The type of every variable.  An inode has at most MAXFILE blocks, and an
\* indirect block exactly when it has more than NDIRECT.
TypeOK ==
  /\ \A i \in Inum :
       /\ dinode[i] \in DInode /\ Len(dinode[i].data) <= MAXFILE
       /\ (dinode[i].ind # 0) <=> Len(dinode[i].data) > NDIRECT
  /\ dents \in [Inum -> [Name \cup {".."} -> Inum \cup {0}]]
  /\ used \subseteq Block
  /\ \A i \in Inum : icache[i].ref \in Nat /\ icache[i].valid \in BOOLEAN /\ icache[i].d \in DInode
  /\ lock \in [Inum -> Proc \cup {NoProc}]
  /\ \A f \in File : ftable[f].ref \in Nat /\ ftable[f].ip \in Inum \cup {0}
  /\ ofile \in [Proc -> [Fd -> File \cup {0}]]
  /\ cwd \in [Proc -> Inum \cup {0}]
  /\ \A p \in Proc : {l[p].wp, l[p].ip, l[p].dp, l[p].drop} \subseteq Inum \cup {0}

Refs(i) ==
  Cardinality({x \in Proc \X {"wp", "ip", "dp", "drop"} : l[x[1]][x[2]] = i})
  + Cardinality({p \in Proc : cwd[p] = i}) + Cardinality({f \in File : ftable[f].ip = i})

\* iget, idup and iput against their callers: ip->ref is the number of pointers
\* to the entry, f->ref the number of descriptors, through every error path;
\* and what the cache calls valid is what is on disk.
CacheConsistent ==
  /\ \A i \in Inum :
       /\ icache[i].ref = Refs(i)
       /\ icache[i].valid => icache[i].d = dinode[i]
  /\ \A f \in File : ftable[f].ref = Cardinality({x \in Proc \X Fd : ofile[x[1]][x[2]] = f})

Entries(i) == {x \in Inum \X Name : dents[x[1]][x[2]] = i}

\* create, link and unlink on the disk, at every instant: a directory entry names
\* an allocated inode and is counted in its nlink.
LinksCovered ==
  \A i \in Inum : Entries(i) # {} =>
     dinode[i].type # "free" /\ dinode[i].nlink >= Cardinality(Entries(i))

\* No block occurs twice in d.
Distinct(d) ==
  /\ \A j, k \in 1 .. Len(d.data) : d.data[j] = d.data[k] => j = k
  /\ \A j \in 1 .. Len(d.data) : d.data[j] # d.ind

\* balloc, bmap, bfree and itrunc: a block is in use exactly when it is a block of
\* one inode, once.
BlocksOwned ==
  /\ used = UNION {Blocks(dinode[i]) : i \in Inum}
  /\ \A i \in Inum : Distinct(dinode[i])
  /\ \A i, j \in Inum : i # j => Blocks(dinode[i]) \cap Blocks(dinode[j]) = {}

\* The assertions of fs.c and sysfile.c: no process that is next to lock an inode
\* finds it free ("ilock: no type"), no link count drops below zero
\* ("unlink: nlink < 1"), no free block is freed ("freeing free block").
NoPanic ==
  \A p \in Proc :
    /\ (Wants(p) # 0 /\ pc[p] # "put") => icache[Wants(p)].valid \/ dinode[Wants(p)].type # "free"
    /\ (pc[p] = "unlink" /\ icache[l[p].ip].valid) => icache[l[p].ip].d.nlink > 0
    /\ (pc[p] = "put" /\ Unused(l[p].drop)) => Blocks(icache[l[p].drop].d) \subseteq used

WaitsFor(p, q) == Wants(p) # 0 /\ lock[Wants(p)] = q

\* Directories are locked before their entries: processes that wait for each other
\* in a circle are there because one of them is in iput(), which takes ip->lock
\* while its caller holds another (sysfile.c:225, 280 and fs.c:560).
OnlyIputCycles ==
  \A S \in SUBSET Proc :
    (S # {} /\ \A p \in S : \E q \in S : WaitsFor(p, q)) =>
      \E p \in S : pc[p] = "put"

\* "If that was the last reference and the inode has no links to it, free the
\* inode (and its content) on disk" (fs.c:327).  Two processes in iput() can each
\* count the other's reference, and neither frees the inode.
NoOrphan ==
  \A i \in Inum : (dinode[i].type # "free" /\ icache[i].ref = 0) => dinode[i].nlink > 0

=============================================================================
