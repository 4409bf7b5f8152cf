------------------------------- MODULE Files --------------------------------
(***************************************************************************)
(* exportfs/: the tables behind the requests.  A Fid of the client points  *)
(* at a File, Files form a tree that mirrors the part of the name space in *)
(* use and count their users, and every File has a Qid of its own from     *)
(* qidtab.  main changes the tables, slaves read and write them in         *)
(* slaveopen, without locks, while other programs change the tree of the   *)
(* host.                                                                   *)
(*                                                                         *)
(* The client is any that sends one request at a time on a fid, except     *)
(* reads and writes, and opens and creates only with a fid it has not      *)
(* opened.  After a Tremove that failed it may use the fid number again.   *)
(***************************************************************************)
EXTENDS Naturals, SequencesExt, FiniteSetsExt

CONSTANTS Fids, Slaves,
          Objs, Root,        \* the files of the host, and the one exported
          Dev, Ino,          \* what tells them apart: Dir.dev, Dir.qid.path
          Names, DotDot, Walks,
          FileIds, RootFile, \* the memory for Files, and root
          Fds,               \* file descriptors, Fgrp.fd
          QidWrap,           \* 1<<16 in uniqueqid
          MaxRef,            \* bound on Qidtab.ref, which file() may leak
          InitHost,          \* the tree at the start
          MaxOps,            \* bound on requests and changes by other programs
          None

\* qidlookup: what tells the files of the host apart
Key(o) == <<Dev[o], Ino[o]>>
Keys == {Key(o) : o \in Objs}

\* Qids, entries of qidtab and Files.  A Qid is the path of the host and what
\* replaces its top 16 bits.
Qids == {Ino[o] : o \in Objs} \X Nat
Qidtab == [ref : Nat, uniq : Qids]
File == [name : Names \union {None}, parent : FileIds \union {None},
         kids : Seq(FileIds), ref : Nat, key : Keys, qid : Qids]

ASSUME FilesAssumption ==
  /\ Root \in Objs /\ RootFile \in FileIds /\ DotDot \notin Names
  /\ None \notin Objs /\ None \notin Fds /\ None \notin FileIds
  /\ None \notin Qidtab /\ None \notin File
  /\ None \notin Seq(Names \union {None})
  /\ None \notin [fid : Fids, new : BOOLEAN, left : Seq(Names \union {DotDot})]
  /\ IsFiniteSet(Fids) /\ IsFiniteSet(FileIds)
  /\ Walks \subseteq Seq(Names \union {DotDot})
  /\ Fds \subseteq Nat /\ QidWrap \in Nat \ {0, 1} /\ MaxRef \in Nat /\ MaxOps \in Nat

VARIABLES host,     \* where each file of the host is: up, name; or None
          fd,       \* the file that is open as each descriptor, or None
          of,       \* Fid.f, the File of each Fid; None when not in use
          sysfd,    \* Fid.fid, its descriptor, or None
          mode,     \* whether Fid.mode was set: the client has it open
          file,     \* the Files
          qidtab,   \* ref and uniqpath for each (dev, path), or None
          newqid,
          main,     \* the handler main is in
          slave,    \* what each slave is at
          ops       \* requests and changes by other programs so far

fidVars == <<of, sysfd, mode>>
vars == <<host, fd, fidVars, file, qidtab, newqid, main, slave, ops>>

Idle == [at |-> "idle"]

Count == ops < MaxOps /\ ops' = ops + 1

-----------------------------------------------------------------------------
\* The name space of drawterm, as far as exportfs sees it.
Child(o, n) ==
  LET c == {x \in Objs \ {Root} : host[x] = [up |-> o, name |-> n]}
  IN IF o = None \/ c = {} THEN None ELSE CHOOSE x \in c : TRUE

ObjAt(path) == FoldLeft(Child, Root, path)

Present(o) == o # Root => host[o] # None
Childless(o) == \A x \in Objs \ {Root} : host[x] # None => host[x].up # o
Vacant(o, n) == Child(o, n) = None

-----------------------------------------------------------------------------
\* Qids
Raw(k) == <<k[2], 0>>

qidexists(tab, u) == \E k \in DOMAIN tab : tab[k] # None /\ tab[k].uniq = u

\* (mutant) a new entry takes the path as it is
TriesNone(k) == 0

\* The numbers uniqueqid tries in turn: 0 for the path as it is, then newqid
\* counted on, and around past 0.
Try(i) == IF i = 0 THEN 0 ELSE ((newqid + i - 1) % (QidWrap - 1)) + 1
Unused(k) == {i \in 0 .. QidWrap - 1 : ~qidexists(qidtab, <<k[2], Try(i)>>)}
Tries(k) == Min(Unused(k))

\* uniqueqid: the entry of a file of the host, one reference more.
Uniqued(k) ==
  IF qidtab[k] # None
    THEN [qidtab EXCEPT ![k].ref = @ + 1]
    ELSE [qidtab EXCEPT ![k] = [ref |-> 1, uniq |-> <<k[2], Try(Tries(k))>>]]
Newqid(k) == IF qidtab[k] # None \/ Tries(k) = 0 THEN newqid ELSE Try(Tries(k))

\* freeqid, for each of a set of Files that are freed
Unqidded(tab, fl, dead) ==
  LET n(k) == Cardinality({g \in dead : fl[g].key = k})
  IN [k \in DOMAIN tab |->
        IF tab[k] = None \/ n(k) = 0 THEN tab[k]
        ELSE IF tab[k].ref <= n(k) THEN None ELSE [tab[k] EXCEPT !.ref = @ - n(k)]]

-----------------------------------------------------------------------------
LiveIn(fl) == {g \in FileIds : fl[g] # None}

\* makepath: the names from root down to a File.
Path(fl, f) ==
  LET p[g \in LiveIn(fl)] ==
        IF g = RootFile THEN <<>> ELSE Append(p[fl[g].parent], fl[g].name)
  IN p[f]

\* Whether makepath of f reads the name of g.
Below(g, f) ==
  LET b[h \in LiveIn(file)] == h = g \/ (h # RootFile /\ b[file[h].parent])
  IN b[f]

\* The list of children without the one of them that goes.
Unlinked(kids, dead) ==
  IF \E i \in DOMAIN kids : kids[i] \in dead
    THEN RemoveAt(kids, CHOOSE i \in DOMAIN kids : kids[i] \in dead)
    ELSE kids

\* (mutant) the loop of freefile is not taken: the parent keeps its reference
FreedAlone(fl, f) ==
  IF fl[f].ref > 1 THEN [fl EXCEPT ![f].ref = @ - 1]
  ELSE [fl EXCEPT ![f] = None, ![fl[f].parent].kids = Unlinked(@, {f})]

\* freefile drops one reference, and of the parent too if it was the last,
\* and so on upward: the Files it comes to, and those of them that go.
Visited(fl, f) ==
  LET v[g \in LiveIn(fl)] ==
        IF fl[g].ref > 1 \/ g = RootFile THEN {g} ELSE {g} \union v[fl[g].parent]
  IN v[f]
Dead(fl, f) == {g \in Visited(fl, f) : fl[g].ref = 1}

Freed(fl, f) ==
  LET dead == Dead(fl, f)
  IN [g \in FileIds |->
        IF g \in dead THEN None
        ELSE IF g \in Visited(fl, f)
          THEN [fl[g] EXCEPT !.ref = @ - 1, !.kids = Unlinked(@, dead)]
          ELSE fl[g]]

\* The child of that name, the newest first, and memory for a new one.
Namesakes(f, n) == {i \in DOMAIN file[f].kids : file[file[f].kids[i]].name = n}
FreeFile == CHOOSE g \in FileIds : file[g] = None

\* The File file() takes for a name below f.
Named(f, n) ==
  IF Namesakes(f, n) # {} THEN file[f].kids[Min(Namesakes(f, n))] ELSE FreeFile

\* file(): the File for a name below f, which takes a reference, and its Qid.
\* A File that is found again takes another reference in qidtab too.
Found(f, n, k) ==
  LET uniq == Uniqued(k)[k].uniq
      g == Named(f, n)
  IN IF file[g] # None
       THEN [file EXCEPT ![g].ref = @ + 1, ![g].key = k, ![g].qid = uniq]
       ELSE [file EXCEPT ![f].kids = <<g>> \o @, ![f].ref = @ + 1,
                         ![g] = [name |-> n, parent |-> f, kids |-> <<>>, ref |-> 1,
                                 key |-> k, qid |-> uniq]]

\* The host has the file, and the loop of uniqueqid comes to a number not in use.
CanName(f, n) ==
  LET o == ObjAt(Append(Path(file, f), n))
  IN /\ o \in Objs
     /\ IF qidtab[Key(o)] = None THEN Unused(Key(o)) # {}
                                ELSE qidtab[Key(o)].ref < MaxRef
     /\ Namesakes(f, n) = {} => \E g \in FileIds : file[g] = None

\* file() and then freefile() of the File the Fid leaves: Xwalk, Xcreate.
MoveDown(f, n) ==
  LET from == of[f]
      k == Key(ObjAt(Append(Path(file, from), n)))
      fl == Found(from, n, k)
  IN /\ of' = [of EXCEPT ![f] = Named(from, n)]
     /\ file' = Freed(fl, from)
     /\ qidtab' = Unqidded(Uniqued(k), fl, Dead(fl, from))
     /\ newqid' = Newqid(k)

-----------------------------------------------------------------------------
\* initroot; the Fids start with the connection.  psmpt is left out: nothing
\* uses it since the mounts of Xattach are commented out.
Init ==
  /\ host = InitHost
  /\ fd = [d \in Fds |-> None]
  /\ of = [f \in Fids |-> None]
  /\ sysfd = [f \in Fids |-> None]
  /\ mode = [f \in Fids |-> FALSE]
  /\ file = [g \in FileIds |->
               IF g = RootFile
                 THEN [name |-> None, parent |-> None, kids |-> <<>>, ref |-> 1,
                       key |-> Key(Root), qid |-> Raw(Key(Root))]
                 ELSE None]
  /\ qidtab = [k \in Keys |->
                 IF k = Key(Root) THEN [ref |-> 1, uniq |-> Raw(k)] ELSE None]
  /\ newqid = 0
  /\ main = Idle
  /\ slave = [s \in Slaves |-> Idle]
  /\ ops = 0

\* What the client waits for before it sends the next request on a fid.
Quiet(f) == \A s \in Slaves : slave[s] # Idle => slave[s].fid # f
Ready(f) == main = Idle /\ of[f] # None /\ Quiet(f)

\* (mutant) the test of the descriptor takes 0 for none
ClosedPositive(f) ==
  IF sysfd[f] \in {None, 0} THEN fd ELSE [fd EXCEPT ![sysfd[f]] = None]

\* The tables without the Fid f: close of its descriptor, then freefid.
Closed(f) == IF sysfd[f] = None THEN fd ELSE [fd EXCEPT ![sysfd[f]] = None]
Freefid(f) ==
  /\ file' = Freed(file, of[f])
  /\ qidtab' = Unqidded(qidtab, file, Dead(file, of[f]))
  /\ of' = [of EXCEPT ![f] = None]
  /\ sysfd' = [sysfd EXCEPT ![f] = None]
  /\ mode' = [mode EXCEPT ![f] = FALSE]

Xattach(f) ==
  /\ main = Idle
  /\ of[f] = None
  /\ of' = [of EXCEPT ![f] = RootFile]
  /\ file' = [file EXCEPT ![RootFile].ref = @ + 1]
  /\ Count
  /\ UNCHANGED <<host, fd, sysfd, mode, qidtab, newqid, main, slave>>

\* Xwalk up to the loop.  clonefid gives up a Fid that has the number of the
\* new one before the new one takes its reference.
Xwalk(f, n, names) ==
  /\ Ready(f) /\ Quiet(n)
  /\ main' = [at |-> "walk", fid |-> n, new |-> n # f, left |-> names]
  /\ \/ /\ n = f
        /\ UNCHANGED <<fd, fidVars, file, qidtab>>
     \/ /\ n # f
        /\ fd' = Closed(n)
        /\ of' = [of EXCEPT ![n] = of[f]]
        /\ sysfd' = [sysfd EXCEPT ![n] = None]
        /\ mode' = [mode EXCEPT ![n] = FALSE]
        /\ LET fl == IF of[n] = None THEN file ELSE Freed(file, of[n])
               dead == IF of[n] = None THEN {} ELSE Dead(file, of[n])
           IN /\ file' = [fl EXCEPT ![of[f]].ref = @ + 1]
              /\ qidtab' = Unqidded(qidtab, file, dead)
  /\ Count
  /\ UNCHANGED <<host, newqid, slave>>

Walking(n) == main.at = "walk" /\ main.left # <<>> /\ Head(main.left) = n

WalkUp ==
  /\ Walking(DotDot)
  /\ LET f == main.fid
         from == of[f]
         up == file[from].parent
         fl == [file EXCEPT ![up].ref = @ + 1]
     IN /\ up # None
        /\ of' = [of EXCEPT ![f] = up]
        /\ file' = Freed(fl, from)
        /\ qidtab' = Unqidded(qidtab, fl, Dead(fl, from))
  /\ main' = [main EXCEPT !.left = Tail(@)]
  /\ UNCHANGED <<host, fd, sysfd, mode, newqid, slave, ops>>

WalkDown(n) ==
  /\ Walking(n)
  /\ CanName(of[main.fid], n)
  /\ MoveDown(main.fid, n)
  /\ main' = [main EXCEPT !.left = Tail(@)]
  /\ UNCHANGED <<host, fd, sysfd, mode, slave, ops>>

\* (mutant) a new fid is kept where the walk stopped
WalkEndKeeps ==
  /\ main.at = "walk"
  /\ main' = Idle
  /\ UNCHANGED <<host, fd, fidVars, file, qidtab, newqid, slave, ops>>

\* The names are used up, or the next one is not there, or file() fails: a
\* walk may stop anywhere.  Only a new fid is given up then.
WalkEnd ==
  /\ main.at = "walk"
  /\ IF main.new /\ main.left # <<>>
       THEN Freefid(main.fid)
       ELSE UNCHANGED <<fidVars, file, qidtab>>
  /\ main' = Idle
  /\ UNCHANGED <<host, fd, newqid, slave, ops>>

Xclunk(f) ==
  /\ Ready(f)
  /\ fd' = Closed(f)
  /\ Freefid(f)
  /\ Count
  /\ UNCHANGED <<host, newqid, main, slave>>

\* A remove that fails keeps the Fid.
Xremove(f) ==
  LET o == ObjAt(Path(file, of[f]))
  IN /\ Ready(f)
     /\ o \notin {None, Root} /\ Childless(o)
     /\ host' = [host EXCEPT ![o] = None]
     /\ fd' = Closed(f)
     /\ Freefid(f)
     /\ Count
     /\ UNCHANGED <<newqid, main, slave>>

\* findfreefd
Lowest(d) == d \in Fds /\ fd[d] = None /\ \A e \in Fds : fd[e] = None => d <= e

\* create() opens what is there or makes it; a descriptor the Fid has kept
\* from a create that failed is overwritten.
Xcreate(f, n) ==
  LET dir == ObjAt(Path(file, of[f]))
  IN /\ Ready(f) /\ ~mode[f]
     /\ dir # None
     /\ \E o \in Objs \ {Root}, d \in Fds :
          /\ Lowest(d)
          /\ IF Vacant(dir, n) THEN host[o] = None /\ o \notin Range(fd)
                               ELSE o = Child(dir, n)
          /\ host' = [host EXCEPT ![o] = [up |-> dir, name |-> n]]
          /\ fd' = [fd EXCEPT ![d] = o]
          /\ sysfd' = [sysfd EXCEPT ![f] = d]
     /\ main' = [at |-> "create", fid |-> f, name |-> n]
     /\ Count
     /\ UNCHANGED <<of, mode, file, qidtab, newqid, slave>>

CreateFile ==
  /\ main.at = "create"
  /\ CanName(of[main.fid], main.name)
  /\ MoveDown(main.fid, main.name)
  /\ mode' = [mode EXCEPT ![main.fid] = TRUE]
  /\ main' = Idle
  /\ UNCHANGED <<host, fd, sysfd, slave, ops>>

\* Another program has taken the file away, or file() fails.
CreateFails ==
  /\ main.at = "create"
  /\ main' = Idle
  /\ UNCHANGED <<host, fd, fidVars, file, qidtab, newqid, slave, ops>>

\* create() fails and leaves -1, over the descriptor that was there.
CreateNot(f) ==
  /\ Ready(f) /\ ~mode[f]
  /\ sysfd' = [sysfd EXCEPT ![f] = None]
  /\ Count
  /\ UNCHANGED <<host, fd, of, mode, file, qidtab, newqid, main, slave>>

\* Xwstat with a new name, which the host must not have in that directory.  A
\* slave in makepath may read the name while it is freed: what it opens then
\* is anything (path = None).
Xwstat(f, n) ==
  LET g == of[f]
      o == IF sysfd[f] # None THEN fd[sysfd[f]] ELSE ObjAt(Path(file, g))
  IN /\ main = Idle /\ of[f] # None
     /\ \A s \in Slaves : slave[s].at \in {"path", "stat"} => slave[s].fid # f
     /\ g # RootFile /\ o \notin {None, Root}
     /\ host[o] # None
     /\ Vacant(host[o].up, n)
     /\ host' = [host EXCEPT ![o].name = n]
     /\ file' = [file EXCEPT ![g].name = n]
     /\ slave' = [s \in Slaves |->
                    IF slave[s].at = "path" /\ Below(g, of[slave[s].fid])
                      THEN [slave[s] EXCEPT !.path = None] ELSE slave[s]]
     /\ Count
     /\ UNCHANGED <<fd, fidVars, qidtab, newqid, main>>

-----------------------------------------------------------------------------
\* (mutant) the closed descriptor stays in the Fid
SlaveopenKeeps(s, f) ==
  /\ slave[s] = Idle
  /\ of[f] # None /\ ~mode[f] /\ Quiet(f)
  /\ main # Idle => main.fid # f
  /\ fd' = Closed(f)
  /\ slave' = [slave EXCEPT ![s] =
                 [at |-> "path", fid |-> f, path |-> Path(file, of[f])]]
  /\ Count
  /\ UNCHANGED <<host, fidVars, file, qidtab, newqid, main>>

\* slaveopen: what the Fid had open is closed, then its path is made.
Slaveopen(s, f) ==
  /\ slave[s] = Idle
  /\ of[f] # None /\ ~mode[f] /\ Quiet(f)
  /\ main # Idle => main.fid # f
  /\ fd' = Closed(f)
  /\ sysfd' = [sysfd EXCEPT ![f] = None]
  /\ slave' = [slave EXCEPT ![s] =
                 [at |-> "path", fid |-> f, path |-> Path(file, of[f])]]
  /\ Count
  /\ UNCHANGED <<host, of, mode, file, qidtab, newqid, main>>

OpenFile(s) ==
  /\ slave[s].at = "path"
  /\ \E d \in Fds, o \in Objs :
       /\ Lowest(d)
       /\ IF slave[s].path = None THEN Present(o) ELSE o = ObjAt(slave[s].path)
       /\ fd' = [fd EXCEPT ![d] = o]
       /\ sysfd' = [sysfd EXCEPT ![slave[s].fid] = d]
  /\ slave' = [slave EXCEPT ![s].at = "stat"]
  /\ UNCHANGED <<host, of, mode, file, qidtab, newqid, main, ops>>

\* f->f->qid = d->qid: the Qid of the host, not that of qidtab
OpenDone(s) ==
  /\ slave[s].at = "stat"
  /\ LET f == slave[s].fid
     IN /\ file' = [file EXCEPT ![of[f]].qid = Raw(Key(fd[sysfd[f]]))]
        /\ mode' = [mode EXCEPT ![f] = TRUE]
  /\ slave' = [slave EXCEPT ![s] = Idle]
  /\ UNCHANGED <<host, fd, of, sysfd, qidtab, newqid, main, ops>>

\* The request was flushed, or open or dirfstat failed.
OpenFails(s) ==
  /\ slave[s].at \in {"path", "stat"}
  /\ slave' = [slave EXCEPT ![s] = Idle]
  /\ UNCHANGED <<host, fd, fidVars, file, qidtab, newqid, main, ops>>

\* slaveread, slavewrite: any number of them on an open fid.
Slaveread(s, f) ==
  /\ slave[s] = Idle
  /\ mode[f]
  /\ main # Idle => main.fid # f
  /\ \A t \in Slaves : slave[t].at \in {"path", "stat"} => slave[t].fid # f
  /\ slave' = [slave EXCEPT ![s] = [at |-> "read", fid |-> f, path |-> None]]
  /\ Count
  /\ UNCHANGED <<host, fd, fidVars, file, qidtab, newqid, main>>

ReadDone(s) ==
  /\ slave[s].at = "read"
  /\ slave' = [slave EXCEPT ![s] = Idle]
  /\ UNCHANGED <<host, fd, fidVars, file, qidtab, newqid, main, ops>>

-----------------------------------------------------------------------------
\* Other programs.  A file that is open keeps its number.
HostRemove(o) ==
  /\ host[o] # None /\ Childless(o)
  /\ host' = [host EXCEPT ![o] = None]
  /\ Count
  /\ UNCHANGED <<fd, fidVars, file, qidtab, newqid, main, slave>>

HostCreate(o, up, n) ==
  /\ host[o] = None /\ o \notin Range(fd)
  /\ up # o /\ Present(up) /\ Vacant(up, n)
  /\ host' = [host EXCEPT ![o] = [up |-> up, name |-> n]]
  /\ Count
  /\ UNCHANGED <<fd, fidVars, file, qidtab, newqid, main, slave>>

Next ==
  \/ \E f \in Fids :
       \/ Xattach(f) \/ Xclunk(f) \/ Xremove(f) \/ CreateNot(f)
       \/ \E n \in Names : Xcreate(f, n) \/ Xwstat(f, n)
       \/ \E n \in Fids, names \in Walks : Xwalk(f, n, names)
       \/ \E s \in Slaves : Slaveopen(s, f) \/ Slaveread(s, f)
  \/ WalkUp \/ WalkEnd \/ CreateFile \/ CreateFails
  \/ \E n \in Names : WalkDown(n)
  \/ \E s \in Slaves : OpenFile(s) \/ OpenDone(s) \/ OpenFails(s) \/ ReadDone(s)
  \/ \E o \in Objs \ {Root} :
       \/ HostRemove(o)
       \/ \E up \in Objs, n \in Names : HostCreate(o, up, n)

Spec == Init /\ [][Next]_vars

-----------------------------------------------------------------------------
Live == LiveIn(file)
UsersOf(g) == {f \in Fids : of[f] = g}

\* The count of a File is that of its Fids and its children, one more for
\* root: no File in use is freed, whatever fails half way, and none is left
\* behind.  A slave never works on a Fid without one, and a parent has
\* exactly its live children on its list.
RefsTrue ==
  /\ \A f \in Fids : of[f] # None => of[f] \in Live
  /\ \A s \in Slaves : slave[s] # Idle => of[slave[s].fid] # None
  /\ \A g \in Live :
       /\ file[g].ref = Cardinality(UsersOf(g)) + Len(file[g].kids)
                        + (IF g = RootFile THEN 1 ELSE 0)
       /\ file[g].ref > 0
       /\ Range(file[g].kids) = {c \in Live : c # RootFile /\ file[c].parent = g}
       /\ IsInjective(file[g].kids)

\* As long as a File lives its Qid is in qidtab, counted for each File that
\* has it, and no two files of the host have the same; a File shows that Qid
\* or, since it was opened, one of the host.
QidsTrue ==
  /\ \A g \in Live :
       LET k == file[g].key
       IN /\ qidtab[k] # None
          /\ qidtab[k].ref >= Cardinality({h \in Live : file[h].key = k})
          /\ file[g].qid = qidtab[k].uniq \/ file[g].qid[2] = 0
  /\ \A k, l \in Keys : k # l /\ qidtab[k] # None /\ qidtab[l] # None
                          => qidtab[k].uniq # qidtab[l].uniq

\* A descriptor belongs to one Fid and is open as long as the Fid has it, also
\* while slaves read it.
FdsOwned ==
  /\ \A f \in Fids : sysfd[f] # None =>
       /\ fd[sysfd[f]] # None
       /\ \A g \in Fids \ {f} : sysfd[g] # sysfd[f]
  /\ \A s \in Slaves :
       slave[s].at \in {"read", "stat"} => sysfd[slave[s].fid] # None

\* Why FdsOwned holds: main and the slaves keep off each other's Fids.
FdTypes ==
  /\ fd \in [Fds -> Objs \union {None}]
  /\ sysfd \in [Fids -> Fds \union {None}]
  /\ mode \in [Fids -> BOOLEAN]

MainAt ==
  \/ main = Idle
  \/ /\ main.at = "walk"
     /\ main = [at |-> "walk", fid |-> main.fid, new |-> main.new, left |-> main.left]
     /\ main.fid \in Fids /\ main.new \in BOOLEAN
     /\ main.left \in Seq(Names \union {DotDot})
  \/ /\ main.at = "create"
     /\ main = [at |-> "create", fid |-> main.fid, name |-> main.name]
     /\ main.fid \in Fids /\ main.name \in Names

SlaveAt ==
  /\ DOMAIN slave = Slaves
  /\ slave = [s \in Slaves |-> slave[s]]
  /\ \A s \in Slaves :
       \/ slave[s] = Idle
       \/ /\ slave[s] = [at |-> slave[s].at, fid |-> slave[s].fid, path |-> slave[s].path]
          /\ slave[s].at \in {"path", "stat", "read"} /\ slave[s].fid \in Fids

Apart ==
  /\ main # Idle => Quiet(main.fid)
  /\ main.at = "walk" => (main.new => sysfd[main.fid] = None)
  /\ main.at = "create" => sysfd[main.fid] # None
  /\ \A f \in Fids : mode[f] => sysfd[f] # None
  /\ \A s \in Slaves : slave[s].at \in {"path", "stat"} =>
       /\ ~mode[slave[s].fid]
       /\ slave[s].at = "path" => sysfd[slave[s].fid] = None
       /\ \A t \in Slaves \ {s} : slave[t] # Idle => slave[t].fid # slave[s].fid

FdsInv == FdTypes /\ MainAt /\ SlaveAt /\ FdsOwned /\ Apart

\* Why RefsTrue and QidsTrue hold, of a table of Files by itself: it is a tree
\* that hangs from root (in any set of its Files one is root or has its parent
\* outside the set), each File is on the list of its parent, and its count is that
\* of its users (us), its children and, for root, initroot.
TreeOf(fl) ==
  /\ RootFile \in LiveIn(fl) /\ fl[RootFile].parent = None
  /\ \A g \in LiveIn(fl) \ {RootFile} : fl[g].parent \in LiveIn(fl)
  /\ \A S \in SUBSET LiveIn(fl) :
       S # {} => \E g \in S : g = RootFile \/ fl[g].parent \notin S

KidsOf(fl) ==
  \A g \in LiveIn(fl) :
    /\ Range(fl[g].kids) = {c \in LiveIn(fl) : c # RootFile /\ fl[c].parent = g}
    /\ IsInjective(fl[g].kids)

RefsOf(us, fl) ==
  \A g \in LiveIn(fl) :
    /\ fl[g].ref = us[g] + Len(fl[g].kids) + (IF g = RootFile THEN 1 ELSE 0)
    /\ fl[g].ref > 0

FilesOf(us, fl) ==
  /\ fl \in [FileIds -> File \union {None}]
  /\ us \in [FileIds -> Nat]
  /\ \A g \in FileIds : us[g] > 0 => g \in LiveIn(fl)
  /\ TreeOf(fl) /\ KidsOf(fl) /\ RefsOf(us, fl)

\* And of qidtab with them: each entry is counted for the Files that have it.
Holders(fl, k) == {h \in LiveIn(fl) : fl[h].key = k}

QidsOf(fl, tab) ==
  /\ tab \in [Keys -> Qidtab \union {None}]
  /\ \A g \in LiveIn(fl) :
       /\ tab[fl[g].key] # None
       /\ tab[fl[g].key].ref >= Cardinality(Holders(fl, fl[g].key))
       /\ fl[g].qid = tab[fl[g].key].uniq \/ fl[g].qid[2] = 0
  /\ \A k, l \in Keys : k # l /\ tab[k] # None /\ tab[l] # None => tab[k].uniq # tab[l].uniq

\* The Fids at each File; those that are worked on, or open, are at one.
Users(o) == [g \in FileIds |-> Cardinality({f \in Fids : o[f] = g})]

FidsInUse ==
  /\ of \in [Fids -> FileIds \union {None}]
  /\ main # Idle => of[main.fid] # None
  /\ \A s \in Slaves : slave[s] # Idle => of[slave[s].fid] # None
  /\ \A f \in Fids : mode[f] => of[f] # None

TablesInv == FidsInUse /\ FilesOf(Users(of), file) /\ QidsOf(file, qidtab) /\ newqid \in Nat

IInv == FdsInv /\ TablesInv

\* A descriptor that a Fid gives up is closed; only a create may leave open
\* what a request on the Fid that failed half way had opened.
FdsClosed ==
  [][\A f \in Fids :
       sysfd[f] # None /\ sysfd'[f] # sysfd[f] =>
         \/ fd'[sysfd[f]] = None
         \/ ~mode[f] /\ (CreateNot(f) \/ \E n \in Names : Xcreate(f, n))]_vars

\* Each fid stands at a place, and only what the client asks of it moves it: a
\* walk that fails leaves no new fid, and a rename or a File that is used
\* again leaves the others where they are.
Place == [f \in Fids |-> IF of[f] = None THEN None ELSE Path(file, of[f])]
Walked == IF main.at = "walk"
            THEN [fid |-> main.fid, new |-> main.new, left |-> main.left]
            ELSE None
Places == INSTANCE FidPlaces WITH Nowhere <- None, place <- Place, walking <- Walked
PlacesSpec == Places!Spec
=============================================================================
