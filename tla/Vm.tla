--------------------------------- MODULE Vm ---------------------------------
(***************************************************************************)
(* Physical pages and address spaces: kalloc.c, vm.c, and the calls of     *)
(* proc.c, sysproc.c and exec.c that take and give back pages.  The port   *)
(* has one CPU, and none of these calls sleeps while it has pages in hand, *)
(* so each call is one step; it may run out of pages at any kalloc.        *)
(*                                                                         *)
(* The functions map a state X to a state:                                 *)
(*   free, lost   how many pages are on the free list, and how many no     *)
(*                pointer leads to any more                                *)
(*   short        a page table was not there when allocuvm grew            *)
(*   panic, r     the first panic message; the value returned last         *)
(*   as           the page directory at work: pages of the directory and   *)
(*                of the kernel's tables, user tables, valid user PTEs,    *)
(*                and those of them without PTE_PP                         *)
(* Pages are counted, not named: one that is freed and still in use makes  *)
(* the sum too large.  Sizes and addresses are in words; tables and PTEs   *)
(* are numbered by virtual address.                                        *)
(***************************************************************************)
EXTENDS Integers, FiniteSets, SequencesExt

CONSTANTS Procs, initproc,
          NPAGES,      \* pages between end and PHYSTOP
          NPTENTRIES,  \* PTEs in a page table
          NUPT, NKPT,  \* page tables of the user and of the kernel part
          PGSIZE,
          MAXARG,
          Grow,        \* arguments of sbrk
          Programs,    \* what exec finds in a file
          Argvs        \* argument lists, as the sizes of the strings

ASSUME VmAssumption ==
  /\ initproc \in Procs
  /\ \A k \in {NPAGES, NPTENTRIES, NUPT, NKPT, PGSIZE} : k \in Nat \ {0}

UserPages == 0 .. (NUPT * NPTENTRIES - 1)
KERNBASE == NUPT * NPTENTRIES * PGSIZE
UINT == 2 * KERNBASE

PGROUNDUP(sz) == ((sz + PGSIZE - 1) \div PGSIZE) * PGSIZE
Page(a) == a \div PGSIZE

NoSpace == [dir |-> 0, kpt |-> 0, upt |-> {}, pte |-> {}, guard |-> {}]

Panic(X, msg) == [X EXCEPT !.panic = IF @ = "" THEN msg ELSE @, !.r = 0]

-----------------------------------------------------------------------------
(* kalloc.c *)

kalloc(X) ==
  IF X.free = 0 THEN [X EXCEPT !.r = 0]
  ELSE [X EXCEPT !.r = 1, !.free = @ - 1]

kfree(X, n) == [X EXCEPT !.free = @ + n]

-----------------------------------------------------------------------------
(* vm.c *)

\* The directory first, then the tables that mappages needs for kmap.  The
\* pages taken so far are forgotten when there are not enough.
setupkvm(X) ==
  IF X.free < 1 + NKPT
  THEN [X EXCEPT !.lost = @ + X.free, !.free = 0, !.r = 0]
  ELSE [X EXCEPT !.free = @ - (1 + NKPT), !.r = 1,
                 !.as = [NoSpace EXCEPT !.dir = 1, !.kpt = NKPT]]

\* walkpgdir(pgdir, va, 0) finds a page table.
HasTable(as, v) == v \div NPTENTRIES \in as.upt

\* walkpgdir(pgdir, va, 1)
walkpgdir(X, v) ==
  LET K == kalloc(X) IN
  IF HasTable(X.as, v) \/ K.r = 0 THEN X
  ELSE [K EXCEPT !.as.upt = @ \cup {v \div NPTENTRIES}]

\* mappages for one page.
mappages(X, v) ==
  LET T == walkpgdir(X, v) IN
  IF ~HasTable(T.as, v) THEN [X EXCEPT !.r = -1]
  ELSE IF v \in T.as.pte THEN Panic(T, "remap")
  ELSE [T EXCEPT !.as.pte = @ \cup {v}, !.r = 0]

\* The PTEs that the loop of deallocuvm comes to from address a on: where
\* there is no table it goes on NPTENTRIES pages further.
RECURSIVE Visited(_, _, _)
Visited(as, a, oldsz) ==
  IF a >= oldsz THEN {}
  ELSE IF HasTable(as, Page(a))
  THEN {Page(a)} \cup Visited(as, a + PGSIZE, oldsz)
  ELSE Visited(as, a + NPTENTRIES * PGSIZE, oldsz)

deallocuvm(X, oldsz, newsz) ==
  LET gone == X.as.pte \cap Visited(X.as, PGROUNDUP(newsz), oldsz) IN
  IF newsz >= oldsz THEN [X EXCEPT !.r = oldsz]
  ELSE [kfree(X, Cardinality(gone)) EXCEPT !.as.pte = @ \ gone, !.r = newsz]

RECURSIVE alloc(_, _, _, _)

\* Mutant: what was allocated before memory ran out is kept.
alloc_kept(X, a, oldsz, newsz) ==
  LET K == kalloc(X)
      P == mappages(K, Page(a))
      Q == IF P.r = 0 THEN P
           ELSE [P EXCEPT !.short = TRUE, !.lost = @ + 1]
  IN  IF a >= newsz THEN [X EXCEPT !.r = newsz]
      ELSE IF K.r = 0 THEN [X EXCEPT !.r = 0]
      ELSE alloc(Q, a + PGSIZE, oldsz, newsz)

\* The loop of allocuvm from address a on: the result of mappages is not
\* looked at.
alloc(X, a, oldsz, newsz) ==
  LET K == kalloc(X)
      P == mappages(K, Page(a))
      Q == IF P.r = 0 THEN P
           ELSE [P EXCEPT !.short = TRUE, !.lost = @ + 1]
  IN  IF a >= newsz THEN [X EXCEPT !.r = newsz]
      ELSE IF K.r = 0 THEN [deallocuvm(X, newsz, oldsz) EXCEPT !.r = 0]
      ELSE alloc(Q, a + PGSIZE, oldsz, newsz)

\* Mutant: a page that is partly used is allocated again.
allocuvm_down(X, oldsz, newsz) ==
  IF newsz >= KERNBASE THEN [X EXCEPT !.r = 0]
  ELSE IF newsz < oldsz THEN [X EXCEPT !.r = oldsz]
  ELSE alloc(X, Page(oldsz) * PGSIZE, oldsz, newsz)

allocuvm(X, oldsz, newsz) ==
  IF newsz >= KERNBASE THEN [X EXCEPT !.r = 0]
  ELSE IF newsz < oldsz THEN [X EXCEPT !.r = oldsz]
  ELSE alloc(X, PGROUNDUP(oldsz), oldsz, newsz)

\* Mutant: the page tables of the user part are not freed.
freevm_tables(X) ==
  LET D == deallocuvm(X, KERNBASE, 0)
  IN  [kfree(D, D.as.dir + D.as.kpt) EXCEPT !.as = NoSpace]

freevm(X) ==
  LET D == deallocuvm(X, KERNBASE, 0)
      tables == D.as.kpt + Cardinality(D.as.upt)
  IN  IF X.as.dir = 0 THEN Panic(X, "freevm: no pgdir")
      ELSE [kfree(D, tables + D.as.dir) EXCEPT !.as = NoSpace]

clearpteu(X, v) ==
  IF HasTable(X.as, v) THEN [X EXCEPT !.as.guard = @ \cup {v}]
  ELSE Panic(X, "clearpteu")

RECURSIVE copy(_, _, _, _)
copy(X, from, i, sz) ==
  LET v == Page(i)
      K == kalloc(X)
      P == mappages(K, v)
      Q == IF v \in from.guard THEN clearpteu(P, v) ELSE P
  IN  IF i >= sz THEN [X EXCEPT !.r = 1]
      ELSE IF ~HasTable(from, v) THEN Panic(X, "copyuvm: pte should exist")
      ELSE IF v \notin from.pte THEN Panic(X, "copyuvm: page not present")
      ELSE IF K.r = 0 THEN [freevm(X) EXCEPT !.r = 0]
      ELSE IF P.r < 0
      THEN [freevm(P) EXCEPT !.r = 0, !.lost = @ + 1]
      ELSE copy(Q, from, i + PGSIZE, sz)

copyuvm(X, from, sz) ==
  LET S == setupkvm(X) IN
  IF S.r = 0 THEN S ELSE copy(S, from, 0, sz)

\* uva2ka is called for every page of the range; it takes the page table
\* for granted.
copyout(X, va, len) ==
  LET span == Page(va) .. Page(va + len - 1) IN
  IF \E v \in span : ~HasTable(X.as, v) THEN Panic(X, "uva2ka: no table")
  ELSE IF \E v \in span : v \notin X.as.pte \ X.as.guard
  THEN [X EXCEPT !.r = -1]
  ELSE [X EXCEPT !.r = 0]

\* Of the file, avail words can be read for this segment.
loaduvm(X, addr, filesz, avail) ==
  LET span == IF filesz = 0 THEN {} ELSE Page(addr) .. Page(addr + filesz - 1)
  IN  IF \E v \in span : ~HasTable(X.as, v)
      THEN Panic(X, "loaduvm: address should exist")
      ELSE [X EXCEPT !.r = IF avail < filesz THEN -1 ELSE 0]

-----------------------------------------------------------------------------
(* exec.c.  A program is [magic |-> its header is right, segs |-> program  *)
(* headers], a segment [load, vaddr, memsz, filesz, avail].                *)

RECURSIVE load(_, _, _)
load(X, segs, sz) ==
  LET s == Head(segs)
      A == allocuvm(X, sz, s.vaddr + s.memsz)
      L == loaduvm(A, s.vaddr, s.filesz, s.avail)
  IN  IF segs = << >> THEN [X EXCEPT !.r = sz]
      ELSE IF ~s.load THEN load(X, Tail(segs), sz)
      ELSE IF s.memsz < s.filesz THEN [X EXCEPT !.r = -1]
      ELSE IF A.r = 0 THEN [A EXCEPT !.r = -1]
      ELSE IF L.r < 0 \/ L.panic # "" THEN L
      ELSE load(L, Tail(segs), A.r)

\* The argument strings, then argv itself with a word for each of them.
RECURSIVE push(_, _, _, _)
push(X, sp, argv, argc) ==
  LET C == copyout(X, sp - Head(argv), Head(argv))
  IN  IF argv = << >> THEN copyout(X, sp - (argc + 1), argc + 1)
      ELSE IF argc >= MAXARG THEN [X EXCEPT !.r = -1]
      ELSE IF C.r < 0 \/ C.panic # "" THEN C
      ELSE push(C, sp - Head(argv), Tail(argv), argc + 1)

-----------------------------------------------------------------------------
VARIABLES mem,   \* free, lost, short and panic; as is the kernel's, kpgdir
          proc   \* per process: state, kstack, sz and as, its page directory

vars == <<mem, proc>>

Unused == [state |-> "unused", kstack |-> 0, sz |-> 0, as |-> NoSpace]

\* kinit1, kvmalloc, kinit2 and userinit.
Init ==
  LET K == setupkvm([free |-> NPAGES, lost |-> 0, short |-> FALSE,
                     panic |-> "", r |-> 0, as |-> NoSpace])
      A == kalloc(K)
      S == setupkvm(A)
      M == kalloc(S)
      U == mappages(M, 0)
  IN  /\ mem = [U EXCEPT !.as = K.as, !.r = 0]
      /\ proc = [p \in Procs |->
                   IF p = initproc THEN [state |-> "runnable", kstack |-> 1,
                                         sz |-> PGSIZE, as |-> U.as]
                   ELSE Unused]

\* A call ends in state X; p becomes P.
Done(X, p, P) ==
  /\ mem' = [X EXCEPT !.as = mem.as, !.r = 0]
  /\ proc' = [proc EXCEPT ![p] = P]

In(p) == [mem EXCEPT !.as = proc[p].as]

\* A process whose first page is gone faults and can only exit.
Running(p) ==
  mem.panic = "" /\ proc[p].state = "runnable" /\ 0 \in proc[p].as.pte

\* growproc; sz + n is an unsigned number.
sys_sbrk(p, n) ==
  LET sz == proc[p].sz
      X == IF n > 0 THEN allocuvm(In(p), sz, sz + n)
           ELSE IF n < 0 THEN deallocuvm(In(p), sz, (sz + n + UINT) % UINT)
           ELSE [In(p) EXCEPT !.r = sz]
  IN  /\ Running(p)
      /\ Done(X, p, [proc[p] EXCEPT !.as = X.as,
                                    !.sz = IF X.r = 0 THEN @ ELSE X.r])

fork(p, np) ==
  LET K == kalloc(mem)
      C == copyuvm(K, proc[p].as, proc[p].sz)
      F == kfree(C, 1)
  IN  /\ Running(p) /\ proc[np].state = "unused"
      /\ IF K.r = 0 THEN Done(K, np, Unused)
         ELSE IF C.r = 0 /\ C.panic = "" THEN Done(F, np, Unused)
         ELSE Done(C, np, [state |-> "runnable", kstack |-> 1,
                           sz |-> proc[p].sz, as |-> C.as])

exec(p, prog, argv) ==
  LET S == setupkvm(mem)
      L == load(S, prog.segs, 0)
      top == PGROUNDUP(L.r)
      A == allocuvm(L, top, top + 2 * PGSIZE)
      U == push(clearpteu(A, Page(A.r) - 2), A.r, argv, 0)
      new == [proc[p] EXCEPT !.as = U.as, !.sz = A.r]
      bad(X) == Done(IF X.panic = "" THEN freevm(X) ELSE X, p, proc[p])
  IN  /\ Running(p)
      /\ IF ~prog.magic THEN UNCHANGED vars
         ELSE IF S.r = 0 THEN Done(S, p, proc[p])
         ELSE IF L.r < 0 \/ L.panic # "" THEN bad(L)
         ELSE IF A.r = 0 THEN bad(A)
         ELSE IF U.r < 0 \/ U.panic # "" THEN bad(U)
         ELSE Done(freevm([U EXCEPT !.as = proc[p].as]), p, new)

exit(p) ==
  /\ mem.panic = "" /\ proc[p].state = "runnable"
  /\ IF p = initproc THEN Done(Panic(mem, "init exiting"), p, proc[p])
     ELSE Done(mem, p, [proc[p] EXCEPT !.state = "zombie"])

\* p is a zombie child of the caller.
wait(p) ==
  /\ mem.panic = "" /\ proc[p].state = "zombie"
  /\ Done(freevm(kfree(In(p), proc[p].kstack)), p, Unused)

Halted == mem.panic # "" /\ UNCHANGED vars

Next == \/ \E p \in Procs : exit(p) \/ wait(p)
        \/ \E p \in Procs, n \in Grow : sys_sbrk(p, n)
        \/ \E p, np \in Procs : fork(p, np)
        \/ \E p \in Procs, prog \in Programs, argv \in Argvs :
             exec(p, prog, argv)
        \/ Halted

Spec == Init /\ [][Next]_vars

-----------------------------------------------------------------------------
(* syscall.c: which arguments a call of process P accepts.                 *)

\* Mutant: only the start of the block is tested.
argptr_start(P, addr, size) == addr < P.sz

argptr(P, addr, size) == addr < P.sz /\ (addr + size) % UINT <= P.sz

\* The string at addr has n words, with its nul.
fetchstr(P, addr, n) == addr < P.sz /\ addr + n <= P.sz

-----------------------------------------------------------------------------
\* The pages of an address space: directory, tables, and what is mapped.
Owned(as) == as.dir + as.kpt + Cardinality(as.upt) + Cardinality(as.pte)

(* kalloc.c and vm.c: however often fork, exec and sbrk run out of memory  *)
(* half-way, every page is free, or lost in setupkvm, allocuvm or copyuvm, *)
(* or has one use: none is freed while it is in use, and freevm and the    *)
(* failure paths give back all that they took.                             *)
PagesAccounted ==
  mem.panic = "" =>
    mem.free + mem.lost + Owned(mem.as)
      + FoldSet(LAMBDA p, n : n + proc[p].kstack + Owned(proc[p].as), 0, Procs)
    = NPAGES

(* A process has memory up to proc->sz and nothing above it, also after a  *)
(* call failed (usertests.c:1414: "if we run the system out of memory,     *)
(* does it clean up the last failed allocation?"), as long as allocuvm was *)
(* never short of a page table.  After sbrk(-sz), which a program does not *)
(* survive, there is less.                                                 *)
SizeIsMapped ==
  ~mem.short /\ mem.panic = "" =>
    \A p \in Procs :
      LET below == {v \in UserPages : v * PGSIZE < proc[p].sz} IN
      /\ proc[p].as.pte \subseteq below
      /\ Running(p) => proc[p].as.pte = below

(* None of the panics of vm.c and kalloc.c is reached, and nothing faults, *)
(* as long as allocuvm was never short of a page table.                    *)
NoPanicUnlessShort ==
  mem.panic \notin {"", "init exiting"} => mem.short

(* The kernel uses the pointers and strings that argptr and fetchstr let   *)
(* through without looking at page tables: they are mapped.                *)
ArgumentsMapped ==
  \A p \in Procs : Running(p) /\ ~mem.short =>
    \A addr \in 0 .. (UINT - 1), n \in 1 .. (PGSIZE + 1) :
      argptr(proc[p], addr, n) \/ fetchstr(proc[p], addr, n)
        => Page(addr) .. Page(addr + n - 1) \subseteq proc[p].as.pte
=============================================================================
