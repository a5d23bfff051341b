----------------------------- MODULE LogProofs -----------------------------
(***************************************************************************)
(* Proofs about module Log, for any number of processes, blocks and log    *)
(* sectors: LogInv is an invariant, and Log implements AtomicDisk.         *)
(***************************************************************************)
EXTENDS Log, TLAPS

\* log_write's loop finds the block's entry, or the free one past the end.
LEMMA SlotFacts ==
  ASSUME TypeOK, NEW b \in Blocks
  PROVE  /\ Slot(b) \in 1 .. (Len(lh) + 1)
         /\ Slot(b) <= Len(lh) => lh[Slot(b)] = b
         /\ Slot(b) = Len(lh) + 1 => \A i \in 1 .. Len(lh) : lh[i] # b
<1>1. Len(lh) \in Nat
  BY DEF TypeOK
<1>2. CASE \E i \in 1 .. Len(lh) : lh[i] = b
  BY <1>1, <1>2 DEF Slot
<1>3. CASE ~ \E i \in 1 .. Len(lh) : lh[i] = b
  BY <1>1, <1>3 DEF Slot
<1> QED
  BY <1>2, <1>3

\* The first boot satisfies the invariant.
LEMMA InitLogInv == Init => LogInv
<1> SUFFICES ASSUME Init PROVE LogInv
  OBVIOUS
<1> USE LogAssumption DEF Init
<1>1. TypeOK
  <2>1. head \in Seq(Blocks) /\ lh \in Seq(Blocks)
    OBVIOUS
  <2>2. pc \in [Procs -> PCs] /\ sys \in Phases
    BY DEF PCs, Phases
  <2>3. cache \in [Blocks -> Vals \cup {NoBuf}]
    OBVIOUS
  <2>4. busy \in BOOLEAN /\ dirty \in SUBSET Blocks
    OBVIOUS
  <2>5. tail \in Nat \ {0}
    OBVIOUS
  <2>6. disk \in [Blocks -> Vals] /\ logblk \in [LogSectors -> Vals]
    OBVIOUS
  <2> HIDE DEF Init
  <2> QED
    BY <2>1, <2>2, <2>3, <2>4, <2>5, <2>6 DEF TypeOK
<1>2. LogFits /\ NoDuplicates
  BY DEF LogFits, NoDuplicates
<1>3. CleanIsOnDisk /\ InstalledOrPinned
  BY DEF CleanIsOnDisk, InstalledOrPinned, Up
<1>4. NoLostWakeup /\ OneTransaction
  BY DEF NoLostWakeup, OneTransaction, Active, Up
<1>5. HeaderPhase
  BY DEF HeaderPhase, Up
<1> QED
  BY <1>1, <1>2, <1>3, <1>4, <1>5 DEF LogInv

\* bread and recycling change the cache only at clean blocks.
LEMMA CacheStep ==
  ASSUME LogInv, NEW b \in Blocks, bread(b) \/ recycle(b)
  PROVE  LogInv'
<1> USE LogAssumption DEF LogInv
<1>1. /\ UNCHANGED <<disk, logblk, head, dirty, lh, busy, tail, pc, sys>>
      /\ cache' \in [Blocks -> Vals \cup {NoBuf}]
      /\ \A c \in Blocks \ {b} : cache'[c] = cache[c]
      /\ cache'[b] # NoBuf => cache'[b] = disk[b]
      /\ b \notin dirty
  <2>1. CASE bread(b)
    <3>1. \A i \in 1 .. Len(lh) : logblk[i] \in Vals
      BY DEF TypeOK, LogFits, LogSectors
    <3>2. b \notin dirty
      BY <2>1, <3>1 DEF bread, InstalledOrPinned, Up
    <3> QED
      BY <2>1, <3>2 DEF bread, TypeOK, Contents
  <2>2. CASE recycle(b)
    BY <2>2 DEF recycle, TypeOK
  <2> QED
    BY <2>1, <2>2
<1>2. TypeOK' /\ LogFits' /\ NoDuplicates' /\ NoLostWakeup'
  BY <1>1 DEF TypeOK, LogFits, NoDuplicates, NoLostWakeup, Active
<1>3. CleanIsOnDisk'
  BY <1>1 DEF CleanIsOnDisk
<1>4. OneTransaction' /\ HeaderPhase'
  BY <1>1 DEF OneTransaction, HeaderPhase, Up, Active
<1>5. InstalledOrPinned'
  BY <1>1 DEF InstalledOrPinned, Up, TypeOK
<1> QED
  BY <1>2, <1>3, <1>4, <1>5

\* begin_trans, with its sleep and the wakeup by kill, only moves one process.
LEMMA BeginStep ==
  ASSUME LogInv, NEW p \in Procs, call_begin(p) \/ begin_trans(p) \/ kill(p)
  PROVE  LogInv'
<1> USE DEF LogInv
<1>1. /\ UNCHANGED <<disk, logblk, head, cache, dirty, lh, tail, sys>>
      /\ sys = "up"
      /\ busy' \in BOOLEAN
      /\ \E l \in {"begin", "asleep", "trans"} : pc' = [pc EXCEPT ![p] = l]
  BY DEF call_begin, begin_trans, kill, TypeOK
<1>2. TypeOK' /\ LogFits' /\ NoDuplicates' /\ CleanIsOnDisk' /\ InstalledOrPinned'
  BY <1>1 DEF TypeOK, LogFits, NoDuplicates, CleanIsOnDisk, InstalledOrPinned,
              Up, PCs
<1>3. CASE call_begin(p) \/ kill(p)
  <2>1. Active' = Active /\ p \notin Active
    BY <1>3 DEF call_begin, kill, Active, TypeOK
  <2>2. busy' = busy /\ pc'[p] = "begin" /\ \A q \in Procs \ {p} : pc'[q] = pc[q]
    BY <1>3 DEF call_begin, kill, TypeOK
  <2>3. NoLostWakeup' /\ OneTransaction'
    BY <1>1, <2>1, <2>2 DEF NoLostWakeup, OneTransaction, Up
  <2>4. HeaderPhase'
    BY <1>1, <2>1, <2>2 DEF HeaderPhase, Up
  <2> QED
    BY <1>2, <2>3, <2>4
<1>4. CASE begin_trans(p) /\ busy
  <2>1. Active' = Active /\ p \notin Active /\ Active # {}
    BY <1>4 DEF begin_trans, Active, TypeOK, OneTransaction
  <2>2. busy' = busy /\ pc'[p] = "asleep" /\ \A q \in Procs \ {p} : pc'[q] = pc[q]
    BY <1>4 DEF begin_trans, TypeOK
  <2>3. NoLostWakeup'
    BY <1>1, <2>1, <2>2 DEF NoLostWakeup
  <2>4. OneTransaction' /\ HeaderPhase'
    BY <1>1, <2>1, <2>2 DEF OneTransaction, HeaderPhase, Up
  <2> QED
    BY <1>2, <2>3, <2>4
<1>5. CASE begin_trans(p) /\ ~busy
  <2>1. Active = {} /\ Active' = {p}
    BY <1>5 DEF begin_trans, Active, TypeOK, OneTransaction
  <2>2. busy' /\ pc'[p] = "trans" /\ \A q \in Procs \ {p} : pc'[q] = pc[q]
    BY <1>5 DEF begin_trans, TypeOK
  <2>3. \A q \in Procs : pc[q] # "asleep"
    BY <2>1 DEF NoLostWakeup
  <2>4. NoLostWakeup' /\ OneTransaction'
    BY <1>1, <2>1, <2>2, <2>3 DEF NoLostWakeup, OneTransaction, Up
  <2>5. \A q \in Procs \ {p} : pc[q] \notin {"trans", "install", "erase", "end"}
    BY <2>1 DEF Active
  <2>6. HeaderPhase'
    BY <1>1, <2>1, <2>2, <2>5 DEF HeaderPhase, Up
  <2> QED
    BY <1>2, <2>4, <2>6
<1> QED
  BY <1>3, <1>4, <1>5 DEF begin_trans

\* log_write inside the limits logs and pins one block.
LEMMA WriteStep ==
  ASSUME LogInv, NEW p \in Procs, NEW b \in Blocks, NEW v \in Vals,
         log_write(p, b, v)
  PROVE  LogInv'
<1> USE LogAssumption DEF LogInv
<1> DEFINE k == Slot(b)
<1>1. /\ k \in 1 .. (Len(lh) + 1)
      /\ k <= Len(lh) => lh[k] = b
      /\ k = Len(lh) + 1 => \A i \in 1 .. Len(lh) : lh[i] # b
  BY SlotFacts
<1>2. /\ UNCHANGED <<disk, head, busy, tail, pc, sys>>
      /\ sys = "up" /\ head = <<>> /\ tail = 1
      /\ cache' = [cache EXCEPT ![b] = v]
      /\ logblk' = [logblk EXCEPT ![k] = v]
      /\ lh' = IF k = Len(lh) + 1 THEN Append(lh, b) ELSE lh
      /\ dirty' = dirty \cup {b}
      /\ Len(lh) < LOGSIZE /\ Len(lh) < LogSize - 1
  BY DEF log_write, HeaderPhase, Up, TooBig, TypeOK
<1> HIDE DEF k
<1>3. /\ lh \in Seq(Blocks) /\ lh' \in Seq(Blocks) /\ Len(lh) \in Nat
      /\ Len(lh') \in {Len(lh), Len(lh) + 1}
      /\ k \in 1 .. Len(lh') /\ lh'[k] = b
      /\ \A i \in 1 .. Len(lh') : i # k => i \in 1 .. Len(lh) /\ lh'[i] = lh[i]
      /\ Len(lh) <= Len(lh')
  BY <1>1, <1>2 DEF TypeOK
<1>4. \A i \in 1 .. Len(lh') : i # k => lh'[i] # b
  BY <1>1, <1>3 DEF NoDuplicates
<1>5. k \in LogSectors
  BY <1>1, <1>2, <1>3 DEF LogSectors
<1>6. TypeOK'
  BY <1>2, <1>3, <1>5 DEF TypeOK
<1>7. LogFits'
  BY <1>2, <1>3 DEF LogFits
<1>8. NoDuplicates'
  <2>1. \A i, j \in 1 .. Len(lh') : lh'[i] = lh'[j] => i = j
    <3>1. \A i, j \in 1 .. Len(lh) : lh[i] = lh[j] => i = j
      BY DEF NoDuplicates
    <3> QED
      BY <1>3, <1>4, <3>1
  <2>2. head' = <<>>
    BY <1>2
  <2> QED
    BY <2>1, <2>2 DEF NoDuplicates
<1>9. CleanIsOnDisk'
  BY <1>2 DEF CleanIsOnDisk, TypeOK
<1>10. NoLostWakeup' /\ OneTransaction'
  BY <1>2 DEF NoLostWakeup, OneTransaction, Active, Up
<1>11. HeaderPhase'
  <2>1. pc[p] = "trans" /\ p \in Active /\ Active' = Active
    BY <1>2 DEF log_write, Active
  <2>2. \A q \in Procs : q = p \/ pc[q] \notin {"trans", "install", "erase", "end"}
    BY <2>1 DEF OneTransaction, Active
  <2> QED
    BY <1>2, <2>1, <2>2 DEF HeaderPhase, Up
<1>12. InstalledOrPinned'
  <2>1. \A i \in 1 .. Len(lh') : i >= tail' => lh'[i] \in dirty' /\ cache'[lh'[i]] = logblk'[i]
    BY <1>2, <1>3, <1>4, <1>5 DEF InstalledOrPinned, Up, TypeOK, LogFits, LogSectors
  <2>2. \A c \in dirty' : \E i \in 1 .. Len(lh') : i >= tail' /\ lh'[i] = c
    <3>1. TAKE c \in dirty'
    <3>2. CASE c = b
      BY <1>2, <1>3, <3>2
    <3>3. CASE c # b
      <4>1. PICK i \in 1 .. Len(lh) : lh[i] = c
        BY <1>2, <3>3 DEF InstalledOrPinned
      <4>2. i \in 1 .. Len(lh') /\ lh'[i] = c /\ i >= tail'
        BY <1>1, <1>2, <1>3, <3>3, <4>1
      <4> QED
        BY <4>2
    <3> QED
      BY <3>2, <3>3
  <2>3. \A i \in 1 .. Len(lh') : ~(i < tail')
    BY <1>2, <1>3
  <2>4. Up'
    BY <1>2 DEF Up
  <2> QED
    BY <2>1, <2>2, <2>3, <2>4 DEF InstalledOrPinned
<1> QED
  BY <1>6, <1>7, <1>8, <1>9, <1>10, <1>11, <1>12

\* One round of install_trans keeps the data part of the invariant, in a
\* commit and in a recovery alike.
LEMMA InstallFacts ==
  ASSUME LogInv, install_block, Up' <=> Up,
         UNCHANGED busy, pc' \in [Procs -> PCs], sys' \in Phases
  PROVE  TypeOK' /\ LogFits' /\ NoDuplicates' /\ CleanIsOnDisk' /\ InstalledOrPinned'
<1> USE LogAssumption DEF LogInv
<1> DEFINE c == lh[tail]
           v == logblk[tail]
<1>1. /\ tail \in 1 .. Len(lh) /\ tail \in LogSectors
      /\ Len(lh) \in Nat /\ tail \in Nat
      /\ c \in Blocks /\ v \in Vals
  BY DEF install_block, TypeOK, LogFits, LogSectors
<1>2. /\ disk' = [disk EXCEPT ![c] = v]
      /\ cache' = [cache EXCEPT ![c] = v]
      /\ dirty' = dirty \ {c}
      /\ tail' = tail + 1
      /\ UNCHANGED <<logblk, head, lh>>
  BY DEF install_block
<1>3. \A i \in 1 .. Len(lh) : lh[i] \in Blocks /\ (lh[i] = c => i = tail)
  BY <1>1 DEF NoDuplicates, TypeOK
<1>4. v = logblk[tail] /\ c = lh[tail]
  OBVIOUS
<1> HIDE DEF c, v
<1>5. TypeOK'
  BY <1>1, <1>2 DEF TypeOK
<1>6. LogFits' /\ NoDuplicates'
  BY <1>2 DEF LogFits, NoDuplicates
<1>7. CleanIsOnDisk'
  BY <1>1, <1>2 DEF CleanIsOnDisk, TypeOK
<1>8. \A i \in 1 .. Len(lh) : i < tail + 1 => disk'[lh[i]] = logblk[i]
  BY <1>1, <1>2, <1>3, <1>4 DEF InstalledOrPinned, TypeOK
<1>9. \A i \in 1 .. Len(lh) :
         Up /\ i >= tail + 1 => lh[i] \in dirty' /\ cache'[lh[i]] = logblk[i]
  BY <1>1, <1>2, <1>3, <1>4 DEF InstalledOrPinned, TypeOK
<1>10. \A b \in dirty' : Up /\ \E i \in 1 .. Len(lh) : i >= tail + 1 /\ lh[i] = b
  <2>1. TAKE b \in dirty'
  <2>2. PICK i \in 1 .. Len(lh) : Up /\ i >= tail /\ lh[i] = b
    BY <1>2, <2>1 DEF InstalledOrPinned
  <2>3. i # tail
    BY <1>2, <1>4, <2>1, <2>2
  <2> QED
    BY <1>1, <2>2, <2>3
<1>11. InstalledOrPinned'
  BY <1>2, <1>8, <1>9, <1>10 DEF InstalledOrPinned
<1> QED
  BY <1>5, <1>6, <1>7, <1>11

\* With every block installed, the log can be erased.
LEMMA EraseFacts ==
  ASSUME LogInv, erase_log, head = lh, tail = Len(lh) + 1,
         UNCHANGED busy, pc' \in [Procs -> PCs], sys' \in Phases
  PROVE  /\ TypeOK' /\ LogFits' /\ NoDuplicates' /\ CleanIsOnDisk'
         /\ InstalledOrPinned'
         /\ head' = <<>> /\ lh' = <<>> /\ tail' = 1
<1> USE LogAssumption DEF LogInv, erase_log
<1>1. dirty = {}
  BY DEF InstalledOrPinned, TypeOK
<1>2. Len(lh') = 0 /\ Len(head') = 0
  OBVIOUS
<1>3. TypeOK'
  BY DEF TypeOK
<1>4. LogFits' /\ NoDuplicates'
  BY <1>2 DEF LogFits, NoDuplicates
<1>5. CleanIsOnDisk'
  BY DEF CleanIsOnDisk
<1>6. InstalledOrPinned'
  BY <1>1, <1>2 DEF InstalledOrPinned
<1> QED
  BY <1>3, <1>4, <1>5, <1>6

\* commit_trans, from the commit record to the wakeup, and the panic of an
\* oversized transaction.
LEMMA CommitStep ==
  ASSUME LogInv, NEW p \in Procs, Commit(p) \/ log_write_panic(p)
  PROVE  LogInv'
<1> USE LogAssumption DEF LogInv
<1>1. sys = "up" /\ p \in Active
  BY DEF Commit, commit_head, commit_install, commit_erase, commit_end,
         log_write_panic, Active
<1>2. \A q \in Procs : q = p \/ pc[q] \in {"idle", "begin", "asleep"}
  BY <1>1 DEF OneTransaction, Active, TypeOK, PCs
<1>3. ASSUME NEW l \in {"trans", "install", "erase", "end"},
             pc' = [pc EXCEPT ![p] = l], busy' = busy, sys' \in {"up", "panic"}
      PROVE  NoLostWakeup' /\ OneTransaction' /\ Active' = {p} /\ pc'[p] = l
             /\ pc' \in [Procs -> PCs] /\ sys' \in Phases
  <2>1. Active' = {p} /\ Active = {p} /\ pc'[p] = l
    BY <1>1, <1>2, <1>3 DEF Active, TypeOK
  <2>2. pc' \in [Procs -> PCs] /\ sys' \in Phases
    BY <1>3 DEF TypeOK, PCs, Phases
  <2>3. NoLostWakeup'
    BY <1>3, <2>1 DEF NoLostWakeup, TypeOK
  <2>4. OneTransaction'
    BY <1>3, <2>1 DEF OneTransaction, Up
  <2> QED
    BY <2>1, <2>2, <2>3, <2>4<1>4. CASE commit_head(p)
  <2>1. /\ pc' = [pc EXCEPT ![p] = "install"] /\ busy' = busy /\ sys' = "up"
        /\ UNCHANGED <<disk, logblk, cache, dirty, lh>>
        /\ head' = lh /\ tail' = 1 /\ tail = 1 /\ lh # <<>>
    BY <1>1, <1>4 DEF commit_head, HeaderPhase, Up
  <2>2. /\ NoLostWakeup' /\ OneTransaction' /\ Active' = {p} /\ pc'[p] = "install"
        /\ pc' \in [Procs -> PCs] /\ sys' \in Phases
    BY <1>3, <2>1
  <2>3. TypeOK'
    BY <2>1, <2>2 DEF TypeOK
  <2>4. LogFits' /\ NoDuplicates'
    BY <2>1 DEF LogFits, NoDuplicates
  <2>5. CleanIsOnDisk' /\ InstalledOrPinned'
    BY <1>1, <2>1 DEF CleanIsOnDisk, InstalledOrPinned, Up
  <2>6. Len(lh) >= 1
    BY <2>1 DEF TypeOK
  <2>7. HeaderPhase'
    BY <1>2, <2>1, <2>2, <2>6 DEF HeaderPhase, Up, Active
  <2> QED
    BY <2>2, <2>3, <2>4, <2>5, <2>7
<1>5. CASE commit_install(p)
  <2> DEFINE l == IF tail = Len(lh) THEN "erase" ELSE "install"
  <2>1. /\ pc' = [pc EXCEPT ![p] = l] /\ busy' = busy /\ sys' = "up"
        /\ l \in {"trans", "install", "erase", "end"}
        /\ install_block /\ head = lh
    BY <1>1, <1>5 DEF commit_install, HeaderPhase, Up
  <2>2. /\ NoLostWakeup' /\ OneTransaction' /\ Active' = {p} /\ pc'[p] = l
        /\ pc' \in [Procs -> PCs] /\ sys' \in Phases
    BY <1>3, <2>1
  <2>3. TypeOK' /\ LogFits' /\ NoDuplicates' /\ CleanIsOnDisk' /\ InstalledOrPinned'
    BY <1>1, <2>1, <2>2, InstallFacts DEF Up
  <2>4. /\ tail' = tail + 1 /\ head' = lh' /\ lh' = lh /\ tail <= Len(lh)
        /\ Len(lh) \in Nat /\ tail \in Nat
    BY <2>1 DEF install_block, TypeOK
  <2>5. HeaderPhase'
    BY <2>1, <2>2, <2>4 DEF HeaderPhase, Up, Active
  <2> QED
    BY <2>2, <2>3, <2>5
<1>6. CASE commit_erase(p)
  <2>1. /\ pc' = [pc EXCEPT ![p] = "end"] /\ busy' = busy /\ sys' = "up"
        /\ erase_log /\ head = lh /\ tail = Len(lh) + 1
    BY <1>1, <1>6 DEF commit_erase, HeaderPhase, Up
  <2>2. /\ NoLostWakeup' /\ OneTransaction' /\ Active' = {p} /\ pc'[p] = "end"
        /\ pc' \in [Procs -> PCs] /\ sys' \in Phases
    BY <1>3, <2>1
  <2>3. /\ TypeOK' /\ LogFits' /\ NoDuplicates' /\ CleanIsOnDisk'
        /\ InstalledOrPinned' /\ head' = <<>> /\ lh' = <<>> /\ tail' = 1
    BY <2>1, <2>2, EraseFacts
  <2>4. HeaderPhase'
    BY <2>1, <2>2, <2>3 DEF HeaderPhase, Up, Active
  <2> QED
    BY <2>2, <2>3, <2>4
<1>7. CASE commit_end(p)
  <2>1. /\ UNCHANGED <<disk, logblk, head, cache, dirty, lh, tail, sys>>
        /\ busy' = FALSE
        /\ head = <<>> /\ lh = <<>> /\ tail = 1
    BY <1>1, <1>7 DEF commit_end, HeaderPhase, Up
  <2>2. pc' \in [Procs -> PCs] /\ \A q \in Procs : pc'[q] \in {"idle", "begin"}
    BY <1>2, <1>7 DEF commit_end, PCs
  <2>3. Active' = {}
    BY <2>2 DEF Active
  <2>4. TypeOK'
    BY <2>1, <2>2 DEF TypeOK
  <2>5. LogFits' /\ NoDuplicates' /\ CleanIsOnDisk' /\ InstalledOrPinned'
    BY <2>1 DEF LogFits, NoDuplicates, CleanIsOnDisk, InstalledOrPinned, Up
  <2>6. NoLostWakeup' /\ OneTransaction'
    BY <1>1, <2>1, <2>2, <2>3 DEF NoLostWakeup, OneTransaction, Up
  <2>7. HeaderPhase'
    BY <1>1, <2>1, <2>2 DEF HeaderPhase, Up
  <2> QED
    BY <2>4, <2>5, <2>6, <2>7
<1>8. CASE log_write_panic(p)
  <2>1. /\ UNCHANGED <<disk, logblk, head, cache, dirty, lh, busy, tail, pc>>
        /\ sys' = "panic" /\ sys = "up" /\ Up /\ Up'
    BY <1>8 DEF log_write_panic, Up
  <2>2. TypeOK' /\ LogFits' /\ NoDuplicates' /\ CleanIsOnDisk' /\ NoLostWakeup'
    BY <2>1 DEF TypeOK, LogFits, NoDuplicates, CleanIsOnDisk, NoLostWakeup,
                Active, Phases
  <2>3. OneTransaction' /\ HeaderPhase' /\ InstalledOrPinned'
    BY <2>1 DEF OneTransaction, HeaderPhase, InstalledOrPinned, Active
  <2> QED
    BY <2>2, <2>3
<1> QED
  BY <1>4, <1>5, <1>6, <1>7, <1>8 DEF Commit

\* A crash keeps the disk, whose header the next recovery reads.
LEMMA CrashStep ==
  ASSUME LogInv, Crash
  PROVE  LogInv'
<1> USE LogAssumption DEF LogInv
<1>1. /\ UNCHANGED <<disk, logblk, head>>
      /\ cache' = [b \in Blocks |-> NoBuf] /\ dirty' = {}
      /\ lh' = <<>> /\ busy' = FALSE /\ tail' = 1 /\ sys' = "read_head"
      /\ pc' = [p \in Procs |-> "idle"] /\ pc' \in [Procs -> PCs]
  BY DEF Crash, PCs
<1>2. TypeOK'
  <2>1. cache' \in [Blocks -> Vals \cup {NoBuf}] /\ dirty' \in SUBSET Blocks
    BY <1>1
  <2>2. lh' \in Seq(Blocks) /\ tail' \in Nat \ {0} /\ sys' \in Phases
    BY <1>1 DEF Phases
  <2>3. busy' \in BOOLEAN /\ pc' \in [Procs -> PCs]
    BY <1>1
  <2> QED
    BY <1>1, <2>1, <2>2, <2>3 DEF TypeOK
<1>3. LogFits' /\ NoDuplicates'
  BY <1>1 DEF LogFits, NoDuplicates
<1>4. CleanIsOnDisk' /\ InstalledOrPinned'
  BY <1>1 DEF CleanIsOnDisk, InstalledOrPinned, Up
<1>5. NoLostWakeup' /\ OneTransaction' /\ HeaderPhase'
  BY <1>1 DEF NoLostWakeup, OneTransaction, HeaderPhase, Active, Up
<1> QED
  BY <1>2, <1>3, <1>4, <1>5
\* recover_from_log: what it reads, installs and erases.
LEMMA RecoverStep ==
  ASSUME LogInv, Recover
  PROVE  LogInv'
<1> USE LogAssumption DEF LogInv
<1>1. /\ sys \in {"read_head", "install", "erase"} /\ ~Up
      /\ pc = [p \in Procs |-> "idle"] /\ Active = {} /\ busy = FALSE
      /\ UNCHANGED <<busy, pc>> /\ Active' = {}
      /\ \A p \in Procs : pc'[p] = "idle"
  <2>1. sys \in {"read_head", "install", "erase"} /\ UNCHANGED <<busy, pc>>
    BY DEF Recover, recover_read_head, recover_install, recover_erase
  <2>2. ~Up /\ pc = [p \in Procs |-> "idle"]
    BY <2>1 DEF OneTransaction, Up
  <2>3. Active = {} /\ Active' = {}
    BY <2>1, <2>2 DEF Active
  <2> QED
    BY <2>1, <2>2, <2>3 DEF OneTransaction, TypeOK
<1>2. NoLostWakeup' /\ OneTransaction'
  BY <1>1 DEF NoLostWakeup, OneTransaction
<1>3. pc' \in [Procs -> PCs] /\ busy' \in BOOLEAN
  BY <1>1 DEF TypeOK
<1>4. CASE recover_read_head
  <2>1. /\ lh' = head /\ head' = head /\ tail' = 1
        /\ UNCHANGED <<disk, logblk, cache, dirty>>
        /\ sys' = IF head = <<>> THEN "erase" ELSE "install"
    BY <1>4 DEF recover_read_head
  <2>2. dirty = {} /\ ~Up'
    BY <1>1, <2>1 DEF InstalledOrPinned, Up
  <2>3. TypeOK'
    BY <1>3, <2>1 DEF TypeOK, Phases
  <2>4. LogFits' /\ NoDuplicates'
    BY <2>1 DEF LogFits, NoDuplicates
  <2>5. CleanIsOnDisk' /\ InstalledOrPinned'
    BY <2>1, <2>2 DEF CleanIsOnDisk, InstalledOrPinned
  <2>6. head # <<>> => Len(head) >= 1
    BY DEF TypeOK
  <2>7. HeaderPhase'
    BY <2>1, <2>2, <2>6 DEF HeaderPhase
  <2> QED
    BY <1>2, <2>3, <2>4, <2>5, <2>7
<1>5. CASE recover_install
  <2>1. /\ install_block /\ head = lh /\ sys = "install"
        /\ sys' = IF tail = Len(lh) THEN "erase" ELSE "install"
    BY <1>5 DEF recover_install, HeaderPhase
  <2>2. ~Up' /\ sys' \in Phases
    BY <2>1 DEF Up, Phases
  <2>3. TypeOK' /\ LogFits' /\ NoDuplicates' /\ CleanIsOnDisk' /\ InstalledOrPinned'
    BY <1>1, <1>3, <2>1, <2>2, InstallFacts
  <2>4. /\ tail' = tail + 1 /\ head' = lh' /\ lh' = lh /\ tail <= Len(lh)
        /\ Len(lh) \in Nat /\ tail \in Nat
    BY <2>1 DEF install_block, TypeOK
  <2>5. HeaderPhase'
    BY <2>1, <2>2, <2>4 DEF HeaderPhase
  <2> QED
    BY <1>2, <2>3, <2>5
<1>6. CASE recover_erase
  <2>1. erase_log /\ head = lh /\ tail = Len(lh) + 1 /\ sys' = "up"
    BY <1>6 DEF recover_erase, HeaderPhase
  <2>2. /\ TypeOK' /\ LogFits' /\ NoDuplicates' /\ CleanIsOnDisk'
        /\ InstalledOrPinned' /\ head' = <<>> /\ lh' = <<>> /\ tail' = 1
    BY <1>1, <1>3, <2>1, EraseFacts DEF Phases
  <2>3. HeaderPhase'
    BY <1>1, <2>1, <2>2 DEF HeaderPhase
  <2> QED
    BY <1>2, <2>2, <2>3
<1> QED
  BY <1>4, <1>5, <1>6 DEF Recover

\* Every step of the log, and every stutter, preserves the invariant.
LEMMA NextLogInv == LogInv /\ [Next]_vars => LogInv'
<1> SUFFICES ASSUME LogInv, [Next]_vars PROVE LogInv'
  OBVIOUS
<1>1. CASE UNCHANGED vars
  BY <1>1 DEF vars, LogInv, TypeOK, LogFits, NoDuplicates, CleanIsOnDisk,
     NoLostWakeup, OneTransaction, HeaderPhase, InstalledOrPinned, Up, Active
<1>2. CASE Next
  BY <1>2, CacheStep, BeginStep, WriteStep, CommitStep, RecoverStep, CrashStep
     DEF Next
<1> QED
  BY <1>1, <1>2

\* LogInv holds in every reachable state of the log: the type invariant, the
\* bounds of log_write, absorption, the pinning of dirty buffers and the
\* wakeup of commit_trans with it.
THEOREM LogInvariant == Spec => []LogInv
<1>1. Init => LogInv
  BY InitLogInv
<1>2. LogInv /\ [Next]_vars => LogInv'
  BY NextLogInv, SMTT(30)
<1> QED
  BY <1>1, <1>2, PTL DEF Spec
-----------------------------------------------------------------------------
\* What recovery makes of each block, given that no block is logged twice.
LEMMA RecoveredFacts ==
  ASSUME LogInv
  PROVE  /\ \A i \in 1 .. Len(head) : Recovered[head[i]] = logblk[i]
         /\ \A b \in Blocks : ~Logged(head, b) => Recovered[b] = disk[b]
<1>1. ASSUME NEW i \in 1 .. Len(head)
      PROVE  Recovered[head[i]] = logblk[i]
  <2>1. head[i] \in Blocks
    BY DEF LogInv, TypeOK
  <2>2. (CHOOSE j \in 1 .. Len(head) : head[j] = head[i]) = i
    BY DEF LogInv, NoDuplicates
  <2>3. Logged(head, head[i])
    BY DEF Logged
  <2> QED
    BY <2>1, <2>2, <2>3 DEF Recovered
<1>2. ASSUME NEW b \in Blocks, ~Logged(head, b)
      PROVE  Recovered[b] = disk[b]
  BY <1>2 DEF Recovered
<1> QED
  BY <1>1, <1>2, SMTT(30)

\* Installing a logged block does not change what a crash would leave.
LEMMA RecoveredSame ==
  ASSUME head' = head, logblk' = logblk,
         \A b \in Blocks : ~Logged(head, b) => disk'[b] = disk[b]
  PROVE  Recovered' = Recovered
BY DEF Recovered, Logged

\* Once the header is written, and again once it is erased, readers see
\* exactly what a crash would leave.
LEMMA ViewRecovered == LogInv /\ (~Up \/ head = lh) => View = Recovered
<1> SUFFICES ASSUME LogInv, ~Up \/ head = lh
             PROVE  View = Recovered
  OBVIOUS
<1>1. CASE ~Up
  BY <1>1 DEF View, Up, Recovered
<1>2. CASE Up /\ head = lh
  <2>1. ASSUME NEW b \in Blocks
        PROVE  Contents(b) = Recovered[b]
    <3>1. CASE Logged(head, b)
      <4>1. PICK i \in 1 .. Len(head) : head[i] = b
        BY <3>1 DEF Logged
      <4>2. Recovered[b] = logblk[i] /\ i \in Nat /\ tail \in Nat
        BY <4>1, RecoveredFacts DEF LogInv, TypeOK
      <4>3. i \in LogSectors /\ logblk[i] \in Vals
        BY <4>1, LogAssumption DEF LogInv, LogFits, LogSectors, TypeOK
      <4>4. CASE i >= tail
        <5>1. cache[b] = logblk[i]
          BY <1>2, <4>1, <4>4 DEF LogInv, InstalledOrPinned
        <5> QED
          BY <4>2, <4>3, <5>1, LogAssumption DEF Contents
      <4>5. CASE i < tail
        <5>1. disk[b] = logblk[i]
          BY <1>2, <4>1, <4>5 DEF LogInv, InstalledOrPinned
        <5>2. b \notin dirty
          <6>1. \A j \in 1 .. Len(head) : head[j] = b => j = i
            BY <4>1 DEF LogInv, NoDuplicates
          <6> QED
            BY <1>2, <4>2, <4>5, <6>1 DEF LogInv, InstalledOrPinned
        <5> QED
          BY <4>2, <5>1, <5>2 DEF LogInv, CleanIsOnDisk, Contents
      <4> QED
        BY <4>2, <4>4, <4>5
    <3>2. CASE ~Logged(head, b)
      <4>1. b \notin dirty
        BY <1>2, <3>2 DEF LogInv, InstalledOrPinned, Logged
      <4>2. Recovered[b] = disk[b]
        BY <3>2, RecoveredFacts
      <4> QED
        BY <4>1, <4>2 DEF LogInv, CleanIsOnDisk, Contents
    <3> QED
      BY <3>1, <3>2
  <2> QED
    BY <1>2, <2>1 DEF View, Up, Recovered
<1> QED
  BY <1>1, <1>2

\* The same of the state after a step.
LEMMA ViewRecoveredNext ==
  (LogInv /\ (~Up \/ head = lh) => View = Recovered)'
BY ViewRecovered, PTL

\* A transaction owner is alone.
LEMMA OwnerAlone ==
  ASSUME LogInv, NEW p \in Procs, p \in Active
  PROVE  Active = {p}
BY DEF LogInv, OneTransaction

\* The first boot is an initial state of the atomic disk.
LEMMA InitRefines == Init => Abstract!AInit
<1> SUFFICES ASSUME Init PROVE Abstract!AInit
  OBVIOUS
<1>1. LogInv /\ ~Up /\ head = <<>>
  BY InitLogInv DEF Init, Up
<1>2. View = Recovered
  BY <1>1, ViewRecovered
<1>3. \A b \in Blocks : ~Logged(head, b)
  BY <1>1 DEF Logged
<1>4. Recovered \in [Blocks -> Vals]
  BY <1>3 DEF Recovered, Init
<1>5. Active = {}
  BY DEF Active, Init
<1> QED
  BY <1>2, <1>4, <1>5 DEF Abstract!AInit
\* Every step of the log is a step of the atomic disk or changes nothing of it.
LEMMA NextRefines ==
  ASSUME LogInv, LogInv', [Next]_vars
  PROVE  [Abstract!ANext]_(Abstract!avars)
<1> USE DEF Abstract!avars
<1>1. CASE UNCHANGED vars
  BY <1>1 DEF vars, Recovered, View, Active, Logged, Contents
<1>2. ASSUME NEW b \in Blocks, bread(b) \/ recycle(b)
      PROVE  UNCHANGED <<Recovered, View, Active>>
  <2>1. UNCHANGED <<disk, logblk, head, dirty, pc, sys>>
    BY <1>2 DEF bread, recycle
  <2>2. \A c \in Blocks : Contents(c)' = Contents(c)
    BY <1>2 DEF bread, recycle, Contents, LogInv, TypeOK, CleanIsOnDisk
  <2>3. Recovered' = Recovered
    BY <2>1, RecoveredSame
  <2> QED
    BY <2>1, <2>2, <2>3 DEF View, Active
<1>3. ASSUME NEW p \in Procs, call_begin(p) \/ begin_trans(p) \/ kill(p)
      PROVE  Abstract!ABegin(p) \/ UNCHANGED <<Recovered, View, Active>>
  <2>1. UNCHANGED <<disk, logblk, head, cache, sys>>
    BY <1>3 DEF call_begin, begin_trans, kill
  <2>2. UNCHANGED <<Recovered, View>>
    BY <2>1 DEF Recovered, View, Contents, Logged
  <2>3. CASE begin_trans(p) /\ ~busy
    <3>1. Active = {}
      BY <2>3 DEF LogInv, OneTransaction
    <3>2. Active' = {p}
      BY <2>3, <3>1 DEF begin_trans, Active, LogInv, TypeOK
    <3> QED
      BY <2>2, <3>1, <3>2 DEF Abstract!ABegin
  <2>4. CASE ~(begin_trans(p) /\ ~busy)
    <3>1. Active' = Active
      BY <1>3, <2>4 DEF call_begin, begin_trans, kill, Active, LogInv, TypeOK
    <3> QED
      BY <2>2, <3>1
  <2> QED
    BY <2>3, <2>4
<1>4. ASSUME NEW p \in Procs, NEW b \in Blocks, NEW v \in Vals, log_write(p, b, v)
      PROVE  Abstract!AWrite(p, b, v)
  <2>1. /\ p \in Active /\ Active' = Active
        /\ sys = "up" /\ UNCHANGED <<disk, head, sys>> /\ head = <<>>
        /\ cache' = [cache EXCEPT ![b] = v]
    BY <1>4 DEF log_write, Active, LogInv, HeaderPhase, Up
  <2>2. Recovered' = Recovered
    BY <2>1 DEF Recovered, Logged
  <2>3. \A c \in Blocks : Contents(c)' = IF c = b THEN v ELSE Contents(c)
    BY <2>1, LogAssumption, SMTT(30) DEF Contents, LogInv, TypeOK
  <2>4. View' = [View EXCEPT ![b] = v]
    BY <2>1, <2>3 DEF View
  <2> QED
    BY <2>1, <2>2, <2>4, OwnerAlone DEF Abstract!AWrite
<1>5. ASSUME NEW p \in Procs, log_write_panic(p)
      PROVE  UNCHANGED <<Recovered, View, Active>>
  <2>1. /\ sys = "up" /\ sys' = "panic"
        /\ UNCHANGED <<disk, logblk, head, cache, pc>>
    BY <1>5 DEF log_write_panic
  <2> QED
    BY <2>1 DEF Recovered, View, Contents, Logged, Active
<1>6. ASSUME NEW p \in Procs, commit_head(p)
      PROVE  Abstract!ACommit(p)
  <2>1. /\ p \in Active /\ Active' = Active /\ Up /\ Up'
        /\ UNCHANGED <<disk, logblk, cache, lh, sys>> /\ head' = lh'
    BY <1>6 DEF commit_head, Active, Up, LogInv, TypeOK
  <2>2. View' = View
    BY <2>1 DEF View, Contents, Up
  <2>3. View' = Recovered'
    BY <2>1, ViewRecoveredNext
  <2> QED
    BY <2>1, <2>2, <2>3, OwnerAlone DEF Abstract!ACommit
<1>7. ASSUME install_block, head = lh, ~Up \/ Up', UNCHANGED sys \/ ~Up'
      PROVE  UNCHANGED <<Recovered, View>>
  <2>1. /\ UNCHANGED <<logblk, head, lh>>
        /\ disk' = [disk EXCEPT ![lh[tail]] = logblk[tail]]
        /\ Logged(head, lh[tail])
    BY <1>7 DEF install_block, Logged, LogInv, TypeOK
  <2>2. \A b \in Blocks : ~Logged(head, b) => disk'[b] = disk[b]
    BY <2>1 DEF LogInv, TypeOK
  <2>3. Recovered' = Recovered
    BY <2>1, <2>2, RecoveredSame
  <2>4. View = Recovered /\ View' = Recovered'
    BY <1>7, <2>1, ViewRecovered, ViewRecoveredNext
  <2> QED
    BY <2>3, <2>4
<1>8. ASSUME erase_log, head = lh, tail = Len(lh) + 1
      PROVE  UNCHANGED <<Recovered, View>>
  <2>1. UNCHANGED <<disk, logblk>> /\ head' = <<>> /\ lh' = <<>>
    BY <1>8 DEF erase_log
  <2>2. \A b \in Blocks : Recovered[b] = disk[b]
    <3>1. \A i \in 1 .. Len(head) : disk[head[i]] = logblk[i]
      BY <1>8 DEF LogInv, InstalledOrPinned, TypeOK
    <3> QED
      BY <3>1, RecoveredFacts DEF Logged
  <2>3. \A b \in Blocks : Recovered'[b] = disk'[b]
    BY <2>1 DEF Recovered, Logged
  <2>4. Recovered' = Recovered
    BY <2>1, <2>2, <2>3 DEF Recovered
  <2>5. View = Recovered /\ View' = Recovered'
    BY <1>8, <2>1, ViewRecovered, ViewRecoveredNext
  <2> QED
    BY <2>4, <2>5<1>9. ASSUME NEW p \in Procs, commit_install(p) \/ commit_erase(p)
      PROVE  UNCHANGED <<Recovered, View, Active>>
  <2>1. /\ sys = "up" /\ UNCHANGED sys /\ Up /\ Up' /\ Active' = Active
    BY <1>9 DEF commit_install, commit_erase, Up, Active, LogInv, TypeOK
  <2>2. CASE commit_install(p)
    BY <1>7, <2>1, <2>2 DEF commit_install, LogInv, HeaderPhase
  <2>3. CASE commit_erase(p)
    BY <1>8, <2>1, <2>3 DEF commit_erase, LogInv, HeaderPhase
  <2> QED
    BY <1>9, <2>2, <2>3
<1>10. ASSUME NEW p \in Procs, commit_end(p)
       PROVE  Abstract!AEnd(p)
  <2>1. /\ p \in Active /\ sys = "up" /\ Up
        /\ UNCHANGED <<disk, logblk, head, cache, sys>> /\ head = lh
    BY <1>10 DEF commit_end, Active, Up, LogInv, HeaderPhase
  <2>2. Active = {p}
    BY <2>1, OwnerAlone
  <2>3. Active' = {}
    BY <1>10, <2>2 DEF commit_end, Active
  <2>4. View = Recovered
    BY <2>1, ViewRecovered
  <2>5. UNCHANGED <<Recovered, View>>
    BY <2>1 DEF Recovered, View, Contents, Logged
  <2> QED
    BY <2>2, <2>3, <2>4, <2>5 DEF Abstract!AEnd
<1>11. ASSUME Recover
       PROVE  UNCHANGED <<Recovered, View, Active>>
  <2>1. ~Up /\ Active' = Active
    BY <1>11 DEF Recover, recover_read_head, recover_install, recover_erase,
                 Up, Active
  <2>2. CASE recover_read_head
    <3>1. UNCHANGED <<disk, logblk, head>> /\ head' = lh'
      BY <2>2 DEF recover_read_head
    <3>2. Recovered' = Recovered
      BY <3>1, RecoveredSame
    <3> QED
      BY <2>1, <3>1, <3>2, ViewRecovered, ViewRecoveredNext
  <2>3. CASE recover_install
    <3>1. install_block /\ head = lh /\ ~Up'
      BY <2>3 DEF recover_install, LogInv, HeaderPhase, Up
    <3> QED
      BY <1>7, <2>1, <3>1
  <2>4. CASE recover_erase
    BY <1>8, <2>1, <2>4 DEF recover_erase, LogInv, HeaderPhase
  <2> QED
    BY <1>11, <2>2, <2>3, <2>4 DEF Recover
<1>12. ASSUME Crash
       PROVE  Abstract!ACrash
  <2>1. UNCHANGED <<disk, logblk, head>> /\ ~Up'
    BY <1>12 DEF Crash, Up
  <2>2. Recovered' = Recovered
    BY <2>1, RecoveredSame
  <2>3. View' = Recovered'
    BY <2>1, ViewRecoveredNext
  <2>4. Active' = {}
    BY <1>12 DEF Crash, Active
  <2> QED
    BY <2>2, <2>3, <2>4 DEF Abstract!ACrash
<1> QED
  BY <1>1, <1>2, <1>3, <1>4, <1>5, <1>6, <1>9, <1>10, <1>11, <1>12
     DEF Next, Commit, Abstract!ANext

\* The redo log implements the atomic disk: crash atomicity, durability and
\* isolation of transactions, for every number of processes, blocks and log
\* sectors.
THEOREM LogImplementsAtomicDisk == Spec => AtomicTransactions
<1>1. Init => Abstract!AInit
  BY InitRefines
<1>2. LogInv /\ LogInv' /\ [Next]_vars => [Abstract!ANext]_(Abstract!avars)
  BY NextRefines
<1>3. Spec => []LogInv
  BY LogInvariant
<1> QED
  BY <1>1, <1>2, <1>3, PTL DEF Spec, AtomicTransactions, Abstract!ASpec
=============================================================================
