--------------------------- MODULE ConsoleProofs ---------------------------
(***************************************************************************)
(* The console's input buffer for any readers, buffer size and counter     *)
(* width: it implements the line discipline, and no end of file is lost.   *)
(***************************************************************************)
EXTENDS Console, Counters, TLAPS

(* The sizes, without the division. *)
LEMMA Sizes ==
  INPUT_BUF \in Nat \ {0} /\ UINT \in Nat /\ UINT > INPUT_BUF
BY ConsoleAssumption

(* A sequence with the elements of Append is Append. *)
LEMMA IsAppend ==
  ASSUME NEW S, NEW s \in Seq(S), NEW t \in Seq(S), NEW c \in S, NEW m \in Nat,
         Len(s) = m, Len(t) = m + 1, \A j \in 1 .. m : t[j] = s[j], t[m + 1] = c
  PROVE  t = Append(s, c)
OBVIOUS

(* The same for \o, *)
LEMMA IsConcat ==
  ASSUME NEW S, NEW s1 \in Seq(S), NEW s2 \in Seq(S), NEW t \in Seq(S),
         Len(t) = Len(s1) + Len(s2), \A j \in 1 .. Len(s1) : t[j] = s1[j],
         \A j \in 1 .. Len(s2) : t[Len(s1) + j] = s2[j]
  PROVE  t = s1 \o s2
<1>1. \A j \in 1 .. Len(t) :
        t[j] = IF j <= Len(s1) THEN s1[j] ELSE s2[j - Len(s1)]
  <2> TAKE j \in 1 .. Len(t)
  <2>1. CASE j <= Len(s1)
    BY <2>1
  <2>2. CASE j > Len(s1)
    <3>1. j - Len(s1) \in 1 .. Len(s2) /\ Len(s1) + (j - Len(s1)) = j
      BY <2>2
    <3> QED  BY <2>2, <3>1
  <2> QED  BY <2>1, <2>2
<1> QED  BY <1>1

(* for all but the last element, *)
LEMMA IsFront ==
  ASSUME NEW S, NEW s \in Seq(S), NEW t \in Seq(S), NEW m \in Nat \ {0},
         Len(s) = m, Len(t) = m - 1, \A j \in 1 .. m - 1 : t[j] = s[j]
  PROVE  t = SubSeq(s, 1, m - 1)
OBVIOUS

(* and for all but the first. *)
LEMMA IsTail ==
  ASSUME NEW S, NEW s \in Seq(S), NEW t \in Seq(S), NEW m \in Nat \ {0},
         Len(s) = m, Len(t) = m - 1, \A j \in 1 .. m - 1 : t[j] = s[j + 1]
  PROVE  t = Tail(s)
OBVIOUS

-----------------------------------------------------------------------------
(***************************************************************************)
(* A stretch of the circular buffer b: m characters from index k on.       *)
(***************************************************************************)
Stretch(b, k, m) == [j \in 1 .. m |-> b[(k + j - 1) % INPUT_BUF]]

Buffers == [0 .. INPUT_BUF - 1 -> Stored]

(* It is a sequence of m stored characters. *)
LEMMA StretchIs ==
  ASSUME NEW b \in Buffers, NEW k \in Nat, NEW m \in Nat
  PROVE  /\ Stretch(b, k, m) \in Seq(Stored)
         /\ Len(Stretch(b, k, m)) = m
         /\ \A j \in 1 .. m : Stretch(b, k, m)[j] = b[(k + j - 1) % INPUT_BUF]
<1>1. \A j \in 1 .. m : b[(k + j - 1) % INPUT_BUF] \in Stored
  <2> TAKE j \in 1 .. m
  <2>1. (k + j - 1) % INPUT_BUF \in 0 .. INPUT_BUF - 1
    BY Place, Sizes
  <2> QED  BY <2>1 DEF Buffers
<1> QED  BY <1>1 DEF Stretch

(* Where it begins matters up to the wrapping of the counters only. *)
LEMMA StretchWraps ==
  ASSUME NEW b, NEW k \in Nat, NEW m \in Nat
  PROVE  Stretch(b, k + UINT, m) = Stretch(b, k, m)
<1>1. \A j \in 1 .. m : (k + UINT + j - 1) % INPUT_BUF = (k + j - 1) % INPUT_BUF
  <2> TAKE j \in 1 .. m
  <2>1. k + j - 1 \in Nat /\ k + UINT + j - 1 = k + j - 1 + UINT
    BY Sizes
  <2>2. (k + j - 1 + UINT) % INPUT_BUF = (k + j - 1) % INPUT_BUF
    BY <2>1, SamePlace, ConsoleAssumption, Zenon
  <2> QED  BY <2>1, <2>2
<1> QED  BY <1>1, Zenon DEF Stretch

(* A character stored behind it does not disturb it ... *)
LEMMA StretchKept ==
  ASSUME NEW b \in Buffers, NEW k \in Nat, NEW m \in Nat, NEW l \in Nat,
         m <= l, l < INPUT_BUF, NEW c \in Stored
  PROVE  Stretch([b EXCEPT ![(k + l) % INPUT_BUF] = c], k, m) = Stretch(b, k, m)
<1>1. \A j \in 1 .. m : (k + j - 1) % INPUT_BUF # (k + l) % INPUT_BUF
  <2> TAKE j \in 1 .. m
  <2>1. /\ k + j - 1 \in Nat /\ k + l \in Nat
        /\ k + j - 1 < k + l /\ k + l < k + j - 1 + INPUT_BUF
    BY Sizes
  <2> QED  BY <2>1, DistinctPlaces, Sizes, Zenon
<1>2. \A j \in 1 .. m : (k + j - 1) % INPUT_BUF \in 0 .. INPUT_BUF - 1
  <2> TAKE j \in 1 .. m
  <2> QED  BY Place, Sizes
<1>3. \A j \in 1 .. m : [b EXCEPT ![(k + l) % INPUT_BUF] = c][(k + j - 1) % INPUT_BUF]
                        = b[(k + j - 1) % INPUT_BUF]
  BY <1>1, <1>2 DEF Buffers
<1> QED  BY <1>3, Zenon DEF Stretch

(* ... and right behind it, makes it longer. *)
LEMMA StretchAppend ==
  ASSUME NEW b \in Buffers, NEW k \in Nat, NEW m \in Nat, m < INPUT_BUF,
         NEW c \in Stored
  PROVE  Stretch([b EXCEPT ![(k + m) % INPUT_BUF] = c], k, m + 1)
           = Append(Stretch(b, k, m), c)
<1> DEFINE b1 == [b EXCEPT ![(k + m) % INPUT_BUF] = c]
<1>1. (k + m) % INPUT_BUF \in 0 .. INPUT_BUF - 1
  BY Place, Sizes
<1>2. b1 \in Buffers /\ b1[(k + m) % INPUT_BUF] = c
  BY <1>1 DEF Buffers
<1>3. Stretch(b1, k, m) = Stretch(b, k, m)
  BY StretchKept
<1> HIDE DEF b1
<1>4. /\ Stretch(b1, k, m + 1) \in Seq(Stored) /\ Len(Stretch(b1, k, m + 1)) = m + 1
      /\ \A j \in 1 .. m + 1 :
           Stretch(b1, k, m + 1)[j] = b1[(k + j - 1) % INPUT_BUF]
  <2>1. m + 1 \in Nat
    OBVIOUS
  <2> QED  BY <1>2, <2>1, StretchIs, Zenon
<1>5. /\ Stretch(b1, k, m) \in Seq(Stored) /\ Len(Stretch(b1, k, m)) = m
      /\ \A j \in 1 .. m : Stretch(b1, k, m)[j] = b1[(k + j - 1) % INPUT_BUF]
  BY <1>2, StretchIs
<1>6. Stretch(b1, k, m + 1)[m + 1] = c
  <2>1. k + (m + 1) - 1 = k + m /\ m + 1 \in 1 .. m + 1
    OBVIOUS
  <2> QED  BY <1>2, <1>4, <2>1, Zenon
<1>7. Stretch(b1, k, m + 1) = Append(Stretch(b1, k, m), c)
  <2>1. \A j \in 1 .. m : Stretch(b1, k, m + 1)[j] = Stretch(b1, k, m)[j]
    BY <1>4, <1>5
  <2> QED  BY <1>4, <1>5, <1>6, <2>1, IsAppend
<1> QED  BY <1>3, <1>7 DEF b1

(* Two stretches next to each other make one. *)
LEMMA StretchConcat ==
  ASSUME NEW b \in Buffers, NEW k \in Nat, NEW m \in Nat, NEW l \in Nat
  PROVE  Stretch(b, k, m) \o Stretch(b, k + m, l) = Stretch(b, k, m + l)
<1>1. /\ Stretch(b, k, m) \in Seq(Stored) /\ Len(Stretch(b, k, m)) = m
      /\ \A j \in 1 .. m : Stretch(b, k, m)[j] = b[(k + j - 1) % INPUT_BUF]
  BY StretchIs
<1>2. /\ Stretch(b, k + m, l) \in Seq(Stored) /\ Len(Stretch(b, k + m, l)) = l
      /\ \A j \in 1 .. l : Stretch(b, k + m, l)[j] = b[(k + m + j - 1) % INPUT_BUF]
  <2>1. k + m \in Nat
    OBVIOUS
  <2> QED  BY <2>1, StretchIs, Zenon
<1>3. /\ Stretch(b, k, m + l) \in Seq(Stored) /\ Len(Stretch(b, k, m + l)) = m + l
      /\ \A j \in 1 .. m + l : Stretch(b, k, m + l)[j] = b[(k + j - 1) % INPUT_BUF]
  <2>1. m + l \in Nat
    OBVIOUS
  <2> QED  BY <2>1, StretchIs, Zenon
<1>4. \A j \in 1 .. l : Stretch(b, k, m + l)[m + j] = Stretch(b, k + m, l)[j]
  <2> TAKE j \in 1 .. l
  <2>1. m + j \in 1 .. m + l /\ k + (m + j) - 1 = k + m + j - 1
    OBVIOUS
  <2> QED  BY <1>2, <1>3, <2>1
<1>5. \A j \in 1 .. m : Stretch(b, k, m + l)[j] = Stretch(b, k, m)[j]
  <2> TAKE j \in 1 .. m
  <2>1. j \in 1 .. m + l
    OBVIOUS
  <2> QED  BY <1>1, <1>3, <2>1, Zenon
<1> DEFINE s1 == Stretch(b, k, m)
           s2 == Stretch(b, k + m, l)
           t == Stretch(b, k, m + l)
<1>6. /\ s1 \in Seq(Stored) /\ s2 \in Seq(Stored) /\ t \in Seq(Stored)
      /\ Len(s1) = m /\ Len(s2) = l /\ Len(t) = m + l
      /\ \A j \in 1 .. m : t[j] = s1[j]
      /\ \A j \in 1 .. l : t[m + j] = s2[j]
  BY <1>1, <1>2, <1>3, <1>4, <1>5
<1> HIDE DEF s1, s2, t
<1>7. t = s1 \o s2
  BY <1>6, IsConcat
<1> QED  BY <1>7 DEF s1, s2, t

(* Without its last character it is the same, one shorter. *)
LEMMA StretchFront ==
  ASSUME NEW b \in Buffers, NEW k \in Nat, NEW m \in Nat \ {0}
  PROVE  Stretch(b, k, m - 1) = SubSeq(Stretch(b, k, m), 1, m - 1)
<1>1. /\ Stretch(b, k, m) \in Seq(Stored) /\ Len(Stretch(b, k, m)) = m
      /\ \A j \in 1 .. m : Stretch(b, k, m)[j] = b[(k + j - 1) % INPUT_BUF]
  BY StretchIs
<1>2. /\ Stretch(b, k, m - 1) \in Seq(Stored) /\ Len(Stretch(b, k, m - 1)) = m - 1
      /\ \A j \in 1 .. m - 1 : Stretch(b, k, m - 1)[j] = b[(k + j - 1) % INPUT_BUF]
  <2>1. m - 1 \in Nat
    OBVIOUS
  <2> QED  BY <2>1, StretchIs, Zenon
<1>3. \A j \in 1 .. m - 1 : Stretch(b, k, m - 1)[j] = Stretch(b, k, m)[j]
  <2> TAKE j \in 1 .. m - 1
  <2>1. j \in 1 .. m
    OBVIOUS
  <2> QED  BY <1>1, <1>2, <2>1, Zenon
<1> QED  BY <1>1, <1>2, <1>3, IsFront, Zenon

(* Without its first character it begins one later. *)
LEMMA StretchTail ==
  ASSUME NEW b \in Buffers, NEW k \in Nat, NEW m \in Nat \ {0}
  PROVE  Stretch(b, k + 1, m - 1) = Tail(Stretch(b, k, m))
<1>1. /\ Stretch(b, k, m) \in Seq(Stored) /\ Len(Stretch(b, k, m)) = m
      /\ \A j \in 1 .. m : Stretch(b, k, m)[j] = b[(k + j - 1) % INPUT_BUF]
  BY StretchIs
<1>2. /\ Stretch(b, k + 1, m - 1) \in Seq(Stored)
      /\ Len(Stretch(b, k + 1, m - 1)) = m - 1
      /\ \A j \in 1 .. m - 1 :
           Stretch(b, k + 1, m - 1)[j] = b[(k + 1 + j - 1) % INPUT_BUF]
  <2>1. k + 1 \in Nat /\ m - 1 \in Nat
    OBVIOUS
  <2> QED  BY <2>1, StretchIs, Zenon
<1>3. \A j \in 1 .. m - 1 : Stretch(b, k + 1, m - 1)[j] = Stretch(b, k, m)[j + 1]
  <2> TAKE j \in 1 .. m - 1
  <2>1. j + 1 \in 1 .. m /\ k + (j + 1) - 1 = k + 1 + j - 1
    OBVIOUS
  <2> QED  BY <1>1, <1>2, <2>1
<1> QED  BY <1>1, <1>2, <1>3, IsTail, Zenon
-----------------------------------------------------------------------------
(***************************************************************************)
(* The three indices.                                                      *)
(***************************************************************************)
(* How far the counter k is ahead of l. *)
Ahead(k, l) == (k + UINT - l) % UINT

Indices == 0 .. UINT - 1

(* It is their difference, once around when only k has wrapped. *)
LEMMA AheadIs ==
  ASSUME NEW k \in Indices, NEW l \in Indices
  PROVE  /\ Ahead(k, l) = IF l <= k THEN k - l ELSE k + UINT - l
         /\ Ahead(k, l) \in 0 .. UINT - 1
         /\ l + Ahead(k, l) = k \/ l + Ahead(k, l) = k + UINT
<1>1. Ahead(k, l) = IF l <= k THEN k - l ELSE k + UINT - l
  BY DistanceIs, Sizes DEF Ahead, Indices
<1> QED  BY <1>1, Sizes DEF Indices

(* A counter is not ahead of itself. *)
LEMMA AheadSelf == ASSUME NEW k \in Indices PROVE Ahead(k, k) = 0
BY AheadIs, Sizes DEF Indices

(* e++ and r++, e--, and r + INPUT_BUF wrap around. *)
LEMMA Wraps ==
  ASSUME NEW k \in Indices
  PROVE  /\ next(k) = IF k + 1 < UINT THEN k + 1 ELSE 0
         /\ prev(k) = IF k = 0 THEN UINT - 1 ELSE k - 1
         /\ (k + INPUT_BUF) % UINT = IF k + INPUT_BUF < UINT THEN k + INPUT_BUF
                                     ELSE k + INPUT_BUF - UINT
<1>1. /\ UINT \in Nat /\ 1 \in 0 .. UINT /\ INPUT_BUF \in 0 .. UINT
      /\ UINT - 1 \in 0 .. UINT /\ k \in 0 .. UINT - 1
  BY Sizes DEF Indices
<1>2. (k + 1) % UINT = IF k + 1 < UINT THEN k + 1 ELSE k + 1 - UINT
  BY <1>1, WrapIs, Zenon
<1>3. (k + (UINT - 1)) % UINT = IF k + (UINT - 1) < UINT THEN k + (UINT - 1)
                                ELSE k + (UINT - 1) - UINT
  BY <1>1, WrapIs, Zenon
<1>4. (k + INPUT_BUF) % UINT = IF k + INPUT_BUF < UINT THEN k + INPUT_BUF
                               ELSE k + INPUT_BUF - UINT
  BY <1>1, WrapIs, Zenon
<1>5. k + (UINT - 1) = k + UINT - 1
  BY <1>1
<1>6. next(k) = IF k + 1 < UINT THEN k + 1 ELSE 0
  BY <1>1, <1>2 DEF next
<1>7. prev(k) = IF k = 0 THEN UINT - 1 ELSE k - 1
  BY <1>1, <1>3, <1>5 DEF prev
<1> QED  BY <1>4, <1>6, <1>7

(* Content, in a buffer b, is a stretch. *)
LEMMA ContentIs ==
  ASSUME NEW b, NEW k \in Indices, NEW l \in Indices
  PROVE  [j \in 1 .. ((l + UINT - k) % UINT) |->
            b[((k + j - 1) % UINT) % INPUT_BUF]] = Stretch(b, k, Ahead(l, k))
<1> DEFINE d == Ahead(l, k)
<1>1. d \in 0 .. UINT - 1
  BY AheadIs
<1> HIDE DEF d
<1>2. \A j \in 1 .. d : ((k + j - 1) % UINT) % INPUT_BUF = (k + j - 1) % INPUT_BUF
  <2> TAKE j \in 1 .. d
  <2>1. /\ UINT \in Nat /\ k \in 0 .. UINT - 1 /\ j - 1 \in 0 .. UINT
        /\ k + (j - 1) = k + j - 1
    BY <1>1, Sizes DEF Indices
  <2>2. (k + (j - 1)) % UINT = IF k + (j - 1) < UINT THEN k + (j - 1)
                               ELSE k + (j - 1) - UINT
    BY <2>1, WrapIs, Zenon
  <2>3. CASE k + (j - 1) < UINT
    BY <2>1, <2>2, <2>3
  <2>4. CASE k + (j - 1) >= UINT
    <3>1. /\ k + (j - 1) - UINT \in Nat
          /\ k + (j - 1) - UINT + UINT = k + (j - 1)
      BY <2>1, <2>4
    <3>2. (k + (j - 1) - UINT + UINT) % INPUT_BUF = (k + (j - 1) - UINT) % INPUT_BUF
      BY <3>1, SamePlace, ConsoleAssumption, Zenon
    <3>3. ~(k + (j - 1) < UINT)
      BY <2>1, <2>4
    <3> QED  BY <2>1, <2>2, <3>1, <3>2, <3>3
  <2> QED  BY <2>1, <2>3, <2>4
<1>3. (l + UINT - k) % UINT = d
  BY DEF d, Ahead
<1> QED  BY <1>2, <1>3, Zenon DEF Stretch, d
-----------------------------------------------------------------------------
(***************************************************************************)
(* The line discipline.                                                    *)
(***************************************************************************)
(* r, w and e follow each other, no more than the buffer apart, and the    *)
(* line that is being edited has no newline.                               *)
LineInv ==
  /\ buf \in Buffers
  /\ r \in Indices /\ w \in Indices /\ e \in Indices
  /\ Ahead(w, r) + Ahead(e, w) <= INPUT_BUF
  /\ \A j \in 1 .. Ahead(e, w) : buf[(w + j - 1) % INPUT_BUF] # "newline"

(* What is delivered and what is being edited are stretches of the buffer, *)
(* before a step and after it.                                             *)
LEMMA Contents ==
  ASSUME r \in Indices, w \in Indices, e \in Indices,
         r' \in Indices, w' \in Indices, e' \in Indices
  PROVE  /\ Content(r, w) = Stretch(buf, r, Ahead(w, r))
         /\ Content(w, e) = Stretch(buf, w, Ahead(e, w))
         /\ Content(r, w)' = Stretch(buf', r', Ahead(w', r'))
         /\ Content(w, e)' = Stretch(buf', w', Ahead(e', w'))
BY ContentIs, Zenon DEF Content, at

(* Backspace takes the last character of the line. *)
LEMMA Step_backspace ==
  ASSUME LineInv, backspace PROVE LineInv' /\ Promise!Backspace
<1> DEFINE d == Ahead(e, w)
<1>1. e' = IF e = 0 THEN UINT - 1 ELSE e - 1
  BY Wraps DEF backspace, LineInv
<1>2. /\ e' \in Indices /\ buf' = buf /\ r' = r /\ w' = w /\ e # w
      /\ buf \in Buffers /\ r \in Indices /\ w \in Indices /\ e \in Indices
  BY <1>1, Sizes DEF backspace, LineInv, Indices
<1>3. /\ d = IF w <= e THEN e - w ELSE e + UINT - w
      /\ Ahead(e', w) = IF w <= e' THEN e' - w ELSE e' + UINT - w
  BY <1>2, AheadIs
<1>4. d \in Nat \ {0} /\ Ahead(e', w) = d - 1 /\ w \in Nat
  BY <1>1, <1>2, <1>3, Sizes DEF Indices
<1>5. Ahead(w, r) \in Nat
  BY <1>2, AheadIs, Sizes
<1> HIDE DEF d
<1>6. LineInv'
  <2>1. Ahead(w', r') + Ahead(e', w') <= INPUT_BUF
    BY <1>2, <1>4, <1>5, Sizes DEF LineInv, d
  <2>2. \A j \in 1 .. Ahead(e', w') : buf'[(w' + j - 1) % INPUT_BUF] # "newline"
    <3>1. \A j \in 1 .. d - 1 : j \in 1 .. d
      BY <1>4
    <3> QED  BY <1>2, <1>4, <3>1 DEF LineInv, d
  <2> QED  BY <1>2, <2>1, <2>2 DEF LineInv
<1>7. Stretch(buf, w, d - 1) = SubSeq(Stretch(buf, w, d), 1, d - 1)
  BY <1>2, <1>4, StretchFront
<1>8. /\ Content(r, w) = Stretch(buf, r, Ahead(w, r))
      /\ Content(w, e) = Stretch(buf, w, d)
      /\ Content(r, w)' = Stretch(buf, r, Ahead(w, r))
      /\ Content(w, e)' = Stretch(buf, w, d - 1)
  BY <1>2, <1>4, Contents DEF d
<1>9. Len(Stretch(buf, w, d)) = d /\ Stretch(buf, w, d) # << >>
  BY <1>2, <1>4, StretchIs
<1> QED  BY <1>6, <1>7, <1>8, <1>9 DEF Promise!Backspace
(* ^U takes the whole line: without a newline in it the loop ends at w. *)
LEMMA Step_kill_line ==
  ASSUME LineInv, kill_line PROVE LineInv' /\ Promise!KillLine
<1> DEFINE d == Ahead(e, w)
           back(j) == (e + UINT - j) % UINT
           stops == {j \in 0 .. d : back(j) = w \/ at(prev(back(j))) = "newline"}
<1>1. /\ buf \in Buffers /\ r \in Indices /\ w \in Indices /\ e \in Indices
      /\ buf' = buf /\ r' = r /\ w' = w
  BY DEF LineInv, kill_line
<1>2. /\ d = IF w <= e THEN e - w ELSE e + UINT - w
      /\ d \in 0 .. UINT - 1
      /\ w + d = e \/ w + d = e + UINT
  BY <1>1, AheadIs
<1>3. e' = back(Min(stops))
  BY Zenon DEF kill_line, Killed, Ahead
<1> HIDE DEF d
<1>4. \A j \in 0 .. d : back(j) \in Indices /\ (back(j) = w <=> j = d)
  <2> TAKE j \in 0 .. d
  <2>1. j \in Indices /\ UINT \in Nat /\ e \in 0 .. UINT - 1 /\ j \in 0 .. UINT - 1
    BY <1>1, <1>2, Sizes DEF Indices
  <2>2. back(j) = IF j <= e THEN e - j ELSE e + UINT - j
    BY <2>1, DistanceIs, Zenon
  <2> HIDE DEF back
  <2> QED  BY <1>1, <1>2, <2>1, <2>2, Sizes DEF Indices
<1>5. \A j \in 0 .. d - 1 : at(prev(back(j))) # "newline"
  <2> TAKE j \in 0 .. d - 1
  <2>1. j \in 0 .. d /\ j # d /\ d - j \in 1 .. d /\ j \in 0 .. UINT - 1
    BY <1>2, Sizes
  <2>2. back(j) = IF j <= e THEN e - j ELSE e + UINT - j
    BY <1>1, <2>1, DistanceIs, Sizes, SMTT(30) DEF Indices
  <2>3. prev(back(j)) = IF back(j) = 0 THEN UINT - 1 ELSE back(j) - 1
    BY <1>4, <2>1, Wraps
  <2>4. /\ prev(back(j)) \in Nat
        /\ \/ w + (d - j) - 1 = prev(back(j))
           \/ w + (d - j) - 1 = prev(back(j)) + UINT
    <3> HIDE DEF back
    <3> QED  BY <1>1, <1>2, <2>1, <2>2, <2>3, Sizes DEF Indices
  <2>5. (prev(back(j)) + UINT) % INPUT_BUF = prev(back(j)) % INPUT_BUF
    BY <2>4, SamePlace, ConsoleAssumption, Zenon
  <2>6. (w + (d - j) - 1) % INPUT_BUF = prev(back(j)) % INPUT_BUF
    BY <2>4, <2>5, Zenon
  <2>7. buf[(w + (d - j) - 1) % INPUT_BUF] # "newline"
    BY <2>1 DEF LineInv, d
  <2> QED  BY <2>6, <2>7, Zenon DEF at
<1>6. stops = {d}
  <2>1. d \in 0 .. d /\ \A j \in 0 .. d : j = d \/ j \in 0 .. d - 1
    BY <1>2, Sizes
  <2> HIDE DEF back
  <2> QED  BY <1>4, <1>5, <2>1
<1>7. Min(stops) = d
  BY <1>2, <1>6, Sizes DEF Min
<1>8. e' = w
  <2>1. d \in 0 .. d
    BY <1>2, Sizes
  <2> HIDE DEF back, stops
  <2> QED  BY <1>3, <1>4, <1>7, <2>1
<1>9. Ahead(w, w) = 0 /\ Ahead(w, r) \in Nat /\ d \in Nat
  BY <1>1, <1>2, AheadIs, Sizes DEF Indices
<1>10. LineInv'
  <2>1. Ahead(w, r) + 0 <= INPUT_BUF
    BY <1>9, Sizes DEF LineInv, d
  <2>2. \A j \in 1 .. 0 : FALSE
    OBVIOUS
  <2> QED  BY <1>1, <1>8, <1>9, <2>1, <2>2 DEF LineInv
<1>11. /\ Content(r, w) = Stretch(buf, r, Ahead(w, r))
       /\ Content(r, w)' = Stretch(buf, r, Ahead(w, r))
       /\ Content(w, e)' = Stretch(buf, w, 0)
  BY <1>1, <1>8, <1>9, Contents
<1>12. Stretch(buf, w, 0) = << >>
  BY <1>1, StretchIs, Sizes DEF Indices
<1> QED  BY <1>10, <1>11, <1>12 DEF Promise!KillLine

(* A reader takes the first delivered character, or puts ^D back. *)
LEMMA Step_read_char ==
  ASSUME LineInv, NEW p \in Procs, read_char(p)
  PROVE  LineInv' /\ (Promise!Take \/ UNCHANGED <<Content(r, w), Content(w, e)>>)
<1> DEFINE d == Ahead(w, r)
<1>1. /\ buf \in Buffers /\ r \in Indices /\ w \in Indices /\ e \in Indices
      /\ buf' = buf /\ w' = w /\ e' = e /\ r # w
  BY DEF LineInv, read_char
<1>2. CASE r' = r
  <2>1. LineInv'
    BY <1>1, <1>2 DEF LineInv
  <2> QED  BY <1>1, <1>2, <2>1, Contents
<1>3. CASE r' = next(r)
  <2>1. r' = IF r + 1 < UINT THEN r + 1 ELSE 0
    BY <1>1, <1>3, Wraps
  <2>2. r' \in Indices
    BY <1>1, <2>1, Sizes DEF Indices
  <2>3. /\ d = IF r <= w THEN w - r ELSE w + UINT - r
        /\ Ahead(w, r') = IF r' <= w THEN w - r' ELSE w + UINT - r'
    BY <1>1, <2>2, AheadIs
  <2>4. d \in Nat \ {0} /\ Ahead(w, r') = d - 1 /\ r \in Nat /\ d - 1 \in Nat
    BY <1>1, <2>1, <2>2, <2>3, Sizes DEF Indices
  <2>5. Ahead(e, w) \in Nat
    BY <1>1, AheadIs, Sizes
  <2> HIDE DEF d
  <2>6. LineInv'
    <3>1. Ahead(w, r') + Ahead(e, w) <= INPUT_BUF
      BY <2>4, <2>5, Sizes DEF LineInv, d
    <3> QED  BY <1>1, <2>2, <3>1 DEF LineInv
  <2>7. Stretch(buf, r', d - 1) = Tail(Stretch(buf, r, d))
    <3>1. Stretch(buf, r + 1, d - 1) = Tail(Stretch(buf, r, d))
      BY <1>1, <2>4, StretchTail
    <3>2. Stretch(buf, 0 + UINT, d - 1) = Stretch(buf, 0, d - 1)
      BY <2>4, StretchWraps
    <3>3. r' = r + 1 \/ (r' = 0 /\ r + 1 = 0 + UINT)
      BY <1>1, <2>1, Sizes DEF Indices
    <3> QED  BY <3>1, <3>2, <3>3
  <2>8. /\ Content(r, w) = Stretch(buf, r, d)
        /\ Content(w, e) = Stretch(buf, w, Ahead(e, w))
        /\ Content(r, w)' = Stretch(buf, r', d - 1)
        /\ Content(w, e)' = Stretch(buf, w, Ahead(e, w))
    BY <1>1, <2>2, <2>4, Contents DEF d
  <2>9. Len(Stretch(buf, r, d)) = d /\ Stretch(buf, r, d) # << >>
    BY <1>1, <2>4, StretchIs
  <2> QED  BY <2>6, <2>7, <2>8, <2>9 DEF Promise!Take
<1> QED  BY <1>2, <1>3 DEF read_char
(* A typed character goes behind the line, and delivers it when it is a    *)
(* newline, ^D or the last one the buffer has room for.                    *)
LEMMA Step_type_char ==
  ASSUME LineInv, NEW c \in Stored \cup {"return"}, type_char(c)
  PROVE  LineInv' /\ \E ch \in Stored : Promise!Type(ch)
<1> DEFINE ch == IF c = "return" THEN "newline" ELSE c
           dr == Ahead(w, r)
           dw == Ahead(e, w)
           b1 == [buf EXCEPT ![e % INPUT_BUF] = ch]
<1>1. ch \in Stored
  BY Zenon DEF Stored
<1>2. /\ buf \in Buffers /\ r \in Indices /\ w \in Indices /\ e \in Indices
      /\ dr + dw <= INPUT_BUF
      /\ \A j \in 1 .. dw : buf[(w + j - 1) % INPUT_BUF] # "newline"
  BY DEF LineInv
<1>3. /\ Ahead(e, r) < INPUT_BUF /\ buf' = b1 /\ e' = next(e) /\ r' = r
      /\ IF ch \in {"newline", "^D"} \/ e' = (r + INPUT_BUF) % UINT
         THEN w' = e' ELSE w' = w
  BY Zenon DEF type_char, Ahead
<1> HIDE DEF ch
<1>4. /\ e' = IF e + 1 < UINT THEN e + 1 ELSE 0
      /\ (r + INPUT_BUF) % UINT = IF r + INPUT_BUF < UINT THEN r + INPUT_BUF
                                  ELSE r + INPUT_BUF - UINT
  BY <1>2, <1>3, Wraps
<1>5. e' \in Indices
  BY <1>2, <1>4, Sizes DEF Indices
<1>6. /\ dr = IF r <= w THEN w - r ELSE w + UINT - r
      /\ dw = IF w <= e THEN e - w ELSE e + UINT - w
      /\ Ahead(e, r) = IF r <= e THEN e - r ELSE e + UINT - r
      /\ Ahead(e', w) = IF w <= e' THEN e' - w ELSE e' + UINT - w
      /\ Ahead(e', r) = IF r <= e' THEN e' - r ELSE e' + UINT - r
      /\ Ahead(e', e') = 0
  BY <1>2, <1>5, AheadIs, AheadSelf
<1>7. dr \in Nat /\ dw \in Nat /\ dr + dw + 1 <= INPUT_BUF
  BY <1>2, <1>3, <1>6, Sizes DEF Indices
<1>8. Ahead(e', w) = dw + 1 /\ Ahead(e', r) = dr + (dw + 1)
  BY <1>2, <1>3, <1>4, <1>6, <1>7, Sizes DEF Indices
<1>9. e' = (r + INPUT_BUF) % UINT <=> dr + (dw + 1) = INPUT_BUF
  BY <1>2, <1>4, <1>5, <1>6, <1>7, <1>8, Sizes DEF Indices
<1>10. r \in Nat /\ w \in Nat /\ e \in Nat
  BY <1>2, Sizes DEF Indices
<1>11. /\ r + dr = w \/ r + dr = w + UINT
       /\ w + dw = e \/ w + dw = e + UINT
  BY <1>2, <1>6, Sizes DEF Indices
<1> HIDE DEF dr, dw
<1>12. (w + dw) % INPUT_BUF = e % INPUT_BUF
  <2>1. (e + UINT) % INPUT_BUF = e % INPUT_BUF
    BY <1>10, SamePlace, ConsoleAssumption, Zenon
  <2> QED  BY <1>11, <2>1, Zenon
<1>13. (r + (dr + dw)) % INPUT_BUF = e % INPUT_BUF
  <2>1. (w + dw + UINT) % INPUT_BUF = (w + dw) % INPUT_BUF
    <3>1. w + dw \in Nat
      BY <1>7, <1>10
    <3> QED  BY <3>1, SamePlace, ConsoleAssumption, Zenon
  <2>2. r + (dr + dw) = w + dw \/ r + (dr + dw) = w + dw + UINT
    BY <1>7, <1>10, <1>11, Sizes
  <2> QED  BY <1>12, <2>1, <2>2, Zenon
<1> DEFINE bw == [buf EXCEPT ![(w + dw) % INPUT_BUF] = ch]
           br == [buf EXCEPT ![(r + (dr + dw)) % INPUT_BUF] = ch]
<1>14. b1 = bw /\ b1 = br
  BY <1>12, <1>13, Zenon
<1>15. dw <= dw /\ dw < INPUT_BUF
  BY <1>7, Sizes
<1>16. b1 \in Buffers /\ \A j \in 1 .. dw : b1[(w + j - 1) % INPUT_BUF] # "newline"
  <2>1. e % INPUT_BUF \in 0 .. INPUT_BUF - 1
    BY <1>10, Place, Sizes
  <2>2. b1 \in Buffers
    BY <1>1, <1>2, <2>1 DEF Buffers
  <2>3. Stretch(b1, w, dw) = Stretch(buf, w, dw)
    <3>1. Stretch(bw, w, dw) = Stretch(buf, w, dw)
      BY <1>1, <1>2, <1>7, <1>10, <1>15, StretchKept
    <3> QED  BY <1>14, <3>1, Zenon
  <2>4. /\ \A j \in 1 .. dw : Stretch(b1, w, dw)[j] = b1[(w + j - 1) % INPUT_BUF]
        /\ \A j \in 1 .. dw : Stretch(buf, w, dw)[j] = buf[(w + j - 1) % INPUT_BUF]
    <3> HIDE DEF b1
    <3> QED  BY <1>2, <1>7, <1>10, <2>2, StretchIs
  <2> HIDE DEF b1
  <2> QED  BY <1>2, <2>2, <2>3, <2>4
<1>17. Stretch(b1, w, dw + 1) = Append(Stretch(buf, w, dw), ch)
  <2>1. Stretch(bw, w, dw + 1) = Append(Stretch(buf, w, dw), ch)
    BY <1>1, <1>2, <1>7, <1>10, <1>15, StretchAppend, Zenon
  <2> QED  BY <1>14, <2>1, Zenon
<1>18. Stretch(b1, r, dr) = Stretch(buf, r, dr)
  <2>1. dr + dw \in Nat /\ dr <= dr + dw /\ dr + dw < INPUT_BUF
    BY <1>7, Sizes
  <2>2. Stretch(br, r, dr) = Stretch(buf, r, dr)
    BY <1>1, <1>2, <1>7, <1>10, <2>1, StretchKept
  <2> QED  BY <1>14, <2>2, Zenon
<1>19. b1[e % INPUT_BUF] = ch
  BY <1>10, <1>2, Place, Sizes DEF Buffers
<1> HIDE DEF b1
<1>20. Stretch(b1, r, dr + (dw + 1)) = Stretch(b1, r, dr) \o Stretch(b1, w, dw + 1)
  <2> DEFINE l == dw + 1
  <2>1. r \in Nat /\ dr \in Nat /\ l \in Nat /\ b1 \in Buffers
    BY <1>7, <1>10, <1>16
  <2> HIDE DEF l
  <2>2. Stretch(b1, r, dr) \o Stretch(b1, r + dr, l) = Stretch(b1, r, dr + l)
    BY <2>1, StretchConcat, Zenon
  <2>3. Stretch(b1, w + UINT, l) = Stretch(b1, w, l)
    BY <1>10, <2>1, StretchWraps, Zenon
  <2>4. Stretch(b1, r, dr + l) = Stretch(b1, r, dr) \o Stretch(b1, w, l)
    BY <1>11, <2>2, <2>3, Zenon
  <2> QED  BY <2>4 DEF l
<1>21. /\ Len(Stretch(buf, r, dr)) = dr /\ Len(Stretch(buf, w, dw)) = dw
       /\ Stretch(buf, w, dw) \in Seq(Stored)
  BY <1>2, <1>7, <1>10, StretchIs
<1>22. Len(Append(Stretch(buf, w, dw), ch)) = dw + 1
  BY <1>1, <1>21
<1>23. CASE ch \in {"newline", "^D"} \/ dr + (dw + 1) = INPUT_BUF
  <2>1. w' = e'
    BY <1>3, <1>9, <1>23, Zenon
  <2>2. LineInv'
    <3>1. dr + (dw + 1) + 0 <= INPUT_BUF
      BY <1>7, Sizes
    <3>2. \A j \in 1 .. 0 : FALSE
      OBVIOUS
    <3> QED  BY <1>2, <1>3, <1>5, <1>6, <1>8, <1>16, <2>1, <3>1, <3>2 DEF LineInv
  <2>3. /\ Content(r, w) = Stretch(buf, r, dr) /\ Content(w, e) = Stretch(buf, w, dw)
        /\ Content(r, w)' = Stretch(b1, r, dr + (dw + 1))
        /\ Content(w, e)' = Stretch(b1, e', 0)
    BY <1>2, <1>3, <1>5, <1>6, <1>8, <2>1, Contents DEF dr, dw
  <2>4. Stretch(b1, e', 0) = << >>
    BY <1>5, <1>16, StretchIs, Sizes DEF Indices
  <2>5. dr + dw < INPUT_BUF
    BY <1>7, Sizes
  <2> QED
    BY <1>1, <1>17, <1>18, <1>20, <1>21, <1>22, <1>23, <2>2, <2>3, <2>4, <2>5
    DEF Promise!Type
<1>24. CASE ch \notin {"newline", "^D"} /\ dr + (dw + 1) # INPUT_BUF
  <2>1. w' = w
    BY <1>3, <1>9, <1>24, Zenon
  <2>2. LineInv'
    <3>1. dr + (dw + 1) <= INPUT_BUF
      BY <1>7, Sizes
    <3>2. \A j \in 1 .. dw + 1 : b1[(w + j - 1) % INPUT_BUF] # "newline"
      <4> TAKE j \in 1 .. dw + 1
      <4>1. j \in 1 .. dw \/ w + j - 1 = w + dw
        BY <1>7, <1>10
      <4> QED  BY <1>12, <1>16, <1>19, <1>24, <4>1, Zenon
    <3> QED  BY <1>2, <1>3, <1>5, <1>8, <1>16, <2>1, <3>1, <3>2 DEF LineInv, dr
  <2>3. /\ Content(r, w) = Stretch(buf, r, dr) /\ Content(w, e) = Stretch(buf, w, dw)
        /\ Content(r, w)' = Stretch(b1, r, dr)
        /\ Content(w, e)' = Stretch(b1, w, dw + 1)
    BY <1>2, <1>3, <1>5, <1>8, <2>1, Contents DEF dr, dw
  <2>4. dr + dw < INPUT_BUF
    BY <1>7, Sizes
  <2> QED
    BY <1>1, <1>17, <1>18, <1>21, <1>22, <1>24, <2>2, <2>3, <2>4
    DEF Promise!Type
<1> QED  BY <1>23, <1>24
(* Every step of the console types, edits, takes or leaves the lines alone. *)
LEMMA NextLine ==
  ASSUME LineInv, [Next]_vars
  PROVE  LineInv' /\ [Promise!LineNext]_<<Content(r, w), Content(w, e)>>
<1>1. CASE UNCHANGED input
  <2>1. LineInv'
    BY <1>1 DEF input, LineInv
  <2>2. UNCHANGED <<Content(r, w), Content(w, e)>>
    BY <1>1 DEF input, Content, at
  <2> QED  BY <2>1, <2>2
<1>2. CASE \E c \in Stored \cup {"return"} : type_char(c)
  BY <1>2, Step_type_char DEF Promise!LineNext
<1>3. CASE backspace
  BY <1>3, Step_backspace DEF Promise!LineNext
<1>4. CASE kill_line
  BY <1>4, Step_kill_line DEF Promise!LineNext
<1>5. CASE \E p \in Procs : read_char(p)
  BY <1>5, Step_read_char DEF Promise!LineNext
<1>6. ASSUME NEW p \in Procs,
             \/ read_wait(p) \/ read_resume(p) \/ kill(p) \/ exit(p)
             \/ \E k \in Counts : read_enter(p, k)
      PROVE  UNCHANGED input
  BY <1>6 DEF read_wait, read_resume, kill, exit, read_enter
<1> QED  BY <1>1, <1>2, <1>3, <1>4, <1>5, <1>6 DEF Next, Inside, vars

(* The console's buffer implements the line discipline (console.c:206-225) *)
(* for any readers, buffer size and counter width: what was delivered is   *)
(* never edited, lost or overwritten.                                      *)
THEOREM ConsoleIsLine == Spec => IsLine
<1>1. Init => LineInv /\ Content(r, w) = << >> /\ Content(w, e) = << >>
  <2> SUFFICES ASSUME Init
               PROVE  LineInv /\ Content(r, w) = << >> /\ Content(w, e) = << >>
    OBVIOUS
  <2>1. r \in Indices /\ w \in Indices /\ e \in Indices /\ r = w /\ e = w
    BY Sizes DEF Init, Indices
  <2>2. Ahead(w, w) = 0
    BY <2>1, AheadSelf
  <2>3. buf \in Buffers
    BY DEF Init, Buffers, Stored
  <2>4. LineInv
    BY <2>1, <2>2, <2>3, Sizes DEF LineInv
  <2>5. Content(w, w) = << >>
    BY <2>2 DEF Content, Ahead
  <2> QED  BY <2>1, <2>4, <2>5
<1>2. LineInv /\ [Next]_vars =>
        LineInv' /\ [Promise!LineNext]_<<Content(r, w), Content(w, e)>>
  BY NextLine
<1> QED  BY <1>1, <1>2, PTL DEF Spec, IsLine, Promise!LineSpec

-----------------------------------------------------------------------------
(***************************************************************************)
(* The end of file.                                                        *)
(***************************************************************************)
(* A read has at most target characters to go. *)
ReadInv ==
  /\ pc \in [Procs -> {"idle", "loop", "sleep", "woken"}]
  /\ n \in [Procs -> Nat] /\ target \in [Procs -> Nat]
  /\ \A p \in Procs : n[p] <= target[p]

(* consoleread counts n down from target. *)
LEMMA NextReadInv == ReadInv /\ [Next]_vars => ReadInv'
<1> SUFFICES ASSUME ReadInv, [Next]_vars PROVE ReadInv'
  OBVIOUS
<1>1. CASE UNCHANGED vars
  BY <1>1 DEF vars, ReadInv
<1>2. CASE \/ \E c \in Stored \cup {"return"} : type_char(c)
           \/ backspace \/ kill_line
  BY <1>2 DEF type_char, wakeup, backspace, kill_line, ReadInv
<1>3. ASSUME NEW p \in Procs, read_wait(p) \/ read_char(p) PROVE ReadInv'
  BY <1>3 DEF read_wait, read_char, return, ReadInv
<1>4. ASSUME NEW p \in Procs, read_resume(p) \/ kill(p) \/ exit(p) PROVE ReadInv'
  BY <1>4 DEF read_resume, kill, exit, ReadInv
<1>5. ASSUME NEW p \in Procs, NEW k \in Counts, read_enter(p, k) PROVE ReadInv'
  BY <1>5, ConsoleAssumption DEF read_enter, ReadInv
<1> QED  BY <1>1, <1>2, <1>3, <1>4, <1>5 DEF Next, Inside

(* ^D is consumed by a read that has copied nothing and returns 0          *)
(* (console.c:253-260), whichever reader gets it: no end of file is lost.  *)
THEOREM EofNotLost == Spec => EofDelivered
<1> DEFINE Eof == r' # r /\ at(r) = "^D" =>
                    \E p \in Procs : n[p] = target[p] /\ n[p] > 0 /\ pc'[p] = "idle"
<1>1. Init => ReadInv
  BY DEF Init, ReadInv
<1>2. ASSUME ReadInv, [Next]_vars, r' # r, at(r) = "^D"
      PROVE  \E p \in Procs : n[p] = target[p] /\ n[p] > 0 /\ pc'[p] = "idle"
  <2>1. PICK p \in Procs : read_char(p)
    BY <1>2 DEF Next, Inside, vars, input, type_char, backspace, kill_line, read_wait,
                read_resume, kill, exit, read_enter
  <2>2. n[p] > 0 /\ ~(n[p] < target[p]) /\ pc' = [pc EXCEPT ![p] = "idle"]
    BY <1>2, <2>1 DEF read_char, return
  <2> QED  BY <1>2, <2>2 DEF ReadInv
<1>3. ReadInv /\ [Next]_vars => [Eof]_vars
  BY <1>2
<1> QED  BY <1>1, <1>3, NextReadInv, PTL DEF Spec, EofDelivered
=============================================================================
