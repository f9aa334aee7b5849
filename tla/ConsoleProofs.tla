--------------------------- MODULE ConsoleProofs ----------------------------
(***************************************************************************)
(* For every size of the ring, every width of its indices and any number   *)
(* of readers, console input does not get stuck, and the ring of console.c *)
(* implements LineDiscipline.                                              *)
(*                                                                         *)
(* ConInv is the inductive invariant. Lemmas about the ring are stated for *)
(* a ring i, by the distances of its indices and characters from the read  *)
(* index, so that they serve the ring before a step and the one after it.  *)
(***************************************************************************)
EXTENDS Console, CounterProofs

-----------------------------------------------------------------------------
(* The ring                                                                *)

ConChars == {"x", "X", "nl", "^D"}
RingRec == [buf : [0 .. INPUT_BUF - 1 -> ConChars], r : Indices, w : Indices, e : Indices]

\* How many characters of ring i are committed and unread, and how many are in
\* use; and the one at distance d from the read index.
Unread(i) == Mod(i.w - i.r)
Used(i) == Mod(i.e - i.r)
CharAt(i, d) == i.buf[Mod(i.r + d) % INPUT_BUF]

\* The three indices are in order, a full ring is committed, and a newline is
\* never in the part that is still edited, so that C('U') stops at its start.
RingOK(i) ==
    /\ i \in RingRec
    /\ Unread(i) <= Used(i) /\ Used(i) <= INPUT_BUF
    /\ Used(i) = INPUT_BUF => i.w = i.e
    /\ \A d \in Unread(i) .. Used(i) - 1 : CharAt(i, d) # "nl"

\* The characters from index a of ring i to index b.
Segment(i, a, b) == [k \in 1 .. Mod(b - a) |-> i.buf[Mod(a + k - 1) % INPUT_BUF]]

\* Arithmetic of the indices.
LEMMA ModFacts ==
    ASSUME NEW a \in Int, NEW b \in Int
    PROVE  /\ Mod(a) \in Indices /\ (a \in Indices => Mod(a) = a)
           /\ Mod(Mod(a) + b) = Mod(a + b) /\ Mod(Mod(a) - b) = Mod(a - b)
           /\ Mod(b - Mod(a)) = Mod(b - a)
<1>1. Wrap \in Nat \ {0}
  BY ConsoleAssumption, Zenon
<1>2. Mod(a) \in Indices
  BY <1>1, DivMod, Zenon DEF Mod, Indices
<1>3. a \in Indices => Mod(a) = a
  BY <1>1, ModNear, Zenon DEF Mod, Indices
<1>4. Mod(Mod(a) + b) = Mod(a + b)
  BY <1>1, ModAdd, Zenon DEF Mod
<1>5. Mod(Mod(a) - b) = Mod(a - b)
  <2>1. -b \in Int /\ Mod(a) - b = Mod(a) + (-b) /\ a - b = a + (-b)
    BY <1>2, <1>1 DEF Indices
  <2>2. Mod(Mod(a) + (-b)) = Mod(a + (-b))
    BY <1>1, <2>1, ModAdd, Zenon DEF Mod
  <2> QED
    BY <2>1, <2>2, Zenon
<1>6. Mod(b - Mod(a)) = Mod(b - a)
  BY <1>1, ModSubtract, Zenon DEF Mod
<1> QED
  BY <1>2, <1>3, <1>4, <1>5, <1>6, Zenon

\* INPUT_BUF consecutive characters have places of their own.
LEMMA PlaceFacts ==
    ASSUME NEW a \in Int
    PROVE  /\ Mod(a) % INPUT_BUF \in 0 .. INPUT_BUF - 1
           /\ \A b \in Int :
                 Mod(a) % INPUT_BUF = Mod(b) % INPUT_BUF /\ a - b < INPUT_BUF /\ b - a < INPUT_BUF
                   => a = b
<1>1. Wrap \in Nat \ {0} /\ INPUT_BUF \in Nat \ {0} /\ Wrap % INPUT_BUF = 0
  BY ConsoleAssumption, Zenon
<1>2. Mod(a) \in Int
  BY <1>1, ModFacts DEF Indices
<1>3. Mod(a) % INPUT_BUF \in 0 .. INPUT_BUF - 1
  BY <1>1, <1>2, DivMod, Zenon
<1>4. ASSUME NEW b \in Int, Mod(a) % INPUT_BUF = Mod(b) % INPUT_BUF,
             a - b < INPUT_BUF, b - a < INPUT_BUF
      PROVE  a = b
  <2>1. Mod(a) % INPUT_BUF = a % INPUT_BUF /\ Mod(b) % INPUT_BUF = b % INPUT_BUF
    BY <1>1, ModMod, Zenon DEF Mod
  <2> QED
    BY <1>1, <1>4, <2>1, ModDistinct, Zenon
<1> QED
  BY <1>3, <1>4, Zenon

\* The indices of a ring as distances from its read index.
LEMMA Geometry ==
    ASSUME NEW i, RingOK(i)
    PROVE  /\ i \in RingRec /\ i.r \in Int /\ i.w \in Int /\ i.e \in Int
           /\ i.r \in Indices /\ i.w \in Indices /\ i.e \in Indices
           /\ i.buf \in [0 .. INPUT_BUF - 1 -> ConChars]
           /\ Unread(i) \in Nat /\ Used(i) \in Nat /\ Unread(i) <= Used(i)
           /\ Used(i) <= INPUT_BUF /\ INPUT_BUF \in Nat \ {0} /\ Wrap \in Nat /\ INPUT_BUF < Wrap
           /\ i.w = Mod(i.r + Unread(i)) /\ i.e = Mod(i.r + Used(i))
           /\ Mod(i.e - i.w) = Used(i) - Unread(i)
           /\ i.e = i.w <=> Used(i) = Unread(i)
           /\ i.r = i.w <=> Unread(i) = 0
<1>1. INPUT_BUF \in Nat \ {0} /\ Wrap \in Nat /\ INPUT_BUF < Wrap
  BY ConsoleAssumption, Zenon
<1>2. /\ i \in RingRec /\ i.r \in Indices /\ i.w \in Indices /\ i.e \in Indices
      /\ i.buf \in [0 .. INPUT_BUF - 1 -> ConChars]
      /\ Unread(i) <= Used(i) /\ Used(i) <= INPUT_BUF
  BY Zenon DEF RingOK, RingRec
<1>3. i.r \in Int /\ i.w \in Int /\ i.e \in Int
  BY <1>1, <1>2 DEF Indices
<1>4. i.w - i.r \in Int /\ i.e - i.r \in Int
  BY <1>3
<1>5. Unread(i) \in Indices /\ Used(i) \in Indices
  BY <1>4, ModFacts, Zenon DEF Unread, Used
<1>6. Unread(i) \in Nat /\ Used(i) \in Nat
  BY <1>1, <1>5 DEF Indices
<1>7. ASSUME NEW x \in Indices, NEW d, d = Mod(x - i.r) PROVE x = Mod(i.r + d)
  <2>1. x - i.r \in Int /\ i.r + (x - i.r) = x /\ x \in Int
    BY <1>1, <1>3, <1>7 DEF Indices
  <2>2. d \in Int /\ d + i.r = i.r + d /\ (x - i.r) + i.r = x
    <3>1. d \in Indices
      BY <1>7, <2>1, ModFacts, Zenon
    <3> QED
      BY <1>1, <1>3, <2>1, <3>1 DEF Indices
  <2>3. Mod(d + i.r) = Mod((x - i.r) + i.r)
    BY <1>3, <1>7, <2>1, ModFacts, Zenon
  <2> QED
    BY <1>7, <2>1, <2>2, <2>3, ModFacts, Zenon
<1>8. i.w = Mod(i.r + Unread(i)) /\ i.e = Mod(i.r + Used(i))
  BY <1>2, <1>7, Zenon DEF Unread, Used
<1>9. Mod(i.e - i.w) = Used(i) - Unread(i)
  <2> DEFINE u == Unread(i)
             v == Used(i)
  <2>1. u \in Int /\ v \in Int /\ i.r + u \in Int /\ i.r + v \in Int
    BY <1>3, <1>6
  <2>2. i.w = Mod(i.r + u) /\ i.e = Mod(i.r + v)
    BY <1>8, Zenon
  <2>3. v - u \in Indices
    BY <1>1, <1>2, <1>5, <1>6 DEF Indices
  <2> HIDE DEF u, v
  <2>4. Mod(i.e - i.w) = Mod(i.e - (i.r + u))
    <3>1. Mod(i.e - Mod(i.r + u)) = Mod(i.e - (i.r + u))
      BY <1>3, <2>1, ModFacts, Zenon
    <3> QED
      BY <2>2, <3>1, Zenon
  <2>5. Mod(i.e - (i.r + u)) = Mod((i.r + v) - (i.r + u))
    <3>1. Mod(Mod(i.r + v) - (i.r + u)) = Mod((i.r + v) - (i.r + u))
      BY <2>1, ModFacts, Zenon
    <3> QED
      BY <2>2, <3>1, Zenon
  <2>6. (i.r + v) - (i.r + u) = v - u /\ v - u \in Int
    BY <1>3, <2>1
  <2>7. Mod(v - u) = v - u
    BY <2>3, <2>6, ModFacts, Zenon
  <2>8. Mod(i.e - i.w) = v - u
    BY <2>4, <2>5, <2>6, <2>7, Zenon
  <2> QED
    BY <2>8, Zenon DEF u, v
<1>10. i.e = i.w <=> Used(i) = Unread(i)
  BY <1>8, Zenon DEF Used, Unread
<1>11. i.r = i.w <=> Unread(i) = 0
  <2>1. i.r + 0 = i.r /\ 0 \in Indices /\ 0 \in Int
    BY <1>1, <1>3 DEF Indices
  <2>2. Mod(i.r) = i.r /\ Mod(0) = 0
    BY <1>2, <1>3, <2>1, ModFacts, Zenon
  <2>3. i.r = i.w => Unread(i) = 0
    <3>1. SUFFICES ASSUME i.r = i.w PROVE Unread(i) = 0
      OBVIOUS
    <3>2. i.w - i.r = 0
      BY <1>3, <3>1
    <3> QED
      BY <2>2, <3>2, Zenon DEF Unread
  <2> QED
    BY <1>8, <2>1, <2>2, <2>3, Zenon
<1> QED
  BY <1>1, <1>2, <1>3, <1>6, <1>8, <1>9, <1>10, <1>11, Zenon

\* A ring that differs from ring i only in its write and edit indices, given as
\* distances from the read index.
LEMMA NewEnds ==
    ASSUME NEW i, RingOK(i), NEW u \in Nat, NEW v \in Nat, NEW j \in RingRec,
           u <= v, v <= INPUT_BUF, v = INPUT_BUF => u = v,
           j.r = i.r, j.w = Mod(i.r + u), j.e = Mod(i.r + v),
           \A d \in u .. v - 1 : CharAt(j, d) # "nl"
    PROVE  RingOK(j) /\ Unread(j) = u /\ Used(j) = v
<1>1. i.r \in Int /\ Wrap \in Nat /\ INPUT_BUF \in Nat /\ INPUT_BUF < Wrap
  BY Geometry, Zenon
<1>2. ASSUME NEW x \in Nat, x <= INPUT_BUF PROVE Mod(Mod(i.r + x) - i.r) = x
  <2>1. i.r + x \in Int /\ x \in Int /\ (i.r + x) - i.r = x /\ x \in Indices
    BY <1>1, <1>2 DEF Indices
  <2>2. Mod(Mod(i.r + x) - i.r) = Mod((i.r + x) - i.r)
    BY <1>1, <2>1, ModFacts, Zenon
  <2> QED
    BY <2>1, <2>2, ModFacts, Zenon
<1>3. u <= INPUT_BUF
  BY <1>1
<1>4. Unread(j) = u /\ Used(j) = v
  BY <1>2, <1>3, Zenon DEF Unread, Used
<1>5. Used(j) = INPUT_BUF => j.w = j.e
  BY <1>4, Zenon
<1> QED
  BY <1>4, <1>5, Zenon DEF RingOK

\* C('H'): the edit index goes back by one character.
LEMMA EraseOK ==
    ASSUME NEW i, RingOK(i), i.e # i.w, NEW j, j = Edited(i, Mod(i.e - 1))
    PROVE  /\ RingOK(j) /\ j.buf = i.buf /\ j.r = i.r /\ j.w = i.w
           /\ Unread(j) = Unread(i) /\ Used(j) = Used(i) - 1
<1> DEFINE u == Unread(i)
           v == Used(i)
<1>1. /\ i \in RingRec /\ i.r \in Int /\ i.e \in Int /\ u \in Nat /\ v \in Nat /\ u <= v
      /\ v <= INPUT_BUF /\ INPUT_BUF \in Nat
      /\ i.w = Mod(i.r + u) /\ i.e = Mod(i.r + v) /\ v # u
  BY Geometry, Zenon
<1>2. v - 1 \in Nat /\ u <= v - 1 /\ v - 1 <= INPUT_BUF /\ v - 1 # INPUT_BUF
  BY <1>1
<1>3. Mod(i.e - 1) \in Indices /\ Mod(i.e - 1) = Mod(i.r + (v - 1))
  <2>1. i.r + v \in Int /\ i.e - 1 \in Int /\ (i.r + v) - 1 = i.r + (v - 1) /\ 1 \in Int
    BY <1>1
  <2>2. Mod(Mod(i.r + v) - 1) = Mod((i.r + v) - 1)
    BY <2>1, ModFacts, Zenon
  <2> QED
    BY <1>1, <2>1, <2>2, ModFacts, Zenon
<1>4. j \in RingRec /\ j.buf = i.buf /\ j.r = i.r /\ j.w = i.w /\ j.e = Mod(i.e - 1)
  BY <1>1, <1>3, Zenon DEF RingRec, Edited
<1>5. \A d \in u .. v - 1 : CharAt(i, d) # "nl"
  BY Zenon DEF RingOK
<1>6. \A d \in u .. (v - 1) - 1 : CharAt(j, d) # "nl"
  <2> TAKE d \in u .. (v - 1) - 1
  <2>1. d \in u .. v - 1
    BY <1>1
  <2> QED
    BY <1>4, <1>5, <2>1, Zenon DEF CharAt
<1> HIDE DEF u, v
<1>7. RingOK(j) /\ Unread(j) = u /\ Used(j) = v - 1
  BY <1>1, <1>2, <1>3, <1>4, <1>6, NewEnds
<1> QED
  BY <1>4, <1>7, Zenon DEF u, v

\* C('U'): the edit index goes back to the write index, because no newline stops it.
LEMMA KillOK ==
    ASSUME NEW i, RingOK(i), NEW j, j = Edited(i, KillTo(i))
    PROVE  /\ RingOK(j) /\ j.buf = i.buf /\ j.r = i.r /\ j.w = i.w /\ j.e = i.w
           /\ Unread(j) = Unread(i) /\ Used(j) = Unread(i)
<1> DEFINE u == Unread(i)
           v == Used(i)
           back == {k \in 0 .. INPUT_BUF :
                      /\ k <= Mod(i.e - i.w)
                      /\ \A l \in 1 .. k : i.buf[Mod(i.e - l) % INPUT_BUF] # "nl"}
           most == CHOOSE k \in back : \A l \in back : l <= k
<1>1. /\ i \in RingRec /\ i.r \in Int /\ i.e \in Int /\ u \in Nat /\ v \in Nat /\ u <= v
      /\ v <= INPUT_BUF /\ INPUT_BUF \in Nat
      /\ i.w = Mod(i.r + u) /\ i.e = Mod(i.r + v) /\ Mod(i.e - i.w) = v - u /\ i.w \in Indices
  BY Geometry, Zenon
<1>2. \A d \in u .. v - 1 : CharAt(i, d) # "nl"
  BY Zenon DEF RingOK
<1> HIDE DEF u, v
<1>3. ASSUME NEW l \in Int PROVE Mod(i.e - l) = Mod(i.r + (v - l))
  <2>1. i.r + v \in Int /\ (i.r + v) - l = i.r + (v - l)
    BY <1>1
  <2>2. Mod(Mod(i.r + v) - l) = Mod((i.r + v) - l)
    BY <2>1, ModFacts, Zenon
  <2> QED
    BY <1>1, <2>1, <2>2, Zenon
<1>4. v - u \in back
  <2>1. v - u \in 0 .. INPUT_BUF /\ v - u <= Mod(i.e - i.w)
    BY <1>1
  <2>2. ASSUME NEW l \in 1 .. v - u PROVE i.buf[Mod(i.e - l) % INPUT_BUF] # "nl"
    <3>1. v - l \in u .. v - 1 /\ l \in Int
      BY <1>1, <2>2
    <3> QED
      BY <1>2, <1>3, <3>1, Zenon DEF CharAt
  <2> QED
    BY <2>1, <2>2, Zenon
<1>5. \A l \in back : l <= v - u /\ l \in Int
  BY <1>1
<1>6. most \in back /\ \A l \in back : l <= most
  BY <1>4, <1>5, Zenon
<1> HIDE DEF most, back
<1>7. most = v - u
  BY <1>1, <1>4, <1>5, <1>6
<1>8. KillTo(i) = i.w
  <2>1. v - u \in Int /\ v - (v - u) = u
    BY <1>1
  <2>2. KillTo(i) = Mod(i.e - most)
    BY Zenon DEF KillTo, most, back
  <2> QED
    BY <1>1, <1>3, <1>7, <2>1, <2>2, Zenon
<1>9. j \in RingRec /\ j.buf = i.buf /\ j.r = i.r /\ j.w = i.w /\ j.e = i.w
  BY <1>1, <1>8, Zenon DEF RingRec, Edited
<1>10. \A d \in u .. u - 1 : CharAt(j, d) # "nl"
  BY <1>1
<1>11. u <= INPUT_BUF /\ u <= u
  BY <1>1
<1>12. RingOK(j) /\ Unread(j) = u /\ Used(j) = u
  BY <1>1, <1>9, <1>10, <1>11, NewEnds
<1> QED
  BY <1>9, <1>12, Zenon DEF u

\* The ring with character c stored, and committed at the end of a line or of the ring.
Put(i, c) == [i EXCEPT !.buf[i.e % INPUT_BUF] = c, !.e = Mod(@ + 1)]
Stored(i, c) ==
    IF Commits(Put(i, c), c) THEN [Put(i, c) EXCEPT !.w = Put(i, c).e] ELSE Put(i, c)

\* consoleintr() stores a character; at the end of a line, or of the ring, it commits.
LEMMA StoreOK ==
    ASSUME NEW i, RingOK(i), ~NoRoom(i), NEW c \in ConChars
    PROVE  /\ RingOK(Stored(i, c)) /\ Stored(i, c).r = i.r /\ Used(i) < INPUT_BUF /\ Used(Stored(i, c)) = Used(i) + 1
           /\ Unread(Stored(i, c)) = IF Commits(Put(i, c), c) THEN Used(i) + 1 ELSE Unread(i)
           /\ Commits(Put(i, c), c) <=> c \in {"nl", "^D"} \/ Used(i) + 1 = INPUT_BUF
           /\ \A d \in 0 .. Used(i) - 1 : CharAt(Stored(i, c), d) = CharAt(i, d)
           /\ CharAt(Stored(i, c), Used(i)) = c
           /\ Commits(Put(i, c), c) => Stored(i, c).w = Stored(i, c).e
           /\ ~Commits(Put(i, c), c) => Stored(i, c).w = i.w
<1> DEFINE u == Unread(i)
           v == Used(i)
           place == i.e % INPUT_BUF
           s == Put(i, c)
           j == Stored(i, c)
<1>1. /\ i \in RingRec /\ i.r \in Int /\ i.e \in Int /\ u \in Nat /\ v \in Nat /\ u <= v
      /\ v <= INPUT_BUF /\ INPUT_BUF \in Nat \ {0} /\ Wrap \in Nat /\ INPUT_BUF < Wrap
      /\ i.buf \in [0 .. INPUT_BUF - 1 -> ConChars]
      /\ i.w = Mod(i.r + u) /\ i.e = Mod(i.r + v) /\ i.w \in Indices
  BY Geometry, Zenon
<1>2. v < INPUT_BUF
  BY <1>1 DEF NoRoom, Used
<1>3. \A d \in u .. v - 1 : CharAt(i, d) # "nl"
  BY Zenon DEF RingOK
<1>4. i.r + v \in Int /\ place \in 0 .. INPUT_BUF - 1
  <2>1. i.r + v \in Int
    BY <1>1
  <2> QED
    BY <1>1, <2>1, PlaceFacts, Zenon
<1> HIDE DEF u, v, place, s, j
<1>5. Mod(i.e + 1) = Mod(i.r + (v + 1)) /\ Mod(i.e + 1) \in Indices
  <2>1. i.e + 1 \in Int /\ (i.r + v) + 1 = i.r + (v + 1) /\ 1 \in Int
    BY <1>1, SMTT(30)
  <2>2. Mod(Mod(i.r + v) + 1) = Mod((i.r + v) + 1)
    BY <1>4, <2>1, ModFacts, Zenon
  <2> QED
    BY <1>1, <2>1, <2>2, ModFacts, Zenon
<1>6. /\ s \in RingRec /\ s.r = i.r /\ s.w = i.w /\ s.e = Mod(i.r + (v + 1))
      /\ s.buf = [i.buf EXCEPT ![place] = c]
  <2>1. [i.buf EXCEPT ![place] = c] \in [0 .. INPUT_BUF - 1 -> ConChars]
    BY <1>1, Zenon
  <2> DEFINE b == [i.buf EXCEPT ![place] = c]
  <2> HIDE DEF b
  <2>2. s = [i EXCEPT !.buf = b, !.e = Mod(i.e + 1)]
    BY <1>1, Zenon DEF b, place, RingRec, s, Put
  <2>3. s \in RingRec /\ s.r = i.r /\ s.w = i.w /\ s.e = Mod(i.e + 1) /\ s.buf = b
    BY <1>1, <1>5, <2>1, <2>2, Zenon DEF RingRec, b
  <2> QED
    BY <1>5, <2>3, Zenon DEF b
<1>7. ASSUME NEW x \in Nat, x <= INPUT_BUF PROVE Mod(Mod(i.r + x) - i.r) = x
  <2>1. i.r + x \in Int /\ x \in Int /\ (i.r + x) - i.r = x /\ x \in Indices
    BY <1>1, <1>7 DEF Indices
  <2>2. Mod(Mod(i.r + x) - i.r) = Mod((i.r + x) - i.r)
    BY <1>1, <2>1, ModFacts, Zenon
  <2> QED
    BY <2>1, <2>2, ModFacts, Zenon
<1>8. Commits(Put(i, c), c) <=> c \in {"nl", "^D"} \/ v + 1 = INPUT_BUF
  <2>1. v + 1 \in Nat /\ v + 1 <= INPUT_BUF /\ INPUT_BUF <= INPUT_BUF /\ INPUT_BUF \in Nat
    BY <1>1, <1>2
  <2>2. Mod(i.r + (v + 1)) = Mod(i.r + INPUT_BUF) => v + 1 = INPUT_BUF
    BY <1>7, <2>1, Zenon
  <2> QED
    BY <1>6, <2>2, Zenon DEF Commits, s
<1>9. j \in RingRec /\ j.r = i.r /\ j.buf = s.buf /\ j.e = Mod(i.r + (v + 1))
  <2>1. [s EXCEPT !.w = s.e] \in RingRec
    BY <1>6, Zenon DEF RingRec
  <2> QED
    BY <1>6, <2>1, Zenon DEF RingRec, j, s, Stored
<1>10. j.w = IF Commits(Put(i, c), c) THEN Mod(i.r + (v + 1)) ELSE Mod(i.r + u)
  BY <1>1, <1>6, Zenon DEF RingRec, j, s, Stored
<1>11. \A d \in 0 .. v - 1 : CharAt(j, d) = CharAt(i, d)
  <2> TAKE d \in 0 .. v - 1
  <2> DEFINE a == i.r + d
             b == i.r + v
  <2>1. a \in Int /\ b \in Int /\ a - b < INPUT_BUF /\ b - a < INPUT_BUF /\ a # b
    <3>1. i.r \in Int /\ v \in Nat /\ INPUT_BUF \in Nat /\ v < INPUT_BUF
      BY <1>1, <1>2, Zenon
    <3>2. a - b = d - v
      BY <3>1
    <3>3. b - a = v - d
      BY <3>1
    <3> QED
      BY <3>1, <3>2, <3>3
  <2>2. place = Mod(b) % INPUT_BUF
    BY <1>1, Zenon DEF place
  <2> HIDE DEF b
  <2>3. Mod(a) % INPUT_BUF # place /\ Mod(a) % INPUT_BUF \in 0 .. INPUT_BUF - 1
    <3> HIDE DEF a
    <3> QED
      BY <2>1, <2>2, PlaceFacts, Zenon
  <2>4. s.buf[Mod(a) % INPUT_BUF] = i.buf[Mod(a) % INPUT_BUF]
    <3> HIDE DEF a
    <3> QED
      BY <1>1, <1>6, <2>3, Zenon
  <2> QED
    BY <1>9, <2>4, Zenon DEF CharAt
<1>12. CharAt(j, v) = c
  <2>1. place = Mod(i.r + v) % INPUT_BUF
    BY <1>1, Zenon DEF place
  <2>2. s.buf[place] = c
    BY <1>1, <1>4, <1>6, Zenon
  <2> QED
    BY <1>9, <2>1, <2>2, Zenon DEF CharAt
<1> DEFINE nu == IF Commits(Put(i, c), c) THEN v + 1 ELSE u
<1>13. nu \in Nat /\ v + 1 \in Nat /\ nu <= v + 1 /\ v + 1 <= INPUT_BUF /\ j.w = Mod(i.r + nu)
  BY <1>1, <1>2, <1>10
<1>14. v + 1 = INPUT_BUF => nu = v + 1
  BY <1>8, Zenon
<1>15. \A d \in nu .. (v + 1) - 1 : CharAt(j, d) # "nl"
  <2> SUFFICES ASSUME NEW d \in nu .. (v + 1) - 1 PROVE CharAt(j, d) # "nl"
    OBVIOUS
  <2>1. ~Commits(Put(i, c), c) /\ nu = u /\ d \in u .. v
    BY <1>1
  <2>2. CASE d = v
    BY <1>8, <1>12, <2>1, <2>2, Zenon
  <2>3. CASE d # v
    <3>1. d \in u .. v - 1 /\ d \in 0 .. v - 1
      BY <1>1, <2>1, <2>3
    <3> QED
      BY <1>3, <1>11, <3>1, Zenon
  <2> QED
    BY <2>2, <2>3, Zenon
<1> HIDE DEF nu
<1>16. RingOK(j) /\ Unread(j) = nu /\ Used(j) = v + 1
  <2> DEFINE nv == v + 1
  <2>1. nu \in Nat /\ nv \in Nat /\ nu <= nv /\ nv <= INPUT_BUF /\ (nv = INPUT_BUF => nu = nv)
    BY <1>13, <1>14, Zenon
  <2>2. j \in RingRec /\ j.r = i.r /\ j.w = Mod(i.r + nu) /\ j.e = Mod(i.r + nv)
    BY <1>9, <1>13, Zenon
  <2>3. \A d \in nu .. nv - 1 : CharAt(j, d) # "nl"
    BY <1>15, Zenon
  <2> HIDE DEF nv
  <2>4. RingOK(j) /\ Unread(j) = nu /\ Used(j) = nv
    BY <2>1, <2>2, <2>3, NewEnds
  <2> QED
    BY <2>4, Zenon DEF nv
<1>17. /\ Commits(Put(i, c), c) => j.w = j.e
       /\ ~Commits(Put(i, c), c) => j.w = i.w
  BY <1>1, <1>9, <1>10, Zenon
<1> QED
  BY <1>2, <1>8, <1>9, <1>11, <1>12, <1>16, <1>17, Zenon DEF u, v, nu, j

\* consoleread() takes the first committed character.
LEMMA TakeOK ==
    ASSUME NEW i, RingOK(i), i.r # i.w, NEW j, j = [i EXCEPT !.r = Mod(@ + 1)]
    PROVE  /\ RingOK(j) /\ j.buf = i.buf /\ j.w = i.w /\ j.e = i.e
           /\ Unread(i) > 0 /\ Unread(j) = Unread(i) - 1 /\ Used(j) = Used(i) - 1
           /\ \A d \in Nat : CharAt(j, d) = CharAt(i, d + 1)
<1> DEFINE u == Unread(i)
           v == Used(i)
<1>1. /\ i \in RingRec /\ i.r \in Int /\ i.w \in Int /\ i.e \in Int /\ u \in Nat /\ v \in Nat
      /\ u <= v /\ v <= INPUT_BUF /\ INPUT_BUF \in Nat \ {0} /\ Wrap \in Nat /\ INPUT_BUF < Wrap
      /\ u # 0
  BY Geometry, Zenon
<1>2. \A d \in u .. v - 1 : CharAt(i, d) # "nl"
  BY Zenon DEF RingOK
<1>3. i.r + 1 \in Int /\ Mod(i.r + 1) \in Indices
  BY <1>1, ModFacts
<1>4. j \in RingRec /\ j.buf = i.buf /\ j.w = i.w /\ j.e = i.e /\ j.r = Mod(i.r + 1)
  BY <1>1, <1>3, Zenon DEF RingRec
<1>5. ASSUME NEW x \in Int, Mod(x - i.r) # 0 PROVE Mod(x - j.r) = Mod(x - i.r) - 1
  <2> DEFINE y == Mod(x - i.r)
  <2>1. Mod(x - Mod(i.r + 1)) = Mod(x - (i.r + 1))
    BY <1>3, ModFacts, Zenon
  <2>2. x - i.r \in Int /\ x - (i.r + 1) = (x - i.r) - 1 /\ 1 \in Int
    BY <1>1, <1>5
  <2>3. Mod(y - 1) = Mod((x - i.r) - 1) /\ y \in Indices
    BY <2>2, ModFacts, Zenon
  <2> HIDE DEF y
  <2>4. y - 1 \in Indices /\ y - 1 \in Int
    BY <1>1, <1>5, <2>3 DEF Indices, y
  <2>5. Mod(y - 1) = y - 1
    BY <2>4, ModFacts, Zenon
  <2> QED
    BY <1>4, <2>1, <2>2, <2>3, <2>5, Zenon DEF y
<1>6. Unread(j) = u - 1 /\ Used(j) = v - 1
  <2>1. u # 0 /\ v # 0
    BY <1>1
  <2> QED
    BY <1>1, <1>4, <1>5, <2>1, Zenon DEF Unread, Used
<1>7. \A d \in Nat : CharAt(j, d) = CharAt(i, d + 1)
  <2> TAKE d \in Nat
  <2>1. d \in Int /\ (i.r + 1) + d = i.r + (d + 1)
    BY <1>1
  <2>2. Mod(Mod(i.r + 1) + d) = Mod((i.r + 1) + d)
    BY <1>3, <2>1, ModFacts, Zenon
  <2> QED
    BY <1>4, <2>1, <2>2, Zenon DEF CharAt
<1>8. \A d \in Unread(j) .. Used(j) - 1 : CharAt(j, d) # "nl"
  <2> TAKE d \in Unread(j) .. Used(j) - 1
  <2>1. d \in Nat /\ d + 1 \in u .. v - 1
    BY <1>1, <1>6
  <2> QED
    BY <1>2, <1>7, <2>1, Zenon
<1>9. Unread(j) <= Used(j) /\ Used(j) <= INPUT_BUF /\ Used(j) # INPUT_BUF
  BY <1>1, <1>6
<1>10. RingOK(j)
  BY <1>4, <1>8, <1>9, Zenon DEF RingOK
<1> QED
  BY <1>1, <1>4, <1>6, <1>7, <1>10

-----------------------------------------------------------------------------
(* The invariant                                                           *)

InChars == ConChars \cup {"none", "cr", "^P", "^U", "^H"}
ReaderRec ==
    [pc : {"idle", "enter", "loop", "tested", "asleep"}, n : Int, got : Int, killed : BOOLEAN]
InLoop == {"loop", "tested"}

\* cons.lock is held by the reader in its loop.  One that is about to sleep is on
\* a machine of several CPUs and has nothing to read, since it holds cons.lock;
\* that is not so of killed, which kill() sets without that lock.
ReaderInv ==
    /\ reader \in [Readers -> ReaderRec] /\ ncpu \in {1, 2}
    /\ \A q \in Readers : /\ lock = q <=> reader[q].pc \in InLoop
                          /\ reader[q].pc = "tested" => input.r = input.w /\ ncpu > 1
    /\ ReaderAwake

KeyByte == [b : {"lshift", "rshift", "lctl", "caps", "u", "enter"}, up : BOOLEAN]
EscapeByte == [b |-> "E0", up |-> FALSE]
ShiftKeys == {"lshift", "rshift"}
CtlKeys == {"lctl", "rctl"}

\* While byte d is on its way, a modifier that is on has its key down or is
\* switched off by d, and d switches on only a modifier whose key is down.
OnTheWay(d) ==
    /\ "SHIFT" \in shift => keys \cap ShiftKeys # {} \/ (d.up /\ d.b \in ShiftKeys)
    /\ "CTL" \in shift => keys \cap CtlKeys # {} \/ (d.up /\ d.b = "lctl")
    /\ ~d.up /\ d.b \in ShiftKeys => keys \cap ShiftKeys # {}
    /\ ~d.up /\ d.b = "lctl" => keys \cap CtlKeys # {}
    /\ "E0ESC" \in shift => d.b = "lctl"

KeyInv ==
    \/ wire = <<>> /\ NoStuckModifier
    \/ \E d \in KeyByte : wire = <<d>> /\ OnTheWay(d)
    \/ \E d \in KeyByte : /\ wire = <<EscapeByte, d>> /\ OnTheWay(d)
                          /\ "E0ESC" \notin shift /\ d.b = "lctl"

ConInv == RingOK(input) /\ ReaderInv /\ KeyInv

\* What the invariant says.
LEMMA ConInvSafe == ConInv => InputInv
<1> SUFFICES ASSUME ConInv PROVE InputInv
  OBVIOUS
<1>1. /\ input.r \in Indices /\ input.w \in Indices /\ input.e \in Indices
      /\ Unread(input) <= Used(input) /\ Used(input) <= INPUT_BUF
  BY Geometry, Zenon DEF ConInv
<1>2. ConTypeOK
  BY <1>1, Zenon DEF ConTypeOK, ConInv, ReaderInv, InLoop, Unread, Used
<1>3. FullIsReadable
  BY Zenon DEF FullIsReadable, ConInv, RingOK, Used
<1>4. ReaderAwake
  BY Zenon DEF ConInv, ReaderInv
<1>5. NoStuckModifier
  <2> SUFFICES ASSUME wire = <<>> PROVE NoStuckModifier
    BY Zenon DEF NoStuckModifier
  <2>1. \A d \in KeyByte : wire # <<d>> /\ wire # <<EscapeByte, d>>
    OBVIOUS
  <2> QED
    BY <2>1, Zenon DEF ConInv, KeyInv
<1> QED
  BY <1>2, <1>3, <1>4, <1>5, Zenon DEF InputInv

\* The initial state.
LEMMA ConInitOK == ConInit => ConInv
<1> SUFFICES ASSUME ConInit PROVE ConInv
  OBVIOUS
<1>1. INPUT_BUF \in Nat \ {0} /\ Wrap \in Nat \ {0} /\ 0 \notin Readers
  BY ConsoleAssumption, Zenon
<1>2. input \in RingRec /\ input.r = 0 /\ input.w = 0 /\ input.e = 0
  BY <1>1 DEF ConInit, RingRec, ConChars, Indices
<1>3. Unread(input) = 0 /\ Used(input) = 0
  <2>1. 0 - 0 = 0 /\ 0 \in Int /\ 0 \in Indices
    BY <1>1 DEF Indices
  <2>2. Mod(0) = 0
    BY <2>1, ModFacts, Zenon
  <2> QED
    BY <1>2, <2>1, <2>2, Zenon DEF Unread, Used
<1>4. RingOK(input)
  BY <1>1, <1>2, <1>3 DEF RingOK
<1>5. reader \in [Readers -> ReaderRec] /\ \A q \in Readers : reader[q].pc = "idle"
  BY DEF ConInit, NotReading, ReaderRec
<1>6. ReaderInv
  BY <1>1, <1>5, Zenon DEF ReaderInv, ReaderAwake, InLoop, ConInit
<1>7. KeyInv
  BY Zenon DEF ConInit, KeyInv, NoStuckModifier
<1> QED
  BY <1>4, <1>6, <1>7, Zenon DEF ConInv

\* One character of consoleintr().  Unless it wakes the readers it leaves the read
\* and the write index alone.
LEMMA IntrOK ==
    ASSUME NEW i, RingOK(i), NEW c \in InChars
    PROVE  /\ RingOK(Intr(i, c).i) /\ Intr(i, c).wake \in BOOLEAN
           /\ ~Intr(i, c).wake => Intr(i, c).i.r = i.r /\ Intr(i, c).i.w = i.w
<1>1. CASE c \in {"none", "^P"}
  BY <1>1, Zenon DEF Intr
<1>2. CASE c = "^U"
  <2>1. Intr(i, c) = [i |-> Edited(i, KillTo(i)), wake |-> FALSE]
    BY <1>2, Zenon DEF Intr
  <2>2. /\ RingOK(Edited(i, KillTo(i))) /\ Edited(i, KillTo(i)).r = i.r
        /\ Edited(i, KillTo(i)).w = i.w
    BY KillOK, Zenon
  <2> QED
    BY <2>1, <2>2
<1>3. CASE c = "^H"
  <2>1. Intr(i, c) = [i |-> IF i.e # i.w THEN Edited(i, Mod(i.e - 1)) ELSE i, wake |-> FALSE]
    BY <1>3, Zenon DEF Intr
  <2>2. i.e # i.w => /\ RingOK(Edited(i, Mod(i.e - 1))) /\ Edited(i, Mod(i.e - 1)).r = i.r
                     /\ Edited(i, Mod(i.e - 1)).w = i.w
    BY EraseOK, Zenon
  <2> QED
    BY <2>1, <2>2
<1>4. CASE c \notin {"none", "^P", "^U", "^H"}
  <2> DEFINE ch == IF c = "cr" THEN "nl" ELSE c
  <2>1. ch \in ConChars
    BY <1>4, Zenon DEF InChars, ConChars
  <2>2. Intr(i, c) = IF NoRoom(i) THEN [i |-> i, wake |-> FALSE]
                     ELSE [i |-> Stored(i, ch), wake |-> Commits(Put(i, ch), ch)]
    BY <1>4, Zenon DEF Intr, Stored, Put
  <2>3. CASE NoRoom(i)
    BY <2>2, <2>3
  <2>4. CASE ~NoRoom(i)
    <3> HIDE DEF ch
    <3>1. /\ RingOK(Stored(i, ch)) /\ Stored(i, ch).r = i.r
          /\ ~Commits(Put(i, ch), ch) => Stored(i, ch).w = i.w
      BY <2>1, <2>4, StoreOK, Zenon
    <3>2. Commits(Put(i, ch), ch) \in BOOLEAN
      BY Zenon DEF Commits
    <3> QED
      BY <2>2, <2>4, <3>1, <3>2
  <2> QED
    BY <2>3, <2>4
<1> QED
  BY <1>1, <1>2, <1>3, <1>4, Zenon

\* consoleintr() keeps the ring and the readers in order.
LEMMA ConsoleintrKeeps ==
    ASSUME ConInv, NEW c \in InChars, consoleintr(c)
    PROVE  RingOK(input') /\ ReaderInv'
<1> DEFINE t == Intr(input, c)
<1>1. RingOK(input) /\ ReaderInv
  BY Zenon DEF ConInv
<1>2. /\ RingOK(t.i) /\ t.wake \in BOOLEAN
      /\ ~t.wake => t.i.r = input.r /\ t.i.w = input.w
  BY <1>1, IntrOK, Zenon
<1>3. /\ input' = t.i /\ lock = 0 /\ lock' = lock /\ ncpu' = ncpu
      /\ reader' = [q \in Readers |->
                      IF t.wake /\ reader[q].pc = "asleep" THEN [reader[q] EXCEPT !.pc = "enter"]
                      ELSE reader[q]]
  BY Zenon DEF consoleintr
<1> HIDE DEF t
<1>4. \A q \in Readers : reader[q] \in ReaderRec
  BY <1>1, Zenon DEF ReaderInv
<1>5. \A q \in Readers : [reader[q] EXCEPT !.pc = "enter"] \in ReaderRec
  BY <1>4, Zenon DEF ReaderRec
<1>6. reader' \in [Readers -> ReaderRec]
  BY <1>3, <1>4, <1>5, Zenon
<1>7. \A q \in Readers :
          \/ reader'[q] = reader[q] /\ ~(t.wake /\ reader[q].pc = "asleep")
          \/ reader'[q].pc = "enter" /\ reader[q].pc = "asleep"
  BY <1>3, <1>4, Zenon DEF ReaderRec
<1>8. \A q \in Readers : /\ lock' = q <=> reader'[q].pc \in InLoop
                         /\ reader'[q].pc # "tested"
  <2> TAKE q \in Readers
  <2>1. lock # q /\ reader[q].pc \notin InLoop
    BY <1>1, <1>3, ConsoleAssumption, Zenon DEF ReaderInv
  <2>2. reader'[q].pc \notin InLoop
    BY <1>7, <2>1, Zenon DEF InLoop
  <2> QED
    BY <1>3, <2>1, <2>2, Zenon DEF InLoop
<1>9. ReaderAwake'
  <2> SUFFICES ASSUME NEW q \in Readers, reader'[q].pc = "asleep"
               PROVE  input'.r = input'.w /\ (reader'[q].killed => ncpu' > 1)
    BY Zenon DEF ReaderAwake
  <2>1. reader'[q] = reader[q] /\ ~t.wake
    BY <1>7, Zenon
  <2> QED
    BY <1>1, <1>2, <1>3, <2>1, Zenon DEF ReaderInv, ReaderAwake
<1> QED
  BY <1>1, <1>2, <1>3, <1>6, <1>8, <1>9, Zenon DEF ReaderInv

\* A character from the serial line.
LEMMA UartKeeps ==
    ASSUME ConInv, uartintr
    PROVE  ConInv'
<1>1. PICK c \in Serial : consoleintr(c)
  BY Zenon DEF uartintr
<1>2. c \in InChars
  BY ConsoleAssumption, Zenon DEF InChars, ConChars
<1>3. RingOK(input') /\ ReaderInv'
  BY <1>1, <1>2, ConsoleintrKeeps, Zenon
<1>4. KeyInv'
  BY DEF uartintr, ConInv, KeyInv, OnTheWay, NoStuckModifier
<1> QED
  BY <1>3, <1>4, Zenon DEF ConInv

\* kbdgetc(): the modifiers and the character for a byte.
LEMMA KbdgetcFacts ==
    ASSUME NEW d \in KeyByte, OnTheWay(d)
    PROVE  /\ kbdgetc(shift, d).c \in InChars
           /\ "E0ESC" \notin kbdgetc(shift, d).shift
           /\ "SHIFT" \in kbdgetc(shift, d).shift => keys \cap ShiftKeys # {}
           /\ "CTL" \in kbdgetc(shift, d).shift => keys \cap CtlKeys # {}
<1>1. d.b \in {"lshift", "rshift", "lctl", "caps", "u", "enter"} /\ d.up \in BOOLEAN /\ d.b # "E0"
  BY Zenon DEF KeyByte
<1>2. CASE d.up
  <2>1. kbdgetc(shift, d) = [shift |-> Release(shift, d), c |-> "none"]
    BY <1>1, <1>2, Zenon DEF kbdgetc
  <2>2. "E0ESC" \notin Release(shift, d)
    BY Zenon DEF Release
  <2>3. "SHIFT" \in Release(shift, d) => "SHIFT" \in shift /\ d.b \notin ShiftKeys
    BY <1>1, Zenon DEF Release, shiftcode, ShiftKeys, OnTheWay
  <2>4. "CTL" \in Release(shift, d) => "CTL" \in shift /\ d.b # "lctl"
    BY <1>1, Zenon DEF Release, shiftcode
  <2> QED
    BY <2>1, <2>2, <2>3, <2>4 DEF OnTheWay, InChars
<1>3. CASE ~d.up
  <2> DEFINE m == Shifted(shift, d)
             c == charcode(d.b, m)
  <2>1. kbdgetc(shift, d) = [shift |-> m, c |-> IF "CAPSLOCK" \in m THEN Swapcase(c) ELSE c]
    BY <1>1, <1>3, Zenon DEF kbdgetc
  <2>2. c \in {"cr", "^U", "x", "X", "none"} /\ Swapcase(c) \in {"cr", "^U", "x", "X", "none"}
    BY <1>1, Zenon DEF charcode, Swapcase
  <2>3. "E0ESC" \notin m
    BY <1>1, Zenon DEF Shifted, shiftcode, togglecode
  <2>4. "SHIFT" \in m => "SHIFT" \in shift \/ d.b \in ShiftKeys
    BY <1>1, Zenon DEF Shifted, shiftcode, togglecode, ShiftKeys
  <2>5. "CTL" \in m => "CTL" \in shift \/ d.b = "lctl"
    BY <1>1, Zenon DEF Shifted, shiftcode, togglecode
  <2> HIDE DEF m, c
  <2>6. kbdgetc(shift, d).shift = m /\ kbdgetc(shift, d).c \in InChars
    BY <2>1, <2>2 DEF InChars, ConChars
  <2> QED
    BY <1>3, <2>3, <2>4, <2>5, <2>6, Zenon DEF OnTheWay
<1> QED
  BY <1>1, <1>2, <1>3, Zenon

\* kbdintr() consumes a byte.
LEMMA KbdKeeps ==
    ASSUME ConInv, kbdintr
    PROVE  ConInv'
<1> DEFINE k == kbdgetc(shift, Head(wire))
<1>1. wire # <<>> /\ shift' = k.shift /\ consoleintr(k.c) /\ wire' = Tail(wire) /\ keys' = keys
  BY Zenon DEF kbdintr
<1>2. CASE \E d \in KeyByte : wire = <<d>> /\ OnTheWay(d)
  <2>1. PICK d \in KeyByte : wire = <<d>> /\ OnTheWay(d)
    BY <1>2, Zenon
  <2>2. Head(wire) = d /\ wire' = <<>>
    BY <1>1, <2>1
  <2>3. /\ k.c \in InChars /\ "E0ESC" \notin shift'
        /\ "SHIFT" \in shift' => keys \cap ShiftKeys # {}
        /\ "CTL" \in shift' => keys \cap CtlKeys # {}
    BY <1>1, <2>1, <2>2, KbdgetcFacts, Zenon
  <2>4. RingOK(input') /\ ReaderInv'
    BY <1>1, <2>3, ConsoleintrKeeps, Zenon
  <2>5. KeyInv'
    BY <1>1, <2>2, <2>3, Zenon DEF KeyInv, NoStuckModifier, ShiftKeys, CtlKeys
  <2> QED
    BY <2>4, <2>5, Zenon DEF ConInv
<1>3. CASE \E d \in KeyByte : wire = <<EscapeByte, d>> /\ OnTheWay(d) /\ d.b = "lctl"
  <2>1. PICK d \in KeyByte : wire = <<EscapeByte, d>> /\ OnTheWay(d) /\ d.b = "lctl"
    BY <1>3, Zenon
  <2>2. Head(wire) = EscapeByte /\ wire' = <<d>>
    BY <1>1, <2>1
  <2>3. k = [shift |-> shift \cup {"E0ESC"}, c |-> "none"]
    BY <2>2 DEF kbdgetc, EscapeByte
  <2>4. k.c \in InChars /\ shift' = shift \cup {"E0ESC"}
    BY <1>1, <2>3 DEF InChars
  <2>5. RingOK(input') /\ ReaderInv'
    BY <1>1, <2>4, ConsoleintrKeeps, Zenon
  <2>6. OnTheWay(d)'
    BY <1>1, <2>1, <2>4, Zenon DEF OnTheWay
  <2>7. KeyInv'
    BY <2>2, <2>6, Zenon DEF KeyInv
  <2> QED
    BY <2>5, <2>7, Zenon DEF ConInv
<1> QED
  BY <1>1, <1>2, <1>3, Zenon DEF ConInv, KeyInv

\* Two sequences of length one make a pair.
LEMMA PairSeq ==
    ASSUME NEW a, NEW b
    PROVE  <<a>> \o <<b>> = <<a, b>>
<1> DEFINE s == <<a>> \o <<b>>
<1>1. s \in Seq({a, b}) /\ Len(s) = 2 /\ s[1] = a /\ s[2] = b
  OBVIOUS
<1> HIDE DEF s
<1>2. s = <<a, b>>
  BY <1>1
<1> QED
  BY <1>2, Zenon DEF s

\* The characters kbdintr() passes to consoleintr().
LEMMA KbdChars ==
    ASSUME ConInv, kbdintr
    PROVE  \E c \in InChars : consoleintr(c)
<1>1. wire # <<>> /\ consoleintr(kbdgetc(shift, Head(wire)).c)
  BY Zenon DEF kbdintr
<1>2. CASE \E d \in KeyByte : wire = <<d>> /\ OnTheWay(d)
  <2>1. PICK d \in KeyByte : wire = <<d>> /\ OnTheWay(d)
    BY <1>2, Zenon
  <2>2. Head(wire) = d
    BY <2>1
  <2> QED
    BY <1>1, <2>1, <2>2, KbdgetcFacts, Zenon
<1>3. CASE \E d \in KeyByte : wire = <<EscapeByte, d>>
  <2>1. Head(wire) = EscapeByte
    BY <1>3
  <2>2. kbdgetc(shift, Head(wire)).c \in InChars
    BY <2>1 DEF kbdgetc, EscapeByte, InChars
  <2> QED
    BY <1>1, <2>2, Zenon
<1> QED
  BY <1>1, <1>2, <1>3, Zenon DEF ConInv, KeyInv

\* A key goes down or up.
LEMMA KeyKeeps ==
    ASSUME ConInv, NEW k \in Keys, NEW up \in BOOLEAN, Key(k, up)
    PROVE  ConInv'
<1> DEFINE d == [b |-> Code(k), up |-> up]
<1>1. /\ wire = <<>> /\ (k \in Held => (up <=> k \in keys)) /\ wire' = Bytes(k, up)
      /\ keys' = IF up THEN keys \ {k} ELSE keys \cup ({k} \cap Held)
      /\ UNCHANGED <<input, reader, lock, ncpu, shift>>
  BY Zenon DEF Key
<1>2. k \in {"lshift", "rshift", "lctl", "rctl", "caps", "u", "enter"}
  BY ConsoleAssumption, Zenon
<1>3. d \in KeyByte /\ d.b = Code(k) /\ d.up = up
  BY <1>2, Zenon DEF KeyByte, Code
<1>4. NoStuckModifier
  BY <1>1, ConInvSafe, Zenon DEF InputInv
<1>5. RingOK(input)' /\ ReaderInv'
  BY <1>1, Zenon DEF ConInv, ReaderInv, ReaderAwake, RingOK, Unread, Used, CharAt
<1> HIDE DEF d
<1>6. OnTheWay(d)'
  <2>1. "SHIFT" \in shift => keys' \cap ShiftKeys # {} \/ (up /\ k \in ShiftKeys)
    BY <1>1, <1>4, Zenon DEF NoStuckModifier, ShiftKeys
  <2>2. "CTL" \in shift => keys' \cap CtlKeys # {} \/ (up /\ k \in CtlKeys)
    BY <1>1, <1>4, Zenon DEF NoStuckModifier, CtlKeys
  <2>3. ~up /\ k \in ShiftKeys => keys' \cap ShiftKeys # {}
    BY <1>1, Zenon DEF ShiftKeys, Held
  <2>4. ~up /\ k \in CtlKeys => keys' \cap CtlKeys # {}
    BY <1>1, Zenon DEF CtlKeys, Held
  <2>5. d.b \in ShiftKeys <=> k \in ShiftKeys
    BY <1>2, <1>3, Zenon DEF ShiftKeys, Code
  <2>6. d.b = "lctl" <=> k \in CtlKeys
    BY <1>2, <1>3, Zenon DEF CtlKeys, Code
  <2>7. "E0ESC" \notin shift'
    BY <1>1, <1>4, Zenon DEF NoStuckModifier
  <2> QED
    BY <1>1, <1>3, <2>1, <2>2, <2>3, <2>4, <2>5, <2>6, <2>7, Zenon DEF OnTheWay
<1>7. wire' = <<d>> \/ (wire' = <<EscapeByte, d>> /\ d.b = "lctl")
  <2>1. CASE k = "rctl"
    <3>1. wire' = <<EscapeByte>> \o <<d>>
      BY <1>1, <2>1, Zenon DEF Bytes, Escaped, EscapeByte, d
    <3>2. <<EscapeByte>> \o <<d>> = <<EscapeByte, d>>
      BY PairSeq, Zenon
    <3>3. d.b = "lctl"
      BY <1>3, <2>1, Zenon DEF Code
    <3> QED
      BY <3>1, <3>2, <3>3, Zenon
  <2>2. CASE k # "rctl"
    BY <1>1, <2>2 DEF Bytes, Escaped, d
  <2> QED
    BY <2>1, <2>2, Zenon
<1>8. "E0ESC" \notin shift'
  BY <1>1, <1>4, Zenon DEF NoStuckModifier
<1>9. KeyInv'
  BY <1>3, <1>6, <1>7, <1>8, Zenon DEF KeyInv
<1> QED
  BY <1>5, <1>9, Zenon DEF ConInv

\* The part of the invariant that a step of a reader leaves alone.
LEMMA KeysAlone ==
    ASSUME ConInv, UNCHANGED <<shift, keys, wire>>
    PROVE  KeyInv'
  BY Zenon DEF ConInv, KeyInv, OnTheWay, NoStuckModifier

\* A step of reader q that gives it the record r.
LEMMA ReaderStep ==
    ASSUME ConInv, NEW q \in Readers, NEW r \in ReaderRec, Reads(q, r),
           ncpu' = ncpu,
           lock' = q <=> r.pc \in InLoop, \A p \in Readers \ {q} : lock' = p <=> lock = p,
           (input'.r = input.r /\ input'.w = input.w) \/ input.r # input.w,
           r.pc = "tested" => input'.r = input'.w /\ ncpu > 1,
           r.pc = "asleep" => input'.r = input'.w /\ (r.killed => ncpu > 1)
    PROVE  ReaderInv'
<1>1. ReaderInv
  BY Zenon DEF ConInv
<1>2. reader' \in [Readers -> ReaderRec] /\ \A p \in Readers : reader'[p] = IF p = q THEN r ELSE reader[p]
  BY <1>1, Zenon DEF ReaderInv, Reads
<1>3. \A p \in Readers : /\ lock' = p <=> reader'[p].pc \in InLoop
                         /\ reader'[p].pc = "tested" => input'.r = input'.w /\ ncpu' > 1
  <2> TAKE p \in Readers
  <2>1. CASE p = q
    BY <1>2, <2>1, Zenon
  <2>2. CASE p # q
    BY <1>1, <1>2, <2>2, Zenon DEF ReaderInv
  <2> QED
    BY <2>1, <2>2, Zenon
<1>4. ReaderAwake'
  BY <1>1, <1>2, Zenon DEF ReaderInv, ReaderAwake
<1> QED
  BY <1>1, <1>2, <1>3, <1>4, Zenon DEF ReaderInv

\* read() enters consoleread().
LEMMA ConsolereadKeeps ==
    ASSUME ConInv, NEW q \in Readers, NEW n \in ReadSizes, consoleread(q, n)
    PROVE  ConInv'
<1> DEFINE r == [reader[q] EXCEPT !.pc = "enter", !.n = n]
<1>1. reader[q] \in ReaderRec /\ (lock = q <=> reader[q].pc \in InLoop)
  BY Zenon DEF ConInv, ReaderInv
<1>2. n \in Int
  BY ConsoleAssumption
<1>3. r \in ReaderRec /\ r.pc = "enter"
  BY <1>1, <1>2, Zenon DEF ReaderRec
<1>4. Reads(q, r) /\ reader[q].pc = "idle" /\ UNCHANGED <<input, lock, ncpu, shift, keys, wire>>
  BY Zenon DEF consoleread
<1> HIDE DEF r
<1>5. ReaderInv'
  BY <1>1, <1>3, <1>4, ReaderStep, Zenon DEF InLoop
<1>6. KeyInv'
  BY <1>4, KeysAlone, Zenon
<1> QED
  BY <1>4, <1>5, <1>6, Zenon DEF ConInv

\* A reader acquires cons.lock.
LEMMA EnterKeeps ==
    ASSUME ConInv, NEW q \in Readers, Enter(q)
    PROVE  ConInv'
<1> DEFINE r == [reader[q] EXCEPT !.pc = "loop"]
<1>1. reader[q] \in ReaderRec
  BY Zenon DEF ConInv, ReaderInv
<1>2. r \in ReaderRec /\ r.pc = "loop"
  BY <1>1, Zenon DEF ReaderRec
<1>3. Reads(q, r) /\ lock = 0 /\ lock' = q /\ UNCHANGED <<input, ncpu, shift, keys, wire>>
  BY Zenon DEF Enter
<1>4. \A p \in Readers \ {q} : lock' = p <=> lock = p
  BY <1>3, ConsoleAssumption, Zenon
<1> HIDE DEF r
<1>5. ReaderInv'
  BY <1>2, <1>3, <1>4, ReaderStep, Zenon DEF InLoop
<1>6. KeyInv'
  BY <1>3, KeysAlone, Zenon
<1> QED
  BY <1>3, <1>5, <1>6, Zenon DEF ConInv

\* kill() of a reader.
LEMMA KillKeeps ==
    ASSUME ConInv, NEW q \in Readers, Kill(q)
    PROVE  ConInv'
<1> DEFINE r == [reader[q] EXCEPT !.killed = TRUE, !.pc = IF @ = "asleep" THEN "enter" ELSE @]
<1>1. reader[q] \in ReaderRec /\ (lock = q <=> reader[q].pc \in InLoop)
  BY Zenon DEF ConInv, ReaderInv
<1>2. /\ r \in ReaderRec /\ r.pc # "asleep" /\ (r.pc \in InLoop <=> reader[q].pc \in InLoop)
      /\ r.pc = "tested" => input.r = input.w /\ ncpu > 1
  BY <1>1, Zenon DEF ReaderRec, InLoop, ConInv, ReaderInv
<1>3. Reads(q, r) /\ UNCHANGED <<input, lock, ncpu, shift, keys, wire>>
  BY Zenon DEF Kill
<1> HIDE DEF r
<1>5. ReaderInv'
  BY <1>1, <1>2, <1>3, ReaderStep, Zenon
<1>6. KeyInv'
  BY <1>3, KeysAlone, Zenon
<1> QED
  BY <1>3, <1>5, <1>6, Zenon DEF ConInv

\* One round of consoleread()'s loop.
LEMMA ReadLoopKeeps ==
    ASSUME ConInv, NEW q \in Readers, ReadLoop(q)
    PROVE  ConInv'
<1> DEFINE taken == [input EXCEPT !.r = Mod(@ + 1)]
<1>1. RingOK(input) /\ reader[q] \in ReaderRec /\ \A p \in Readers : lock = p <=> reader[p].pc \in InLoop
  BY Zenon DEF ConInv, ReaderInv
<1>2. KeyInv'
  BY KeysAlone, Zenon DEF ReadLoop
<1>3. lock = q /\ ncpu' = ncpu
  BY <1>1, Zenon DEF ReadLoop, InLoop
<1>4. 0 \notin Readers /\ \A p \in Readers \ {q} : lock # p
  BY <1>3, ConsoleAssumption, Zenon
<1>5. NotReading \in ReaderRec /\ NotReading.pc = "idle"
  BY DEF NotReading, ReaderRec
<1>6. input.r # input.w => RingOK(taken)
  BY <1>1, TakeOK, Zenon
<1>7. CASE input.r = input.w
  <2>1. input' = input /\ SleepOrGiveUp(q)
    BY <1>7, Zenon DEF ReadLoop
  <2>2. CASE reader[q].killed
    <3>1. lock' = 0 /\ Reads(q, NotReading)
      BY <2>1, <2>2, Zenon DEF SleepOrGiveUp, Leave
    <3>2. ReaderInv'
      BY <1>3, <1>4, <1>5, <2>1, <3>1, ReaderStep, Zenon DEF InLoop
    <3> QED
      BY <1>1, <1>2, <2>1, <3>2, Zenon DEF ConInv
  <2>3. CASE ~reader[q].killed /\ ncpu = 1
    <3> DEFINE r == [reader[q] EXCEPT !.pc = "asleep"]
    <3>1. lock' = 0 /\ Reads(q, r)
      BY <2>1, <2>3, Zenon DEF SleepOrGiveUp, Sleep
    <3>2. r \in ReaderRec /\ r.pc = "asleep" /\ ~r.killed
      BY <1>1, <2>3, Zenon DEF ReaderRec
    <3> HIDE DEF r
    <3>3. ReaderInv'
      BY <1>3, <1>4, <1>7, <2>1, <3>1, <3>2, ReaderStep, Zenon DEF InLoop
    <3> QED
      BY <1>1, <1>2, <2>1, <3>3, Zenon DEF ConInv
  <2>4. CASE ~reader[q].killed /\ ncpu # 1
    <3> DEFINE r == [reader[q] EXCEPT !.pc = "tested"]
    <3>1. lock' = lock /\ Reads(q, r)
      BY <2>1, <2>4, Zenon DEF SleepOrGiveUp
    <3>2. r \in ReaderRec /\ r.pc = "tested"
      BY <1>1, Zenon DEF ReaderRec
    <3> HIDE DEF r
    <3>3. ncpu > 1
      BY <2>4 DEF ConInv, ReaderInv
    <3>4. ReaderInv'
      BY <1>3, <1>7, <2>1, <3>1, <3>2, <3>3, ReaderStep, Zenon DEF InLoop
    <3> QED
      BY <1>1, <1>2, <2>1, <3>4, Zenon DEF ConInv
  <2> QED
    BY <2>2, <2>3, <2>4, Zenon
<1>8. CASE input.r # input.w /\ Leave(q)
  <2>1. input' \in {taken, input}
    BY <1>8, Zenon DEF ReadLoop
  <2>2. lock' = 0 /\ Reads(q, NotReading)
    BY <1>8, Zenon DEF Leave
  <2>3. ReaderInv'
    BY <1>3, <1>4, <1>5, <1>8, <2>2, ReaderStep, Zenon DEF InLoop
  <2> QED
    BY <1>1, <1>2, <1>6, <1>8, <2>1, <2>3, Zenon DEF ConInv
<1>9. CASE input.r # input.w /\ ~Leave(q)
  <2> DEFINE r == [reader[q] EXCEPT !.n = @ - 1, !.got = @ + 1]
  <2>1. input' = taken /\ Reads(q, r) /\ lock' = lock
    BY <1>9, Zenon DEF ReadLoop
  <2>2. r \in ReaderRec /\ r.pc = "loop"
    <3>1. reader[q].pc = "loop" /\ reader[q].n - 1 \in Int /\ reader[q].got + 1 \in Int
      BY <1>1 DEF ReaderRec, ReadLoop
    <3> QED
      BY <1>1, <3>1, Zenon DEF ReaderRec
  <2> HIDE DEF r
  <2>3. ReaderInv'
    BY <1>3, <1>9, <2>1, <2>2, ReaderStep, Zenon DEF InLoop
  <2> QED
    BY <1>2, <1>6, <1>9, <2>1, <2>3, Zenon DEF ConInv
<1> QED
  BY <1>7, <1>8, <1>9, Zenon

\* consoleread()'s sleep() after a test that a kill() may have overtaken.
LEMMA ReaderSleepsKeeps ==
    ASSUME ConInv, NEW q \in Readers, ReaderSleeps(q)
    PROVE  ConInv'
<1> DEFINE r == [reader[q] EXCEPT !.pc = "asleep"]
<1>1. /\ reader[q] \in ReaderRec /\ lock = q /\ input.r = input.w /\ ncpu > 1
      /\ lock' = 0 /\ Reads(q, r) /\ UNCHANGED <<input, ncpu, shift, keys, wire>>
  BY Zenon DEF ReaderSleeps, Sleep, ConInv, ReaderInv, InLoop
<1>2. r \in ReaderRec /\ r.pc = "asleep"
  BY <1>1, Zenon DEF ReaderRec
<1>3. lock' # q /\ \A p \in Readers \ {q} : lock' = p <=> lock = p
  BY <1>1, ConsoleAssumption, Zenon
<1> HIDE DEF r
<1>4. ReaderInv'
  BY <1>1, <1>2, <1>3, ReaderStep, Zenon DEF InLoop
<1>5. KeyInv'
  BY <1>1, KeysAlone, Zenon
<1> QED
  BY <1>1, <1>4, <1>5, Zenon DEF ConInv

\* Every step keeps the invariant.
LEMMA ConKeeps == ConInv /\ [ConNext]_convars => ConInv'
<1> SUFFICES ASSUME ConInv, [ConNext]_convars PROVE ConInv'
  OBVIOUS
<1>1. CASE uartintr
  BY <1>1, UartKeeps, Zenon
<1>2. CASE kbdintr
  BY <1>2, KbdKeeps, Zenon
<1>3. CASE \E k \in Keys, up \in BOOLEAN : Key(k, up)
  BY <1>3, KeyKeeps, Zenon
<1>4. CASE \E q \in Readers, n \in ReadSizes : consoleread(q, n)
  BY <1>4, ConsolereadKeeps, Zenon
<1>5. CASE \E q \in Readers : Enter(q)
  BY <1>5, EnterKeeps, Zenon
<1>6. CASE \E q \in Readers : ReadLoop(q)
  BY <1>6, ReadLoopKeeps, Zenon
<1>7. CASE \E q \in Readers : Kill(q)
  BY <1>7, KillKeeps, Zenon
<1>8. CASE \E q \in Readers : ReaderSleeps(q)
  BY <1>8, ReaderSleepsKeeps, Zenon
<1>9. CASE UNCHANGED convars
  <2>1. /\ input' = input /\ reader' = reader /\ lock' = lock /\ ncpu' = ncpu
        /\ shift' = shift /\ keys' = keys /\ wire' = wire
    BY <1>9, Zenon DEF convars
  <2>2. ReaderInv'
    BY <2>1, Zenon DEF ConInv, ReaderInv, ReaderAwake
  <2>3. KeyInv'
    BY <2>1, KeysAlone, Zenon
  <2> QED
    BY <2>1, <2>2, <2>3, Zenon DEF ConInv
<1> QED
  BY <1>1, <1>2, <1>3, <1>4, <1>5, <1>6, <1>7, <1>8, <1>9, Zenon DEF ConNext

\* Console input does not get stuck, for every ring size, every width of its
\* indices and any number of readers: the indices never pass each other, a full
\* ring can be read, no reader sleeps on a line it could take or, on one CPU,
\* through its own kill(), and no modifier outlives its key.
THEOREM ConsoleSafety == ConSpec => []InputInv
<1>1. ConInit => ConInv
  BY ConInitOK, Zenon
<1>2. ConInv /\ [ConNext]_convars => ConInv'
  BY ConKeeps, Zenon
<1>3. ConInv => InputInv
  BY ConInvSafe, Zenon
<1> QED
  BY <1>1, <1>2, <1>3, PTL DEF ConSpec

-----------------------------------------------------------------------------
(* The refinement of the line discipline                                   *)

\* The line that is edited and the characters to read, in ring i.
LineOf(i) == Segment(i, i.w, i.e)
QueueOf(i) == Segment(i, i.r, i.w)

\* Sequences with the same elements are equal.
LEMMA SameSeq ==
    ASSUME NEW S, NEW s \in Seq(S), NEW t \in Seq(S), Len(s) = Len(t),
           \A k \in 1 .. Len(s) : s[k] = t[k]
    PROVE  s = t
<1>1. s = [k \in 1 .. Len(s) |-> s[k]] /\ t = [k \in 1 .. Len(t) |-> t[k]]
  OBVIOUS
<1> QED
  BY <1>1, Zenon

\* The elements of a sequence with one more.
LEMMA AppendFacts ==
    ASSUME NEW S, NEW s \in Seq(S), NEW e \in S
    PROVE  /\ Append(s, e) \in Seq(S) /\ Len(Append(s, e)) = Len(s) + 1
           /\ \A k \in 1 .. Len(s) : Append(s, e)[k] = s[k]
           /\ Append(s, e)[Len(s) + 1] = e
  OBVIOUS

\* The elements of a concatenation.
LEMMA ConcatFacts ==
    ASSUME NEW S, NEW s \in Seq(S), NEW t \in Seq(S)
    PROVE  /\ s \o t \in Seq(S) /\ Len(s \o t) = Len(s) + Len(t)
           /\ \A k \in 1 .. Len(s) : (s \o t)[k] = s[k]
           /\ \A k \in Len(s) + 1 .. Len(s) + Len(t) : (s \o t)[k] = t[k - Len(s)]
  OBVIOUS

\* The two sequences by the distance of their characters from the read index.
LEMMA SegmentFacts ==
    ASSUME NEW i, RingOK(i)
    PROVE  /\ LineOf(i) \in Seq(ConChars) /\ Len(LineOf(i)) = Used(i) - Unread(i)
           /\ \A k \in 1 .. Used(i) - Unread(i) : LineOf(i)[k] = CharAt(i, Unread(i) + k - 1)
           /\ QueueOf(i) \in Seq(ConChars) /\ Len(QueueOf(i)) = Unread(i)
           /\ \A k \in 1 .. Unread(i) : QueueOf(i)[k] = CharAt(i, k - 1)
           /\ \A d \in Int : CharAt(i, d) \in ConChars
<1> DEFINE u == Unread(i)
           v == Used(i)
<1>1. /\ i.r \in Int /\ i.w \in Int /\ i.e \in Int /\ u \in Nat /\ v \in Nat /\ u <= v
      /\ i.buf \in [0 .. INPUT_BUF - 1 -> ConChars]
      /\ i.w = Mod(i.r + u) /\ Mod(i.e - i.w) = v - u
  BY Geometry, Zenon
<1>2. Mod(i.w - i.r) = u
  BY Zenon DEF Unread
<1> HIDE DEF u, v
<1>3. ASSUME NEW a \in Int PROVE i.buf[Mod(a) % INPUT_BUF] \in ConChars
  <2>1. Mod(a) % INPUT_BUF \in 0 .. INPUT_BUF - 1
    BY PlaceFacts, Zenon
  <2> QED
    BY <1>1, <2>1, Zenon
<1>4. \A d \in Int : CharAt(i, d) \in ConChars
  <2> TAKE d \in Int
  <2>1. i.r + d \in Int
    BY <1>1
  <2> QED
    BY <1>3, <2>1, Zenon DEF CharAt
<1>5. LineOf(i) = [k \in 1 .. v - u |-> i.buf[Mod(i.w + k - 1) % INPUT_BUF]]
  BY <1>1, Zenon DEF LineOf, Segment
<1>6. QueueOf(i) = [k \in 1 .. u |-> i.buf[Mod(i.r + k - 1) % INPUT_BUF]]
  BY <1>2, Zenon DEF QueueOf, Segment
<1>7. \A k \in 1 .. v - u : i.buf[Mod(i.w + k - 1) % INPUT_BUF] = CharAt(i, u + k - 1)
  <2> TAKE k \in 1 .. v - u
  <2>1. /\ i.r + u \in Int /\ k - 1 \in Int /\ i.w + k - 1 = i.w + (k - 1)
        /\ (i.r + u) + (k - 1) = i.r + (u + k - 1)
    BY <1>1
  <2>2. Mod(Mod(i.r + u) + (k - 1)) = Mod((i.r + u) + (k - 1))
    BY <2>1, ModFacts, Zenon
  <2> QED
    BY <1>1, <2>1, <2>2, Zenon DEF CharAt
<1>8. \A k \in 1 .. u : i.buf[Mod(i.r + k - 1) % INPUT_BUF] = CharAt(i, k - 1)
  <2> TAKE k \in 1 .. u
  <2>1. i.r + k - 1 = i.r + (k - 1)
    BY <1>1, Zenon
  <2> QED
    BY <2>1, Zenon DEF CharAt
<1>9. (\A k \in 1 .. v - u : u + k - 1 \in Int) /\ \A k \in 1 .. u : k - 1 \in Int
  BY <1>1
<1>10. LineOf(i) \in [1 .. v - u -> ConChars] /\ \A k \in 1 .. v - u : LineOf(i)[k] = CharAt(i, u + k - 1)
  BY <1>4, <1>5, <1>7, <1>9, Zenon
<1>11. QueueOf(i) \in [1 .. u -> ConChars] /\ \A k \in 1 .. u : QueueOf(i)[k] = CharAt(i, k - 1)
  BY <1>4, <1>6, <1>8, <1>9, Zenon
<1>12. LineOf(i) \in Seq(ConChars) /\ Len(LineOf(i)) = v - u
  <2> DEFINE m == v - u
  <2>1. m \in Nat
    BY <1>1
  <2>2. LineOf(i) \in [1 .. m -> ConChars]
    BY <1>10, Zenon
  <2> HIDE DEF m
  <2>3. LineOf(i) \in Seq(ConChars) /\ Len(LineOf(i)) = m
    BY <2>1, <2>2
  <2> QED
    BY <2>3, Zenon DEF m
<1>13. QueueOf(i) \in Seq(ConChars) /\ Len(QueueOf(i)) = u
  BY <1>1, <1>11
<1> QED
  BY <1>4, <1>10, <1>11, <1>12, <1>13, Zenon DEF u, v

\* C('H') removes the last character of the line.
LEMMA EraseMaps ==
    ASSUME NEW i, RingOK(i), i.e # i.w, NEW j, j = Edited(i, Mod(i.e - 1))
    PROVE  /\ LineOf(i) # <<>> /\ LineOf(j) = SubSeq(LineOf(i), 1, Len(LineOf(i)) - 1)
           /\ QueueOf(j) = QueueOf(i)
<1>1. /\ RingOK(j) /\ j.buf = i.buf /\ j.r = i.r /\ j.w = i.w
      /\ Unread(j) = Unread(i) /\ Used(j) = Used(i) - 1
  BY EraseOK, Zenon
<1>2. QueueOf(j) = QueueOf(i)
  BY <1>1, Zenon DEF QueueOf, Segment
<1> DEFINE u == Unread(i)
           v == Used(i)
<1>3. u \in Nat /\ v \in Nat /\ u <= v /\ u # v
  BY Geometry, Zenon
<1>4. /\ LineOf(i) \in Seq(ConChars) /\ Len(LineOf(i)) = v - u
      /\ \A k \in 1 .. v - u : LineOf(i)[k] = CharAt(i, u + k - 1)
  BY SegmentFacts, Zenon
<1>5. /\ LineOf(j) \in Seq(ConChars) /\ Len(LineOf(j)) = (v - 1) - u
      /\ \A k \in 1 .. (v - 1) - u : LineOf(j)[k] = CharAt(j, u + k - 1)
  BY <1>1, SegmentFacts, ZenonT(40)
<1>6. \A d : CharAt(j, d) = CharAt(i, d)
  BY <1>1, Zenon DEF CharAt
<1> DEFINE s == SubSeq(LineOf(i), 1, Len(LineOf(i)) - 1)
<1> HIDE DEF u, v
<1>7. s \in Seq(ConChars) /\ Len(s) = (v - 1) - u /\ \A k \in 1 .. (v - 1) - u : s[k] = LineOf(i)[k]
  BY <1>3, <1>4
<1>8. \A k \in 1 .. (v - 1) - u : k \in 1 .. v - u
  BY <1>3
<1> HIDE DEF s
<1>9. LineOf(j) = s
  BY <1>4, <1>5, <1>6, <1>7, <1>8, SameSeq
<1>10. LineOf(i) # <<>>
  BY <1>3, <1>4
<1> QED
  BY <1>2, <1>9, <1>10, Zenon DEF s

\* C('U') drops the line.
LEMMA KillMaps ==
    ASSUME NEW i, RingOK(i), NEW j, j = Edited(i, KillTo(i))
    PROVE  LineOf(j) = <<>> /\ QueueOf(j) = QueueOf(i)
<1>1. RingOK(j) /\ j.buf = i.buf /\ j.r = i.r /\ j.w = i.w /\ Unread(j) = Unread(i) /\ Used(j) = Unread(i)
  BY KillOK, Zenon
<1>2. QueueOf(j) = QueueOf(i)
  BY <1>1, Zenon DEF QueueOf, Segment
<1>3. LineOf(j) \in Seq(ConChars) /\ Len(LineOf(j)) = Used(j) - Unread(j) /\ Unread(j) \in Nat
  BY <1>1, SegmentFacts, Geometry, Zenon
<1> QED
  BY <1>1, <1>2, <1>3

\* A stored character is appended to the line, which is queued when it is complete.
LEMMA StoreMaps ==
    ASSUME NEW i, RingOK(i), ~NoRoom(i), NEW c \in ConChars
    PROVE  LET l == Append(LineOf(i), c) IN
           /\ Len(LineOf(i)) + Len(QueueOf(i)) < INPUT_BUF
           /\ IF c \in {"nl", "^D"} \/ Len(l) + Len(QueueOf(i)) = INPUT_BUF
              THEN QueueOf(Stored(i, c)) = QueueOf(i) \o l /\ LineOf(Stored(i, c)) = <<>>
              ELSE LineOf(Stored(i, c)) = l /\ QueueOf(Stored(i, c)) = QueueOf(i)
<1> DEFINE u == Unread(i)
           v == Used(i)
           j == Stored(i, c)
           done == Commits(Put(i, c), c)
           l == Append(LineOf(i), c)
           q == QueueOf(i) \o l
<1>1. /\ RingOK(j) /\ v < INPUT_BUF /\ Used(j) = v + 1
      /\ Unread(j) = IF done THEN v + 1 ELSE u
      /\ done <=> c \in {"nl", "^D"} \/ v + 1 = INPUT_BUF
      /\ \A d \in 0 .. v - 1 : CharAt(j, d) = CharAt(i, d)
      /\ CharAt(j, v) = c
  BY StoreOK, Zenon
<1>2. u \in Nat /\ v \in Nat /\ u <= v /\ INPUT_BUF \in Nat
  BY Geometry, Zenon
<1>3. /\ LineOf(i) \in Seq(ConChars) /\ Len(LineOf(i)) = v - u
      /\ \A k \in 1 .. v - u : LineOf(i)[k] = CharAt(i, u + k - 1)
      /\ QueueOf(i) \in Seq(ConChars) /\ Len(QueueOf(i)) = u
      /\ \A k \in 1 .. u : QueueOf(i)[k] = CharAt(i, k - 1)
  BY SegmentFacts, Zenon
<1>4. /\ LineOf(j) \in Seq(ConChars) /\ Len(LineOf(j)) = Used(j) - Unread(j)
      /\ \A k \in 1 .. Used(j) - Unread(j) : LineOf(j)[k] = CharAt(j, Unread(j) + k - 1)
      /\ QueueOf(j) \in Seq(ConChars) /\ Len(QueueOf(j)) = Unread(j)
      /\ \A k \in 1 .. Unread(j) : QueueOf(j)[k] = CharAt(j, k - 1)
  BY <1>1, SegmentFacts, Zenon
<1> HIDE DEF u, v, j, done
<1>5. /\ l \in Seq(ConChars) /\ Len(l) = (v - u) + 1
      /\ \A k \in 1 .. v - u : l[k] = LineOf(i)[k]
      /\ l[(v - u) + 1] = c
  <2>1. /\ l \in Seq(ConChars) /\ Len(l) = Len(LineOf(i)) + 1
        /\ \A k \in 1 .. Len(LineOf(i)) : l[k] = LineOf(i)[k]
        /\ l[Len(LineOf(i)) + 1] = c
    BY <1>3, AppendFacts, ZenonT(40)
  <2>2. Len(LineOf(i)) = v - u
    BY <1>3, Zenon
  <2> QED
    BY <2>1, <2>2, Zenon
<1> HIDE DEF l
<1>6. \A k \in 1 .. (v - u) + 1 : l[k] = CharAt(j, u + k - 1)
  <2> TAKE k \in 1 .. (v - u) + 1
  <2>1. CASE k = (v - u) + 1
    <3>1. u + k - 1 = v
      BY <1>2, <2>1
    <3> QED
      BY <1>1, <1>5, <2>1, <3>1, Zenon
  <2>2. CASE k # (v - u) + 1
    <3>1. k \in 1 .. v - u /\ u + k - 1 \in 0 .. v - 1
      BY <1>2, <2>2
    <3> QED
      BY <1>1, <1>3, <1>5, <3>1, Zenon
  <2> QED
    BY <2>1, <2>2, Zenon
<1>7. \A k \in 1 .. u : QueueOf(i)[k] = CharAt(j, k - 1)
  <2> TAKE k \in 1 .. u
  <2>1. k - 1 \in 0 .. v - 1
    BY <1>2
  <2> QED
    BY <1>1, <1>3, <2>1, Zenon
<1>8. Len(LineOf(i)) + Len(QueueOf(i)) < INPUT_BUF
  BY <1>1, <1>2, <1>3
<1>9. done <=> c \in {"nl", "^D"} \/ Len(l) + Len(QueueOf(i)) = INPUT_BUF
  <2>1. Len(l) + Len(QueueOf(i)) = v + 1
    BY <1>2, <1>3, <1>5
  <2> QED
    BY <1>1, <2>1, Zenon
<1>10. CASE ~done
  <2>1. /\ Used(j) - Unread(j) = (v - u) + 1 /\ Unread(j) = u
    BY <1>1, <1>2, <1>10
  <2>2. LineOf(j) = l
    <3>1. Len(LineOf(j)) = Len(l) /\ \A k \in 1 .. Len(LineOf(j)) : LineOf(j)[k] = l[k]
      BY <1>4, <1>5, <1>6, <2>1, Zenon
    <3> QED
      BY <1>4, <1>5, <3>1, SameSeq, Zenon
  <2>3. QueueOf(j) = QueueOf(i)
    <3>1. /\ Len(QueueOf(j)) = Len(QueueOf(i))
          /\ \A k \in 1 .. Len(QueueOf(j)) : QueueOf(j)[k] = QueueOf(i)[k]
      BY <1>3, <1>4, <1>7, <2>1, Zenon
    <3> QED
      BY <1>3, <1>4, <3>1, SameSeq, Zenon
  <2> QED
    BY <1>8, <1>9, <1>10, <2>2, <2>3, Zenon DEF j, l
<1>11. CASE done
  <2>1. Used(j) - Unread(j) = 0 /\ Unread(j) = v + 1
    BY <1>1, <1>2, <1>11
  <2>2. LineOf(j) = <<>>
    BY <1>4, <2>1
  <2>3. /\ q \in Seq(ConChars) /\ Len(q) = v + 1
        /\ \A k \in 1 .. u : q[k] = QueueOf(i)[k]
        /\ \A k \in u + 1 .. v + 1 : q[k] = l[k - u]
    <3>1. /\ q \in Seq(ConChars) /\ Len(q) = Len(QueueOf(i)) + Len(l)
          /\ \A k \in 1 .. Len(QueueOf(i)) : q[k] = QueueOf(i)[k]
          /\ \A k \in Len(QueueOf(i)) + 1 .. Len(QueueOf(i)) + Len(l) : q[k] = l[k - Len(QueueOf(i))]
      BY <1>3, <1>5, ConcatFacts, ZenonT(40)
    <3>2. Len(QueueOf(i)) = u /\ u + Len(l) = v + 1
      BY <1>2, <1>3, <1>5
    <3> QED
      BY <3>1, <3>2, Zenon
  <2> HIDE DEF q
  <2>4. \A k \in 1 .. v + 1 : q[k] = CharAt(j, k - 1)
    <3> TAKE k \in 1 .. v + 1
    <3>1. CASE k \in 1 .. u
      BY <1>7, <2>3, <3>1, Zenon
    <3>2. CASE k \notin 1 .. u
      <4>1. k \in u + 1 .. v + 1 /\ k - u \in 1 .. (v - u) + 1 /\ u + (k - u) - 1 = k - 1
        BY <1>2, <3>2
      <4> QED
        BY <1>6, <2>3, <4>1, Zenon
    <3> QED
      BY <3>1, <3>2, Zenon
  <2>5. QueueOf(j) = q
    <3>1. Len(QueueOf(j)) = Len(q) /\ \A k \in 1 .. Len(QueueOf(j)) : QueueOf(j)[k] = q[k]
      BY <1>4, <2>1, <2>3, <2>4, Zenon
    <3> QED
      BY <1>4, <2>3, <3>1, SameSeq, Zenon
  <2> QED
    BY <1>8, <1>9, <1>11, <2>2, <2>5, Zenon DEF j, l, q
<1> QED
  BY <1>10, <1>11, Zenon

\* consoleread() takes the first character of the queue.
LEMMA TakeMaps ==
    ASSUME NEW i, RingOK(i), i.r # i.w, NEW j, j = [i EXCEPT !.r = Mod(@ + 1)]
    PROVE  /\ QueueOf(i) # <<>> /\ QueueOf(j) = Tail(QueueOf(i))
           /\ LineOf(j) = LineOf(i)
<1>1. /\ RingOK(j) /\ j.buf = i.buf /\ j.w = i.w /\ j.e = i.e
      /\ Unread(i) > 0 /\ Unread(j) = Unread(i) - 1
      /\ \A d \in Nat : CharAt(j, d) = CharAt(i, d + 1)
  BY TakeOK, Zenon
<1>2. LineOf(j) = LineOf(i)
  BY <1>1 DEF LineOf, Segment
<1> DEFINE u == Unread(i)
           t == Tail(QueueOf(i))
<1>3. u \in Nat
  BY Geometry, Zenon
<1>4. /\ QueueOf(i) \in Seq(ConChars) /\ Len(QueueOf(i)) = u
      /\ \A k \in 1 .. u : QueueOf(i)[k] = CharAt(i, k - 1)
  BY SegmentFacts, Zenon
<1>5. /\ QueueOf(j) \in Seq(ConChars) /\ Len(QueueOf(j)) = u - 1
      /\ \A k \in 1 .. u - 1 : QueueOf(j)[k] = CharAt(j, k - 1)
  BY <1>1, SegmentFacts, Zenon
<1>6. u > 0
  BY <1>1, Zenon
<1> HIDE DEF u
<1>7. QueueOf(i) # <<>>
  BY <1>3, <1>4, <1>6
<1>8. t \in Seq(ConChars) /\ Len(t) = u - 1 /\ \A k \in 1 .. u - 1 : t[k] = QueueOf(i)[k + 1]
  BY <1>3, <1>4, <1>6, <1>7
<1>9. \A k \in 1 .. u - 1 : QueueOf(j)[k] = t[k]
  <2> TAKE k \in 1 .. u - 1
  <2>1. k + 1 \in 1 .. u /\ k - 1 \in Nat /\ (k + 1) - 1 = (k - 1) + 1
    BY <1>3
  <2>2. CharAt(j, k - 1) = CharAt(i, (k - 1) + 1)
    BY <1>1, <2>1, Zenon
  <2>3. QueueOf(i)[k + 1] = CharAt(i, (k + 1) - 1)
    BY <1>4, <2>1, Zenon
  <2> QED
    BY <1>5, <1>8, <2>1, <2>2, <2>3, Zenon
<1> HIDE DEF t
<1>10. QueueOf(j) = t
  BY <1>5, <1>8, <1>9, SameSeq, Zenon
<1> QED
  BY <1>2, <1>7, <1>10, Zenon DEF t

\* The refinement mapping.
line == Between(input.w, input.e)
queue == Between(input.r, input.w)

\* What the mapping gives before and after a step.
LEMMA Mapping == /\ line = LineOf(input) /\ queue = QueueOf(input)
                 /\ line' = LineOf(input') /\ queue' = QueueOf(input')
  BY Zenon DEF line, queue, Between, LineOf, QueueOf, Segment

\* A character of consoleintr() is a step of the line discipline.
LEMMA ConsoleintrMaps ==
    ASSUME RingOK(input), NEW c \in InChars, consoleintr(c)
    PROVE  Lines!LdNext \/ UNCHANGED <<line, queue>>
<1>1. input' = Intr(input, c).i
  BY Zenon DEF consoleintr
<1>2. CASE input' = input
  BY <1>2, Mapping, Zenon
<1>3. CASE c = "^U"
  <2>1. input' = Edited(input, KillTo(input))
    BY <1>1, <1>3, Zenon DEF Intr
  <2>2. line' = <<>> /\ queue' = queue
    BY <2>1, KillMaps, Mapping, Zenon
  <2>3. Lines!KillLine
    BY <2>2, Zenon DEF Lines!KillLine, line, queue
  <2> QED
    BY <2>3, Zenon DEF Lines!LdNext
<1>4. CASE c = "^H" /\ input.e # input.w
  <2>1. input' = Edited(input, Mod(input.e - 1))
    BY <1>1, <1>4, Zenon DEF Intr
  <2>2. line # <<>> /\ line' = SubSeq(line, 1, Len(line) - 1) /\ queue' = queue
    BY <1>4, <2>1, EraseMaps, Mapping, Zenon
  <2>3. Lines!Erase
    BY <2>2, Zenon DEF Lines!Erase, line, queue
  <2> QED
    BY <2>3, Zenon DEF Lines!LdNext
<1>5. CASE c \notin {"none", "^P", "^U", "^H"} /\ ~NoRoom(input)
  <2> DEFINE ch == IF c = "cr" THEN "nl" ELSE c
  <2>1. ch \in ConChars
    BY <1>5, Zenon DEF InChars, ConChars
  <2>2. input' = Stored(input, ch)
    BY <1>1, <1>5, Zenon DEF Intr, Stored, Put
  <2> HIDE DEF ch
  <2>3. /\ Len(line) + Len(queue) < INPUT_BUF
        /\ IF ch \in {"nl", "^D"} \/ Len(Append(line, ch)) + Len(queue) = INPUT_BUF
           THEN queue' = queue \o Append(line, ch) /\ line' = <<>>
           ELSE line' = Append(line, ch) /\ queue' = queue
    BY <1>5, <2>1, <2>2, StoreMaps, Mapping, Zenon
  <2>4. Lines!Type(ch)
    BY <2>3, Zenon DEF Lines!Type, Lines!Room, Lines!Full, line, queue
  <2> QED
    BY <2>1, <2>4, Zenon DEF Lines!LdNext, ConChars
<1>6. CASE \/ c \in {"none", "^P"} \/ (c = "^H" /\ input.e = input.w)
           \/ (c \notin {"none", "^P", "^U", "^H"} /\ NoRoom(input))
  <2>1. input' = input
    BY <1>1, <1>6, Zenon DEF Intr
  <2> QED
    BY <1>2, <2>1, Zenon
<1> QED
  BY <1>3, <1>4, <1>5, <1>6, Zenon

\* Every step of the console is a step of the line discipline or leaves its line
\* and its queue alone.
LEMMA ConStepMaps == ConInv /\ [ConNext]_convars => [Lines!LdNext]_<<line, queue>>
<1> SUFFICES ASSUME ConInv, [ConNext]_convars PROVE Lines!LdNext \/ UNCHANGED <<line, queue>>
  OBVIOUS
<1>1. RingOK(input)
  BY Zenon DEF ConInv
<1>2. CASE input' = input
  BY <1>2, Mapping, Zenon
<1>3. CASE uartintr
  <2>1. PICK c \in Serial : consoleintr(c)
    BY <1>3, Zenon DEF uartintr
  <2>2. c \in InChars
    BY ConsoleAssumption, Zenon DEF InChars, ConChars
  <2> QED
    BY <1>1, <2>1, <2>2, ConsoleintrMaps, Zenon
<1>4. CASE kbdintr
  <2>1. PICK c \in InChars : consoleintr(c)
    BY <1>4, KbdChars, Zenon
  <2> QED
    BY <1>1, <2>1, ConsoleintrMaps, Zenon
<1>5. ASSUME NEW q \in Readers, ReadLoop(q) PROVE Lines!LdNext \/ UNCHANGED <<line, queue>>
  <2>1. CASE input' # input
    <3>1. input.r # input.w /\ input' = [input EXCEPT !.r = Mod(@ + 1)]
      BY <1>5, <2>1, Zenon DEF ReadLoop
    <3>2. queue # <<>> /\ queue' = Tail(queue) /\ line' = line
      BY <1>1, <3>1, TakeMaps, Mapping, Zenon
    <3>3. Lines!Take
      BY <3>2, Zenon DEF Lines!Take, line, queue
    <3> QED
      BY <3>3, Zenon DEF Lines!LdNext
  <2> QED
    BY <1>2, <2>1, Zenon
<1>6. \/ uartintr \/ kbdintr \/ (\E q \in Readers : ReadLoop(q)) \/ input' = input
  BY Zenon DEF ConNext, Key, consoleread, Enter, ReaderSleeps, Kill, convars
<1> QED
  BY <1>2, <1>3, <1>4, <1>5, <1>6, Zenon

\* The ^D that ends a line is taken only by a read that has nothing else to
\* return: a reader in its loop holds cons.lock, which keeps the interrupts and
\* the other readers from the ring.
LEMMA EofStep ==
    ASSUME ConInv, [ConNext]_convars, NEW q \in Readers, reader[q].got > 0,
           input.r # input.w, input.buf[input.r % INPUT_BUF] = "^D", lock = q
    PROVE  input'.r = input.r
<1>1. \A p \in Readers : reader[p].pc = "loop" => p = q
  BY Zenon DEF ConInv, ReaderInv, InLoop
<1>2. reader[q].got # 0 /\ lock # 0
  <2>1. reader[q].got \in Int
    BY Zenon DEF ConInv, ReaderInv, ReaderRec
  <2> QED
    BY <2>1, ConsoleAssumption
<1>3. ASSUME NEW p \in Readers, ReadLoop(p) PROVE input' = input
  <2>1. p = q
    BY <1>1, <1>3, Zenon DEF ReadLoop
  <2> QED
    BY <1>2, <1>3, <2>1, Zenon DEF ReadLoop, EofConsumed
<1>4. ~uartintr /\ ~kbdintr
  BY <1>2, Zenon DEF uartintr, kbdintr, consoleintr
<1>5. (\E p \in Readers : ReadLoop(p)) \/ input' = input
  BY <1>4, Zenon DEF ConNext, Key, consoleread, Enter, ReaderSleeps, Kill, convars
<1> QED
  BY <1>3, <1>5, Zenon

\* read() of the console returns whole lines in order and the end of the file by
\* itself: the ring of console.c implements the line discipline, for every ring
\* size and every width of its indices.
THEOREM ConsoleReadsLines == ConSpec => ReadsLines
<1>1. ConInit => ConInv
  BY ConInitOK, Zenon
<1>2. ConInv /\ [ConNext]_convars => ConInv'
  BY ConKeeps, Zenon
<1>3. ConInit => Lines!LdInit
  <2> SUFFICES ASSUME ConInit PROVE Lines!LdInit
    OBVIOUS
  <2>1. RingOK(input) /\ input.r = 0 /\ input.w = 0 /\ input.e = 0
    BY ConInitOK DEF ConInit, ConInv
  <2>2. Unread(input) = 0 /\ Used(input) = 0
    BY <2>1, Geometry, Zenon
  <2>3. line = <<>> /\ queue = <<>>
    BY <2>1, <2>2, SegmentFacts, Mapping
  <2> QED
    BY <2>3, Zenon DEF Lines!LdInit, line, queue
<1>4. ConInv /\ [ConNext]_convars => [Lines!LdNext]_<<line, queue>>
  BY ConStepMaps, Zenon
<1>5. ConSpec => LineByLine
  BY <1>1, <1>2, <1>3, <1>4, PTL DEF ConSpec, LineByLine, Lines!LdSpec, line, queue
<1>6. ConInv /\ [ConNext]_convars =>
        [\A q \in Readers :
           reader[q].got > 0 /\ input.r # input.w /\ input.buf[input.r % INPUT_BUF] = "^D"
             /\ lock = q => input'.r = input.r]_convars
  BY EofStep, Zenon
<1>7. ConSpec => EofAlone
  BY <1>1, <1>2, <1>6, PTL DEF ConSpec, EofAlone
<1> QED
  BY <1>5, <1>7, PTL DEF ReadsLines
=============================================================================
