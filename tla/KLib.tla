-------------------------------- MODULE KLib ---------------------------------
(***************************************************************************)
(* Functions of the kernel and of the user library that have no state:     *)
(* the argument checks of syscall.c, printint() of console.c and printf.c, *)
(* atoi(), and the copying functions of string.c.                          *)
(*                                                                         *)
(* An int has W values, WORD bytes; memory is a sequence of bytes with     *)
(* addresses from 0, and 0 is the nul byte.                                *)
(***************************************************************************)
EXTENDS Integers, Sequences, FiniteSets, FiniteSetsExt, SequencesExt, TLC

CONSTANTS W, WORD

ASSUME KLibAssumption == {W, WORD} \subseteq Nat \ {0} /\ W % 2 = 0

VARIABLE arg    \* the arguments of one call

\* Unsigned and signed values.
U(x) == x % W
Ints == -(W \div 2) .. W \div 2 - 1

-----------------------------------------------------------------------------
(* syscall.c: sz is the size of the process, at most KERNBASE = W / 2      *)

fetchint(sz, addr) == ~(addr >= sz \/ U(addr + WORD) > sz)
argint(sz, esp, n) == fetchint(sz, U(esp + WORD + WORD * n))

\* argptr() for the argument i and a size, an int that becomes unsigned in the sum.
argptr(sz, i, size) == ~(size < 0 \/ i >= sz \/ U(i + size) > sz)

\* fetchstr(): the length of the string, -1 when it does not end below sz.
fetchstr(sz, addr, nuls) ==
    LET ends == {s \in addr .. sz - 1 : s \in nuls} IN
    IF addr >= sz \/ ends = {} THEN -1 ELSE Min(ends) - addr

-----------------------------------------------------------------------------
(* printint() and atoi(): digits are their values, "-" is -1               *)

\* x: a negative number is negated, in unsigned arithmetic.
Magnitude(xx, sign) == IF sign /\ xx < 0 THEN U(-xx) ELSE U(xx)

\* The digits buf[] holds, from the last to the first.
RECURSIVE Digits(_, _)
Digits(x, base) == <<x % base>> \o (IF x \div base = 0 THEN <<>> ELSE Digits(x \div base, base))

printint(xx, base, sign) ==
    Reverse(Digits(Magnitude(xx, sign), base) \o (IF sign /\ xx < 0 THEN <<-1>> ELSE <<>>))

\* The leading digits; a sign is none.
LeadingDigits(s) ==
    SubSeq(s, 1, Max({k \in 0 .. Len(s) : \A j \in 1 .. k : s[j] \in 0 .. 9}))
atoi(s) == FoldLeft(LAMBDA n, d : U(n * 10 + d), 0, LeadingDigits(s))

-----------------------------------------------------------------------------
(* string.c: each returns the memory after the call                        *)

Byte(m, a) == m[a + 1]
Store(m, a, b) == [m EXCEPT ![a + 1] = b]

\* The order in which memmove() copies bytes 0 .. n - 1.
ForwardAlways(dst, src, n) == [k \in 1 .. n |-> k - 1]
Order(dst, src, n) ==
    IF src < dst /\ src + n > dst THEN [k \in 1 .. n |-> n - k] ELSE [k \in 1 .. n |-> k - 1]

memmove(m, dst, src, n) ==
    FoldLeft(LAMBDA x, k : Store(x, dst + k, Byte(x, src + k)), m, Order(dst, src, n))

\* strlen()
LengthOf(t) == Min({k \in 0 .. Len(t) - 1 : t[k + 1] = 0})

\* How many bytes of t safestrcpy() copies, room for the nul apart.
Copied(t, n) == Min({n - 1, LengthOf(t)})

\* The n bytes of s after the call; t ends with a nul, which is written twice when
\* it is copied.
safestrcpy(s, t, n) ==
    [k \in 1 .. n |-> CASE k <= Copied(t, n) -> t[k]
                        [] k \in {Copied(t, n) + 1, LengthOf(t) + 2} -> 0
                        [] OTHER -> s[k]]

strncpy(t, n) == [k \in 1 .. n |-> IF k <= LengthOf(t) THEN t[k] ELSE 0]

\* strncmp(), as far as its callers look: whether it returns 0.
strncmp(p, q, n) ==
    \A k \in 1 .. n : (\A j \in 1 .. k - 1 : p[j] # 0 /\ p[j] = q[j]) => p[k] = q[k]

-----------------------------------------------------------------------------
(* Properties                                                              *)

\* What fetchint(), argptr() and fetchstr() accept lies inside the process, also
\* where the sum of an address and a size wraps around.
ArgumentsInside ==
    arg.f = "syscall" =>
       /\ fetchint(arg.sz, arg.i) => arg.i + WORD <= arg.sz
       /\ \A n \in 0 .. 2 : argint(arg.sz, arg.i, n) => U(arg.i + WORD + WORD * n) + WORD <= arg.sz
       /\ \A size \in Ints : argptr(arg.sz, arg.i, size) => size >= 0 /\ arg.i + size <= arg.sz
       /\ LET n == fetchstr(arg.sz, arg.i, arg.nuls) IN
          n # -1 => arg.i + n < arg.sz /\ arg.i + n \in arg.nuls

\* printint() prints the number, the smallest int included, and atoi() reads it.
PrintsTheNumber ==
    arg.f = "print" =>
       LET out == printint(arg.xx, 10, TRUE)
           digits == IF arg.xx < 0 THEN Tail(out) ELSE out IN
       /\ arg.xx < 0 <=> out[1] = -1
       /\ \A k \in DOMAIN digits : digits[k] \in 0 .. 9
       /\ FoldLeft(LAMBDA n, d : n * 10 + d, 0, digits) = IF arg.xx < 0 THEN -arg.xx ELSE arg.xx
       /\ arg.xx >= 0 => atoi(out) = arg.xx

\* memmove() leaves at dst what was at src, however the two overlap, and the rest of
\* memory as it was.
MovesOverlaps ==
    arg.f = "move" =>
       \A a \in 0 .. Len(arg.m) - 1 :
          Byte(memmove(arg.m, arg.dst, arg.src, arg.n), a) =
             Byte(arg.m, IF a \in arg.dst .. arg.dst + arg.n - 1 THEN a - arg.dst + arg.src ELSE a)

\* dirlink() stores a name with strncpy(), without a nul when it is DIRSIZ long, and
\* dirlookup() finds it with strncmp(): exactly when the names agree in their first
\* DIRSIZ characters.
NamesFound ==
    arg.f = "name" =>
       \A d \in 1 .. 3 :
          strncmp(arg.q \o <<8, 8, 8>>, strncpy(arg.p, d), d) <=>
             SubSeq(arg.p, 1, Min({d, LengthOf(arg.p)})) = SubSeq(arg.q, 1, Min({d, LengthOf(arg.q)}))

\* safestrcpy() ends the copy inside the n bytes, and copies as much as fits.
NameTerminated ==
    arg.f = "name" =>
       \A d \in 1 .. 3 :
          LET s == safestrcpy(<<7, 7, 7>>, arg.p, d) IN
          /\ \E k \in 1 .. d : s[k] = 0
          /\ SubSeq(s, 1, LengthOf(s)) = SubSeq(arg.p, 1, Min({d - 1, LengthOf(arg.p)}))

\* The library functions agree with what they are for on every argument, the ones
\* at which an int wraps or a buffer ends included.
LibraryAgrees ==
    ArgumentsInside /\ PrintsTheNumber /\ MovesOverlaps /\ NamesFound /\ NameTerminated
=============================================================================
