------------------------------ MODULE Console -------------------------------
(***************************************************************************)
(* Console input of the xv6 kernel: the keyboard driver (HW2/src/kbd.c),   *)
(* the serial line (uart.c), and the input ring of console.c between their *)
(* interrupts and consoleread().                                           *)
(*                                                                         *)
(* A step is one character of consoleintr() or one of consoleread(), under *)
(* cons.lock, with interrupts off; but kill() takes ptable.lock only, so   *)
(* where there is a second CPU it can come at any point of consoleread(),  *)
(* between its test of killed and its sleep() too.  The indices of the     *)
(* ring are unsigned integers that wrap at Wrap, a multiple of INPUT_BUF   *)
(* as 2^32 is.                                                             *)
(***************************************************************************)
EXTENDS Integers, Sequences

CONSTANTS
    Readers, INPUT_BUF, Wrap,
    ReadSizes,      \* the n of the read() calls
    Keys,           \* the keys of the keyboard
    Serial          \* the characters of the serial line

ASSUME ConsoleAssumption ==
    /\ {INPUT_BUF, Wrap} \subseteq Nat \ {0} /\ Wrap % INPUT_BUF = 0 /\ Wrap > INPUT_BUF
    /\ ReadSizes \subseteq Nat \ {0}
    /\ Keys \subseteq {"lshift", "rshift", "lctl", "rctl", "caps", "u", "enter"}
    /\ Serial \subseteq {"x", "X", "cr", "nl", "^D", "^H", "^U", "^P"}
    /\ 0 \notin Readers

VARIABLES
    input,      \* the ring: buf, and the read, write and edit indices r, w, e
    reader,     \* each process in consoleread(): its step, n, what it has, killed
    lock,       \* the holder of cons.lock, 0 if none
    ncpu,       \* found at boot: 1, or 2 for any larger number
    shift,      \* kbdgetc()'s modifiers
    keys,       \* environment: the shift and ctl keys that are down
    wire        \* environment: bytes the keyboard has sent and kbdgetc() not read

convars == <<input, reader, lock, ncpu, shift, keys, wire>>

Mod(x) == x % Wrap
Indices == 0 .. Wrap - 1

-----------------------------------------------------------------------------
(* consoleintr()                                                           *)

\* Characters: "x" and "X" stand for the ordinary ones, the others have a case
\* of their own in the code.
Edited(i, e) == [i EXCEPT !.e = e]

KillToRead(i) == i.r

\* The edit index after C('U'): back to the start of the line.
KillTo(i) ==
    LET back == {k \in 0 .. INPUT_BUF :
                   /\ k <= Mod(i.e - i.w)
                   /\ \A j \in 1 .. k : i.buf[Mod(i.e - j) % INPUT_BUF] # "nl"}
    IN Mod(i.e - CHOOSE k \in back : \A j \in back : j <= k)

NoRoom(i) == Mod(i.e - i.r) >= INPUT_BUF

\* A line is complete: i is the ring with c stored.
Commits(i, c) == c \in {"nl", "^D"} \/ i.e = Mod(i.r + INPUT_BUF)

\* The ring after character c, and whether readers are woken.
Intr(i, c) ==
    CASE c \in {"none", "^P"} -> [i |-> i, wake |-> FALSE]
      [] c = "^U" -> [i |-> Edited(i, KillTo(i)), wake |-> FALSE]
      [] c = "^H" -> [i |-> IF i.e # i.w THEN Edited(i, Mod(i.e - 1)) ELSE i, wake |-> FALSE]
      [] OTHER ->
           IF NoRoom(i) THEN [i |-> i, wake |-> FALSE]
           ELSE LET s == [i EXCEPT !.buf[i.e % INPUT_BUF] = IF c = "cr" THEN "nl" ELSE c,
                                   !.e = Mod(@ + 1)]
                    done == Commits(s, IF c = "cr" THEN "nl" ELSE c)
                IN [i |-> IF done THEN [s EXCEPT !.w = s.e] ELSE s, wake |-> done]

consoleintr(c) ==
    LET t == Intr(input, c) IN
    /\ lock = 0
    /\ input' = t.i
    /\ reader' = [q \in Readers |->
                    IF t.wake /\ reader[q].pc = "asleep" THEN [reader[q] EXCEPT !.pc = "enter"]
                    ELSE reader[q]]
    /\ UNCHANGED <<lock, ncpu>>

\* A character from the serial line.
uartintr ==
    /\ \E c \in Serial : consoleintr(c)
    /\ UNCHANGED <<shift, keys, wire>>

-----------------------------------------------------------------------------
(* consoleread()                                                           *)

NotReading == [pc |-> "idle", n |-> 0, got |-> 0, killed |-> FALSE]
Reads(q, r) == reader' = [reader EXCEPT ![q] = r]

consoleread(q, n) ==
    /\ reader[q].pc = "idle"
    /\ Reads(q, [reader[q] EXCEPT !.pc = "enter", !.n = n])
    /\ UNCHANGED <<input, lock, ncpu, shift, keys, wire>>

\* acquire(), at the start and when sleep() returns.
Enter(q) ==
    /\ reader[q].pc = "enter" /\ lock = 0
    /\ lock' = q
    /\ Reads(q, [reader[q] EXCEPT !.pc = "loop"])
    /\ UNCHANGED <<input, ncpu, shift, keys, wire>>

Leave(q) ==
    /\ lock' = 0
    /\ Reads(q, NotReading)

\* sleep(), which drops cons.lock.
Sleep(q) == lock' = 0 /\ Reads(q, [reader[q] EXCEPT !.pc = "asleep"])

\* Nothing to read: give up when killed, else sleep, on one CPU at once.
SleepOrGiveUp(q) ==
    IF reader[q].killed THEN Leave(q)
    ELSE IF ncpu = 1 THEN Sleep(q)
    ELSE Reads(q, [reader[q] EXCEPT !.pc = "tested"]) /\ UNCHANGED lock

\* The sleep() where a kill() may have come before it.
ReaderSleeps(q) ==
    /\ reader[q].pc = "tested"
    /\ Sleep(q)
    /\ UNCHANGED <<input, ncpu, shift, keys, wire>>

\* C('D') is consumed only by a read that has nothing else to return.
EofConsumed(q) == reader[q].got = 0

\* One round of the loop.
ReadLoop(q) ==
    LET c == input.buf[input.r % INPUT_BUF]
        taken == [input EXCEPT !.r = Mod(@ + 1)]
        r == reader[q] IN
    /\ r.pc = "loop"
    /\ IF input.r = input.w
       THEN SleepOrGiveUp(q) /\ UNCHANGED input
       ELSE IF c = "^D"
       THEN /\ input' = IF EofConsumed(q) THEN taken ELSE input
            /\ Leave(q)
       ELSE /\ input' = taken
            /\ IF c = "nl" \/ r.n = 1 THEN Leave(q)
               ELSE Reads(q, [r EXCEPT !.n = @ - 1, !.got = @ + 1]) /\ UNCHANGED lock
    /\ UNCHANGED <<ncpu, shift, keys, wire>>

\* kill() from another process, which may be the second to read.  It sets killed
\* and makes a sleeper RUNNABLE; a second one matters to a sleeper only.
Kill(q) ==
    /\ lock = 0 \/ ncpu > 1
    /\ reader[q].pc # "idle" /\ (~reader[q].killed \/ reader[q].pc = "asleep")
    /\ Reads(q, [reader[q] EXCEPT !.killed = TRUE, !.pc = IF @ = "asleep" THEN "enter" ELSE @])
    /\ UNCHANGED <<input, lock, ncpu, shift, keys, wire>>

-----------------------------------------------------------------------------
(* The keyboard                                                            *)

\* Keys with the byte they send when pressed; right ctl sends an E0 first.  A
\* release sends the byte with its top bit set.
Held == {"lshift", "rshift", "lctl", "rctl"}
Escaped(k) == k = "rctl"
Code(k) == IF k = "rctl" THEN "lctl" ELSE k

Bytes(k, up) == (IF Escaped(k) THEN <<[b |-> "E0", up |-> FALSE]>> ELSE <<>>)
                \o <<[b |-> Code(k), up |-> up]>>

\* shiftcode[] and togglecode[], by the byte with its top bit set after an E0.
shiftcode(b, esc) ==
    CASE b = "lctl" -> {"CTL"}          \* 0x1D, and 0x9D after E0
      [] b \in {"lshift", "rshift"} /\ ~esc -> {"SHIFT"}
      [] OTHER -> {}
togglecode(b) == IF b = "caps" THEN {"CAPSLOCK"} ELSE {}

\* normalmap, shiftmap and ctlmap for the two keys that type.
charcode(b, mods) ==
    CASE b = "enter" -> "cr"
      [] b = "u" -> IF "CTL" \in mods THEN "^U" ELSE IF "SHIFT" \in mods THEN "X" ELSE "x"
      [] OTHER -> "none"
Swapcase(c) == CASE c = "x" -> "X" [] c = "X" -> "x" [] OTHER -> c

Release(s, d) == s \ (shiftcode(d.b, "E0ESC" \in s) \cup {"E0ESC"})

\* kbdgetc(): the modifiers after byte d, and the character, which is "none" for
\* an E0, a release or a modifier.
Shifted(s, d) ==
    LET on == (s \ {"E0ESC"}) \cup shiftcode(d.b, "E0ESC" \in s)
        t == togglecode(d.b) IN (on \ t) \cup (t \ on)
kbdgetc(s, d) ==
    IF d.b = "E0" THEN [shift |-> s \cup {"E0ESC"}, c |-> "none"]
    ELSE IF d.up THEN [shift |-> Release(s, d), c |-> "none"]
    ELSE LET m == Shifted(s, d)
             c == charcode(d.b, m) IN
         [shift |-> m, c |-> IF "CAPSLOCK" \in m THEN Swapcase(c) ELSE c]

kbdintr ==
    /\ wire # <<>>
    /\ LET k == kbdgetc(shift, Head(wire)) IN
       /\ shift' = k.shift
       /\ consoleintr(k.c)
    /\ wire' = Tail(wire)
    /\ UNCHANGED keys

\* The environment: once the last bytes were read, a key goes down, repeats or
\* goes up; a shift or ctl key goes up only when it is down.
Key(k, up) ==
    /\ wire = <<>> /\ (k \in Held => (up <=> k \in keys))
    /\ wire' = Bytes(k, up)
    /\ keys' = IF up THEN keys \ {k} ELSE keys \cup ({k} \cap Held)
    /\ UNCHANGED <<input, reader, lock, ncpu, shift>>

-----------------------------------------------------------------------------
ConInit ==
    /\ input = [buf |-> [k \in 0 .. INPUT_BUF - 1 |-> "nl"], r |-> 0, w |-> 0, e |-> 0]
    /\ reader = [q \in Readers |-> NotReading]
    /\ lock = 0
    /\ ncpu \in {1, 2}
    /\ shift = {}
    /\ keys = {}
    /\ wire = <<>>

ConNext ==
    \/ uartintr \/ kbdintr
    \/ \E k \in Keys, up \in BOOLEAN : Key(k, up)
    \/ \E q \in Readers : \/ \E n \in ReadSizes : consoleread(q, n)
                          \/ Enter(q) \/ ReadLoop(q) \/ ReaderSleeps(q) \/ Kill(q)

ConSpec == ConInit /\ [][ConNext]_convars

-----------------------------------------------------------------------------
(* Properties                                                              *)

\* Characters between two indices of the ring.
Between(a, b) == [k \in 1 .. Mod(b - a) |-> input.buf[Mod(a + k - 1) % INPUT_BUF]]

\* The ring never holds more than INPUT_BUF characters between its indices, across
\* their wrap-around, and its lock has a holder that is in the critical section.
ConTypeOK ==
    /\ {input.r, input.w, input.e} \subseteq Indices
    /\ Mod(input.w - input.r) <= Mod(input.e - input.r) /\ Mod(input.e - input.r) <= INPUT_BUF
    /\ \A q \in Readers : lock = q <=> reader[q].pc \in {"loop", "tested"}

\* The ring implements the line discipline: editing never touches a committed
\* line, committed characters are read in order, each once, and none is lost or
\* overwritten when the ring is full.
Lines == INSTANCE LineDiscipline
           WITH line <- Between(input.w, input.e), queue <- Between(input.r, input.w),
                Chars <- {"x", "X", "nl", "^D"}, Finish <- {"nl", "^D"}, Capacity <- INPUT_BUF
LineByLine == Lines!LdSpec

\* A full ring is committed: input that fits no more characters can be read, so a
\* line longer than the ring does not block the console for good.
FullIsReadable == Mod(input.e - input.r) = INPUT_BUF => input.w = input.e

\* A process sleeps in consoleread() only while there is nothing to read and, on
\* one CPU, nobody has killed it.
ReaderAwake ==
    \A q \in Readers :
        reader[q].pc = "asleep" => input.r = input.w /\ (reader[q].killed => ncpu > 1)

\* "Save ^D for next time, to make sure caller gets a 0-byte result": no read that
\* has characters to return takes the ^D.
EofAlone ==
    [][\A q \in Readers :
         reader[q].got > 0 /\ input.r # input.w /\ input.buf[input.r % INPUT_BUF] = "^D"
           /\ lock = q => input'.r = input.r]_convars

\* A modifier is on only while a key for it is down (caps lock apart): no sequence
\* of presses and releases, E0 codes among them, leaves it stuck.
NoStuckModifier ==
    wire = <<>> =>
       /\ "SHIFT" \in shift => keys \cap {"lshift", "rshift"} # {}
       /\ "CTL" \in shift => keys \cap {"lctl", "rctl"} # {}
       /\ "E0ESC" \notin shift

\* Console input does not get stuck: neither the ring, nor a reader, nor a key.
InputInv == ConTypeOK /\ FullIsReadable /\ ReaderAwake /\ NoStuckModifier

\* What read() of the console is promised: whole lines in order, and the end of
\* the file by itself.
ReadsLines == LineByLine /\ EofAlone
=============================================================================
