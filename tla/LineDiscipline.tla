--------------------------- MODULE LineDiscipline ---------------------------
(* What the console promises its readers: a line can be edited until it is *)
(* finished, finished lines are read in order, and what does not fit is    *)
(* ignored.                                                                *)
EXTENDS Naturals, Sequences

CONSTANTS
    Chars,      \* characters a line may hold
    Finish,     \* the ones that finish a line
    Capacity

VARIABLES
    line,       \* what is being edited
    queue       \* what is finished and unread

LdInit == line = <<>> /\ queue = <<>>

Room == Len(line) + Len(queue) < Capacity
Full(l) == Len(l) + Len(queue) = Capacity

Type(c) ==
    /\ Room
    /\ IF c \in Finish \/ Full(Append(line, c))
       THEN queue' = queue \o Append(line, c) /\ line' = <<>>
       ELSE line' = Append(line, c) /\ UNCHANGED queue

Erase ==
    /\ line # <<>>
    /\ line' = SubSeq(line, 1, Len(line) - 1) /\ UNCHANGED queue

KillLine == line' = <<>> /\ UNCHANGED queue

Take ==
    /\ queue # <<>>
    /\ queue' = Tail(queue) /\ UNCHANGED line

LdNext == (\E c \in Chars : Type(c)) \/ Erase \/ KillLine \/ Take

LdSpec == LdInit /\ [][LdNext]_<<line, queue>>
=============================================================================
