----------------------------- MODULE ByteStream ------------------------------
(***************************************************************************)
(* What one direction of a serial line promises: the characters leave it   *)
(* in the order they entered, each once, none lost and none invented.  The *)
(* characters are numbered as they enter, modulo K.                        *)
(***************************************************************************)
EXTENDS Naturals, Sequences

CONSTANTS
    K,          \* numbers of the characters: 0 .. K - 1
    Capacity    \* what the buffers of the direction hold together

VARIABLES
    queue,      \* the characters on their way
    next        \* the number of the next one to enter

vars == <<queue, next>>

(* n characters in order from number c on.                                 *)
Numbered(c, n) == [i \in 1 .. n |-> (c + i - 1) % K]

Init == queue = <<>> /\ next = 0

Put == \E n \in 1 .. Capacity - Len(queue) :
          /\ queue' = queue \o Numbered(next, n)
          /\ next' = (next + n) % K

Get == \E n \in 1 .. Len(queue) :
          /\ queue' = SubSeq(queue, n + 1, Len(queue))
          /\ UNCHANGED next

Next == Put \/ Get

Spec == Init /\ [][Next]_vars
=============================================================================
