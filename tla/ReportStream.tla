----------------------------- MODULE ReportStream ----------------------------
(***************************************************************************)
(* What polling a keyboard promises the rest of the console: its reports   *)
(* reach the keycode register one by one, in the order they were made,     *)
(* none twice and none left out, whatever happens on the wire.  Only those *)
(* of a keyboard that is pulled out, or that the firmware has not taken    *)
(* into service, may be lost.                                              *)
(***************************************************************************)
EXTENDS Sequences, Naturals

CONSTANTS
    Reports,        \* boot keyboard reports: the six key codes of each
    Shown,          \* how many of them the register holds (4)
    MaxPending      \* bound: reports the keyboard holds back

VARIABLES
    pending,        \* reports made, and not shown yet
    up,             \* the keyboard is in service
    keycode         \* the keycode register

vars == <<pending, up, keycode>>

(* main.c:172-179                                                          *)
Pack(r) == SubSeq(r, 1, Shown)

Init == pending = <<>> /\ up \in BOOLEAN /\ keycode = <<>>

Type(r) ==
    /\ Len(pending) < MaxPending
    /\ pending' = Append(pending, r)
    /\ UNCHANGED <<up, keycode>>

Start ==
    /\ ~ up /\ up' = TRUE
    /\ UNCHANGED <<pending, keycode>>

(* What has been taken from the keyboard already may still be shown.       *)
Stop ==
    /\ up' = FALSE
    /\ \E kept \in 0 .. Len(pending) : pending' = SubSeq(pending, 1, kept)
    /\ UNCHANGED keycode

Show ==
    /\ pending # <<>>
    /\ keycode' = Pack(Head(pending))
    /\ pending' = Tail(pending)
    /\ UNCHANGED up

Next == (\E r \in Reports : Type(r)) \/ Start \/ Stop \/ Show

Spec == Init /\ [][Next]_vars /\ WF_vars(up /\ Show)
=============================================================================
