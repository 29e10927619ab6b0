------------------------------- MODULE MCGame --------------------------------
(* The two things a game needs once a frame, for one CPU: to be told that  *)
(* the frame has ended (FrameSync) and to read the buttons (Controller).   *)
(* They share no variable, so what is said of one holds in any run of both *)
(* if it holds while the other rests: TLC takes one after the other.       *)
EXTENDS FrameSync, Controller

GameInit == Init /\ ControllerInit

FrameStep == ControllerInit /\ Next /\ UNCHANGED controllerVars
ControllerStep == Init /\ ControllerNext /\ UNCHANGED vars

GameNext == FrameStep \/ ControllerStep

GameSpec == GameInit /\ [][GameNext]_<<vars, controllerVars>>

-----------------------------------------------------------------------------
(* The lines at which something can happen, by their real numbers: all     *)
(* those compared with and their neighbours.                               *)
MCNLines == 8
MCLineNo == <<0, 479, 480, 481, 482, 519, 520, 524>>

(* The keys of controller.sv:29-60 with their real codes.  W is 0x1A, S is *)
(* 0x16, L is 0x0F, G is 0x0A: a tear between S and G can look like W.     *)
W == {1, 3, 4}
S == {1, 2, 4}
A == {2}
D == {0, 1, 2}
L == {0, 1, 2, 3}
K == {1, 2, 3}
G == {1, 3}
H == {0, 1, 3}

MCButtonOf == [k \in {W, S, A, D, L, K, G, H} |->
    CASE k = W -> 3 [] k = S -> 2 [] k = A -> 1 [] k = D -> 0
      [] k = L -> 7 [] k = K -> 6 [] k = G -> 5 [] k = H -> 4]

(* Nothing; one key and another; a key moving up when the first is         *)
(* released; more keys than the register holds, one of them without a      *)
(* button.                                                                 *)
MCReports ==
    { <<{}, {}, {}, {}, {}, {}>>, <<S, {}, {}, {}, {}, {}>>,
      <<G, L, {}, {}, {}, {}>>, <<L, {}, {}, {}, {}, {}>>,
      <<L, G, A, {5}, W, K>> }
=============================================================================
