---------------------------- MODULE MCPpuSprites -----------------------------
(* Four entries of OAM and two slots, so that lists overflow; sprites of   *)
(* the real height and width that overlap, are flipped, are behind the     *)
(* background or off the picture.                                          *)
EXTENDS PpuSprites, Sequences

Top     == <<0, 1, 0, 2>>           \* y, tile, attr, x
Flipped == <<1, 2, 193, 5>>
Behind  == <<2, 3, 34, 4>>
Mirror  == <<0, 4, 67, 9>>
Unused  == <<255, 5, 0, 3>>

Layout(a, b, c, d) == LET s == a \o b \o c \o d IN [i \in 0 .. 15 |-> s[i + 1]]

MCOams ==
    {Layout(Top, Flipped, Behind, Mirror), Layout(Unused, Behind, Unused, Flipped),
     Layout(Behind, Top, Unused, Top), Layout(Mirror, Unused, Unused, Unused),
     Layout(Flipped, Behind, Mirror, Unused)}

(* In the middle of an entry, of the last entry, of the fetches, and late. *)
MCWriteAt == {<<2, 12>>, <<2, 30>>, <<3, 40>>, <<4, 50>>}

MCSolid == {<<a, b>> \in (0 .. 8191) \X (0 .. 7) : (a + 3 * b) % 5 \in {0, 2}}
=============================================================================
