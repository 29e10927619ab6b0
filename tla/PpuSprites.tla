----------------------------- MODULE PpuSprites ------------------------------
(***************************************************************************)
(* The sprites of src/ppu.sv.  While the beam crosses the picture, OAM is  *)
(* read through its second port, a byte every two pixel clocks, and the    *)
(* sprites on this line are collected; after the last one the list is      *)
(* handed over, the pattern bytes of its sprites are fetched in turn, over *)
(* and over, and on the next line they are shown.                          *)
(*                                                                         *)
(* The beam is VgaTiming's.  A byte of a pattern stands for itself, as the *)
(* address it is at; Solid says which of its bits are set.                 *)
(***************************************************************************)
EXTENDS VgaTiming, FiniteSets

CONSTANTS
    NumSprites,     \* entries of OAM (64)
    Slots,          \* sprites on a line (8)
    FetchEnd,       \* the pixel at which the fetches end (768)
    EvalLines,      \* the lines on which sprites are collected (512)
    InitOams,       \* contents of OAM
    NewBytes,       \* bytes that replace others
    WriteAt,        \* bound: beam positions at which the CPU may write
    MaxWrites,      \* bound: how often it does
    Solid           \* <<address, bit>> of the pattern bits that are 1

EvalEnd == 8 * NumSprites
Byte == 0 .. 255
Slot == 0 .. Slots - 1
Sprite == 0 .. NumSprites - 1
Entry == [y : Byte, tile : Byte, attr : Byte, x : Byte]

(* An entry takes eight pixels, and OAM has addresses of eight bits.  The  *)
(* pixels between are a whole number, two at least, of turns of the fetch  *)
(* unit, which starts them at slot 0.                                      *)
ASSUME SpritesAssumption ==
    /\ NumSprites \in 1 .. 64 /\ Slots \in Nat \ {0} /\ (2 * NumSprites) % Slots = 0
    /\ FetchEnd \in Nat /\ FetchEnd >= EvalEnd + 8 * Slots /\ FetchEnd <= hpixels
    /\ EvalLines \in Nat
    /\ InitOams \subseteq [0 .. 4 * NumSprites - 1 -> Byte] /\ NewBytes \subseteq Byte

VARIABLES
    oam, tall, table,       \* OAM, PPUCTRL[5] and PPUCTRL[3]
    oam_dout0, chr_dout1,   \* the read ports, registered at vga_clk
    sprite_add,
    next, sprite_count_next,        \* sprite_y_next ... sprite_x_next
    list, sprite_count,             \* sprite_y ... sprite_x
    overflow,                       \* PPUSTATUS[5]
    sprite_ls, sprite_ms,
    steady,                 \* history: no write since the line began
    due,                    \* history: what this line should show
    writes                  \* history: writes so far

beam == <<hc, vc, hs, vs>>
evaluation == <<sprite_add, next, sprite_count_next, list, sprite_count, overflow>>
patterns == <<sprite_ls, sprite_ms>>
spvars == <<beam, oam, tall, table, oam_dout0, chr_dout1, evaluation, patterns,
            steady, due, writes>>

NoPattern == -1             \* the background's
Address == 0 .. 8191 \cup {NoPattern}

(* What a line should show: the entries, the line they were chosen on, and *)
(* the pattern table; known unless there was a write in between.           *)
DueTypeOK ==
    /\ due = [known |-> due.known, list |-> due.list, line |-> due.line, table |-> due.table]
    /\ due.known \in BOOLEAN /\ due.line \in 0 .. vlines /\ due.table \in {0, 1}
    /\ DOMAIN due.list \subseteq Sprite /\ due.list \in [DOMAIN due.list -> Entry]

SpritesTypeOK ==
    /\ TypeOK
    /\ oam \in [0 .. 4 * NumSprites - 1 -> Byte] /\ tall \in BOOLEAN /\ table \in {0, 1}
    /\ oam_dout0 \in Byte /\ chr_dout1 \in Address
    /\ sprite_add \in BOOLEAN /\ overflow \in BOOLEAN
    /\ next \in [Slot -> Entry] /\ list \in [Slot -> Entry]
    /\ sprite_count_next \in 0 .. Slots /\ sprite_count \in 0 .. Slots
    /\ sprite_ls \in [Slot -> Address] /\ sprite_ms \in [Slot -> Address]
    /\ steady \in BOOLEAN /\ DueTypeOK

NoEntry == [y |-> 0, tile |-> 0, attr |-> 0, x |-> 0]

SpritesInit ==
    /\ Init
    /\ oam \in InitOams /\ tall = FALSE /\ table = 0
    /\ oam_dout0 = 0 /\ chr_dout1 = NoPattern
    /\ sprite_add = FALSE /\ overflow = FALSE
    /\ next = [i \in Slot |-> NoEntry] /\ sprite_count_next = 0
    /\ list = [i \in Slot |-> NoEntry] /\ sprite_count = 0
    /\ sprite_ls = [i \in Slot |-> NoPattern] /\ sprite_ms = [i \in Slot |-> NoPattern]
    /\ steady = FALSE /\ writes = 0
    /\ due = [known |-> FALSE, list |-> [i \in {} |-> NoEntry], line |-> 0, table |-> 0]

-----------------------------------------------------------------------------
(* v[lo+w-1:lo]                                                            *)
Bits(v, lo, w) == (v \div 2^lo) % 2^w

X == Bits(hc, 1, 8)
Y == Bits(vc, 1, 8)

(* Evaluation: pixel p of the eight of an entry.                           *)
Evaluating(p) == hc < EvalEnd /\ vc < EvalLines /\ hc % 8 = p

sprite_size == IF tall THEN 15 ELSE 7
OnLine(y, line) == y # 255 /\ Bits(line, 1, 8) - y \in 0 .. sprite_size

(* Fault: a sprite that finds the list full takes the last slot.           *)
HasRoomOneMore == sprite_count_next <= Slots

HasRoom == sprite_count_next < Slots

Collect ==
    /\ sprite_add' = IF Evaluating(1) /\ OnLine(oam_dout0, vc) /\ HasRoom THEN TRUE
                     ELSE IF Evaluating(7) THEN FALSE ELSE sprite_add
    /\ next' = IF Evaluating(1) /\ OnLine(oam_dout0, vc) /\ HasRoom
                 THEN [next EXCEPT ![sprite_count_next].y = oam_dout0]
               ELSE IF sprite_add /\ Evaluating(3)
                 THEN [next EXCEPT ![sprite_count_next].tile = oam_dout0]
               ELSE IF sprite_add /\ Evaluating(5)
                 THEN [next EXCEPT ![sprite_count_next].attr = oam_dout0]
               ELSE IF sprite_add /\ Evaluating(7)
                 THEN [next EXCEPT ![sprite_count_next].x = oam_dout0]
               ELSE next
    /\ overflow' = IF Evaluating(1) /\ OnLine(oam_dout0, vc) /\ ~ HasRoom THEN TRUE
                   ELSE IF hc >= FetchEnd THEN FALSE ELSE overflow

(* Fault: the count goes on from line to line.                             *)
CountKeep ==
    sprite_count_next' = IF sprite_add /\ Evaluating(7) THEN sprite_count_next + 1
                         ELSE sprite_count_next

Count ==
    sprite_count_next' = IF hc = EvalEnd + 1 THEN 0
                         ELSE IF sprite_add /\ Evaluating(7) THEN sprite_count_next + 1
                         ELSE sprite_count_next

HandOver ==
    IF hc = EvalEnd THEN list' = next /\ sprite_count' = sprite_count_next
                    ELSE UNCHANGED <<list, sprite_count>>

(* The fetch unit: which slot, if there is one for it.                     *)
Turn == (hc \div 4) % Slots
Fetching == hc >= EvalEnd /\ hc < FetchEnd /\ Turn <= sprite_count

chr_addr1 ==
    LET s   == list[Turn]
        row == IF Bits(s.attr, 7, 1) = 1 THEN 7 - (Y - s.y) ELSE Y - s.y
    IN  IF hc < EvalEnd \/ hc >= FetchEnd THEN NoPattern
        ELSE IF ~ Fetching \/ vc >= EvalLines THEN 0
        ELSE (4096 * table + 16 * s.tile + row + 8 * Bits(hc, 1, 1)) % 8192

(* Fault: only the first turn is kept, whose first byte is fetched before  *)
(* the list is handed over.                                                *)
FetchOnce ==
    /\ sprite_ls' = IF Fetching /\ hc % 4 = 1 /\ hc < EvalEnd + 4 * Slots
                    THEN [sprite_ls EXCEPT ![Turn] = chr_dout1] ELSE sprite_ls
    /\ sprite_ms' = IF Fetching /\ hc % 4 = 3 /\ hc < EvalEnd + 4 * Slots
                    THEN [sprite_ms EXCEPT ![Turn] = chr_dout1] ELSE sprite_ms

Fetch ==
    /\ sprite_ls' = IF Fetching /\ hc % 4 = 1
                    THEN [sprite_ls EXCEPT ![Turn] = chr_dout1] ELSE sprite_ls
    /\ sprite_ms' = IF Fetching /\ hc % 4 = 3
                    THEN [sprite_ms EXCEPT ![Turn] = chr_dout1] ELSE sprite_ms

(* The entries of OAM on the line, and the first of them, as many as there *)
(* are slots.                                                              *)
OamEntry(i) == [y |-> oam[4 * i], tile |-> oam[4 * i + 1], attr |-> oam[4 * i + 2], x |-> oam[4 * i + 3]]
Selected == {i \in Sprite : vc < EvalLines /\ OnLine(oam[4 * i], vc)}
Rank(i) == Cardinality({j \in Selected : j < i})
Wanted == [i \in {j \in Selected : Rank(j) < Slots} |-> OamEntry(i)]

PixelClock ==
    /\ Next
    /\ oam_dout0' = oam[X % (4 * NumSprites)] /\ chr_dout1' = chr_addr1
    /\ Collect /\ Count /\ HandOver /\ Fetch
    /\ steady' = (steady \/ hc' = 0)
    /\ due' = IF hc = EvalEnd THEN [known |-> steady /\ ~ tall, list |-> Wanted, line |-> vc, table |-> table]
              ELSE due
    /\ UNCHANGED <<oam, tall, table, writes>>

(* OAM written by the DMA or through $2004, or $2000 written.              *)
Write ==
    /\ <<vc, hc>> \in WriteAt /\ writes < MaxWrites /\ writes' = writes + 1
    /\ \/ \E a \in DOMAIN oam, b \in NewBytes : oam' = [oam EXCEPT ![a] = b] /\ UNCHANGED <<tall, table>>
       \/ UNCHANGED oam /\ tall' \in BOOLEAN /\ table' \in {0, 1}
    /\ steady' = FALSE
    /\ due' = [due EXCEPT !.known = @ /\ ~ (hc > EvalEnd /\ hc < FetchEnd)]
    /\ UNCHANGED <<beam, oam_dout0, chr_dout1, evaluation, patterns>>

SpritesNext == PixelClock \/ Write

SpritesSpec == SpritesInit /\ [][SpritesNext]_spvars

-----------------------------------------------------------------------------
(* palette_mem_addr                                                        *)

Column(s) == X - s.x
Bit(byte, s) == IF <<byte, IF Bits(s.attr, 6, 1) = 1 THEN Column(s) ELSE 7 - Column(s)>> \in Solid
                THEN 1 ELSE 0
Color(i) == IF i < sprite_count /\ Column(list[i]) \in 0 .. 7
            THEN 2 * Bit(sprite_ms[i], list[i]) + Bit(sprite_ls[i], list[i]) ELSE 0

(* The slots that have something to show at the beam.                      *)
Front(bg) == {i \in Slot : Color(i) # 0}

(* bg is the background's {paletteID_b, pixel}; a pixel of 0 is backdrop.  *)
palette_mem_addr(bg) ==
    LET i == CHOOSE i \in Front(bg) : \A j \in Front(bg) : i <= j
    IN  IF Front(bg) # {} /\ ~ (Bits(list[i].attr, 5, 1) = 1 /\ bg % 4 # 0)
        THEN 16 + 4 * (list[i].attr % 4) + Color(i)
        ELSE IF bg % 4 # 0 THEN bg ELSE 0

-----------------------------------------------------------------------------
(* When a line has been evaluated without a write, the list holds the      *)
(* first sprites of OAM that are on it, whole and in order, whatever was   *)
(* written while the lines before were evaluated.                          *)
LineList ==
    steady /\ hc > EvalEnd =>
        /\ sprite_count = Cardinality(DOMAIN Wanted)
        /\ \A i \in DOMAIN Wanted : list[Rank(i)] = Wanted[i]

(* The overflow flag is right when the evaluation ends.                    *)
OverflowExact ==
    steady /\ hc \in EvalEnd .. FetchEnd => (overflow <=> Cardinality(Selected) > Slots)

(* The color the sprite s has at the beam, from the pattern its tile and   *)
(* its row name.                                                           *)
ColorOf(s) ==
    LET row  == Bits(due.line, 1, 8) - s.y
        byte == 4096 * due.table + 16 * s.tile + (IF Bits(s.attr, 7, 1) = 1 THEN 7 - row ELSE row)
    IN  IF Column(s) \in 0 .. 7 THEN 2 * Bit(byte + 8, s) + Bit(byte, s) ELSE 0

(* Each pixel shows what the sprites on the line before call for: the      *)
(* first with a color there, unless it is behind and the background has    *)
(* one.  What is written while the line is shown does not matter.          *)
SpritesShown ==
    due.known /\ hc < EvalEnd =>
        \A bg \in {0, 4, 7} :
            LET F == {i \in DOMAIN due.list : ColorOf(due.list[i]) # 0}
                s == due.list[CHOOSE i \in F : \A j \in F : i <= j]
            IN  palette_mem_addr(bg) =
                  IF F # {} /\ ~ (Bits(s.attr, 5, 1) = 1 /\ bg % 4 # 0)
                  THEN 16 + 4 * (s.attr % 4) + ColorOf(s)
                  ELSE IF bg % 4 # 0 THEN bg ELSE 0

-----------------------------------------------------------------------------
(* Between lines the evaluation is at rest.                                *)
RestInv ==
    /\ sprite_add => hc \in 2 .. EvalEnd - 1 /\ vc < EvalLines /\ sprite_count_next < Slots
    /\ hc = 0 \/ hc > EvalEnd + 1 => sprite_count_next = 0
    /\ hc = 0 \/ hc > FetchEnd => ~ overflow

(* f lists the members of S in order, all of them or as many as there are  *)
(* slots.                                                                  *)
Lists(f, n, S) ==
    /\ f \in [0 .. n - 1 -> S]
    /\ \A j, k \in 0 .. n - 1 : j < k => f[j] < f[k]
    /\ \A i \in S : \/ \E k \in 0 .. n - 1 : f[k] = i
                    \/ n = Slots /\ \A k \in 0 .. n - 1 : f[k] < i

(* The entry the evaluation is at, and the pixel of its eight.             *)
At == IF hc < EvalEnd THEN hc \div 8 ELSE NumSprites
Done == {i \in Selected : i < At}

(* The list so far, and the flag, which is set by an entry on the line     *)
(* that finds the list full.                                               *)
Listed(f) ==
    /\ Lists(f, sprite_count_next, Done)
    /\ \A k \in 0 .. sprite_count_next - 1 : next[k] = OamEntry(f[k])
    /\ overflow <=> /\ sprite_count_next = Slots
                    /\ \E i \in Selected : /\ i < At \/ (i = At /\ hc % 8 >= 2)
                                           /\ \A k \in 0 .. sprite_count_next - 1 : f[k] < i

(* The entry that is being copied.                                         *)
Copying ==
    /\ sprite_add <=> hc % 8 >= 2 /\ At \in Selected /\ sprite_count_next < Slots
    /\ sprite_add =>
          LET e == next[sprite_count_next]
          IN  /\ e.y = oam[4 * At]
              /\ hc % 8 >= 4 => e.tile = oam[4 * At + 1]
              /\ hc % 8 >= 6 => e.attr = oam[4 * At + 2]

CollectInv ==
    steady /\ hc <= EvalEnd =>
        /\ \E f \in [0 .. sprite_count_next - 1 -> Done] : Listed(f)
        /\ Copying
        /\ hc % 8 \in {1, 3, 5, 7} => oam_dout0 = oam[4 * At + ((hc % 8) \div 2)]

(* The first n places of l hold the entries of d in order, and each entry  *)
(* has one of its eight rows on the line.                                  *)
Packed(l, n, d) ==
    \E f \in [0 .. n - 1 -> DOMAIN d] :
        /\ \A j, k \in 0 .. n - 1 : j < k => f[j] < f[k]
        /\ \A i \in DOMAIN d : \E k \in 0 .. n - 1 : f[k] = i
        /\ \A k \in 0 .. n - 1 : l[k] = d[f[k]]
Rows(l, n, line) == \A k \in 0 .. n - 1 : Bits(line, 1, 8) - l[k].y \in 0 .. 7

(* The list that is shown is in the order of OAM, of sprites on the line.  *)
DueInv ==
    due.known =>
        /\ Packed(list, sprite_count, due.list)
        /\ Rows(list, sprite_count, due.line)
        /\ hc > EvalEnd => /\ due.line = vc /\ (hc < FetchEnd => due.table = table)
                           /\ sprite_count > 0 => vc < EvalLines

(* The pattern byte of slot k that is to be shown, and whether the fetch   *)
(* unit has come to it since the list was handed over.                     *)
PatternOf(k, plane) ==
    LET row == Bits(due.line, 1, 8) - list[k].y
    IN  4096 * due.table + 16 * list[k].tile + (IF Bits(list[k].attr, 7, 1) = 1 THEN 7 - row ELSE row)
        + 8 * plane
Fetched(k, p) ==
    hc < EvalEnd \/ \E h \in EvalEnd + 2 .. hc - 1 : h < FetchEnd /\ h % 4 = p /\ (h \div 4) % Slots = k

PatternInv ==
    due.known /\ hc # EvalEnd =>
        /\ \A k \in 0 .. sprite_count - 1 :
              /\ Fetched(k, 1) => sprite_ls[k] = PatternOf(k, 0)
              /\ Fetched(k, 3) => sprite_ms[k] = PatternOf(k, 1)
        /\ hc \in EvalEnd + 2 .. FetchEnd /\ Turn < sprite_count =>
              /\ hc % 4 = 1 => chr_dout1 = PatternOf(Turn, 0)
              /\ hc % 4 = 3 => chr_dout1 = PatternOf(Turn, 1)
=============================================================================
