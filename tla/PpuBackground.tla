---------------------------- MODULE PpuBackground ----------------------------
(***************************************************************************)
(* The background of src/ppu.sv: while a tile is on the screen the byte    *)
(* that names the next one, its attributes and its two pattern bytes are   *)
(* fetched through the memories' second ports, one every four pixel clocks,*)
(* by a case on the low bits of the scrolled beam position; the first tile *)
(* of a line is fetched at the end of the line before.                     *)
(*                                                                         *)
(* The beam is VgaTiming's.  A byte of video memory stands for itself, as  *)
(* the address it is at, and a byte of a pattern as the address <<table,   *)
(* tile, row, plane>>: what is shown is compared by where it came from.    *)
(***************************************************************************)
EXTENDS VgaTiming

CONSTANTS
    Settings,       \* values of scroll_x, scroll_y, PPUCTRL[0] and PPUCTRL[4]
    WritePixels     \* bound: the pixels at which the CPU may change them

ASSUME SettingsAssumption ==
    Settings \subseteq [scroll_x : 0 .. 255, scroll_y : 0 .. 255, nt : {0, 1}, table : {0, 1}]

VARIABLES
    regs,                       \* the registers of Settings
    vram_dout1, chr_dout1,      \* the read ports, registered at vga_clk
    next_chr, next_paletteID, next_lsTile, next_msTile,
    curr_paletteID, curr_lsTile, curr_msTile,
    steady                      \* history: no change since the fetches for this line began

fetched == <<next_chr, next_paletteID, next_lsTile, next_msTile>>
shown == <<curr_paletteID, curr_lsTile, curr_msTile>>
beam == <<hc, vc, hs, vs>>
bgvars == <<beam, regs, vram_dout1, chr_dout1, fetched, shown, steady>>

PowerUpByte == -1
VramByte == 0 .. 2047 \cup {PowerUpByte}
Pattern == {0, 1} \X VramByte \X (0 .. 7) \X {0, 1}
NoPattern == <<>>               \* a sprite's, or nothing's

BackgroundTypeOK ==
    /\ TypeOK
    /\ regs \in Settings /\ steady \in BOOLEAN
    /\ {vram_dout1, next_chr, next_paletteID, curr_paletteID} \subseteq VramByte
    /\ {chr_dout1, next_lsTile, next_msTile, curr_lsTile, curr_msTile}
          \subseteq Pattern \cup {NoPattern}

BackgroundInit ==
    /\ Init
    /\ regs \in Settings /\ steady = FALSE
    /\ vram_dout1 = PowerUpByte /\ chr_dout1 = NoPattern
    /\ next_chr = PowerUpByte /\ next_paletteID = PowerUpByte
    /\ next_lsTile = NoPattern /\ next_msTile = NoPattern
    /\ curr_paletteID = PowerUpByte /\ curr_lsTile = NoPattern /\ curr_msTile = NoPattern

-----------------------------------------------------------------------------
(* v[lo+w-1:lo]                                                            *)
Bits(v, lo, w) == (v \div 2^lo) % 2^w

x_final  == (hc + 2 * regs.scroll_x) % 1024
y_final  == (vc + 2 * regs.scroll_y) % 1024
nextline == (y_final + 1) % 1024
nexttile == (x_final + 16) % 1024

Fetching == hc < 512 \/ hc >= 768
Prefetch == hc > 512            \* for the first tile of the next line

(* The tile after the one on the screen; past the last column it is in the *)
(* other nametable, and in the first column one row back.                  *)
vram_addr_tile ==
    IF Prefetch THEN 32 * Bits(nextline, 4, 5) + Bits(regs.scroll_x, 3, 5)
    ELSE (32 * Bits(y_final, 4, 5) + Bits(x_final, 4, 5) + 1
          + (IF x_final + 16 < 512 THEN 0
             ELSE IF x_final + 16 < 528 THEN 1024 - 32 ELSE 1024)) % 2048

(* Fault: the attributes of the tile on the screen.                        *)
vram_addr_attr_here ==
    IF Prefetch THEN 960 + 8 * Bits(nextline, 6, 3) + Bits(regs.scroll_x, 5, 3)
    ELSE 960 + 8 * Bits(y_final, 6, 3) + Bits(x_final, 6, 3)
         + (IF x_final < 512 THEN 0 ELSE 1024)

vram_addr_attr ==
    IF Prefetch THEN 960 + 8 * Bits(nextline, 6, 3) + Bits(regs.scroll_x, 5, 3)
    ELSE 960 + 8 * Bits(y_final, 6, 3) + Bits(nexttile, 6, 3)
         + (IF x_final + 16 < 512 THEN 0 ELSE 1024)

(* An address that is not zero is moved to the nametable PPUCTRL selects.  *)
Moved(a) == IF a = 0 THEN 0 ELSE (a + 1024 * regs.nt) % 2048

vram_addr1 ==
    Moved(IF Fetching /\ Bits(x_final, 2, 2) = 0 THEN vram_addr_tile
          ELSE IF Fetching /\ Bits(x_final, 2, 2) = 1 THEN vram_addr_attr ELSE 0)

(* Fault: the row of the line that ends for the first tile of the next.    *)
chr_addr1_late ==
    IF Fetching /\ Bits(x_final, 3, 1) = 1
    THEN <<regs.table, next_chr, Bits(y_final, 1, 3), Bits(x_final, 2, 1)>>
    ELSE NoPattern

chr_addr1 ==
    IF Fetching /\ Bits(x_final, 3, 1) = 1
    THEN <<regs.table, next_chr, Bits(IF Prefetch THEN nextline ELSE y_final, 1, 3),
           Bits(x_final, 2, 1)>>
    ELSE NoPattern

Show(now) ==
    IF now
    THEN /\ curr_paletteID' = next_paletteID
         /\ curr_lsTile' = next_lsTile /\ curr_msTile' = next_msTile
    ELSE UNCHANGED shown

EndOfTile == Fetching /\ x_final % 16 = 15

Capture ==
    LET slot == IF Fetching THEN Bits(x_final, 1, 3) ELSE 0
    IN  /\ next_chr'       = IF slot = 1 THEN vram_dout1 ELSE next_chr
        /\ next_paletteID' = IF slot = 3 THEN vram_dout1 ELSE next_paletteID
        /\ next_lsTile'    = IF slot = 5 THEN chr_dout1 ELSE next_lsTile
        /\ next_msTile'    = IF slot = 7 THEN chr_dout1 ELSE next_msTile

PixelClock ==
    /\ Next
    /\ vram_dout1' = vram_addr1 /\ chr_dout1' = chr_addr1
    /\ Capture /\ Show(EndOfTile)
    /\ steady' = (steady \/ hc' = 768)
    /\ UNCHANGED regs

(* A write of $2000 or $2005 in between, at most one for a line.           *)
WriteRegs ==
    /\ steady /\ hc \in WritePixels
    /\ regs' \in Settings \ {regs}
    /\ steady' = FALSE
    /\ UNCHANGED <<beam, vram_dout1, chr_dout1, fetched, shown>>

BackgroundNext == PixelClock \/ WriteRegs

BackgroundSpec == BackgroundInit /\ [][BackgroundNext]_bgvars

-----------------------------------------------------------------------------
(* What the scrolled position names: the two nametables are next to each   *)
(* other.  The rows past 29 of a nametable are its attributes.             *)
Nametable == 1024 * ((x_final \div 512 + regs.nt) % 2)
TileHere  == Nametable + 32 * Bits(y_final, 4, 5) + Bits(x_final, 4, 5)
AttrHere  == Nametable + 960 + 8 * Bits(y_final, 6, 3) + Bits(x_final, 6, 3)
PatternHere(plane) == <<regs.table, TileHere, Bits(y_final, 1, 3), plane>>

Steady == steady /\ hc < 512 /\ vc < 480 /\ y_final < 480
Fine == 2 * (regs.scroll_x % 8)             \* VGA pixels of the first tile that are cut off
FirstTile == hc < 16 - Fine
SecondTile == hc \in 16 - Fine .. 31 - Fine

(* On a line for which the registers do not change every pixel is that of  *)
(* the tile, the row and the attributes its scrolled position names.  But: *)
(* the second tile, which README.md:51 calls incorrect when scrolling, is  *)
(* excepted once its name is fetched before the line begins (from two      *)
(* pixels of fine scroll on); so are the first tile of the first line,     *)
(* whose row is that of line 525, and the first tile when it is at address *)
(* 0 of the second nametable, which the test for zero takes from the first.*)
BackgroundShown ==
    /\ Steady
    /\ ~ (SecondTile /\ Fine >= 4)
    /\ ~ (FirstTile /\ vc = 0)
    /\ ~ (FirstTile /\ TileHere = 1024)
    => /\ curr_lsTile = PatternHere(0) /\ curr_msTile = PatternHere(1)
       /\ curr_paletteID = AttrHere

(* What is wrong with the second tile: it is the first one again, in the   *)
(* right row, with its own attributes up to three pixels of fine scroll.   *)
SecondTileRepeats ==
    Steady /\ SecondTile /\ Fine >= 4 /\ vc > 0 =>
        LET first == IF regs.scroll_x < 8 /\ Bits(y_final, 4, 5) = 0 THEN 0
                     ELSE 1024 * regs.nt + 32 * Bits(y_final, 4, 5) + regs.scroll_x \div 8
        IN  /\ curr_lsTile = <<regs.table, first, Bits(y_final, 1, 3), 0>>
            /\ curr_msTile = <<regs.table, first, Bits(y_final, 1, 3), 1>>
            /\ Fine < 8 => curr_paletteID = AttrHere

-----------------------------------------------------------------------------
(* Where the fetches for a line have come to: the first tile's begin in    *)
(* column 16 at the latest, the second's in column 32, and so on.          *)
Place == (IF Prefetch THEN hc - 768 ELSE hc + 32) + Fine
LineRow == IF Prefetch THEN nextline ELSE y_final

(* The second tile's name has been fetched before the line began.          *)
Repeating == ~ Prefetch /\ Place < 48 /\ Fine >= 4
FirstName == Moved(32 * Bits(LineRow, 4, 5) + Bits(regs.scroll_x, 3, 5))
FirstAttr == Moved(960 + 8 * Bits(LineRow, 6, 3) + Bits(regs.scroll_x, 5, 3))
Name == IF Repeating THEN FirstName ELSE Moved(vram_addr_tile)
PatternOf(name, plane) == <<regs.table, name, Bits(LineRow, 1, 3), plane>>

(* What the read ports and the registers for the next tile hold at each of *)
(* a tile's sixteen pixels.                                                *)
TileFetched ==
    LET f == x_final % 16
    IN  /\ f \in 3 .. 4 => vram_dout1 = Name
        /\ f >= 4 => next_chr = Name
        /\ ~ (Repeating /\ Fine >= 8) =>
              /\ f \in 7 .. 8 => vram_dout1 = Moved(vram_addr_attr)
              /\ f >= 8 => next_paletteID = Moved(vram_addr_attr)
        /\ f \in 11 .. 12 => chr_dout1 = PatternOf(Name, 0)
        /\ f >= 12 => next_lsTile = PatternOf(Name, 0)
        /\ f \in 14 .. 15 => chr_dout1 = PatternOf(Name, 1)
        /\ f = 15 => next_msTile = PatternOf(Name, 1)

(* The fetches do what the addresses say, and what is shown is what has    *)
(* been fetched for it.                                                    *)
FetchInv ==
    steady /\ Fetching /\ Place >= 16 /\ (Repeating => vc > 0) => TileFetched

FirstShown ==
    /\ curr_lsTile = PatternOf(FirstName, 0) /\ curr_msTile = PatternOf(FirstName, 1)
    /\ curr_paletteID = FirstAttr

RepeatShown ==
    /\ curr_lsTile = PatternOf(FirstName, 0) /\ curr_msTile = PatternOf(FirstName, 1)
    /\ Fine < 8 => curr_paletteID = AttrHere

HereShown ==
    /\ curr_lsTile = PatternHere(0) /\ curr_msTile = PatternHere(1)
    /\ curr_paletteID = AttrHere

ShownInv ==
    steady /\ Fetching =>
        /\ Place \in 32 .. 47 /\ (Prefetch \/ vc > 0) => FirstShown
        /\ ~ Prefetch /\ y_final < 480 /\ Place \in 48 .. 63 /\ Fine >= 4 /\ vc > 0 => RepeatShown
        /\ ~ Prefetch /\ y_final < 480 /\ Place >= 48 /\ (Place >= 64 \/ Fine < 4) => HereShown
=============================================================================
