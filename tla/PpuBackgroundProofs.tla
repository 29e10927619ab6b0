------------------------ MODULE PpuBackgroundProofs -------------------------
(* The background of a line of 800 pixels, for every scroll and every      *)
(* pixel at which the CPU writes, and the pulses for any frame geometry.   *)
EXTENDS PpuBackground, TLAPS

(* A position is a place in one of the tiles of sixteen pixels.            *)
LEMMA Sixteens ==
    ASSUME NEW v \in Nat
    PROVE  \E t \in Nat, f \in 0 .. 15 :
             /\ v = 16 * t + f /\ v \div 16 = t /\ v % 16 = f
             /\ v \div 64 = t \div 4 /\ v \div 512 = t \div 32
             /\ (v \div 2) % 8 = f \div 2 /\ (v \div 4) % 4 = f \div 4
             /\ (v \div 8) % 2 = f \div 8 /\ (v \div 4) % 2 = (f \div 4) % 2
<1>1. PICK t \in Nat, f \in 0 .. 15 : v = 16 * t + f
  <2> WITNESS v \div 16 \in Nat, v % 16 \in 0 .. 15
  <2> QED  OBVIOUS
<1>2. v \div 16 = t /\ v % 16 = f
  BY <1>1
<1>3. v \div 64 = t \div 4 /\ v \div 512 = t \div 32
  BY <1>1
<1>4. (v \div 2) % 8 = f \div 2 /\ (v \div 4) % 4 = f \div 4
  BY <1>1
<1>5. (v \div 8) % 2 = f \div 8 /\ (v \div 4) % 2 = (f \div 4) % 2
  BY <1>1
<1> QED
  BY <1>1, <1>2, <1>3, <1>4, <1>5

(* The bits of a position that the code looks at.                          *)
LEMMA BitsAre ==
    ASSUME NEW v \in Nat
    PROVE  /\ Bits(v, 1, 3) = (v \div 2) % 8 /\ Bits(v, 2, 2) = (v \div 4) % 4
           /\ Bits(v, 3, 1) = (v \div 8) % 2 /\ Bits(v, 2, 1) = (v \div 4) % 2
           /\ Bits(v, 4, 5) = (v \div 16) % 32 /\ Bits(v, 6, 3) = (v \div 64) % 8
           /\ Bits(v, 3, 5) = (v \div 8) % 32 /\ Bits(v, 5, 3) = (v \div 32) % 8
<1>1. 2^1 = 2 /\ 2^2 = 4 /\ 2^3 = 8 /\ 2^4 = 16 /\ 2^5 = 32 /\ 2^6 = 64
  OBVIOUS
<1> QED
  BY <1>1 DEF Bits

(* Which of them say where in a tile it is.                                *)
LEMMA PhaseBits ==
    ASSUME NEW v \in Nat
    PROVE  /\ v % 16 \in 0 .. 15
           /\ Bits(v, 1, 3) = (v % 16) \div 2 /\ Bits(v, 2, 2) = (v % 16) \div 4
           /\ Bits(v, 3, 1) = (v % 16) \div 8 /\ Bits(v, 2, 1) = ((v % 16) \div 4) % 2
<1>1. PICK t \in Nat, f \in 0 .. 15 :
             /\ v = 16 * t + f /\ v \div 16 = t /\ v % 16 = f
             /\ v \div 64 = t \div 4 /\ v \div 512 = t \div 32
             /\ (v \div 2) % 8 = f \div 2 /\ (v \div 4) % 4 = f \div 4
             /\ (v \div 8) % 2 = f \div 8 /\ (v \div 4) % 2 = (f \div 4) % 2
  BY Sixteens
<1> QED
  BY <1>1, BitsAre

LEMMA Eights == \A v \in Nat : \E t \in Nat, s \in 0 .. 7 : v = 8 * t + s /\ v % 8 = s
<1> TAKE v \in Nat
<1> WITNESS v \div 8 \in Nat, v % 8 \in 0 .. 7
<1> QED  OBVIOUS

(* A counter of ten bits.                                                  *)
LEMMA TenBits == \A v \in Nat : v % 1024 \in 0 .. 1023 /\ (v < 1024 => v % 1024 = v)
  OBVIOUS

(* An address of the video memory.                                         *)
LEMMA ElevenBits == \A v \in Int : v % 2048 \in 0 .. 2047
  OBVIOUS

(* What the argument needs of a state: the types of where the beam is, not *)
(* those of what a memory holds, and the length of the hardware's lines.   *)
PlaceTypes == TypeOK /\ regs \in Settings /\ hpixels = 799

LEMMA Positions ==
    ASSUME PlaceTypes
    PROVE  /\ hc \in 0 .. 799 /\ vc \in Nat
           /\ regs.scroll_x \in 0 .. 255 /\ regs.scroll_y \in 0 .. 255 /\ regs.nt \in {0, 1}
           /\ x_final \in 0 .. 1023 /\ y_final \in 0 .. 1023 /\ nextline \in 0 .. 1023
           /\ x_final \in Nat /\ y_final \in Nat /\ nextline \in Nat
           /\ Fine \in {0, 2, 4, 6, 8, 10, 12, 14}
           /\ ~ Prefetch => x_final = hc + 2 * regs.scroll_x
<1>1. /\ hc \in 0 .. 799 /\ vc \in Nat
      /\ regs.scroll_x \in 0 .. 255 /\ regs.scroll_y \in 0 .. 255 /\ regs.nt \in {0, 1}
  BY SettingsAssumption, TimingAssumption DEF PlaceTypes, TypeOK
<1>x. PICK x \in Nat : x = hc + 2 * regs.scroll_x
  BY <1>1, SMTT(30)
<1>y. PICK y \in Nat : y = vc + 2 * regs.scroll_y
  BY <1>1, SMTT(30)
<1>2. x_final = x % 1024 /\ x_final \in 0 .. 1023 /\ y_final \in 0 .. 1023
  <2>1. x_final = x % 1024 /\ y_final = y % 1024
    BY <1>x, <1>y DEF x_final, y_final
  <2> QED
    BY <2>1, TenBits
<1>3. nextline \in 0 .. 1023
  <2>1. y_final + 1 \in Nat
    BY <1>2
  <2> QED
    BY <2>1, TenBits DEF nextline
<1>4. Fine \in {0, 2, 4, 6, 8, 10, 12, 14}
  <2>1. PICK s \in 0 .. 7 : regs.scroll_x % 8 = s
    BY <1>1, Eights
  <2> QED
    BY <2>1 DEF Fine
<1>5. ~ Prefetch => x_final = hc + 2 * regs.scroll_x
  <2>1. hc <= 512 => x < 1024
    BY <1>1, <1>x
  <2>2. ~ Prefetch => hc <= 512
    BY <1>1 DEF Prefetch
  <2> QED
    BY <1>x, <1>2, <2>1, <2>2, TenBits
<1>6. x_final \in Nat /\ y_final \in Nat /\ nextline \in Nat
  BY <1>2, <1>3
<1> QED  BY <1>1, <1>2, <1>3, <1>4, <1>5, <1>6

(* Tiles begin where the fetches' places do.                               *)
PhaseIsPlace == Place \in Nat /\ x_final % 16 = Place % 16

LEMMA Phase == PlaceTypes /\ Fetching => PhaseIsPlace
<1> SUFFICES ASSUME PlaceTypes, Fetching PROVE PhaseIsPlace
  OBVIOUS
<1> USE DEF PhaseIsPlace
<1>1. PICK t \in Nat, s \in 0 .. 7 : regs.scroll_x = 8 * t + s /\ regs.scroll_x % 8 = s
  <2>1. regs.scroll_x \in Nat
    BY Positions
  <2> QED  BY <2>1, Eights
<1>2. Fine = 2 * s
  BY <1>1 DEF Fine
<1>3. CASE Prefetch
  <2>1. PICK k \in Nat : hc = 768 + k
    <3>1. hc >= 768 /\ hc \in Nat
      BY <1>3, Positions DEF Fetching, Prefetch
    <3>2. hc - 768 \in Nat /\ hc = 768 + (hc - 768)
      BY <3>1
    <3> QED  BY <3>2, SMTT(30)
  <2>2. Place = k + 2 * s
    BY <2>1, <1>2, <1>3 DEF Place
  <2>3. x_final = (768 + k + 16 * t + 2 * s) % 1024
    BY <2>1, <1>1 DEF x_final
  <2>4. x_final % 16 = (k + 2 * s) % 16
    BY <2>3
  <2> QED  BY <2>2, <2>4
<1>4. CASE ~ Prefetch
  <2>1. Place = hc + 32 + 2 * s
    BY <1>4, <1>2 DEF Place
  <2>2. x_final = hc + 2 * regs.scroll_x /\ hc \in Nat
    BY <1>4, Positions
  <2>3. x_final = hc + 16 * t + 2 * s
    BY <2>2, <1>1
  <2> QED  BY <2>1, <2>2, <2>3
<1> QED  BY <1>3, <1>4

(* What is read at each pixel of a tile: its name, its attributes and its  *)
(* two planes, for four pixels each.                                       *)
LEMMA Reads ==
    ASSUME PlaceTypes, Fetching, NEW f, f = x_final % 16
    PROVE  /\ f \in 0 .. 15
           /\ f < 4 => vram_addr1 = Moved(vram_addr_tile)
           /\ f \in 4 .. 7 => vram_addr1 = Moved(vram_addr_attr)
           /\ f \in 8 .. 11 => chr_addr1 = PatternOf(next_chr, 0)
           /\ f >= 12 => chr_addr1 = PatternOf(next_chr, 1)
<1>1. x_final \in Nat
  BY Positions
<1>2. /\ f \in 0 .. 15 /\ Bits(x_final, 2, 2) = f \div 4
      /\ Bits(x_final, 3, 1) = f \div 8 /\ Bits(x_final, 2, 1) = (f \div 4) % 2
  BY <1>1, PhaseBits
<1>3. CASE f < 4
  BY <1>2, <1>3 DEF vram_addr1
<1>4. CASE f \in 4 .. 7
  BY <1>2, <1>4 DEF vram_addr1
<1>5. CASE f \in 8 .. 11
  <2>1. Bits(x_final, 3, 1) = 1 /\ Bits(x_final, 2, 1) = 0
    BY <1>2, <1>5
  <2> QED  BY <2>1, <1>2, <1>5 DEF chr_addr1, PatternOf, LineRow
<1>6. CASE f \in 12 .. 15
  <2>1. Bits(x_final, 3, 1) = 1 /\ Bits(x_final, 2, 1) = 1
    BY <1>2, <1>6
  <2> QED  BY <2>1, <1>2, <1>6 DEF chr_addr1, PatternOf, LineRow
<1> QED  BY <1>2, <1>3, <1>4, <1>5, <1>6

(* What is kept of it, and when.                                           *)
LEMMA Captures ==
    ASSUME PlaceTypes, Fetching, PixelClock, NEW f, f = x_final % 16
    PROVE  /\ next_chr' = IF f \in {2, 3} THEN vram_dout1 ELSE next_chr
           /\ next_paletteID' = IF f \in {6, 7} THEN vram_dout1 ELSE next_paletteID
           /\ next_lsTile' = IF f \in {10, 11} THEN chr_dout1 ELSE next_lsTile
           /\ next_msTile' = IF f \in {14, 15} THEN chr_dout1 ELSE next_msTile
<1>1. x_final \in Nat
  BY Positions
<1>2. f \in 0 .. 15 /\ Bits(x_final, 1, 3) = f \div 2
  BY <1>1, PhaseBits
<1>3. /\ f \div 2 = 1 <=> f \in {2, 3}
      /\ f \div 2 = 3 <=> f \in {6, 7}
      /\ f \div 2 = 5 <=> f \in {10, 11}
      /\ f \div 2 = 7 <=> f \in {14, 15}
  BY <1>2
<1> QED  BY <1>2, <1>3 DEF PixelClock, Capture

(* A pixel of a fetch: if the beam stays in the tile and so do its name,   *)
(* its row and, as long as they are to be its own, its attributes, then    *)
(* ports and registers hold what they should one pixel on.                 *)
LEMMA FetchStep ==
    ASSUME PlaceTypes, Fetching, PixelClock, TileFetched, NEW f, f = x_final % 16,
           (x_final % 16)' = f + 1,
           Name' = Name, Bits(LineRow, 1, 3)' = Bits(LineRow, 1, 3),
           Repeating => f >= 4,
           ~ (Repeating /\ Fine >= 8)' /\ f + 1 >= 7 =>
               ~ (Repeating /\ Fine >= 8) /\ Moved(vram_addr_attr)' = Moved(vram_addr_attr)
    PROVE  TileFetched'
<1> DEFINE own == ~ (Repeating /\ Fine >= 8)
           row == Bits(LineRow, 1, 3)
           attr == Moved(vram_addr_attr)
           Plane(k) == <<regs.table, Name, row, k>>
<1>1. /\ f \in 0 .. 15
      /\ f < 4 => vram_addr1 = Moved(vram_addr_tile)
      /\ f \in 4 .. 7 => vram_addr1 = attr
      /\ f \in 8 .. 11 => chr_addr1 = <<regs.table, next_chr, row, 0>>
      /\ f >= 12 => chr_addr1 = <<regs.table, next_chr, row, 1>>
  BY Reads DEF PatternOf
<1>2. /\ next_chr' = IF f \in {2, 3} THEN vram_dout1 ELSE next_chr
      /\ next_paletteID' = IF f \in {6, 7} THEN vram_dout1 ELSE next_paletteID
      /\ next_lsTile' = IF f \in {10, 11} THEN chr_dout1 ELSE next_lsTile
      /\ next_msTile' = IF f \in {14, 15} THEN chr_dout1 ELSE next_msTile
  BY Captures
<1>3. vram_dout1' = vram_addr1 /\ chr_dout1' = chr_addr1 /\ regs' = regs
  BY DEF PixelClock
<1>4. /\ f \in 3 .. 4 => vram_dout1 = Name
      /\ f >= 4 => next_chr = Name
      /\ own => /\ f \in 7 .. 8 => vram_dout1 = attr
                /\ f >= 8 => next_paletteID = attr
      /\ f \in 11 .. 12 => chr_dout1 = Plane(0)
      /\ f >= 12 => next_lsTile = Plane(0)
      /\ f \in 14 .. 15 => chr_dout1 = Plane(1)
      /\ f = 15 => next_msTile = Plane(1)
  BY DEF TileFetched, PatternOf
<1>5. f < 4 => vram_addr1 = Name
  BY <1>1 DEF Name
<1>6. \A k \in {0, 1} : PatternOf(Name, k)' = Plane(k)
  BY <1>3 DEF PatternOf
<1>7. own' /\ f + 1 >= 7 => own /\ attr' = attr
  OBVIOUS
<1> HIDE DEF own, row, attr, Plane
<1>8. /\ f + 1 \in 3 .. 4 => vram_dout1' = Name
      /\ f + 1 >= 4 => next_chr' = Name
  BY <1>1, <1>2, <1>3, <1>4, <1>5
<1>9. own' => /\ f + 1 \in 7 .. 8 => vram_dout1' = attr'
              /\ f + 1 >= 8 => next_paletteID' = attr'
  BY <1>1, <1>2, <1>3, <1>4, <1>7
<1>10. /\ f + 1 \in 11 .. 12 => chr_dout1' = Plane(0)
       /\ f + 1 \in 14 .. 15 => chr_dout1' = Plane(1)
  <2>1. f >= 8 => next_chr = Name
    BY <1>1, <1>4
  <2> QED
    BY <2>1, <1>1, <1>3 DEF Plane
<1>11. /\ f + 1 >= 12 => next_lsTile' = Plane(0)
       /\ f + 1 = 15 => next_msTile' = Plane(1)
  BY <1>1, <1>2, <1>4
<1>12. /\ own' <=> ~ (Repeating /\ Fine >= 8)'
       /\ attr' = Moved(vram_addr_attr)'
  BY DEF own, attr
<1> QED
  BY <1>6, <1>8, <1>9, <1>10, <1>11, <1>12 DEF TileFetched

-----------------------------------------------------------------------------
(* Addresses on the screen depend on the tile the beam is in.              *)
LEMMA TileOf ==
    ASSUME NEW v \in Nat
    PROVE  /\ v \div 16 \in Nat /\ v \div 64 = (v \div 16) \div 4 /\ v \div 512 = (v \div 16) \div 32
           /\ v % 16 < 15 => (v + 1) \div 16 = v \div 16 /\ (v + 1) % 16 = (v % 16) + 1
           /\ v % 16 = 15 => (v + 1) \div 16 = v \div 16 + 1 /\ (v + 1) % 16 = 0
           /\ (v + 16) \div 16 = v \div 16 + 1
<1>1. PICK t \in Nat, f \in 0 .. 15 :
             /\ v = 16 * t + f /\ v \div 16 = t /\ v % 16 = f
             /\ v \div 64 = t \div 4 /\ v \div 512 = t \div 32
             /\ (v \div 2) % 8 = f \div 2 /\ (v \div 4) % 4 = f \div 4
             /\ (v \div 8) % 2 = f \div 8 /\ (v \div 4) % 2 = (f \div 4) % 2
  BY Sixteens
<1>3. f < 15 => (v + 1) \div 16 = t /\ (v + 1) % 16 = f + 1
  BY <1>1
<1>4. f = 15 => (v + 1) \div 16 = t + 1 /\ (v + 1) % 16 = 0
  BY <1>1
<1>5. (v + 16) \div 16 = t + 1
  BY <1>1
<1> QED
  BY <1>1, <1>3, <1>4, <1>5

(* The address of the tile after the t-th of the two nametables' rows, as  *)
(* the code computes it, and as it should be.                              *)
TileAfter(r, t) ==
    (32 * r + (t % 32) + 1 + (IF t < 31 THEN 0 ELSE IF t < 32 THEN 1024 - 32 ELSE 1024)) % 2048
AttrAfter(q, t) ==
    960 + 8 * q + ((((t + 1) % 64) \div 4) % 8) + (IF t < 31 THEN 0 ELSE 1024)
TileAt(nt, r, t) == 1024 * ((t \div 32 + nt) % 2) + 32 * r + (t % 32)
AttrAt(nt, q, t) == 1024 * ((t \div 32 + nt) % 2) + 960 + 8 * q + ((t \div 4) % 8)

ScreenAddresses ==
    /\ x_final \div 16 \in 0 .. 63
    /\ vram_addr_tile = TileAfter(Bits(y_final, 4, 5), x_final \div 16)
    /\ vram_addr_attr = AttrAfter(Bits(y_final, 6, 3), x_final \div 16)
    /\ TileHere = TileAt(regs.nt, Bits(y_final, 4, 5), x_final \div 16)
    /\ AttrHere = AttrAt(regs.nt, Bits(y_final, 6, 3), x_final \div 16)

LEMMA OnScreen == PlaceTypes /\ ~ Prefetch => ScreenAddresses
<1> SUFFICES ASSUME PlaceTypes, ~ Prefetch PROVE ScreenAddresses
  OBVIOUS
<1> DEFINE t == x_final \div 16
<1>1. PICK x \in Nat : x = x_final /\ x < 1024
  BY Positions
<1>t. x \div 16 = t
  BY <1>1
<1> HIDE DEF t
<1>2. t \in Nat /\ x \div 64 = t \div 4 /\ x \div 512 = t \div 32 /\ (x + 16) \div 16 = t + 1
  BY <1>t, TileOf
<1>3. t < 64 /\ (x + 16 < 512 <=> t < 31) /\ (x + 16 < 528 <=> t < 32) /\ (x < 512 <=> t < 32)
  BY <1>1, <1>t, <1>2
<1>4. Bits(x, 4, 5) = t % 32 /\ Bits(x, 6, 3) = (t \div 4) % 8
  <2>1. Bits(x, 4, 5) = (x \div 16) % 32 /\ Bits(x, 6, 3) = (x \div 64) % 8
    BY BitsAre
  <2> QED
    BY <1>t, <1>2, <2>1
<1>5. vram_addr_tile = TileAfter(Bits(y_final, 4, 5), t)
  BY <1>1, <1>3, <1>4 DEF vram_addr_tile, TileAfter
<1>6. vram_addr_attr = AttrAfter(Bits(y_final, 6, 3), t)
  <2>1. PICK z \in Nat : z = nexttile /\ z = (x + 16) % 1024
    BY <1>1, Positions DEF nexttile
  <2>2. Bits(z, 6, 3) = (z \div 64) % 8
    BY BitsAre
  <2>3. z \div 64 = ((t + 1) % 64) \div 4
    <3>1. z = IF x < 1008 THEN x + 16 ELSE x - 1008
      BY <1>1, <2>1
    <3>2. (t + 1) % 64 = IF x < 1008 THEN t + 1 ELSE 0
      BY <1>1, <1>t
    <3> QED
      BY <1>1, <1>t, <3>1, <3>2
  <2> QED
    BY <1>1, <1>3, <2>1, <2>2, <2>3 DEF vram_addr_attr, AttrAfter
<1>7. TileHere = TileAt(regs.nt, Bits(y_final, 4, 5), t) /\ AttrHere = AttrAt(regs.nt, Bits(y_final, 6, 3), t)
  BY <1>1, <1>2, <1>4 DEF TileHere, AttrHere, Nametable, TileAt, AttrAt
<1> QED
  BY <1>2, <1>3, <1>5, <1>6, <1>7 DEF t, ScreenAddresses

(* The code's arithmetic is right where it matters: up to the last column  *)
(* the beam reaches, in the thirty rows of tiles.                          *)
RightAfter(nt, r, q, t) ==
    /\ TileAfter(r, t) # 0 /\ (TileAfter(r, t) + 1024 * nt) % 2048 = TileAt(nt, r, t + 1)
    /\ AttrAfter(q, t) # 0 /\ (AttrAfter(q, t) + 1024 * nt) % 2048 = AttrAt(nt, q, t + 1)

LEMMA AfterIsNext ==
    \A nt \in {0, 1}, r \in 0 .. 29, q \in 0 .. 7, t \in 0 .. 62 : RightAfter(nt, r, q, t)
<1> USE DEF RightAfter
<1> TAKE nt \in {0, 1}, r \in 0 .. 29, q \in 0 .. 7, t \in 0 .. 62
<1>1. CASE t < 31
  <2>1. t % 32 = t /\ (t + 1) % 32 = t + 1 /\ (t + 1) \div 32 = 0 /\ (t + 1) % 64 = t + 1
    BY <1>1
  <2>2. PICK c \in 0 .. 7 : c = (t + 1) \div 4 /\ c = ((t + 1) \div 4) % 8
    BY <1>1
  <2>3. TileAfter(r, t) = 32 * r + t + 1 /\ AttrAfter(q, t) = 960 + 8 * q + c
    BY <1>1, <2>1, <2>2 DEF TileAfter, AttrAfter
  <2> QED
    BY <1>1, <2>1, <2>2, <2>3 DEF TileAt, AttrAt
<1>2. CASE t = 31
  <2>1. TileAfter(r, t) = 32 * r + 1024 /\ AttrAfter(q, t) = 960 + 8 * q + 1024
    BY <1>2 DEF TileAfter, AttrAfter
  <2> QED
    BY <1>2, <2>1 DEF TileAt, AttrAt
<1>3. CASE t >= 32
  <2>1. t % 32 = t - 32 /\ (t + 1) % 32 = t - 31 /\ (t + 1) \div 32 = 1 /\ (t + 1) % 64 = t + 1
    BY <1>3
  <2>2. PICK c \in 0 .. 7 : c = ((t + 1) \div 4) % 8
    BY <1>3
  <2>3. TileAfter(r, t) = 32 * r + (t - 31) + 1024 /\ AttrAfter(q, t) = 960 + 8 * q + c + 1024
    BY <1>3, <2>1, <2>2 DEF TileAfter, AttrAfter
  <2> QED
    BY <1>3, <2>1, <2>2, <2>3 DEF TileAt, AttrAt
<1> QED
  BY <1>1, <1>2, <1>3

-----------------------------------------------------------------------------
(* One pixel on.                                                           *)
LEMMA Advance ==
    ASSUME PlaceTypes, PlaceTypes', PixelClock, Fetching'
    PROVE  /\ regs' = regs /\ Fine' = Fine
           /\ ~ Fetching => Prefetch' /\ Place' \in 0 .. 15
           /\ Fetching =>
                 /\ (steady' <=> steady) /\ Place \in Nat /\ Place' = Place + 1
                 /\ x_final % 16 = Place % 16 /\ (x_final % 16)' = (Place + 1) % 16
                 /\ ~ Prefetch => /\ ~ Prefetch' /\ vc' = vc /\ x_final' = x_final + 1
                                  /\ y_final' = y_final
                 /\ Prefetch => Place <= 31 + Fine /\ Place' >= Fine
                 /\ Prefetch /\ ~ Prefetch' => Place = 31 + Fine
                 /\ ~ Prefetch \/ Prefetch' \/ vc' > 0 => LineRow' = LineRow
<1>1. /\ hc \in 0 .. 799 /\ vc \in Nat /\ regs' = regs
      /\ regs.scroll_x \in 0 .. 255 /\ regs.scroll_y \in 0 .. 255
      /\ Fine \in {0, 2, 4, 6, 8, 10, 12, 14}
  BY Positions DEF PixelClock
<1>2. /\ hc' = IF hc = 799 THEN 0 ELSE hc + 1
      /\ vc' = IF hc # 799 THEN vc ELSE IF vc = vlines THEN 0 ELSE vc + 1
  BY DEF PlaceTypes, PixelClock, Next, Counters
<1>3. Fine' = Fine
  BY <1>1 DEF Fine
<1>4. CASE ~ Fetching
  <2>1. hc = 767 /\ hc' = 768
    BY <1>1, <1>2, <1>4 DEF Fetching
  <2>2. Prefetch' /\ Place' \in 0 .. 15
    BY <1>1, <1>3, <2>1 DEF Prefetch, Place
  <2> QED
    BY <1>1, <1>3, <1>4, <2>2
<1>5. CASE Fetching
  <2>1. /\ hc \in 0 .. 510 \/ hc \in 768 .. 798 \/ hc = 799
        /\ hc < 799 => hc' = hc + 1 /\ vc' = vc
    BY <1>1, <1>2, <1>5 DEF Fetching
  <2>2. steady' <=> steady
    <3>1. hc' # 768
      BY <1>2, <2>1
    <3> QED
      BY <3>1, Zenon DEF PixelClock
  <2>3. Place' = Place + 1
    BY <1>1, <1>2, <1>3, <2>1 DEF Place, Prefetch
  <2>4. PhaseIsPlace /\ PhaseIsPlace'
    <3>1. (PlaceTypes /\ Fetching => PhaseIsPlace)'
      BY Phase, PTL
    <3> QED
      BY <1>5, <3>1, Phase
  <2>5. ~ Prefetch => /\ ~ Prefetch' /\ vc' = vc /\ x_final' = x_final + 1 /\ y_final' = y_final
    <3> SUFFICES ASSUME ~ Prefetch
                 PROVE  ~ Prefetch' /\ vc' = vc /\ x_final' = x_final + 1 /\ y_final' = y_final
      OBVIOUS
    <3>1. hc \in 0 .. 510 /\ hc' = hc + 1 /\ vc' = vc
      BY <2>1 DEF Prefetch
    <3>2. ~ Prefetch'
      BY <3>1 DEF Prefetch
    <3>3. x_final = hc + 2 * regs.scroll_x
      BY Positions
    <3>4. PICK x \in Nat : x = hc + 1 + 2 * regs.scroll_x /\ x < 1024
      BY <1>1, <3>1, SMTT(30)
    <3>5. x_final' = x % 1024 /\ y_final' = y_final
      BY <1>1, <3>1, <3>4 DEF x_final, y_final
    <3>6. x_final' = x
      BY <3>4, <3>5, TenBits
    <3> QED
      BY <1>1, <3>1, <3>2, <3>3, <3>4, <3>5, <3>6
  <2>6. Prefetch => hc >= 768
    BY <2>1 DEF Prefetch
  <2>7. Prefetch => Place <= 31 + Fine /\ Place' >= Fine
    BY <1>1, <2>1, <2>3, <2>6 DEF Place
  <2>8. Prefetch /\ ~ Prefetch' => hc = 799
    BY <1>2, <2>1, <2>6 DEF Prefetch
  <2>9. Prefetch /\ ~ Prefetch' => Place = 31 + Fine
    BY <1>1, <2>8 DEF Place, Prefetch
  <2>10. ~ Prefetch \/ Prefetch' \/ vc' > 0 => LineRow' = LineRow
    <3>1. CASE ~ Prefetch
      BY <2>5, <3>1 DEF LineRow
    <3>2. CASE Prefetch /\ Prefetch'
      <4>1. vc' = vc
        BY <1>1, <1>2, <2>1, <3>2 DEF Prefetch
      <4> QED
        BY <1>1, <3>2, <4>1 DEF LineRow, nextline, y_final
    <3>3. CASE Prefetch /\ ~ Prefetch' /\ vc' > 0
      <4>1. vc' = vc + 1
        BY <1>2, <2>8, <3>3
      <4>2. PICK y \in Nat : y = vc + 2 * regs.scroll_y
        BY <1>1, SMTT(30)
      <4>3. y_final = y % 1024 /\ y_final' = (y + 1) % 1024
        BY <1>1, <4>1, <4>2 DEF y_final
      <4>4. nextline = (y + 1) % 1024
        BY <4>3 DEF nextline
      <4> QED
        BY <3>3, <4>3, <4>4 DEF LineRow
    <3> QED
      BY <3>1, <3>2, <3>3
  <2> QED
    BY <1>1, <1>3, <1>5, <2>2, <2>3, <2>4, <2>5, <2>7, <2>9, <2>10 DEF PhaseIsPlace
<1> QED
  BY <1>4, <1>5

(* Inside a tile nothing that the fetches depend on changes.               *)
LEMMA SameTile ==
    ASSUME PlaceTypes, PlaceTypes', PixelClock, Fetching, Fetching',
           Prefetch' <=> Prefetch, x_final % 16 < 15
    PROVE  /\ vram_addr_tile' = vram_addr_tile /\ vram_addr_attr' = vram_addr_attr
           /\ FirstName' = FirstName /\ FirstAttr' = FirstAttr
           /\ Name' = Name /\ (Repeating' <=> Repeating)
           /\ \A n : Moved(n)' = Moved(n)
           /\ ~ Prefetch => TileHere' = TileHere /\ AttrHere' = AttrHere
<1>1. /\ regs' = regs /\ Fine' = Fine
      /\ Place \in Nat /\ Place' = Place + 1 /\ Place % 16 < 15
      /\ ~ Prefetch => x_final' = x_final + 1 /\ y_final' = y_final
      /\ LineRow' = LineRow
  BY Advance
<1>2. \A n : Moved(n)' = Moved(n)
  BY <1>1 DEF Moved
<1>3. FirstName' = FirstName /\ FirstAttr' = FirstAttr
  BY <1>1 DEF FirstName, FirstAttr, Moved
<1>4. Place < 48 <=> Place' < 48
  BY <1>1
<1>5. Repeating' <=> Repeating
  BY <1>1, <1>4 DEF Repeating
<1>6. CASE Prefetch
  <2>1. nextline' = nextline
    BY <1>1, <1>6 DEF LineRow
  <2>2. vram_addr_tile' = vram_addr_tile /\ vram_addr_attr' = vram_addr_attr
    BY <1>1, <1>6, <2>1 DEF vram_addr_tile, vram_addr_attr
  <2> QED
    BY <1>2, <1>3, <1>5, <1>6, <2>2, <1>1 DEF Name, Moved
<1>7. CASE ~ Prefetch
  <2>1. ScreenAddresses /\ ScreenAddresses'
    <3>1. (PlaceTypes /\ ~ Prefetch => ScreenAddresses)'
      BY OnScreen, PTL
    <3> QED
      BY <1>7, <3>1, OnScreen
  <2>2. (x_final \div 16)' = x_final \div 16
    <3>1. PICK x \in Nat : x = x_final
      BY Positions
    <3> QED
      BY <1>1, <1>7, <3>1, TileOf
  <2>3. vram_addr_tile' = vram_addr_tile /\ vram_addr_attr' = vram_addr_attr
    BY <1>1, <1>7, <2>1, <2>2 DEF ScreenAddresses
  <2>4. TileHere' = TileHere /\ AttrHere' = AttrHere
    BY <1>1, <1>7, <2>1, <2>2 DEF ScreenAddresses
  <2> QED
    BY <1>1, <1>2, <1>3, <1>5, <1>7, <2>3, <2>4 DEF Name, Moved
<1> QED
  BY <1>6, <1>7

(* At its end what has been fetched is the next tile's.                    *)
LEMMA NextTile ==
    ASSUME PlaceTypes, PlaceTypes', PixelClock, Fetching, Fetching', ~ Prefetch,
           x_final % 16 = 15, y_final < 480
    PROVE  Moved(vram_addr_tile) = TileHere' /\ Moved(vram_addr_attr) = AttrHere'
<1>1. /\ regs' = regs /\ y_final' = y_final /\ x_final' = x_final + 1 /\ ~ Prefetch'
      /\ regs.nt \in {0, 1} /\ x_final \in Nat /\ y_final \in Nat
  BY Advance, Positions
<1>2. ScreenAddresses /\ ScreenAddresses'
  <2>1. (PlaceTypes /\ ~ Prefetch => ScreenAddresses)'
    BY OnScreen, PTL
  <2> QED
    BY <1>1, <2>1, OnScreen
<1> DEFINE col == x_final \div 16
           row == Bits(y_final, 4, 5)
           quad == Bits(y_final, 6, 3)
<1>3. (x_final \div 16)' = col + 1 /\ col \in Nat
  BY <1>1, TileOf
<1>4. row \in 0 .. 29 /\ quad \in 0 .. 7
  <2>1. row = (y_final \div 16) % 32 /\ quad = (y_final \div 64) % 8
    BY <1>1, BitsAre
  <2> HIDE DEF row, quad
  <2> QED
    BY <1>1, <2>1
<1>5. /\ vram_addr_tile = TileAfter(row, col) /\ vram_addr_attr = AttrAfter(quad, col)
      /\ TileHere' = TileAt(regs.nt, row, col + 1) /\ AttrHere' = AttrAt(regs.nt, quad, col + 1)
      /\ col + 1 <= 63
  BY <1>1, <1>2, <1>3 DEF ScreenAddresses
<1> HIDE DEF col, row, quad
<1>6. /\ TileAfter(row, col) # 0 /\ (TileAfter(row, col) + 1024 * regs.nt) % 2048 = TileAt(regs.nt, row, col + 1)
      /\ AttrAfter(quad, col) # 0 /\ (AttrAfter(quad, col) + 1024 * regs.nt) % 2048 = AttrAt(regs.nt, quad, col + 1)
  <2>1. regs.nt \in {0, 1} /\ row \in 0 .. 29 /\ quad \in 0 .. 7 /\ col \in 0 .. 62
    BY <1>1, <1>3, <1>4, <1>5
  <2>2. RightAfter(regs.nt, row, quad, col)
    BY <2>1, AfterIsNext, Zenon
  <2> QED
    BY <2>2 DEF RightAfter
<1> QED
  BY <1>5, <1>6 DEF Moved

-----------------------------------------------------------------------------
(* The fetches go on as they should.                                       *)
LEMMA FetchKept ==
    ASSUME PlaceTypes, PlaceTypes', PixelClock, FetchInv
    PROVE  FetchInv'
<1> SUFFICES ASSUME steady', Fetching', (Place >= 16)', Repeating' => vc' > 0
             PROVE  TileFetched'
  BY Zenon DEF FetchInv
<1>1. Fine \in {0, 2, 4, 6, 8, 10, 12, 14}
  BY Positions
<1>2. /\ regs' = regs /\ Fine' = Fine /\ Fetching
      /\ (steady <=> steady') /\ Place \in Nat /\ Place' = Place + 1
      /\ x_final % 16 = Place % 16 /\ (x_final % 16)' = (Place + 1) % 16
      /\ ~ Prefetch => ~ Prefetch' /\ vc' = vc
      /\ Prefetch /\ ~ Prefetch' => Place = 31 + Fine
      /\ ~ Prefetch \/ Prefetch' \/ vc' > 0 => LineRow' = LineRow
  <2>1. Place' >= 16
    OBVIOUS
  <2>2. Fetching
    BY <2>1, Advance
  <2> QED
    BY <2>2, Advance
<1>3. PICK p \in Nat, f \in 0 .. 15 : Place = p /\ f = p % 16 /\ p >= 15
  BY <1>2
<1>4. x_final % 16 = f /\ (x_final % 16)' = IF f = 15 THEN 0 ELSE f + 1
  BY <1>2, <1>3
<1>5. CASE f = 15
  BY <1>4, <1>5 DEF TileFetched
<1>6. CASE f < 15 /\ (Prefetch' <=> Prefetch)
  <2>1. /\ Name' = Name /\ (Repeating' <=> Repeating)
        /\ Moved(vram_addr_attr)' = Moved(vram_addr_attr)
    BY <1>2, <1>4, <1>6, SameTile DEF Moved
  <2>2. LineRow' = LineRow
    BY <1>2, <1>6
  <2>3. TileFetched
    <3>1. p >= 16
      BY <1>3, <1>6
    <3>2. Repeating => vc > 0
      BY <1>2, <2>1 DEF Repeating
    <3> QED
      BY <1>2, <1>3, <3>1, <3>2 DEF FetchInv
  <2>4. Repeating => f >= 4
    <3>1. Repeating => p \in 36 .. 47
      BY <1>1, <1>3, Positions DEF Repeating, Place
    <3> QED
      BY <1>3, <3>1
  <2> QED
    BY <1>2, <1>4, <1>6, <2>1, <2>2, <2>3, <2>4, FetchStep
<1>7. CASE f < 15 /\ ~ (Prefetch' <=> Prefetch)
  <2>1. Prefetch /\ ~ Prefetch' /\ p = 31 + Fine /\ ~ Repeating /\ f = Fine - 1
    BY <1>1, <1>2, <1>3, <1>7 DEF Repeating
  <2>2. TileFetched
    BY <1>1, <1>2, <1>3, <2>1 DEF FetchInv
  <2>3. CASE Fine = 2
    <3>1. (x_final % 16)' = 2
      BY <1>4, <2>1, <2>3
    <3> QED
      BY <3>1 DEF TileFetched
  <2>4. CASE Fine >= 4
    <3>1. Place' < 48
      BY <1>1, <1>2, <1>3, <2>1
    <3>2. Repeating'
      BY <1>2, <2>1, <2>4, <3>1 DEF Repeating
    <3>3. LineRow' = LineRow
      BY <1>2, <3>2
    <3>4. Name = FirstName
      BY <2>1 DEF Name, vram_addr_tile, FirstName, LineRow
    <3>5. Name' = Name
      BY <1>2, <3>2, <3>3, <3>4 DEF Name, FirstName, Moved
    <3>6. ~ (Repeating /\ Fine >= 8)' => f + 1 < 7
      BY <1>1, <1>2, <2>1, <3>2
    <3> QED
      BY <1>2, <1>4, <1>7, <2>1, <2>2, <3>3, <3>5, <3>6, FetchStep
  <2> QED
    BY <1>1, <2>1, <2>3, <2>4, <1>3
<1> QED
  BY <1>5, <1>6, <1>7

(* What is shown stays until the tile ends, and then it is what has been   *)
(* fetched: the first tile, that one again, or the next.                   *)
LEMMA ShownKept ==
    ASSUME PlaceTypes, PlaceTypes', PixelClock, FetchInv, ShownInv
    PROVE  ShownInv'
<1> SUFFICES ASSUME steady', Fetching'
             PROVE  /\ Place' \in 32 .. 47 /\ (Prefetch' \/ vc' > 0) => FirstShown'
                    /\ ~ Prefetch' /\ y_final' < 480 /\ Place' \in 48 .. 63 /\ Fine' >= 4 /\ vc' > 0
                          => RepeatShown'
                    /\ ~ Prefetch' /\ y_final' < 480 /\ Place' >= 48 /\ (Place' >= 64 \/ Fine' < 4)
                          => HereShown'
  BY Zenon DEF ShownInv
<1>1. Fine \in {0, 2, 4, 6, 8, 10, 12, 14} /\ vc \in Nat
  BY Positions
<1>2. CASE ~ Fetching
  BY <1>2, Advance
<1>3. CASE Fetching
  <2>1. /\ regs' = regs /\ Fine' = Fine
        /\ (steady <=> steady') /\ Place \in Nat /\ Place' = Place + 1
        /\ x_final % 16 = Place % 16
        /\ ~ Prefetch => ~ Prefetch' /\ vc' = vc /\ y_final' = y_final
        /\ Prefetch => Place <= 31 + Fine
        /\ ~ Prefetch \/ Prefetch' \/ vc' > 0 => LineRow' = LineRow
    BY <1>3, Advance
  <2>2. \A n, k : LineRow' = LineRow => PatternOf(n, k)' = PatternOf(n, k)
    BY <2>1 DEF PatternOf
  <2>3. LineRow' = LineRow => FirstName' = FirstName /\ FirstAttr' = FirstAttr
    BY <2>1 DEF FirstName, FirstAttr, Moved
  <2>4. ~ Prefetch => LineRow = y_final /\ LineRow' = y_final /\ Place >= 32 + Fine
    BY <2>1, <1>1, Positions DEF LineRow, Place
  <2>5. CASE x_final % 16 < 15
    <3>1. shown' = shown
      BY <2>5 DEF PixelClock, Show, EndOfTile, shown
    <3>2. curr_lsTile' = curr_lsTile /\ curr_msTile' = curr_msTile /\ curr_paletteID' = curr_paletteID
      BY <3>1 DEF shown
    <3>3. ASSUME Place' \in 32 .. 47, Prefetch' \/ vc' > 0 PROVE FirstShown'
      <4>1. Place \in 32 .. 47
        BY <2>1, <2>5, <3>3
      <4>2. LineRow' = LineRow /\ FirstShown
        BY <1>3, <2>1, <3>3, <4>1 DEF ShownInv
      <4>3. FirstName' = FirstName /\ FirstAttr' = FirstAttr
        BY <2>3, <4>2
      <4> QED
        BY <2>1, <3>2, <4>2, <4>3 DEF FirstShown, PatternOf
    <3>4. ASSUME ~ Prefetch', y_final' < 480, Place' >= 48
          PROVE  /\ ~ Prefetch /\ y_final < 480 /\ Place >= 48 /\ (Place' >= 64 => Place >= 64)
                 /\ AttrHere' = AttrHere /\ TileHere' = TileHere
      <4>1. Place >= 48 /\ (Place' >= 64 => Place >= 64)
        BY <2>1, <2>5, <3>4
      <4>2. ~ Prefetch /\ y_final' = y_final
        BY <1>1, <2>1, <4>1
      <4> QED
        BY <1>3, <2>1, <2>5, <3>4, <4>1, <4>2, SameTile
    <3>5. ASSUME ~ Prefetch', y_final' < 480, Place' \in 48 .. 63, Fine' >= 4, vc' > 0
          PROVE  RepeatShown'
      <4>1. ~ Prefetch /\ y_final < 480 /\ Place \in 48 .. 63 /\ AttrHere' = AttrHere
        BY <2>1, <3>4, <3>5
      <4>2. RepeatShown /\ LineRow' = LineRow
        BY <1>3, <2>1, <3>5, <4>1 DEF ShownInv
      <4>3. FirstName' = FirstName
        BY <2>3, <4>2
      <4> QED
        BY <2>1, <3>2, <4>1, <4>2, <4>3 DEF RepeatShown, PatternOf
    <3>6. ASSUME ~ Prefetch', y_final' < 480, Place' >= 48, Place' >= 64 \/ Fine' < 4
          PROVE  HereShown'
      <4>1. /\ ~ Prefetch /\ y_final < 480 /\ Place >= 48 /\ (Place' >= 64 => Place >= 64)
            /\ AttrHere' = AttrHere /\ TileHere' = TileHere
        BY <3>4, <3>6
      <4>2. HereShown /\ y_final' = y_final
        BY <1>3, <2>1, <3>6, <4>1 DEF ShownInv
      <4> QED
        BY <2>1, <3>2, <4>1, <4>2 DEF HereShown, PatternHere
    <3> QED
      BY <3>3, <3>5, <3>6
  <2>6. CASE x_final % 16 = 15
    <3>1. /\ curr_lsTile' = next_lsTile /\ curr_msTile' = next_msTile
          /\ curr_paletteID' = next_paletteID
      BY <1>3, <2>6 DEF PixelClock, Show, EndOfTile
    <3>2. PICK p \in Nat : Place = p /\ p % 16 = 15
      BY <2>1, <2>6
    <3>3. ASSUME p >= 16, Repeating => vc > 0
          PROVE  /\ curr_lsTile' = PatternOf(Name, 0) /\ curr_msTile' = PatternOf(Name, 1)
                 /\ ~ (Repeating /\ Fine >= 8) => curr_paletteID' = Moved(vram_addr_attr)
      <4>1. TileFetched
        BY <1>3, <2>1, <3>2, <3>3 DEF FetchInv
      <4> QED
        BY <2>6, <3>1, <4>1 DEF TileFetched
    <3>4. ASSUME Place' \in 32 .. 47, Prefetch' \/ vc' > 0 PROVE FirstShown'
      <4>1. p = 31 /\ Prefetch
        BY <1>1, <2>1, <2>4, <3>2, <3>4
      <4>2. ~ Repeating
        BY <4>1 DEF Repeating
      <4>3. Name = FirstName /\ Moved(vram_addr_attr) = FirstAttr
        BY <4>1, <4>2 DEF Name, vram_addr_tile, vram_addr_attr, FirstName, FirstAttr, LineRow
      <4>4. LineRow' = LineRow
        BY <2>1, <3>4
      <4> QED
        BY <2>1, <2>3, <3>3, <4>1, <4>2, <4>3, <4>4 DEF FirstShown, PatternOf
    <3>5. ASSUME ~ Prefetch', y_final' < 480, Place' >= 48
          PROVE  /\ ~ Prefetch /\ y_final < 480 /\ p >= 47 /\ LineRow' = LineRow /\ LineRow = y_final'
                 /\ Moved(vram_addr_tile) = TileHere' /\ Moved(vram_addr_attr) = AttrHere'
      <4>1. ~ Prefetch /\ p >= 47
        BY <1>1, <2>1, <3>2, <3>5
      <4> QED
        BY <1>3, <2>1, <2>4, <2>6, <3>5, <4>1, NextTile
    <3>6. ASSUME ~ Prefetch', y_final' < 480, Place' \in 48 .. 63, Fine' >= 4, vc' > 0
          PROVE  RepeatShown'
      <4>1. p = 47 /\ ~ Prefetch /\ LineRow' = LineRow /\ Moved(vram_addr_attr) = AttrHere'
        BY <2>1, <3>2, <3>5, <3>6
      <4>2. Repeating /\ Name = FirstName /\ vc > 0
        BY <2>1, <3>2, <3>6, <4>1 DEF Repeating, Name
      <4> QED
        BY <1>1, <2>1, <2>3, <3>3, <4>1, <4>2 DEF RepeatShown, PatternOf
    <3>7. ASSUME ~ Prefetch', y_final' < 480, Place' >= 48, Place' >= 64 \/ Fine' < 4
          PROVE  HereShown'
      <4>1. /\ p >= 47 /\ LineRow = y_final'
            /\ Moved(vram_addr_tile) = TileHere' /\ Moved(vram_addr_attr) = AttrHere'
        BY <3>5, <3>7
      <4>2. ~ Repeating
        BY <1>1, <2>1, <3>2, <3>7, <4>1 DEF Repeating
      <4>3. Name = TileHere'
        BY <4>1, <4>2 DEF Name
      <4> QED
        BY <2>1, <3>3, <4>1, <4>2, <4>3 DEF HereShown, PatternHere, PatternOf
    <3> QED
      BY <3>4, <3>6, <3>7
  <2> QED
    BY <2>1, <2>5, <2>6, PhaseBits
<1> QED
  BY <1>2, <1>3

-----------------------------------------------------------------------------
(* What the first tile was fetched from, on the line it is shown on.       *)
LEMMA FirstTileIs ==
    ASSUME PlaceTypes, ~ Prefetch, y_final < 480
    PROVE  LET r == Bits(y_final, 4, 5)
               q == Bits(y_final, 6, 3)
               t == regs.scroll_x \div 8
           IN  /\ regs.nt \in {0, 1} /\ r \in 0 .. 29 /\ q \in 0 .. 7 /\ t \in 0 .. 31
               /\ FirstName = IF t = 0 /\ r = 0 THEN 0 ELSE 1024 * regs.nt + 32 * r + t
               /\ FirstAttr = 1024 * regs.nt + 960 + 8 * q + (t \div 4)
<1> DEFINE r == Bits(y_final, 4, 5)
           q == Bits(y_final, 6, 3)
           t == regs.scroll_x \div 8
<1>1. y_final \in Nat /\ regs.scroll_x \in 0 .. 255 /\ regs.scroll_x \in Nat
  BY Positions
<1>y. PICK y \in Nat : y = y_final /\ y < 480
  BY <1>1
<1>s. PICK s \in Nat : s = regs.scroll_x /\ s <= 255
  BY <1>1
<1>2. regs.nt \in {0, 1} /\ LineRow = y_final
  BY Positions DEF LineRow
<1>3. /\ Bits(y, 4, 5) = (y \div 16) % 32 /\ Bits(y, 6, 3) = (y \div 64) % 8
      /\ Bits(s, 3, 5) = (s \div 8) % 32 /\ Bits(s, 5, 3) = (s \div 32) % 8
  <2>1. Bits(y, 4, 5) = (y \div 16) % 32 /\ Bits(y, 6, 3) = (y \div 64) % 8
    BY BitsAre
  <2>2. Bits(s, 3, 5) = (s \div 8) % 32 /\ Bits(s, 5, 3) = (s \div 32) % 8
    BY BitsAre
  <2> QED
    BY <2>1, <2>2
<1>4. r = (y \div 16) % 32 /\ q = (y \div 64) % 8 /\ t = s \div 8
  BY <1>y, <1>s, <1>3
<1>5. Bits(regs.scroll_x, 3, 5) = t /\ Bits(regs.scroll_x, 5, 3) = t \div 4
  BY <1>s, <1>3, <1>4
<1> HIDE DEF r, q, t
<1>6. r \in 0 .. 29 /\ q \in 0 .. 7 /\ t \in 0 .. 31
  BY <1>y, <1>s, <1>4
<1>7. FirstName = Moved(32 * r + t) /\ FirstAttr = Moved(960 + 8 * q + (t \div 4))
  BY <1>2, <1>5 DEF FirstName, FirstAttr, r, q
<1>8. FirstName = IF t = 0 /\ r = 0 THEN 0 ELSE 1024 * regs.nt + 32 * r + t
  <2>1. PICK i \in 0 .. 959 : i = 32 * r + t /\ (i = 0 <=> t = 0 /\ r = 0)
    BY <1>6
  <2>2. Moved(i) = IF i = 0 THEN 0 ELSE i + 1024 * regs.nt
    <3>1. CASE regs.nt = 0
      BY <2>1, <3>1 DEF Moved
    <3>2. CASE regs.nt = 1
      BY <2>1, <3>2 DEF Moved
    <3> QED
      BY <1>2, <3>1, <3>2
  <2>3. FirstName = Moved(i)
    BY <1>7, <2>1
  <2> QED
    BY <1>2, <1>6, <2>1, <2>2, <2>3
<1>9. FirstAttr = 1024 * regs.nt + 960 + 8 * q + (t \div 4)
  <2>1. PICK i \in 960 .. 1023 : i = 960 + 8 * q + (t \div 4)
    BY <1>6
  <2>2. Moved(i) = i + 1024 * regs.nt
    <3>1. CASE regs.nt = 0
      BY <2>1, <3>1 DEF Moved
    <3>2. CASE regs.nt = 1
      BY <2>1, <3>2 DEF Moved
    <3> QED
      BY <1>2, <3>1, <3>2
  <2>3. FirstAttr = Moved(i)
    BY <1>7, <2>1
  <2> QED
    BY <1>2, <1>6, <2>1, <2>2, <2>3
<1> QED
  BY <1>2, <1>6, <1>8, <1>9 DEF r, q, t

(* It is the one the scrolled position names, but for the address 0.       *)
LEMMA FirstTileHere ==
    ASSUME PlaceTypes, ~ Prefetch, y_final < 480, Place < 48
    PROVE  FirstAttr = AttrHere /\ (TileHere # 1024 => FirstName = TileHere)
<1>1. ScreenAddresses
  BY OnScreen
<1> DEFINE r == Bits(y_final, 4, 5)
           q == Bits(y_final, 6, 3)
           t == regs.scroll_x \div 8
<1>2. /\ regs.nt \in {0, 1} /\ r \in 0 .. 29 /\ q \in 0 .. 7 /\ t \in 0 .. 31
      /\ FirstName = IF t = 0 /\ r = 0 THEN 0 ELSE 1024 * regs.nt + 32 * r + t
      /\ FirstAttr = 1024 * regs.nt + 960 + 8 * q + (t \div 4)
  BY FirstTileIs
<1>3. x_final \div 16 = t
  <2>1. regs.scroll_x \in 0 .. 255 /\ hc \in Nat /\ x_final = hc + 2 * regs.scroll_x
    BY Positions
  <2>2. PICK k \in Nat, s \in 0 .. 7 : regs.scroll_x = 8 * k + s /\ regs.scroll_x % 8 = s
    <3>1. regs.scroll_x \in Nat
      BY <2>1
    <3> QED
      BY <3>1, Eights, Zenon
  <2>3. t = k
    BY <2>2
  <2>4. hc + 2 * s < 16
    BY <2>1, <2>2 DEF Place, Fine
  <2> QED
    BY <2>1, <2>2, <2>3, <2>4
<1>4. TileHere = TileAt(regs.nt, r, t) /\ AttrHere = AttrAt(regs.nt, q, t)
  BY <1>1, <1>3 DEF ScreenAddresses
<1> HIDE DEF r, q, t
<1>5. t \div 32 = 0 /\ t % 32 = t /\ (t \div 4) % 8 = t \div 4 /\ regs.nt % 2 = regs.nt
  BY <1>2
<1>6. TileHere = 1024 * regs.nt + 32 * r + t
  BY <1>2, <1>4, <1>5 DEF TileAt
<1>7. AttrHere = 1024 * regs.nt + 960 + 8 * q + (t \div 4)
  BY <1>2, <1>4, <1>5 DEF AttrAt
<1> QED
  BY <1>2, <1>6, <1>7

(* The invariant says what the two properties of the picture say.          *)
LEMMA InvShows ==
    ASSUME PlaceTypes, ShownInv
    PROVE  BackgroundShown /\ SecondTileRepeats
<1> SUFFICES ASSUME Steady PROVE BackgroundShown /\ SecondTileRepeats
  BY DEF BackgroundShown, SecondTileRepeats
<1>1. /\ hc \in 0 .. 511 /\ vc \in Nat /\ y_final < 480 /\ steady
      /\ Fine \in {0, 2, 4, 6, 8, 10, 12, 14}
  BY Positions DEF Steady
<1>2. /\ ~ Prefetch /\ Fetching /\ Place = hc + 32 + Fine /\ Place >= 32 /\ LineRow = y_final
  BY <1>1 DEF Prefetch, Fetching, Place, LineRow
<1>3. (FirstTile <=> Place < 48) /\ (SecondTile <=> Place \in 48 .. 63)
  BY <1>1, <1>2 DEF FirstTile, SecondTile
<1>4. BackgroundShown
  <2> SUFFICES ASSUME ~ (SecondTile /\ Fine >= 4), ~ (FirstTile /\ vc = 0),
                      ~ (FirstTile /\ TileHere = 1024)
               PROVE  HereShown
    BY DEF BackgroundShown, HereShown
  <2>1. CASE FirstTile
    <3>1. FirstShown
      BY <1>1, <1>2, <1>3, <2>1 DEF ShownInv
    <3>2. FirstAttr = AttrHere /\ FirstName = TileHere
      BY <1>1, <1>2, <1>3, <2>1, FirstTileHere
    <3> QED
      BY <1>2, <3>1, <3>2 DEF FirstShown, HereShown, PatternOf, PatternHere
  <2>2. CASE ~ FirstTile
    BY <1>1, <1>2, <1>3, <2>2 DEF ShownInv
  <2> QED
    BY <2>1, <2>2
<1>5. SecondTileRepeats
  <2> SUFFICES ASSUME SecondTile, Fine >= 4, vc > 0 PROVE SecondTileRepeats
    BY DEF SecondTileRepeats
  <2>1. RepeatShown
    BY <1>1, <1>2, <1>3 DEF ShownInv
  <2>2. FirstName = IF regs.scroll_x < 8 /\ Bits(y_final, 4, 5) = 0 THEN 0
                    ELSE 1024 * regs.nt + 32 * Bits(y_final, 4, 5) + regs.scroll_x \div 8
    <3>1. regs.scroll_x \div 8 = 0 <=> regs.scroll_x < 8
      BY Positions
    <3> QED
      BY <1>1, <1>2, <3>1, FirstTileIs
  <2> QED
    BY <1>2, <2>1, <2>2 DEF RepeatShown, PatternOf, SecondTileRepeats
<1> QED
  BY <1>4, <1>5

-----------------------------------------------------------------------------
(* Both pulses are right one pixel clock from any well-typed position:     *)
(* what they are now does not matter, they are decided afresh.             *)
LEMMA StepWindows ==
    ASSUME TypeOK, Next
    PROVE  TypeOK' /\ HsyncWindow' /\ VsyncWindow'
<1>a. /\ hc' = IF hc = hpixels THEN 0 ELSE hc + 1
      /\ vc' = IF hc # hpixels THEN vc ELSE IF vc = vlines THEN 0 ELSE vc + 1
      /\ hc \in 0 .. hpixels /\ vc \in 0 .. vlines
  BY DEF Next, Counters, TypeOK
<1>h. ~hs' <=> HsFirst <= hc + 1 /\ hc + 1 < HsEnd
  BY DEF Next, Hsync
<1>v. ~vs' <=> vc + 1 \in {VsFirst, VsFirst + 1}
  BY DEF Next, Vsync
<1>b. hs' \in BOOLEAN /\ vs' \in BOOLEAN
  BY Zenon DEF Next, Hsync, Vsync
<1>1. TypeOK'
  <2>1. hc' \in 0 .. hpixels /\ vc' \in 0 .. vlines
    BY <1>a, TimingAssumption
  <2> QED
    BY <2>1, <1>b DEF TypeOK
<1>2. HsyncWindow'
  <2>1. ~hs' <=> hc' \in HsFirst .. HsEnd - 1
    BY <1>a, <1>h, TimingAssumption
  <2> QED
    BY <2>1 DEF HsyncWindow
<1>3. VsyncWindow'
  <2>1. ~vs' <=> \/ vc' = VsFirst - 1 /\ hc' > 0
                 \/ vc' = VsFirst
                 \/ vc' = VsFirst + 1 /\ hc' = 0
    <3>1. CASE hc = hpixels /\ vc = vlines
      BY <3>1, <1>a, <1>v, TimingAssumption
    <3>2. CASE hc = hpixels /\ vc # vlines
      BY <3>2, <1>a, <1>v, TimingAssumption
    <3>3. CASE hc # hpixels
      BY <3>3, <1>a, <1>v, TimingAssumption
    <3> QED
      BY <3>1, <3>2, <3>3
  <2> QED
    BY <2>1 DEF VsyncWindow
<1> QED
  BY <1>1, <1>2, <1>3

LEMMA BeamStart == Init => TypeOK
<1>1. 0 \in 0 .. hpixels /\ 0 \in 0 .. vlines
  BY TimingAssumption
<1> QED
  BY <1>1, Zenon DEF Init, TypeOK

-----------------------------------------------------------------------------
(* The types of the fetched bytes.                                         *)
LEMMA AddressTypes ==
    ASSUME BackgroundTypeOK, hpixels = 799
    PROVE  vram_addr1 \in VramByte /\ chr_addr1 \in Pattern \cup {NoPattern}
<1>1. PlaceTypes /\ next_chr \in VramByte /\ regs.table \in {0, 1}
  BY SettingsAssumption DEF BackgroundTypeOK, PlaceTypes
<1>2. \A a \in Int : Moved(a) \in VramByte
  <2> TAKE a \in Int
  <2>1. regs.nt \in {0, 1}
    BY <1>1, Positions
  <2>2. PICK b \in Int : b = a + 1024 * regs.nt
    BY <2>1
  <2>3. b % 2048 \in 0 .. 2047
    BY ElevenBits
  <2> QED
    BY <2>2, <2>3 DEF Moved, VramByte
<1>3. vram_addr_tile \in Int /\ vram_addr_attr \in Int
  <2>1. /\ x_final \in Nat /\ y_final \in Nat /\ nextline \in Nat /\ nexttile \in Nat
        /\ regs.scroll_x \in Nat
    <3>1. x_final \in Nat /\ y_final \in Nat /\ nextline \in Nat /\ regs.scroll_x \in Nat
      BY <1>1, Positions
    <3>2. nexttile \in Nat
      BY <3>1 DEF nexttile
    <3> QED
      BY <3>1, <3>2
  <2>2. \A v \in Nat : /\ Bits(v, 4, 5) \in Int /\ Bits(v, 3, 5) \in Int
                       /\ Bits(v, 6, 3) \in Int /\ Bits(v, 5, 3) \in Int
    <3> TAKE v \in Nat
    <3>1. /\ Bits(v, 4, 5) = (v \div 16) % 32 /\ Bits(v, 6, 3) = (v \div 64) % 8
          /\ Bits(v, 3, 5) = (v \div 8) % 32 /\ Bits(v, 5, 3) = (v \div 32) % 8
      BY BitsAre
    <3> QED
      BY <3>1
  <2>3. vram_addr_tile \in Int
    BY <2>1, <2>2 DEF vram_addr_tile
  <2>4. vram_addr_attr \in Int
    BY <2>1, <2>2 DEF vram_addr_attr
  <2> QED
    BY <2>3, <2>4
<1>4. vram_addr1 \in VramByte
  BY <1>2, <1>3 DEF vram_addr1
<1>5. chr_addr1 \in Pattern \cup {NoPattern}
  <2>1. \A v \in Nat : Bits(v, 1, 3) \in 0 .. 7 /\ Bits(v, 2, 1) \in {0, 1}
    <3> TAKE v \in Nat
    <3>1. Bits(v, 1, 3) = (v \div 2) % 8 /\ Bits(v, 2, 1) = (v \div 4) % 2
      BY BitsAre
    <3> QED
      BY <3>1
  <2>2. /\ Bits(IF Prefetch THEN nextline ELSE y_final, 1, 3) \in 0 .. 7
        /\ Bits(x_final, 2, 1) \in {0, 1}
    BY <1>1, <2>1, Positions
  <2> QED
    BY <1>1, <2>2, Zenon DEF chr_addr1, Pattern
<1> QED
  BY <1>4, <1>5

LEMMA PixelTypes ==
    ASSUME BackgroundTypeOK, PixelClock, hpixels = 799
    PROVE  BackgroundTypeOK'
<1>1. vram_addr1 \in VramByte /\ chr_addr1 \in Pattern \cup {NoPattern}
  BY AddressTypes
<1>2. TypeOK'
  BY StepWindows DEF BackgroundTypeOK, PixelClock
<1>3. regs' \in Settings /\ steady' \in BOOLEAN
  BY Zenon DEF BackgroundTypeOK, PixelClock
<1>4. {vram_dout1', next_chr', next_paletteID', curr_paletteID'} \subseteq VramByte
  BY <1>1 DEF BackgroundTypeOK, PixelClock, Capture, Show, shown
<1>5. {chr_dout1', next_lsTile', next_msTile', curr_lsTile', curr_msTile'}
         \subseteq Pattern \cup {NoPattern}
  BY <1>1 DEF BackgroundTypeOK, PixelClock, Capture, Show, shown
<1> QED
  BY <1>2, <1>3, <1>4, <1>5 DEF BackgroundTypeOK

(* What must hold for the fetches to go on as they should.                 *)
IInv == BackgroundTypeOK /\ FetchInv /\ ShownInv

LEMMA Stutter ==
    ASSUME IInv, UNCHANGED bgvars
    PROVE  IInv'
<1>1. /\ hc' = hc /\ vc' = vc /\ hs' = hs /\ vs' = vs /\ regs' = regs /\ steady' = steady
      /\ vram_dout1' = vram_dout1 /\ chr_dout1' = chr_dout1
      /\ next_chr' = next_chr /\ next_paletteID' = next_paletteID
      /\ next_lsTile' = next_lsTile /\ next_msTile' = next_msTile
      /\ curr_paletteID' = curr_paletteID
      /\ curr_lsTile' = curr_lsTile /\ curr_msTile' = curr_msTile
  BY DEF bgvars, beam, fetched, shown
<1>2. BackgroundTypeOK'
  BY <1>1 DEF IInv, BackgroundTypeOK, TypeOK
<1>3. /\ x_final' = x_final /\ y_final' = y_final /\ nextline' = nextline /\ nexttile' = nexttile
      /\ (Fetching' <=> Fetching) /\ (Prefetch' <=> Prefetch) /\ Fine' = Fine
  BY <1>1 DEF x_final, y_final, nextline, nexttile, Fetching, Prefetch, Fine
<1>4. /\ vram_addr_tile' = vram_addr_tile /\ vram_addr_attr' = vram_addr_attr
      /\ Place' = Place /\ LineRow' = LineRow
  BY <1>1, <1>3 DEF vram_addr_tile, vram_addr_attr, Place, LineRow
<1>5. (Repeating' <=> Repeating) /\ FirstName' = FirstName /\ FirstAttr' = FirstAttr
  BY <1>1, <1>3, <1>4 DEF Repeating, FirstName, FirstAttr, Moved
<1>6. /\ Name' = Name /\ Moved(vram_addr_attr)' = Moved(vram_addr_attr)
      /\ TileHere' = TileHere /\ AttrHere' = AttrHere
  BY <1>1, <1>3, <1>4, <1>5 DEF Name, Moved, TileHere, AttrHere, Nametable
<1>7. FetchInv'
  BY <1>1, <1>3, <1>4, <1>5, <1>6 DEF IInv, FetchInv, TileFetched, PatternOf
<1>8. ShownInv'
  BY <1>1, <1>3, <1>4, <1>5, <1>6
     DEF IInv, ShownInv, FirstShown, RepeatShown, HereShown, PatternOf, PatternHere
<1> QED
  BY <1>2, <1>7, <1>8 DEF IInv

(* A change of the registers ends what is claimed about the line.          *)
LEMMA WriteRegsKeeps == BackgroundTypeOK /\ WriteRegs => IInv'
<1> SUFFICES ASSUME BackgroundTypeOK, WriteRegs PROVE IInv'
  OBVIOUS
<1>1. steady' = FALSE /\ regs' \in Settings
  BY DEF WriteRegs
<1>2. BackgroundTypeOK'
  BY DEF BackgroundTypeOK, WriteRegs, beam, fetched, shown, TypeOK
<1>3. FetchInv' /\ ShownInv'
  BY <1>1, Zenon DEF FetchInv, ShownInv
<1> QED
  BY <1>2, <1>3 DEF IInv

THEOREM Invariance ==
    ASSUME hpixels = 799
    PROVE  BackgroundSpec => []IInv
<1>1. BackgroundInit => IInv
  <2> SUFFICES ASSUME BackgroundInit PROVE IInv
    OBVIOUS
  <2>1. TypeOK
    BY BeamStart DEF BackgroundInit
  <2>2. BackgroundTypeOK
    <3>1. PowerUpByte \in VramByte
      BY DEF VramByte
    <3> QED
      BY <2>1, <3>1, Zenon DEF BackgroundInit, BackgroundTypeOK
  <2>3. FetchInv /\ ShownInv
    BY Zenon DEF BackgroundInit, FetchInv, ShownInv
  <2> QED
    BY <2>2, <2>3 DEF IInv
<1>2. IInv /\ [BackgroundNext]_bgvars => IInv'
  <2> SUFFICES ASSUME IInv, [BackgroundNext]_bgvars PROVE IInv'
    OBVIOUS
  <2>1. CASE PixelClock
    <3>1. BackgroundTypeOK'
      BY <2>1, PixelTypes DEF IInv
    <3>2. PlaceTypes /\ PlaceTypes'
      BY <3>1 DEF IInv, PlaceTypes, BackgroundTypeOK
    <3> QED
      BY <2>1, <3>1, <3>2, FetchKept, ShownKept DEF IInv
  <2>2. CASE WriteRegs
    BY <2>2, WriteRegsKeeps DEF IInv
  <2>3. CASE UNCHANGED bgvars
    BY <2>3, Stutter
  <2> QED
    BY <2>1, <2>2, <2>3 DEF BackgroundNext
<1> QED
  BY <1>1, <1>2, PTL DEF BackgroundSpec

(* Ports and registers hold addresses of the memories they are read from.  *)
THEOREM BackgroundTypes == ASSUME hpixels = 799 PROVE BackgroundSpec => []BackgroundTypeOK
  BY Invariance, PTL DEF IInv

(* On a line for which the registers stay as they are each pixel is that   *)
(* of the tile, the row and the attributes its scrolled position names,    *)
(* with the exceptions BackgroundShown makes.                              *)
THEOREM BackgroundIsShown == ASSUME hpixels = 799 PROVE BackgroundSpec => []BackgroundShown
<1>1. IInv => BackgroundShown
  BY InvShows DEF IInv, BackgroundTypeOK, PlaceTypes
<1> QED
  BY <1>1, Invariance, PTL

(* Among those exceptions the second tile is the first one again.          *)
THEOREM SecondTileIsFirst == ASSUME hpixels = 799 PROVE BackgroundSpec => []SecondTileRepeats
<1>1. IInv => SecondTileRepeats
  BY InvShows DEF IInv, BackgroundTypeOK, PlaceTypes
<1> QED
  BY <1>1, Invariance, PTL

-----------------------------------------------------------------------------
SyncInv == TypeOK /\ HsyncWindow /\ VsyncWindow

(* The beam stays on the screen, hs and vs are low exactly in their        *)
(* windows, from the first pixel clock on.                                 *)
THEOREM SyncWindows == Spec => [](TypeOK /\ HsyncWindow /\ VsyncWindow)
<1>1. Init => SyncInv
  <2> SUFFICES ASSUME Init PROVE SyncInv
    OBVIOUS
  <2>1. TypeOK
    BY BeamStart
  <2>2. PowerUp
    BY DEF Init, PowerUp
  <2> QED
    BY <2>1, <2>2 DEF SyncInv, HsyncWindow, VsyncWindow
<1>2. SyncInv /\ [Next]_vars => SyncInv'
  <2>1. ASSUME SyncInv, UNCHANGED vars PROVE SyncInv'
    BY <2>1 DEF SyncInv, TypeOK, HsyncWindow, VsyncWindow, PowerUp, vars
  <2> QED
    BY <2>1, StepWindows DEF SyncInv
<1>3. SyncInv => TypeOK /\ HsyncWindow /\ VsyncWindow
  BY DEF SyncInv
<1> QED
  BY <1>1, <1>2, <1>3, PTL DEF Spec
=============================================================================
