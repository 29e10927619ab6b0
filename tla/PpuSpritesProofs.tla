-------------------------- MODULE PpuSpritesProofs --------------------------
(* The list of a line's sprites and what is shown of it, for any number of *)
(* slots and of entries OAM's addresses reach.                             *)
EXTENDS PpuSprites, FiniteSetTheorems, TLAPS

LEMMA Numbers ==
    /\ NumSprites \in Nat /\ NumSprites >= 1 /\ NumSprites <= 64 /\ Slots \in Nat /\ Slots >= 1
    /\ EvalEnd \in Nat /\ EvalEnd = 8 * NumSprites
    /\ FetchEnd \in Nat /\ FetchEnd >= EvalEnd + 8 * Slots /\ FetchEnd <= hpixels
    /\ hpixels \in Nat /\ vlines \in Nat /\ EvalLines \in Nat
  BY SpritesAssumption, TimingAssumption DEF EvalEnd

LEMMA Remainder ==
    ASSUME NEW M \in Nat, M > 0, NEW x \in Nat
    PROVE  \E q \in Nat, s \in 0 .. M - 1 : x = M * q + s /\ x % M = s
<1>1. x - M * (x \div M) \in 0 .. M - 1 /\ x \div M \in Nat
  BY SMTT(30)
<1>2. x % M = x - M * (x \div M)
  BY SMTT(30)
<1> DEFINE q == x \div M
           s == x - M * q
<1>3. q \in Nat /\ s \in 0 .. M - 1
  BY <1>1
<1>4. x = M * q + s /\ x % M = s
  BY <1>1, <1>2
<1> HIDE DEF q, s
<1> QED
  BY <1>3, <1>4

(* Eight pixels to an entry.                                               *)
LEMMA Eights ==
    ASSUME NEW v \in Nat
    PROVE  /\ v \div 8 \in Nat /\ v % 8 \in 0 .. 7 /\ v = 8 * (v \div 8) + (v % 8)
           /\ (v + 1) % 8 = IF v % 8 = 7 THEN 0 ELSE (v % 8) + 1
           /\ (v + 1) \div 8 = IF v % 8 = 7 THEN v \div 8 + 1 ELSE v \div 8
  OBVIOUS

(* Four to a byte of a pattern.                                            *)
LEMMA Fours ==
    ASSUME NEW v \in Nat
    PROVE  /\ v \div 4 \in Nat /\ v % 4 \in 0 .. 3 /\ v = 4 * (v \div 4) + (v % 4)
           /\ v % 4 # 3 => (v + 1) \div 4 = v \div 4 /\ (v + 1) % 4 = (v % 4) + 1
           /\ v % 4 = 3 => (v + 1) % 4 = 0
           /\ v % 4 = 0 => (v \div 2) % 2 = 0
           /\ v % 4 = 2 => (v \div 2) % 2 = 1
  OBVIOUS

LEMMA BitsAre ==
    ASSUME NEW v \in Int
    PROVE  /\ Bits(v, 1, 8) = (v \div 2) % 256 /\ Bits(v, 1, 1) = (v \div 2) % 2
           /\ Bits(v, 7, 1) = (v \div 128) % 2 /\ Bits(v, 6, 1) = (v \div 64) % 2
           /\ Bits(v, 5, 1) = (v \div 32) % 2
           /\ Bits(v, 1, 8) \in Int
<1>1. 2^1 = 2 /\ 2^5 = 32 /\ 2^6 = 64 /\ 2^7 = 128 /\ 2^8 = 256
  OBVIOUS
<1> QED
  BY <1>1 DEF Bits

(* The beam one pixel on.                                                  *)
LEMMA Beam ==
    ASSUME TypeOK, Next
    PROVE  /\ TypeOK' /\ hc \in Nat /\ hc <= hpixels /\ vc \in Nat /\ vc <= vlines
           /\ hc' \in Nat /\ vc' \in Nat
           /\ hc = hpixels => hc' = 0
           /\ hc # hpixels => hc' = hc + 1 /\ vc' = vc
<1>1. /\ hc' = IF hc = hpixels THEN 0 ELSE hc + 1
      /\ vc' = IF hc # hpixels THEN vc ELSE IF vc = vlines THEN 0 ELSE vc + 1
      /\ hc \in 0 .. hpixels /\ vc \in 0 .. vlines /\ hpixels \in Nat /\ vlines \in Nat
  BY Numbers DEF Next, Counters, TypeOK
<1>2. hs' \in BOOLEAN /\ vs' \in BOOLEAN
  BY Zenon DEF Next, Hsync, Vsync
<1>3. hc' \in 0 .. hpixels /\ vc' \in 0 .. vlines
  BY <1>1
<1> QED
  BY <1>1, <1>2, <1>3 DEF TypeOK

-----------------------------------------------------------------------------
(* What is read of OAM.                                                    *)
LEMMA OamRead ==
    ASSUME SpritesTypeOK
    PROVE  /\ X % (4 * NumSprites) \in 0 .. 4 * NumSprites - 1
           /\ oam[X % (4 * NumSprites)] \in Byte
           /\ hc < EvalEnd /\ hc % 8 \in {0, 2, 4, 6} =>
                 X % (4 * NumSprites) = 4 * (hc \div 8) + ((hc % 8) \div 2)
<1>1. PICK h \in Nat : h = hc /\ X = (h \div 2) % 256
  <2>1. hc \in Nat
    BY Numbers DEF SpritesTypeOK, TypeOK
  <2>2. Bits(hc, 1, 8) = (hc \div 2) % 256
    BY <2>1, BitsAre
  <2> QED
    BY <2>1, <2>2 DEF X
<1>2. PICK M \in Nat : M = 4 * NumSprites /\ M > 0 /\ M <= 256
  BY Numbers
<1>3. PICK x \in Nat : x = X /\ x < 256
  BY <1>1
<1>4. PICK q \in Nat, s \in 0 .. M - 1 : x = M * q + s /\ x % M = s
  BY <1>2, Remainder
<1>5. X % (4 * NumSprites) \in 0 .. 4 * NumSprites - 1
  BY <1>2, <1>3, <1>4
<1>6. ASSUME hc < EvalEnd, hc % 8 \in {0, 2, 4, 6}
      PROVE  X % (4 * NumSprites) = 4 * (hc \div 8) + ((hc % 8) \div 2)
  <2>1. x < M
    BY <1>1, <1>2, <1>3, <1>6, Numbers
  <2>2. x % M = x
    BY <2>1
  <2>3. x = 4 * (h \div 8) + ((h % 8) \div 2)
    BY <1>1, <1>2, <1>3, <1>6, Numbers
  <2> QED
    BY <1>1, <1>2, <1>3, <2>2, <2>3
<1> QED
  BY <1>5, <1>6 DEF SpritesTypeOK

(* Whether there is a place in the list for an entry.                      *)
LEMMA CountTypes ==
    ASSUME SpritesTypeOK
    PROVE  sprite_count_next \in Nat /\ sprite_count_next <= Slots
           /\ (HasRoom <=> sprite_count_next \in Slot) /\ Slots \in Nat
  BY Numbers DEF SpritesTypeOK, HasRoom, Slot

(* The address of a byte of a pattern has 13 bits.                         *)
LEMMA PatternRead ==
    ASSUME SpritesTypeOK
    PROVE  chr_addr1 \in Address
<1>1. \A v \in Int : v % 8192 \in 0 .. 8191
  OBVIOUS
<1>2. hc \in Nat /\ vc \in Nat /\ table \in {0, 1}
  BY Numbers DEF SpritesTypeOK, TypeOK
<1>3. Turn \in Slot
  <2>1. hc \div 4 \in Nat /\ Slots \in Nat /\ Slots > 0
    BY <1>2, Fours, Numbers
  <2>2. PICK t \in Nat : t = hc \div 4
    BY <2>1
  <2>3. PICK q \in Nat, s \in 0 .. Slots - 1 : t = Slots * q + s /\ t % Slots = s
    BY <2>1, Remainder
  <2> QED
    BY <2>2, <2>3 DEF Turn, Slot
<1>4. list[Turn] \in Entry
  BY <1>3 DEF SpritesTypeOK
<1>5. list[Turn].y \in Int /\ list[Turn].tile \in Int /\ list[Turn].attr \in Int
  BY <1>4 DEF Entry, Byte
<1>6. Y \in Int /\ Bits(hc, 1, 1) \in Int
  BY <1>2, BitsAre DEF Y
<1> DEFINE s == list[Turn]
           row == IF Bits(s.attr, 7, 1) = 1 THEN 7 - (Y - s.y) ELSE Y - s.y
           v == 4096 * table + 16 * s.tile + row + 8 * Bits(hc, 1, 1)
<1>7. row \in Int
  BY <1>5, <1>6
<1>8. v \in Int
  <2> HIDE DEF row
  <2> QED
    BY <1>2, <1>5, <1>6, <1>7
<1>9. v % 8192 \in Address
  <2> HIDE DEF v
  <2> QED
    BY <1>1, <1>8 DEF Address
<1>10. chr_addr1 = IF hc < EvalEnd \/ hc >= FetchEnd THEN NoPattern
                   ELSE IF ~ Fetching \/ vc >= EvalLines THEN 0 ELSE v % 8192
  BY DEF chr_addr1
<1>11. 0 \in Address /\ NoPattern \in Address
  BY DEF Address
<1> HIDE DEF v
<1> QED
  BY <1>9, <1>10, <1>11

(* The entries of OAM, and which of them are on the line.                  *)
LEMMA EntryTypes ==
    ASSUME SpritesTypeOK
    PROVE  /\ \A i \in Sprite : /\ {4 * i, 4 * i + 1, 4 * i + 2, 4 * i + 3} \subseteq 0 .. 4 * NumSprites - 1
                                /\ OamEntry(i) \in Entry
           /\ Selected \subseteq Sprite
           /\ DOMAIN Wanted \subseteq Selected /\ Wanted \in [DOMAIN Wanted -> Entry]
<1>1. ASSUME NEW i \in Sprite
      PROVE  /\ {4 * i, 4 * i + 1, 4 * i + 2, 4 * i + 3} \subseteq 0 .. 4 * NumSprites - 1
             /\ OamEntry(i) \in Entry
  <2>1. {4 * i, 4 * i + 1, 4 * i + 2, 4 * i + 3} \subseteq 0 .. 4 * NumSprites - 1
    BY Numbers DEF Sprite
  <2>2. oam[4 * i] \in Byte /\ oam[4 * i + 1] \in Byte /\ oam[4 * i + 2] \in Byte /\ oam[4 * i + 3] \in Byte
    BY <2>1 DEF SpritesTypeOK
  <2> QED
    BY <2>1, <2>2, Zenon DEF OamEntry, Entry
<1>2. Selected \subseteq Sprite
  BY DEF Selected
<1>3. DOMAIN Wanted \subseteq Selected
  BY DEF Wanted
<1>4. Wanted \in [DOMAIN Wanted -> Entry]
  BY <1>1, <1>2, Zenon DEF Wanted
<1> QED
  BY <1>1, <1>2, <1>3, <1>4

-----------------------------------------------------------------------------
(* An entry that is found on the line, with room for it in the list.       *)
Found == hc < EvalEnd /\ vc < EvalLines /\ hc % 8 = 1 /\ OnLine(oam_dout0, vc) /\ sprite_count_next < Slots

(* What the evaluation does at a pixel.                                    *)
LEMMA Collects ==
    ASSUME SpritesTypeOK, RestInv, PixelClock
    PROVE  /\ sprite_add' <=> Found \/ (sprite_add /\ hc % 8 # 7)
           /\ sprite_count_next' = IF hc = EvalEnd + 1 THEN 0
                                   ELSE IF sprite_add /\ hc % 8 = 7 THEN sprite_count_next + 1
                                   ELSE sprite_count_next
           /\ overflow' <=> \/ /\ hc < EvalEnd /\ vc < EvalLines /\ hc % 8 = 1 /\ OnLine(oam_dout0, vc)
                               /\ sprite_count_next = Slots
                            \/ overflow /\ hc < FetchEnd
<1>1. /\ hc \in Nat /\ vc \in Nat /\ EvalEnd \in Nat /\ EvalLines \in Nat /\ FetchEnd \in Nat
      /\ EvalEnd < FetchEnd
  BY Numbers DEF SpritesTypeOK, TypeOK
<1>2. /\ sprite_count_next \in Nat /\ sprite_count_next <= Slots /\ Slots \in Nat
      /\ (HasRoom <=> sprite_count_next < Slots)
  BY CountTypes DEF HasRoom
<1>3. sprite_add => hc < EvalEnd /\ vc < EvalLines
  BY <1>1 DEF RestInv
<1>4. sprite_add' <=> Found \/ (sprite_add /\ hc % 8 # 7)
  <2>1. Evaluating(1) /\ OnLine(oam_dout0, vc) /\ HasRoom <=> Found
    BY <1>2 DEF Found, Evaluating
  <2>2. Evaluating(7) => ~ Found
    BY DEF Evaluating, Found
  <2>3. sprite_add => (Evaluating(7) <=> hc % 8 = 7)
    BY <1>3 DEF Evaluating
  <2>4. sprite_add' = IF Evaluating(1) /\ OnLine(oam_dout0, vc) /\ HasRoom THEN TRUE
                      ELSE IF Evaluating(7) THEN FALSE ELSE sprite_add
    BY DEF PixelClock, Collect
  <2> QED
    BY <2>1, <2>2, <2>3, <2>4, Zenon
<1>5. sprite_count_next' = IF hc = EvalEnd + 1 THEN 0
                           ELSE IF sprite_add /\ hc % 8 = 7 THEN sprite_count_next + 1
                           ELSE sprite_count_next
  BY <1>3 DEF PixelClock, Count, Evaluating
<1>6. overflow' <=> \/ /\ hc < EvalEnd /\ vc < EvalLines /\ hc % 8 = 1 /\ OnLine(oam_dout0, vc)
                       /\ sprite_count_next = Slots
                    \/ overflow /\ hc < FetchEnd
  <2>1. overflow' = IF Evaluating(1) /\ OnLine(oam_dout0, vc) /\ ~ HasRoom THEN TRUE
                    ELSE IF hc >= FetchEnd THEN FALSE ELSE overflow
    BY DEF PixelClock, Collect
  <2>2. ~ HasRoom <=> sprite_count_next = Slots
    BY <1>2
  <2>3. hc >= FetchEnd <=> ~ (hc < FetchEnd)
    BY <1>1
  <2> QED
    BY <2>1, <2>2, <2>3, Zenon DEF Evaluating
<1> QED
  BY <1>4, <1>5, <1>6

(* And what it puts in the list.                                           *)
LEMMA Puts ==
    ASSUME SpritesTypeOK, RestInv, PixelClock
    PROVE  LET c == sprite_count_next
               p == hc % 8
           IN  /\ next' \in [Slot -> Entry]
               /\ \A k \in Slot \ {c} : next'[k] = next[k]
               /\ ~ Found /\ ~ (sprite_add /\ p \in {3, 5, 7}) => next' = next
               /\ Found => next'[c].y = oam_dout0
               /\ sprite_add /\ p = 3 => next'[c].y = next[c].y /\ next'[c].tile = oam_dout0
               /\ sprite_add /\ p = 5 => /\ next'[c].y = next[c].y /\ next'[c].tile = next[c].tile
                                         /\ next'[c].attr = oam_dout0
               /\ sprite_add /\ p = 7 => next'[c] = [y |-> next[c].y, tile |-> next[c].tile,
                                                     attr |-> next[c].attr, x |-> oam_dout0]
<1> DEFINE c == sprite_count_next
           p == hc % 8
<1>1. oam_dout0 \in Byte /\ next \in [Slot -> Entry]
  BY DEF SpritesTypeOK
<1>2. (Found => c \in Slot) /\ (sprite_add => c \in Slot /\ hc < EvalEnd /\ vc < EvalLines)
  BY CountTypes, Numbers DEF RestInv, Found, HasRoom, SpritesTypeOK, TypeOK
<1>3. Evaluating(1) /\ OnLine(oam_dout0, vc) /\ HasRoom <=> Found
  BY CountTypes DEF Found, Evaluating, HasRoom
<1>4. next' = IF Found THEN [next EXCEPT ![c].y = oam_dout0]
              ELSE IF sprite_add /\ p = 3 THEN [next EXCEPT ![c].tile = oam_dout0]
              ELSE IF sprite_add /\ p = 5 THEN [next EXCEPT ![c].attr = oam_dout0]
              ELSE IF sprite_add /\ p = 7 THEN [next EXCEPT ![c].x = oam_dout0]
              ELSE next
  BY <1>2, <1>3, Zenon DEF PixelClock, Collect, Evaluating
<1>5. Found => p = 1
  BY DEF Found
<1> HIDE DEF c, p
<1>6. CASE Found
  <2>1. next' = [next EXCEPT ![c].y = oam_dout0] /\ c \in Slot /\ p = 1
    BY <1>2, <1>4, <1>5, <1>6
  <2> QED
    BY <1>1, <1>6, <2>1 DEF Entry, c, p
<1>7. CASE ~ Found /\ sprite_add /\ p = 3
  <2>1. next' = [next EXCEPT ![c].tile = oam_dout0] /\ c \in Slot
    BY <1>2, <1>4, <1>7
  <2> QED
    BY <1>1, <1>7, <2>1 DEF Entry, c, p
<1>8. CASE ~ Found /\ sprite_add /\ p = 5
  <2>1. next' = [next EXCEPT ![c].attr = oam_dout0] /\ c \in Slot
    BY <1>2, <1>4, <1>8
  <2> QED
    BY <1>1, <1>8, <2>1 DEF Entry, c, p
<1>9. CASE ~ Found /\ sprite_add /\ p = 7
  <2>1. next' = [next EXCEPT ![c].x = oam_dout0] /\ c \in Slot
    BY <1>2, <1>4, <1>9
  <2> QED
    BY <1>1, <1>9, <2>1 DEF Entry, c, p
<1>10. CASE ~ Found /\ ~ (sprite_add /\ p \in {3, 5, 7})
  <2>1. next' = next
    BY <1>4, <1>10
  <2> QED
    BY <1>1, <1>10, <2>1 DEF c, p
<1> QED
  BY <1>6, <1>7, <1>8, <1>9, <1>10

-----------------------------------------------------------------------------
(* A pixel clock keeps the types, and the evaluation at rest between lines.*)
LEMMA PixelRest ==
    ASSUME SpritesTypeOK, RestInv, PixelClock
    PROVE  RestInv'
<1>1. /\ hc \in Nat /\ hc <= hpixels /\ vc \in Nat
      /\ hc = hpixels => hc' = 0
      /\ hc # hpixels => hc' = hc + 1 /\ vc' = vc
  BY Beam DEF SpritesTypeOK, PixelClock
<1>2. /\ sprite_add' <=> Found \/ (sprite_add /\ hc % 8 # 7)
      /\ sprite_count_next' = IF hc = EvalEnd + 1 THEN 0
                              ELSE IF sprite_add /\ hc % 8 = 7 THEN sprite_count_next + 1
                              ELSE sprite_count_next
      /\ overflow' <=> \/ /\ hc < EvalEnd /\ vc < EvalLines /\ hc % 8 = 1 /\ OnLine(oam_dout0, vc)
                          /\ sprite_count_next = Slots
                       \/ overflow /\ hc < FetchEnd
  BY Collects
<1>3. /\ sprite_add => hc \in 2 .. EvalEnd - 1 /\ vc < EvalLines /\ sprite_count_next < Slots
      /\ hc = 0 \/ hc > EvalEnd + 1 => sprite_count_next = 0
  BY DEF RestInv
<1>4. sprite_add' => hc' \in 2 .. EvalEnd - 1 /\ vc' < EvalLines /\ sprite_count_next' < Slots
  <2> SUFFICES ASSUME Found \/ (sprite_add /\ hc % 8 # 7)
               PROVE  hc' \in 2 .. EvalEnd - 1 /\ vc' < EvalLines /\ sprite_count_next' < Slots
    BY <1>2
  <2>1. hc >= 1 /\ hc < EvalEnd /\ hc % 8 # 7 /\ vc < EvalLines /\ sprite_count_next < Slots
    BY <1>1, <1>3, Numbers DEF Found
  <2>2. hc + 1 < EvalEnd
    BY <1>1, <2>1, Numbers
  <2> QED
    BY <1>1, <1>2, <2>1, <2>2, Numbers
<1>5. hc' = 0 \/ hc' > EvalEnd + 1 => sprite_count_next' = 0
  BY <1>1, <1>2, <1>3, Numbers
<1>6. hc' = 0 \/ hc' > FetchEnd => ~ overflow'
  BY <1>1, <1>2, Numbers
<1> QED
  BY <1>4, <1>5, <1>6, Zenon DEF RestInv

LEMMA PixelTypes ==
    ASSUME SpritesTypeOK, RestInv, PixelClock
    PROVE  SpritesTypeOK'
<1>1. TypeOK' /\ vc \in 0 .. vlines
  BY Beam DEF SpritesTypeOK, PixelClock, TypeOK
<1>2. oam' = oam /\ (tall' <=> tall) /\ table' = table
  BY DEF PixelClock
<1>3. oam_dout0' \in Byte /\ chr_dout1' \in Address
  BY OamRead, PatternRead DEF PixelClock
<1>4. next' \in [Slot -> Entry]
  BY Puts
<1>5. sprite_count_next' \in 0 .. Slots
  <2>1. sprite_count_next \in Nat /\ sprite_count_next <= Slots /\ Slots \in Nat
    BY CountTypes
  <2>2. sprite_add => sprite_count_next < Slots
    BY DEF RestInv
  <2>3. sprite_count_next' = IF hc = EvalEnd + 1 THEN 0
                             ELSE IF sprite_add /\ hc % 8 = 7 THEN sprite_count_next + 1
                             ELSE sprite_count_next
    BY Collects
  <2> QED
    BY <2>1, <2>2, <2>3
<1>6. list' \in [Slot -> Entry] /\ sprite_count' \in 0 .. Slots
  BY DEF SpritesTypeOK, PixelClock, HandOver
<1>7. sprite_add' \in BOOLEAN /\ overflow' \in BOOLEAN /\ steady' \in BOOLEAN
  BY Zenon DEF SpritesTypeOK, PixelClock, Collect
<1>8. sprite_ls' \in [Slot -> Address] /\ sprite_ms' \in [Slot -> Address]
  BY DEF SpritesTypeOK, PixelClock, Fetch
<1>9. DueTypeOK'
  <2>1. CASE hc = EvalEnd
    <3> DEFINE known == steady /\ ~ tall
    <3>1. due' = [known |-> known, list |-> Wanted, line |-> vc, table |-> table]
      BY <2>1 DEF PixelClock
    <3>2. known \in BOOLEAN /\ table \in {0, 1}
      BY Zenon DEF SpritesTypeOK
    <3>3. DOMAIN Wanted \subseteq Sprite /\ Wanted \in [DOMAIN Wanted -> Entry]
      BY EntryTypes
    <3> HIDE DEF known
    <3> QED
      BY <1>1, <3>1, <3>2, <3>3 DEF DueTypeOK
  <2>2. CASE hc # EvalEnd
    <3>1. due' = due
      BY <2>2 DEF PixelClock
    <3> QED
      BY <3>1 DEF SpritesTypeOK, DueTypeOK
  <2> QED
    BY <2>1, <2>2
<1>10. oam' \in [0 .. 4 * NumSprites - 1 -> Byte] /\ tall' \in BOOLEAN /\ table' \in {0, 1}
  BY <1>2, Zenon DEF SpritesTypeOK, PixelClock
<1> QED
  BY <1>1, <1>3, <1>4, <1>5, <1>6, <1>7, <1>8, <1>9, <1>10, Zenon DEF SpritesTypeOK

(* A write changes OAM or the control register, and ends what is claimed.  *)
LEMMA WriteTypes ==
    ASSUME SpritesTypeOK, Write
    PROVE  SpritesTypeOK'
<1>1. oam' \in [0 .. 4 * NumSprites - 1 -> Byte]
  BY SpritesAssumption DEF SpritesTypeOK, Write
<1>2. tall' \in BOOLEAN /\ table' \in {0, 1}
  BY Zenon DEF SpritesTypeOK, Write
<1>3. DueTypeOK' /\ steady' \in BOOLEAN
  <2> DEFINE known == due.known /\ ~ (hc > EvalEnd /\ hc < FetchEnd)
  <2>1. due = [known |-> due.known, list |-> due.list, line |-> due.line, table |-> due.table]
    BY DEF SpritesTypeOK, DueTypeOK
  <2>2. due' = [due EXCEPT !.known = known] /\ known \in BOOLEAN
    BY DEF Write
  <2> HIDE DEF known
  <2>3. due' = [known |-> known, list |-> due.list, line |-> due.line, table |-> due.table]
    BY <2>1, <2>2
  <2>4. DueTypeOK'
    BY <2>2, <2>3 DEF SpritesTypeOK, DueTypeOK
  <2> QED
    BY <2>4 DEF Write
<1>4. UNCHANGED <<hc, vc, hs, vs, oam_dout0, chr_dout1, sprite_add, next, sprite_count_next,
                  list, sprite_count, overflow, sprite_ls, sprite_ms>>
  BY DEF Write, beam, evaluation, patterns
<1>5. TypeOK'
  BY <1>4 DEF SpritesTypeOK, TypeOK
<1> QED
  BY <1>1, <1>2, <1>3, <1>4, <1>5 DEF SpritesTypeOK

-----------------------------------------------------------------------------
(* On a line nothing that the evaluation depends on changes.               *)
LEMMA SameLine ==
    ASSUME SpritesTypeOK, PixelClock, hc # hpixels
    PROVE  /\ hc' = hc + 1 /\ vc' = vc /\ oam' = oam
           /\ Selected' = Selected /\ Wanted' = Wanted
           /\ \A i : OamEntry(i)' = OamEntry(i) /\ Rank(i)' = Rank(i)
<1>1. hc' = hc + 1 /\ vc' = vc /\ oam' = oam /\ (tall' <=> tall)
  BY Beam DEF SpritesTypeOK, PixelClock
<1>2. sprite_size' = sprite_size
  BY <1>1 DEF sprite_size
<1>3. Selected' = Selected
  BY <1>1, <1>2 DEF Selected, OnLine
<1>4. \A i : OamEntry(i)' = OamEntry(i) /\ Rank(i)' = Rank(i)
  BY <1>1, <1>3 DEF OamEntry, Rank
<1>5. Wanted' = Wanted
  BY <1>3, <1>4, Zenon DEF Wanted
<1> QED
  BY <1>1, <1>3, <1>4, <1>5

(* Where the evaluation is.                                                *)
LEMMA Places ==
    ASSUME SpritesTypeOK, PixelClock, hc < EvalEnd
    PROVE  /\ At = hc \div 8 /\ At \in Sprite /\ hc % 8 \in 0 .. 7
           /\ hc' = hc + 1 /\ hc # hpixels /\ hc # EvalEnd + 1 /\ hc < FetchEnd
           /\ At' = IF hc % 8 = 7 THEN At + 1 ELSE At
           /\ (hc % 8)' = IF hc % 8 = 7 THEN 0 ELSE (hc % 8) + 1
<1>1. hc \in Nat /\ hc <= hpixels
  BY Beam DEF SpritesTypeOK, PixelClock
<1>2. /\ hc \div 8 \in Nat /\ hc % 8 \in 0 .. 7 /\ hc = 8 * (hc \div 8) + (hc % 8)
      /\ (hc + 1) % 8 = IF hc % 8 = 7 THEN 0 ELSE (hc % 8) + 1
      /\ (hc + 1) \div 8 = IF hc % 8 = 7 THEN hc \div 8 + 1 ELSE hc \div 8
  BY <1>1, Eights
<1>3. hc # hpixels /\ hc # EvalEnd + 1 /\ hc < FetchEnd
  BY <1>1, Numbers
<1>4. hc' = hc + 1
  BY <1>3, SameLine
<1>5. At = hc \div 8 /\ At \in Sprite
  BY <1>1, <1>2, Numbers DEF At, Sprite
<1>6. At' = IF hc % 8 = 7 THEN At + 1 ELSE At
  <2>1. CASE hc + 1 < EvalEnd
    BY <1>1, <1>2, <1>4, <1>5, <2>1 DEF At
  <2>2. CASE hc + 1 = EvalEnd
    <3>1. hc % 8 = 7 /\ hc \div 8 + 1 = NumSprites
      BY <1>1, <1>2, <2>2, Numbers
    <3> QED
      BY <1>4, <1>5, <2>2, <3>1, Numbers DEF At
  <2> QED
    BY <1>1, <2>1, <2>2, Numbers
<1> QED
  BY <1>2, <1>3, <1>4, <1>5, <1>6

(* The line begins with an empty list.                                     *)
LEMMA LineStart == RestInv /\ hc = 0 => CollectInv
<1> SUFFICES ASSUME RestInv, hc = 0
             PROVE  CollectInv
  OBVIOUS
<1>1. ~ sprite_add /\ ~ overflow /\ sprite_count_next = 0 /\ Slots > 0 /\ EvalEnd > 0 /\ hc % 8 = 0
  BY Numbers DEF RestInv
<1>2. At = 0
  BY <1>1, Numbers DEF At
<1>3. Done = {}
  BY <1>2, Numbers DEF Done, Selected, Sprite
<1>4. 0 .. sprite_count_next - 1 = {}
  BY <1>1
<1> DEFINE f == [k \in {} |-> 0]
<1>5. f \in [0 .. sprite_count_next - 1 -> Done]
  BY <1>4, Zenon
<1>6. Listed(f)
  BY <1>1, <1>3, <1>4, <1>5 DEF Listed, Lists
<1>7. Copying
  BY <1>1 DEF Copying
<1>8. hc % 8 \notin {1, 3, 5, 7}
  BY <1>1
<1>9. \E g \in [0 .. sprite_count_next - 1 -> Done] : Listed(g)
  BY <1>5, <1>6, Zenon
<1> QED
  BY <1>7, <1>8, <1>9, Zenon DEF CollectInv

(* A pixel of the evaluation: the entry it is at, and what it found there. *)
LEMMA CopyStep ==
    ASSUME SpritesTypeOK, RestInv, PixelClock, CollectInv, steady, hc < EvalEnd
    PROVE  /\ Copying'
           /\ (hc % 8)' \in {1, 3, 5, 7} => oam_dout0' = oam[4 * At' + ((hc % 8)' \div 2)]
           /\ Found <=> hc % 8 = 1 /\ At \in Selected /\ sprite_count_next < Slots
           /\ overflow' <=> \/ hc % 8 = 1 /\ At \in Selected /\ sprite_count_next = Slots
                            \/ overflow
<1> DEFINE c == sprite_count_next
           p == hc % 8
<1>1. /\ At = hc \div 8 /\ At \in Sprite /\ At \in Nat /\ p \in 0 .. 7
      /\ hc' = hc + 1 /\ hc # EvalEnd + 1 /\ hc < FetchEnd /\ hc # hpixels /\ hc <= EvalEnd
      /\ At' = IF p = 7 THEN At + 1 ELSE At
      /\ (hc % 8)' = IF p = 7 THEN 0 ELSE p + 1
  BY Places, Numbers DEF Sprite, SpritesTypeOK, TypeOK
<1>2. /\ Copying
      /\ p \in {1, 3, 5, 7} => oam_dout0 = oam[4 * At + (p \div 2)]
  BY <1>1 DEF CollectInv
<1>3. vc' = vc /\ oam' = oam /\ Selected' = Selected
  BY <1>1, SameLine
<1>4. p = 1 => (At \in Selected <=> vc < EvalLines /\ OnLine(oam_dout0, vc))
  BY <1>1, <1>2 DEF Selected
<1>5. Found <=> p = 1 /\ At \in Selected /\ c < Slots
  BY <1>1, <1>4 DEF Found
<1>6. /\ sprite_add' <=> Found \/ (sprite_add /\ p # 7)
      /\ sprite_count_next' = IF sprite_add /\ p = 7 THEN c + 1 ELSE c
      /\ overflow' <=> \/ hc < EvalEnd /\ vc < EvalLines /\ p = 1 /\ OnLine(oam_dout0, vc) /\ c = Slots
                       \/ overflow /\ hc < FetchEnd
  BY <1>1, Collects
<1>7. overflow' <=> (p = 1 /\ At \in Selected /\ c = Slots) \/ overflow
  BY <1>1, <1>4, <1>6
<1>8. sprite_add <=> p >= 2 /\ At \in Selected /\ c < Slots
  BY <1>2 DEF Copying
<1>9. (hc % 8)' \in {1, 3, 5, 7} => oam_dout0' = oam[4 * At' + ((hc % 8)' \div 2)]
  <2> SUFFICES ASSUME (hc % 8)' \in {1, 3, 5, 7}
               PROVE  oam_dout0' = oam[4 * At' + ((hc % 8)' \div 2)]
    OBVIOUS
  <2>1. p \in {0, 2, 4, 6} /\ At' = At /\ (hc % 8)' = p + 1
    BY <1>1
  <2>2. X % (4 * NumSprites) = 4 * At + (p \div 2)
    BY <1>1, <2>1, OamRead
  <2>3. (p + 1) \div 2 = p \div 2
    BY <2>1
  <2> QED
    BY <2>1, <2>2, <2>3 DEF PixelClock
<1>10. Copying'
  <2>1. sprite_add' <=> (hc % 8)' >= 2 /\ At' \in Selected' /\ sprite_count_next' < Slots
    <3> HIDE DEF p, c
    <3> QED
      BY <1>1, <1>3, <1>5, <1>6, <1>8
  <2>2. ASSUME sprite_add'
        PROVE  LET e == next'[sprite_count_next']
               IN  /\ e.y = oam[4 * At]
                   /\ p + 1 >= 4 => e.tile = oam[4 * At + 1]
                   /\ p + 1 >= 6 => e.attr = oam[4 * At + 2]
    <3>1. sprite_count_next' = c /\ (Found \/ (sprite_add /\ p # 7))
      BY <1>5, <1>6, <2>2
    <3>2. /\ ~ Found /\ ~ (sprite_add /\ p \in {3, 5, 7}) => next' = next
          /\ Found => next'[c].y = oam_dout0
          /\ sprite_add /\ p = 3 => next'[c].y = next[c].y /\ next'[c].tile = oam_dout0
          /\ sprite_add /\ p = 5 => /\ next'[c].y = next[c].y /\ next'[c].tile = next[c].tile
                                    /\ next'[c].attr = oam_dout0
      BY Puts
    <3>3. CASE Found
      <4>1. p = 1 /\ sprite_count_next' = c
        BY <1>5, <3>1, <3>3
      <4>2. oam_dout0 = oam[4 * At + (1 \div 2)]
        BY <1>2, <4>1
      <4>3. 4 * At + (1 \div 2) = 4 * At
        BY <1>1
      <4>4. next'[c].y = oam[4 * At]
        BY <3>2, <3>3, <4>2, <4>3
      <4> HIDE DEF p, c
      <4> QED
        BY <4>1, <4>4
    <3>4. CASE sprite_add /\ p # 7
      <4>1. /\ next[c].y = oam[4 * At] /\ p >= 2
            /\ p >= 4 => next[c].tile = oam[4 * At + 1]
            /\ p >= 6 => next[c].attr = oam[4 * At + 2]
        BY <1>2, <3>4 DEF Copying
      <4>2. /\ p = 3 => oam_dout0 = oam[4 * At + 1]
            /\ p = 5 => oam_dout0 = oam[4 * At + 2]
        BY <1>2
      <4>3. ~ Found /\ p \in 2 .. 6
        BY <1>1, <1>5, <3>4, <4>1
      <4> HIDE DEF p, c
      <4>4. p \in {2, 4, 6} \/ p = 3 \/ p = 5
        BY <4>3
      <4>5. CASE p \in {2, 4, 6}
        BY <3>1, <3>2, <4>1, <4>3, <4>5
      <4>6. CASE p = 3
        BY <3>1, <3>2, <3>4, <4>1, <4>2, <4>6
      <4>7. CASE p = 5
        BY <3>1, <3>2, <3>4, <4>1, <4>2, <4>7
      <4> QED
        BY <4>4, <4>5, <4>6, <4>7
    <3> QED
      BY <3>1, <3>3, <3>4
  <2>3. sprite_add' => At' = At /\ (hc % 8)' = p + 1
    BY <1>1, <1>5, <1>6
  <2> HIDE DEF p, c
  <2> QED
    BY <1>3, <2>1, <2>2, <2>3 DEF Copying
<1> QED
  BY <1>5, <1>7, <1>9, <1>10

-----------------------------------------------------------------------------
(* One more member, greater than all, goes to the end of the list.         *)
LEMMA Longer ==
    ASSUME NEW n \in Nat, n < Slots, NEW S, S \subseteq Nat, NEW f, Lists(f, n, S),
           NEW a \in Nat, \A i \in S : i < a
    PROVE  LET g == [k \in 0 .. n |-> IF k = n THEN a ELSE f[k]]
           IN  Lists(g, n + 1, S \cup {a})
<1> DEFINE g == [k \in 0 .. n |-> IF k = n THEN a ELSE f[k]]
<1>1. /\ f \in [0 .. n - 1 -> S]
      /\ \A j, k \in 0 .. n - 1 : j < k => f[j] < f[k]
      /\ \A i \in S : \E k \in 0 .. n - 1 : f[k] = i
  BY Numbers DEF Lists
<1>2. 0 .. n + 1 - 1 = 0 .. n /\ \A k \in 0 .. n : k = n \/ k \in 0 .. n - 1
  OBVIOUS
<1>3. g[n] = a /\ \A k \in 0 .. n - 1 : k \in 0 .. n /\ g[k] = f[k]
  OBVIOUS
<1>4. g \in [0 .. n + 1 - 1 -> S \cup {a}]
  BY <1>1, <1>2
<1>5. ASSUME NEW j \in 0 .. n, NEW k \in 0 .. n, j < k
      PROVE  g[j] < g[k]
  <2>1. j \in 0 .. n - 1
    BY <1>5
  <2>2. g[j] = f[j] /\ f[j] \in S
    BY <1>1, <1>3, <2>1
  <2>3. CASE k = n
    BY <1>3, <2>2, <2>3
  <2>4. CASE k \in 0 .. n - 1
    BY <1>1, <1>3, <1>5, <2>1, <2>2, <2>4
  <2> QED
    BY <1>2, <2>3, <2>4
<1>6. ASSUME NEW i \in S \cup {a}
      PROVE  \E k \in 0 .. n : g[k] = i
  <2>1. CASE i = a
    BY <1>3, <2>1
  <2>2. CASE i \in S
    BY <1>1, <1>3, <2>2
  <2> QED
    BY <2>1, <2>2
<1>7. Lists(g, n + 1, S \cup {a})
  <2> DEFINE m == n + 1
             A == S \cup {a}
  <2> HIDE DEF g
  <2>1. \A j, k \in 0 .. m - 1 : j < k => g[j] < g[k]
    BY <1>2, <1>5
  <2>2. \A i \in A : \E k \in 0 .. m - 1 : g[k] = i
    BY <1>2, <1>6
  <2>3. g \in [0 .. m - 1 -> A]
    BY <1>4
  <2> HIDE DEF m, A
  <2>4. Lists(g, m, A)
    BY <2>1, <2>2, <2>3, Zenon DEF Lists
  <2> QED
    BY <2>4 DEF m, A
<1> QED
  BY <1>7

(* Or is left out when there is no place.                                  *)
LEMMA LeftOut ==
    ASSUME NEW S, NEW f, Lists(f, Slots, S), NEW a, \A i \in S : i < a
    PROVE  Lists(f, Slots, S \cup {a})
<1>1. \A k \in 0 .. Slots - 1 : f[k] \in S
  BY DEF Lists
<1>2. f \in [0 .. Slots - 1 -> S \cup {a}]
  BY DEF Lists
<1>3. \A i \in S \cup {a} : \/ \E k \in 0 .. Slots - 1 : f[k] = i
                            \/ \A k \in 0 .. Slots - 1 : f[k] < i
  BY <1>1, Zenon DEF Lists
<1> QED
  BY <1>2, <1>3, Zenon DEF Lists

LEMMA ListStep ==
    ASSUME SpritesTypeOK, RestInv, PixelClock, CollectInv, steady, hc < EvalEnd
    PROVE  \E g \in [0 .. sprite_count_next' - 1 -> Done'] : Listed(g)'
<1> DEFINE p == hc % 8
<1>1. /\ At \in Sprite /\ At \in Nat /\ p \in 0 .. 7
      /\ hc # EvalEnd + 1 /\ hc < FetchEnd /\ hc # hpixels /\ hc <= EvalEnd
      /\ At' = IF p = 7 THEN At + 1 ELSE At
      /\ (hc % 8)' = IF p = 7 THEN 0 ELSE p + 1
  BY Places, Numbers DEF Sprite, SpritesTypeOK, TypeOK
<1>2. PICK f \in [0 .. sprite_count_next - 1 -> Done] : Listed(f)
  BY <1>1, Zenon DEF CollectInv
<1>3. PICK c \in Nat : c = sprite_count_next /\ c <= Slots
  BY CountTypes
<1>4. Selected' = Selected /\ \A i : OamEntry(i)' = OamEntry(i)
  BY <1>1, SameLine
<1>5. /\ sprite_add <=> p >= 2 /\ At \in Selected /\ c < Slots
      /\ overflow' <=> (p = 1 /\ At \in Selected /\ c = Slots) \/ overflow
      /\ sprite_count_next' = IF sprite_add /\ p = 7 THEN c + 1 ELSE c
  <2>1. Copying
    BY <1>1 DEF CollectInv
  <2> QED
    BY <1>1, <1>3, <2>1, CopyStep, Collects DEF Copying
<1>6. /\ Lists(f, c, Done) /\ Slots \in Nat /\ Done \subseteq Nat
      /\ \A k \in 0 .. c - 1 : k \in Slot \ {c} /\ f[k] \in Done /\ f[k] \in Nat /\ f[k] < At
      /\ \A k \in 0 .. c - 1 : next'[k] = OamEntry(f[k])
  <2>1. Lists(f, c, Done) /\ \A k \in 0 .. c - 1 : next[k] = OamEntry(f[k]) /\ f[k] \in Done
    BY <1>2, <1>3 DEF Listed
  <2>2. \A k \in 0 .. c - 1 : k \in Slot \ {c}
    BY <1>3, Numbers DEF Slot
  <2>3. \A k \in Slot \ {c} : next'[k] = next[k]
    BY <1>3, Puts
  <2>4. \A i \in Done : i \in Nat /\ i < At
    BY Numbers DEF Done, Selected, Sprite
  <2> QED
    BY <2>1, <2>2, <2>3, <2>4, Numbers
<1>7. overflow <=> c = Slots /\ \E i \in Selected : /\ i < At \/ (i = At /\ p >= 2)
                                                    /\ \A k \in 0 .. c - 1 : f[k] < i
  BY <1>2, <1>3 DEF Listed
<1>8. \A i \in Selected : i \in Nat
  BY Numbers DEF Selected, Sprite
<1> DEFINE Beyond(g, n) == \E i \in Selected : /\ i < At' \/ (i = At' /\ (hc % 8)' >= 2)
                                               /\ \A k \in 0 .. n - 1 : g[k] < i
<1>9. ASSUME NEW g, NEW n \in Nat, n = sprite_count_next', Lists(g, n, Done'),
             \A k \in 0 .. n - 1 : next'[k] = OamEntry(g[k]),
             overflow' <=> n = Slots /\ Beyond(g, n)
      PROVE  \E h \in [0 .. sprite_count_next' - 1 -> Done'] : Listed(h)'
  <2>1. g \in [0 .. sprite_count_next' - 1 -> Done']
    BY <1>9 DEF Lists
  <2>2. Listed(g)'
    BY <1>4, <1>9, Zenon DEF Listed, Lists
  <2> QED
    BY <2>1, <2>2, Zenon
<1>10. CASE ~ (sprite_add /\ p = 7)
  <2>1. c = sprite_count_next'
    BY <1>5, <1>10
  <2>2. Lists(f, c, Done')
    <3>1. CASE p # 7
      <4>1. Done' = Done
        BY <1>1, <1>4, <3>1 DEF Done
      <4> QED
        BY <1>6, <4>1
    <3>2. CASE p = 7 /\ At \notin Selected
      <4>1. \A i \in Selected : i < At + 1 <=> i < At
        BY <1>1, <1>8, <3>2
      <4>2. Done' = Done
        BY <1>1, <1>4, <3>2, <4>1 DEF Done
      <4> QED
        BY <1>6, <4>2
    <3>3. CASE p = 7 /\ At \in Selected /\ c = Slots
      <4>1. \A i \in Selected : i < At + 1 <=> i < At \/ i = At
        BY <1>1, <1>8, <3>3
      <4>2. Done' = Done \cup {At}
        BY <1>1, <1>4, <3>3, <4>1 DEF Done
      <4>3. \A i \in Done : i < At
        BY DEF Done
      <4> QED
        BY <1>6, <3>3, <4>2, <4>3, LeftOut
    <3> QED
      BY <1>3, <1>5, <1>6, <1>10, <3>1, <3>2, <3>3
  <2>3. overflow' <=> c = Slots /\ Beyond(f, c)
    <3>1. CASE p = 7
      <4>1. \A i \in Selected : (i < At' \/ (i = At' /\ (hc % 8)' >= 2)) <=> (i < At \/ (i = At /\ p >= 2))
        BY <1>1, <1>8, <3>1
      <4>2. p # 1
        BY <3>1
      <4> QED
        BY <1>5, <1>7, <4>1, <4>2, Zenon
    <3>2. CASE p = 0 \/ (p > 1 /\ p # 7)
      <4>1. \A i \in Selected : (i < At' \/ (i = At' /\ (hc % 8)' >= 2)) <=> (i < At \/ (i = At /\ p >= 2))
        BY <1>1, <1>8, <3>2
      <4>2. p # 1
        BY <3>2
      <4> QED
        BY <1>5, <1>7, <4>1, <4>2, Zenon
    <3>3. CASE p = 1
      <4>1. \A i \in Selected : /\ (i < At' \/ (i = At' /\ (hc % 8)' >= 2)) <=> (i < At \/ i = At)
                                /\ (i < At \/ (i = At /\ p >= 2)) <=> i < At
        BY <1>1, <1>8, <3>3
      <4>2. At \in Selected => \A k \in 0 .. c - 1 : f[k] < At
        BY <1>6
      <4> QED
        BY <1>5, <1>7, <3>3, <4>1, <4>2, Zenon
    <3> QED
      BY <1>1, <3>1, <3>2, <3>3
  <2>4. \A k \in 0 .. c - 1 : next'[k] = OamEntry(f[k])
    BY <1>6
  <2> HIDE DEF Beyond
  <2> QED
    BY <1>9, <2>1, <2>2, <2>3, <2>4
<1>11. CASE sprite_add /\ p = 7
  <2> DEFINE g == [k \in 0 .. c |-> IF k = c THEN At ELSE f[k]]
  <2>1. At \in Selected /\ c < Slots /\ sprite_count_next' = c + 1 /\ c + 1 \in Nat /\ At' = At + 1 /\ (hc % 8)' = 0
    BY <1>1, <1>5, <1>11
  <2>2. \A i \in Selected : i < At + 1 <=> i < At \/ i = At
    BY <1>1, <1>8
  <2>3. Done' = Done \cup {At}
    BY <1>4, <2>1, <2>2 DEF Done
  <2>4. \A i \in Done : i < At
    BY DEF Done
  <2>5. Lists(g, c + 1, Done')
    BY <1>1, <1>6, <2>1, <2>3, <2>4, Longer
  <2>6. next'[c] = OamEntry(At)
    <3>1. /\ next[c].y = oam[4 * At] /\ next[c].tile = oam[4 * At + 1] /\ next[c].attr = oam[4 * At + 2]
      BY <1>1, <1>3, <1>11 DEF CollectInv, Copying
    <3>2. oam_dout0 = oam[4 * At + (7 \div 2)]
      BY <1>1, <1>11 DEF CollectInv
    <3>3. 7 \div 2 = 3
      OBVIOUS
    <3>4. next'[c] = [y |-> next[c].y, tile |-> next[c].tile, attr |-> next[c].attr, x |-> oam_dout0]
      BY <1>3, <1>11, Puts
    <3> QED
      BY <3>1, <3>2, <3>3, <3>4 DEF OamEntry
  <2>7. g[c] = At /\ \A k \in 0 .. c - 1 : g[k] = f[k]
    OBVIOUS
  <2>8. \A k \in 0 .. c : k = c \/ k \in 0 .. c - 1
    OBVIOUS
  <2>9. 0 .. (c + 1) - 1 = 0 .. c /\ c \in 0 .. c
    OBVIOUS
  <2>10. \A k \in 0 .. (c + 1) - 1 : next'[k] = OamEntry(g[k])
    <3> HIDE DEF g
    <3> QED
      BY <1>6, <2>6, <2>7, <2>8, <2>9, Zenon
  <2>11. ~ overflow' /\ ~ Beyond(g, c + 1)
    <3>1. ~ overflow'
      BY <1>5, <1>7, <1>11, <2>1, <1>3
    <3>2. ASSUME Beyond(g, c + 1)
          PROVE  FALSE
      <4> HIDE DEF g
      <4>1. PICK i \in Selected : /\ i < At' \/ (i = At' /\ (hc % 8)' >= 2)
                                  /\ \A k \in 0 .. (c + 1) - 1 : g[k] < i
        BY <3>2
      <4>2. At < i
        BY <2>7, <2>9, <4>1
      <4>3. i < At + 1
        BY <2>1, <4>1
      <4> QED
        BY <1>1, <1>8, <4>2, <4>3
    <3> QED
      BY <3>1, <3>2
  <2> HIDE DEF g, Beyond
  <2> QED
    BY <1>9, <2>1, <2>5, <2>10, <2>11
<1> QED
  BY <1>10, <1>11

-----------------------------------------------------------------------------
(* What the evaluation has found so far is kept from pixel to pixel.       *)
LEMMA CollectKept ==
    ASSUME SpritesTypeOK, RestInv, PixelClock, CollectInv, RestInv'
    PROVE  CollectInv'
<1>1. CASE hc' = 0
  <2>1. (RestInv /\ hc = 0)'
    BY <1>1
  <2> QED
    BY <2>1, LineStart, PTL
<1>2. CASE hc' # 0
  <2> SUFFICES ASSUME steady', hc' <= EvalEnd
               PROVE  CollectInv'
    BY Zenon DEF CollectInv
  <2>1. steady
    BY <1>2 DEF PixelClock
  <2>2. hc < EvalEnd
    <3>1. hc # hpixels => hc' = hc + 1
      BY Beam DEF SpritesTypeOK, PixelClock
    <3>2. hc = hpixels => hc' = 0
      BY Beam DEF SpritesTypeOK, PixelClock
    <3>3. hc \in Nat /\ hc' = hc + 1
      BY <1>2, <3>1, <3>2, Numbers DEF SpritesTypeOK, TypeOK
    <3> QED
      BY <3>3, Numbers
  <2>3. \E g \in [0 .. sprite_count_next' - 1 -> Done'] : Listed(g)'
    BY <2>1, <2>2, ListStep
  <2>4. /\ Copying'
        /\ (hc % 8)' \in {1, 3, 5, 7} => oam_dout0' = oam[4 * At' + ((hc % 8)' \div 2)]
    BY <2>1, <2>2, CopyStep
  <2>5. oam' = oam
    BY DEF PixelClock
  <2> QED
    BY <2>3, <2>4, <2>5, Zenon DEF CollectInv
<1> QED
  BY <1>1, <1>2

-----------------------------------------------------------------------------
(* A set of k members, numbered from 0.                                    *)
LEMMA Numbered ==
    ASSUME NEW k \in Nat, NEW T, NEW f,
           \A j \in 0 .. k - 1 : f[j] \in T,
           \A i, j \in 0 .. k - 1 : f[i] = f[j] => i = j,
           \A t \in T : \E j \in 0 .. k - 1 : f[j] = t
    PROVE  IsFiniteSet(T) /\ Cardinality(T) = k
<1> DEFINE D == 0 .. k - 1
           g == [j \in D |-> f[j]]
<1>1. IsFiniteSet(D) /\ Cardinality(D) = k
  <2>1. /\ IsFiniteSet(0 .. k - 1)
        /\ Cardinality(0 .. k - 1) = IF 0 > k - 1 THEN 0 ELSE (k - 1) - 0 + 1
    <3>1. 0 \in Int /\ k - 1 \in Int
      OBVIOUS
    <3> QED
      BY <3>1, FS_Interval
  <2> QED
    BY <2>1
<1> HIDE DEF D
<1>2. \A j \in D : g[j] = f[j]
  OBVIOUS
<1>3. /\ \A j \in D : f[j] \in T
      /\ \A i, j \in D : f[i] = f[j] => i = j
      /\ \A t \in T : \E j \in D : f[j] = t
  BY DEF D
<1>4. g \in [D -> T]
  BY <1>3
<1> HIDE DEF g
<1>5. g \in Bijection(D, T)
  <2>1. g \in Surjection(D, T)
    BY <1>2, <1>3, <1>4, Zenon DEF Surjection
  <2>2. \A i, j \in DOMAIN g : g[i] = g[j] => i = j
    BY <1>2, <1>3, <1>4
  <2>3. g \in Injection(D, T)
    BY <1>4, <2>2, Zenon DEF Injection, IsInjective
  <2> QED
    BY <2>1, <2>3 DEF Bijection
<1> QED
  BY <1>1, <1>5, FS_Bijection DEF ExistsBijection

(* A list in order names its members by their ranks: those that are wanted.*)
LEMMA Ranks ==
    ASSUME SpritesTypeOK, NEW n \in Nat, n <= Slots, NEW f, Lists(f, n, Selected)
    PROVE  /\ \A k \in 0 .. n - 1 : f[k] \in DOMAIN Wanted /\ Rank(f[k]) = k
           /\ \A i \in DOMAIN Wanted : \E k \in 0 .. n - 1 : f[k] = i
           /\ n = Cardinality(DOMAIN Wanted)
           /\ Cardinality(Selected) > Slots <=> /\ n = Slots
                                                /\ \E i \in Selected : \A k \in 0 .. n - 1 : f[k] < i
<1>1. Selected \subseteq Nat /\ IsFiniteSet(Selected) /\ Slots \in Nat /\ Slots >= 1
  <2>1. Selected \subseteq 0 .. NumSprites - 1 /\ NumSprites - 1 \in Int /\ 0 \in Int
    BY EntryTypes, Numbers DEF Sprite
  <2>2. IsFiniteSet(0 .. NumSprites - 1)
    BY <2>1, FS_Interval
  <2>3. IsFiniteSet(Selected)
    BY <2>1, <2>2, FS_Subset
  <2> QED
    BY <2>1, <2>3, Numbers
<1>2. /\ \A k \in 0 .. n - 1 : f[k] \in Selected /\ f[k] \in Nat
      /\ \A j, k \in 0 .. n - 1 : j < k => f[j] < f[k]
      /\ \A i \in Selected : \/ \E k \in 0 .. n - 1 : f[k] = i
                             \/ n = Slots /\ \A k \in 0 .. n - 1 : f[k] < i
  BY <1>1 DEF Lists
<1>3. \A j, k \in 0 .. n - 1 : f[j] = f[k] => j = k
  <2> SUFFICES ASSUME NEW j \in 0 .. n - 1, NEW k \in 0 .. n - 1, f[j] = f[k]
               PROVE  j = k
    OBVIOUS
  <2>1. j < k \/ k < j \/ j = k
    OBVIOUS
  <2>2. f[j] \in Nat /\ f[k] \in Nat
    BY <1>2
  <2> QED
    BY <1>2, <2>1, <2>2
<1>4. \A j, k \in 0 .. n - 1 : f[j] < f[k] => j < k
  <2> SUFFICES ASSUME NEW j \in 0 .. n - 1, NEW k \in 0 .. n - 1, f[j] < f[k]
               PROVE  j < k
    OBVIOUS
  <2>1. j < k \/ k < j \/ j = k
    OBVIOUS
  <2>2. f[j] \in Nat /\ f[k] \in Nat
    BY <1>2
  <2> QED
    BY <1>2, <2>1, <2>2
<1>5. ASSUME NEW k \in 0 .. n - 1
      PROVE  Rank(f[k]) = k
  <2> DEFINE T == {j \in Selected : j < f[k]}
  <2>1. k \in Nat /\ \A j \in 0 .. k - 1 : j \in 0 .. n - 1 /\ j < k
    OBVIOUS
  <2>2. \A j \in 0 .. k - 1 : f[j] \in T
    BY <1>2, <2>1
  <2>3. \A i, j \in 0 .. k - 1 : f[i] = f[j] => i = j
    BY <1>3, <2>1
  <2>4. \A t \in T : \E j \in 0 .. k - 1 : f[j] = t
    <3> SUFFICES ASSUME NEW t \in Selected, t < f[k]
                 PROVE  \E j \in 0 .. k - 1 : f[j] = t
      OBVIOUS
    <3>1. t \in Nat /\ f[k] \in Nat /\ ~ (f[k] < t)
      BY <1>1, <1>2
    <3>2. PICK j \in 0 .. n - 1 : f[j] = t
      BY <1>2, <3>1
    <3>3. j < k
      BY <1>4, <3>2
    <3>4. j \in 0 .. k - 1
      BY <3>3
    <3> QED
      BY <3>2, <3>4
  <2> HIDE DEF T
  <2>5. Cardinality(T) = k
    BY <2>1, <2>2, <2>3, <2>4, Numbered
  <2> QED
    BY <2>5 DEF Rank, T
<1>6. \A k \in 0 .. n - 1 : f[k] \in DOMAIN Wanted
  <2>1. \A k \in 0 .. n - 1 : f[k] \in Selected /\ Rank(f[k]) < Slots
    BY <1>1, <1>2, <1>5
  <2> QED
    BY <2>1 DEF Wanted
<1> DEFINE T == {i \in Selected : \E k \in 0 .. n - 1 : f[k] = i}
<1>7. IsFiniteSet(T) /\ Cardinality(T) = n
  <2>1. /\ \A k \in 0 .. n - 1 : f[k] \in T
        /\ \A t \in T : \E k \in 0 .. n - 1 : f[k] = t
    BY <1>2
  <2> HIDE DEF T
  <2> QED
    BY <1>3, <2>1, Numbered
<1>8. ASSUME NEW i \in Selected, n = Slots, \A k \in 0 .. n - 1 : f[k] < i
      PROVE  Rank(i) >= Slots
  <2> DEFINE U == {j \in Selected : j < i}
  <2>1. IsFiniteSet(U)
    BY <1>1, FS_Subset
  <2>2. T \subseteq U
    BY <1>8
  <2>3. Cardinality(T) <= Cardinality(U)
    <3> HIDE DEF T, U
    <3> QED
      BY <2>1, <2>2, FS_Subset
  <2>4. Cardinality(U) \in Nat
    BY <2>1, FS_CardinalityType
  <2> HIDE DEF T
  <2> QED
    BY <1>1, <1>7, <1>8, <2>3, <2>4 DEF Rank
<1>9. \A i \in DOMAIN Wanted : \E k \in 0 .. n - 1 : f[k] = i
  <2> SUFFICES ASSUME NEW i \in Selected, Rank(i) < Slots, ~ \E k \in 0 .. n - 1 : f[k] = i
               PROVE  FALSE
    BY DEF Wanted
  <2>1. n = Slots /\ \A k \in 0 .. n - 1 : f[k] < i
    BY <1>2
  <2>2. Rank(i) >= Slots
    BY <1>8, <2>1
  <2>3. Rank(i) \in Nat
    <3>1. IsFiniteSet({j \in Selected : j < i})
      BY <1>1, FS_Subset
    <3> QED
      BY <3>1, FS_CardinalityType DEF Rank
  <2> QED
    BY <1>1, <2>2, <2>3
<1>10. n = Cardinality(DOMAIN Wanted)
  <2>1. DOMAIN Wanted = T
    <3>1. DOMAIN Wanted \subseteq Selected
      BY EntryTypes
    <3> QED
      BY <1>6, <1>9, <3>1
  <2> QED
    BY <1>7, <2>1
<1>11. Cardinality(Selected) > Slots <=> n = Slots /\ \E i \in Selected : \A k \in 0 .. n - 1 : f[k] < i
  <2>1. CASE n = Slots /\ \E i \in Selected : \A k \in 0 .. n - 1 : f[k] < i
    <3>1. PICK i \in Selected : \A k \in 0 .. n - 1 : f[k] < i
      BY <2>1
    <3>2. i \notin T
      BY <1>1, <3>1
    <3>3. T \cup {i} \subseteq Selected
      OBVIOUS
    <3> HIDE DEF T
    <3>4. Cardinality(T \cup {i}) = n + 1
      BY <1>7, <3>2, FS_AddElement
    <3>5. Cardinality(T \cup {i}) <= Cardinality(Selected) /\ Cardinality(Selected) \in Nat
      BY <1>1, <3>3, FS_Subset, FS_CardinalityType
    <3>6. Cardinality(Selected) > Slots
      BY <1>1, <2>1, <3>4, <3>5
    <3> QED
      BY <2>1, <3>6
  <2>2. CASE ~ (n = Slots /\ \E i \in Selected : \A k \in 0 .. n - 1 : f[k] < i)
    <3>1. T = Selected
      BY <1>2, <2>2
    <3>2. Cardinality(Selected) = n
      BY <1>7, <3>1
    <3>3. ~ (Cardinality(Selected) > Slots)
      BY <1>1, <3>2
    <3> QED
      BY <2>2, <3>3
  <2> QED
    BY <2>1, <2>2
<1> QED
  BY <1>5, <1>6, <1>9, <1>10, <1>11

-----------------------------------------------------------------------------
(* When the evaluation ends, the list is complete.                         *)
LEMMA AtEnd ==
    ASSUME SpritesTypeOK, CollectInv, steady, hc = EvalEnd
    PROVE  /\ overflow <=> Cardinality(Selected) > Slots
           /\ sprite_count_next = Cardinality(DOMAIN Wanted)
           /\ \E f \in [0 .. sprite_count_next - 1 -> DOMAIN Wanted] :
                 /\ \A j, k \in 0 .. sprite_count_next - 1 : j < k => f[j] < f[k]
                 /\ \A i \in DOMAIN Wanted : \E k \in 0 .. sprite_count_next - 1 : f[k] = i
                 /\ \A k \in 0 .. sprite_count_next - 1 : /\ next[k] = OamEntry(f[k]) /\ Rank(f[k]) = k
                                                          /\ next[k] = Wanted[f[k]]
<1>1. hc <= EvalEnd /\ ~ (hc < EvalEnd) /\ NumSprites \in Nat
  BY Numbers
<1>2. PICK f \in [0 .. sprite_count_next - 1 -> Done] : Listed(f)
  BY <1>1, Zenon DEF CollectInv
<1>3. PICK n \in Nat : n = sprite_count_next /\ n <= Slots
  BY CountTypes
<1>4. At = NumSprites
  BY <1>1 DEF At
<1>5. \A i \in Selected : i \in Nat /\ i < At
  BY <1>1, <1>4 DEF Selected, Sprite
<1>6. Done = Selected
  BY <1>5 DEF Done
<1>7. /\ Lists(f, n, Selected)
      /\ \A k \in 0 .. n - 1 : next[k] = OamEntry(f[k])
      /\ overflow <=> n = Slots /\ \E i \in Selected : \A k \in 0 .. n - 1 : f[k] < i
  <2>1. /\ Lists(f, sprite_count_next, Done)
        /\ \A k \in 0 .. sprite_count_next - 1 : next[k] = OamEntry(f[k])
        /\ overflow <=> /\ sprite_count_next = Slots
                        /\ \E i \in Selected : /\ i < At \/ (i = At /\ hc % 8 >= 2)
                                               /\ \A k \in 0 .. sprite_count_next - 1 : f[k] < i
    BY <1>2, Zenon DEF Listed
  <2> QED
    BY <1>3, <1>5, <1>6, <2>1, Zenon
<1>8. /\ \A k \in 0 .. n - 1 : f[k] \in DOMAIN Wanted /\ Rank(f[k]) = k
      /\ \A i \in DOMAIN Wanted : \E k \in 0 .. n - 1 : f[k] = i
      /\ n = Cardinality(DOMAIN Wanted)
      /\ Cardinality(Selected) > Slots <=> /\ n = Slots
                                           /\ \E i \in Selected : \A k \in 0 .. n - 1 : f[k] < i
  BY <1>3, <1>7, Ranks
<1>9. \A i \in DOMAIN Wanted : Wanted[i] = OamEntry(i)
  BY DEF Wanted
<1>10. f \in [0 .. n - 1 -> DOMAIN Wanted]
  <2>1. f \in [0 .. n - 1 -> Selected]
    BY <1>7 DEF Lists
  <2> QED
    BY <1>8, <2>1
<1>11. \A j, k \in 0 .. n - 1 : j < k => f[j] < f[k]
  BY <1>7 DEF Lists
<1>12. \A k \in 0 .. n - 1 : next[k] = OamEntry(f[k]) /\ Rank(f[k]) = k /\ next[k] = Wanted[f[k]]
  BY <1>7, <1>8, <1>9
<1>13. overflow <=> Cardinality(Selected) > Slots
  BY <1>7, <1>8, Zenon
<1>14. \E g \in [0 .. n - 1 -> DOMAIN Wanted] :
          /\ \A j, k \in 0 .. n - 1 : j < k => g[j] < g[k]
          /\ \A i \in DOMAIN Wanted : \E k \in 0 .. n - 1 : g[k] = i
          /\ \A k \in 0 .. n - 1 : next[k] = OamEntry(g[k]) /\ Rank(g[k]) = k /\ next[k] = Wanted[g[k]]
  BY <1>8, <1>10, <1>11, <1>12, Zenon
<1> QED
  BY <1>3, <1>8, <1>13, <1>14

LEMMA OverflowAtEnd == SpritesTypeOK /\ CollectInv /\ hc = EvalEnd => OverflowExact
<1> SUFFICES ASSUME SpritesTypeOK, CollectInv, hc = EvalEnd
             PROVE  OverflowExact
  OBVIOUS
<1> QED
  BY AtEnd DEF OverflowExact

(* The steps of a line after the evaluation.                               *)
LEMMA LaterSteps ==
    ASSUME SpritesTypeOK, PixelClock, hc' # 0, hc' > EvalEnd
    PROVE  hc # hpixels /\ hc \in Nat /\ hc' = hc + 1 /\ hc >= EvalEnd
<1>1. hc \in Nat /\ EvalEnd \in Nat
  BY Numbers DEF SpritesTypeOK, TypeOK
<1>2. hc = hpixels => hc' = 0
  BY Beam DEF SpritesTypeOK, PixelClock
<1>3. hc' = hc + 1
  BY <1>2, SameLine
<1> QED
  BY <1>1, <1>2, <1>3

LEMMA OverflowKept ==
    ASSUME SpritesTypeOK, RestInv, PixelClock, OverflowExact, SpritesTypeOK', CollectInv'
    PROVE  OverflowExact'
<1>0. EvalEnd \in Nat /\ EvalEnd > 0 /\ FetchEnd \in Nat /\ hc' \in Nat /\ FetchEnd <= hpixels
  BY Beam, Numbers DEF SpritesTypeOK, PixelClock
<1>1. CASE hc' = EvalEnd
  <2>1. (SpritesTypeOK /\ CollectInv /\ hc = EvalEnd)'
    BY <1>1 DEF EvalEnd
  <2> QED
    BY <2>1, OverflowAtEnd, PTL
<1>2. CASE ~ (hc' \in EvalEnd .. FetchEnd)
  BY <1>2 DEF OverflowExact, EvalEnd
<1>3. CASE hc' \in EvalEnd .. FetchEnd /\ hc' # EvalEnd
  <2>1. hc # hpixels /\ hc \in Nat /\ hc' = hc + 1 /\ hc >= EvalEnd /\ hc < FetchEnd
    BY <1>0, <1>3, LaterSteps
  <2>2. hc \in EvalEnd .. FetchEnd /\ ~ (hc < EvalEnd)
    BY <1>0, <2>1
  <2>3. overflow' <=> overflow
    BY <2>1, <2>2, Collects
  <2>4. Selected' = Selected
    BY <2>1, SameLine
  <2>5. hc' # 0
    BY <1>0, <1>3
  <2>6. steady' => steady
    BY <2>5 DEF PixelClock
  <2> QED
    BY <2>2, <2>3, <2>4, <2>6, Zenon DEF OverflowExact, EvalEnd
<1> QED
  BY <1>1, <1>2, <1>3

LEMMA LineListKept ==
    ASSUME SpritesTypeOK, RestInv, PixelClock, CollectInv, LineList
    PROVE  LineList'
<1> SUFFICES ASSUME steady', hc' > EvalEnd
             PROVE  /\ sprite_count' = Cardinality(DOMAIN Wanted')
                    /\ \A i \in DOMAIN Wanted' : list'[Rank(i)'] = Wanted'[i]
  BY Zenon DEF LineList, EvalEnd
<1>0. EvalEnd \in Nat /\ EvalEnd > 0 /\ hc' \in Nat /\ hc' # 0
  BY Beam, Numbers DEF SpritesTypeOK, PixelClock
<1>1. hc # hpixels /\ hc \in Nat /\ hc' = hc + 1 /\ hc >= EvalEnd
  BY <1>0, LaterSteps
<1>2. Wanted' = Wanted /\ \A i : Rank(i)' = Rank(i)
  BY <1>1, SameLine
<1>3. steady
  BY <1>0 DEF PixelClock
<1>4. CASE hc = EvalEnd
  <2>1. list' = next /\ sprite_count' = sprite_count_next
    BY <1>4 DEF PixelClock, HandOver
  <2>2. PICK f \in [0 .. sprite_count_next - 1 -> DOMAIN Wanted] :
           /\ \A i \in DOMAIN Wanted : \E k \in 0 .. sprite_count_next - 1 : f[k] = i
           /\ \A k \in 0 .. sprite_count_next - 1 : /\ next[k] = OamEntry(f[k]) /\ Rank(f[k]) = k
                                                    /\ next[k] = Wanted[f[k]]
    BY <1>3, <1>4, AtEnd
  <2>3. ASSUME NEW i \in DOMAIN Wanted
        PROVE  next[Rank(i)] = Wanted[i]
    <3>1. PICK k \in 0 .. sprite_count_next - 1 : f[k] = i
      BY <2>2
    <3>2. Rank(f[k]) = k /\ next[k] = Wanted[f[k]]
      BY <2>2
    <3> QED
      BY <3>1, <3>2
  <2>4. sprite_count_next = Cardinality(DOMAIN Wanted)
    BY <1>3, <1>4, AtEnd
  <2> QED
    BY <1>2, <2>1, <2>3, <2>4
<1>5. CASE hc # EvalEnd
  <2>1. list' = list /\ sprite_count' = sprite_count /\ hc > EvalEnd
    BY <1>0, <1>1, <1>5 DEF PixelClock, HandOver
  <2> QED
    BY <1>2, <1>3, <2>1, Zenon DEF LineList
<1> QED
  BY <1>4, <1>5

-----------------------------------------------------------------------------
(* What is due is the list that was handed over.                           *)
LEMMA DueSet ==
    ASSUME SpritesTypeOK, RestInv, PixelClock, CollectInv, hc = EvalEnd
    PROVE  DueInv'
<1>1. /\ due' = [known |-> steady /\ ~ tall, list |-> Wanted, line |-> vc, table |-> table]
      /\ list' = next /\ sprite_count' = sprite_count_next /\ table' = table
  BY DEF PixelClock, HandOver
<1>2. hc # hpixels /\ vc' = vc
  <2>1. hc # hpixels
    BY Numbers
  <2> QED
    BY <2>1, SameLine
<1>3. CASE ~ (steady /\ ~ tall)
  <2>1. ~ due'.known
    BY <1>1, <1>3
  <2> QED
    BY <2>1, Zenon DEF DueInv
<1>4. CASE steady /\ ~ tall
  <2>1. due'.list = Wanted /\ due'.line = vc /\ due'.table = table
    BY <1>1
  <2>2. PICK n : n = sprite_count_next
    OBVIOUS
  <2>3. PICK f \in [0 .. n - 1 -> DOMAIN Wanted] :
           /\ \A j, k \in 0 .. n - 1 : j < k => f[j] < f[k]
           /\ \A i \in DOMAIN Wanted : \E k \in 0 .. n - 1 : f[k] = i
           /\ \A k \in 0 .. n - 1 : next[k] = OamEntry(f[k]) /\ next[k] = Wanted[f[k]]
    BY <1>4, <2>2, AtEnd
  <2>4. DOMAIN Wanted \subseteq Selected
    BY EntryTypes
  <2>5. ASSUME NEW k \in 0 .. n - 1
        PROVE  Bits(vc, 1, 8) - next[k].y \in 0 .. 7 /\ vc < EvalLines
    <3>1. f[k] \in Selected /\ next[k] = OamEntry(f[k])
      BY <2>3, <2>4
    <3>2. next[k].y = oam[4 * f[k]]
      BY <3>1 DEF OamEntry
    <3> QED
      BY <1>4, <3>1, <3>2 DEF Selected, OnLine, sprite_size
  <2>6. n > 0 => vc < EvalLines
    <3>1. n \in Nat
      BY <2>2, CountTypes
    <3>2. n > 0 => 0 \in 0 .. n - 1
      BY <3>1
    <3> QED
      BY <2>5, <3>2
  <2>7. Packed(next, n, Wanted)
    BY <2>3, Zenon DEF Packed
  <2>8. Rows(next, n, vc)
    BY <2>5 DEF Rows
  <2>9. sprite_count' = n /\ list' = next /\ table' = table /\ vc' = vc
    BY <1>1, <1>2, <2>2
  <2>10. Packed(list', sprite_count', due'.list) /\ Rows(list', sprite_count', due'.line)
    BY <2>1, <2>7, <2>8, <2>9
  <2>11. due'.line = vc' /\ due'.table = table' /\ (sprite_count' > 0 => vc' < EvalLines)
    BY <2>1, <2>6, <2>9
  <2> QED
    BY <2>10, <2>11, Zenon DEF DueInv, Packed, Rows, Bits
<1> QED
  BY <1>3, <1>4

LEMMA DueKept ==
    ASSUME SpritesTypeOK, RestInv, PixelClock, CollectInv, DueInv
    PROVE  DueInv'
<1>1. CASE hc = EvalEnd
  BY <1>1, DueSet
<1>2. CASE hc # EvalEnd
  <2>1. due' = due /\ list' = list /\ sprite_count' = sprite_count /\ table' = table
    BY <1>2 DEF PixelClock, HandOver
  <2>2. hc' > EvalEnd => hc > EvalEnd /\ vc' = vc /\ (hc' < FetchEnd => hc < FetchEnd)
    <3>1. hc' = 0 => ~ (hc' > EvalEnd)
      BY Numbers
    <3>2. hc' > EvalEnd => hc # hpixels /\ hc \in Nat /\ hc' = hc + 1 /\ hc >= EvalEnd
      BY <3>1, LaterSteps
    <3> QED
      BY <1>2, <3>2, SameLine, Numbers
  <2> SUFFICES ASSUME due.known
               PROVE  DueInv'
    BY <2>1, Zenon DEF DueInv
  <2>3. /\ Packed(list, sprite_count, due.list) /\ Rows(list, sprite_count, due.line)
        /\ hc > EvalEnd => /\ due.line = vc /\ (hc < FetchEnd => due.table = table)
                           /\ sprite_count > 0 => vc < EvalLines
    BY Zenon DEF DueInv
  <2>4. Packed(list', sprite_count', due'.list) /\ Rows(list', sprite_count', due'.line)
    BY <2>1, <2>3
  <2>5. hc' > EvalEnd => /\ due'.line = vc' /\ (hc' < FetchEnd => due'.table = table')
                         /\ sprite_count' > 0 => vc' < EvalLines
    BY <2>1, <2>2, <2>3
  <2> QED
    BY <2>4, <2>5, Zenon DEF DueInv, Packed, Rows, Bits, EvalEnd
<1> QED
  BY <1>1, <1>2

-----------------------------------------------------------------------------
(* What a write leaves alone.                                              *)
LEMMA Writes ==
    ASSUME SpritesTypeOK, Write
    PROVE  /\ UNCHANGED <<hc, vc, hs, vs, oam_dout0, chr_dout1, sprite_add, next, sprite_count_next,
                          list, sprite_count, overflow, sprite_ls, sprite_ms>>
           /\ ~ steady'
           /\ due'.list = due.list /\ due'.line = due.line /\ due'.table = due.table
           /\ due'.known => due.known /\ ~ (hc > EvalEnd /\ hc < FetchEnd)
<1>1. due = [known |-> due.known, list |-> due.list, line |-> due.line, table |-> due.table]
  BY DEF SpritesTypeOK, DueTypeOK
<1>2. due' = [due EXCEPT !.known = @ /\ ~ (hc > EvalEnd /\ hc < FetchEnd)]
  BY DEF Write
<1>3. /\ due'.list = due.list /\ due'.line = due.line /\ due'.table = due.table
      /\ due'.known <=> due.known /\ ~ (hc > EvalEnd /\ hc < FetchEnd)
  BY <1>1, <1>2
<1> QED
  BY <1>3 DEF Write, beam, evaluation, patterns

LEMMA WriteKeeps ==
    ASSUME SpritesTypeOK, Write, RestInv, DueInv
    PROVE  RestInv' /\ CollectInv' /\ OverflowExact' /\ LineList' /\ DueInv'
<1>1. /\ UNCHANGED <<hc, vc, sprite_add, sprite_count_next, list, sprite_count, overflow>>
      /\ ~ steady'
      /\ due'.list = due.list /\ due'.line = due.line /\ due'.table = due.table
      /\ due'.known => due.known /\ ~ (hc > EvalEnd /\ hc < FetchEnd)
  BY Writes
<1>2. RestInv'
  BY <1>1 DEF RestInv, EvalEnd
<1>3. CollectInv' /\ OverflowExact' /\ LineList'
  BY <1>1, Zenon DEF CollectInv, OverflowExact, LineList
<1>4. DueInv'
  <2> SUFFICES ASSUME due'.known
               PROVE  DueInv'
    BY Zenon DEF DueInv
  <2>1. /\ Packed(list, sprite_count, due.list) /\ Rows(list, sprite_count, due.line)
        /\ hc > EvalEnd => /\ due.line = vc /\ ~ (hc < FetchEnd)
                           /\ sprite_count > 0 => vc < EvalLines
    BY <1>1, Zenon DEF DueInv
  <2>2. Packed(list', sprite_count', due'.list) /\ Rows(list', sprite_count', due'.line)
    BY <1>1, <2>1
  <2>3. hc' > EvalEnd => /\ due'.line = vc' /\ (hc' < FetchEnd => due'.table = table')
                         /\ sprite_count' > 0 => vc' < EvalLines
    BY <1>1, <2>1
  <2> QED
    BY <2>2, <2>3, Zenon DEF DueInv, Packed, Rows, Bits, EvalEnd
<1> QED
  BY <1>2, <1>3, <1>4

-----------------------------------------------------------------------------
LEMMA OneRemainder ==
    ASSUME NEW M \in Nat, NEW a \in Nat, NEW b \in Nat, NEW s \in 0 .. M - 1, NEW t \in 0 .. M - 1,
           M * a + s = M * b + t
    PROVE  s = t
<1>1. ASSUME NEW u \in Nat, NEW v \in Nat, u < v
      PROVE  M * v >= M * u + M
  <2>1. PICK d \in Nat : v = u + 1 + d
    <3>1. v - u - 1 \in Nat /\ v = u + 1 + (v - u - 1)
      BY <1>1
    <3> QED
      BY <3>1
  <2>2. M * d \in Nat
    OBVIOUS
  <2>3. M * v = M * u + M + M * d
    BY <2>1, SMTT(30)
  <2>4. M * u \in Nat
    OBVIOUS
  <2> QED
    BY <2>2, <2>3, <2>4
<1>2. M * a \in Nat /\ M * b \in Nat
  OBVIOUS
<1>3. a < b => M * b >= M * a + M
  BY <1>1
<1>4. b < a => M * a >= M * b + M
  BY <1>1
<1>5. a = b => M * a = M * b
  OBVIOUS
<1> QED
  BY <1>2, <1>3, <1>4, <1>5

(* The fetch unit comes to each slot, for each byte.                       *)
LEMMA TurnOf ==
    ASSUME NEW k \in Slot, NEW p \in 0 .. 3
    PROVE  \E h \in EvalEnd + 2 .. hpixels - 1 : h < FetchEnd /\ h % 4 = p /\ (h \div 4) % Slots = k
<1> DEFINE h == EvalEnd + 4 * Slots + 4 * k + p
<1>1. /\ k \in Nat /\ k < Slots /\ p \in Nat /\ p <= 3
      /\ Slots \in Nat /\ Slots > 0 /\ NumSprites \in Nat /\ 2 * NumSprites \in Nat
  BY Numbers DEF Slot
<1>2. h \in EvalEnd + 2 .. hpixels - 1 /\ h < FetchEnd
  BY <1>1, Numbers
<1>3. h % 4 = p /\ h \div 4 = 2 * NumSprites + Slots + k
  BY <1>1, Numbers
<1>4. PICK q \in Nat, r \in 0 .. Slots - 1 : 2 * NumSprites = Slots * q + r /\ (2 * NumSprites) % Slots = r
  BY <1>1, Remainder
<1>5. 2 * NumSprites = Slots * q
  <2>1. r = 0
    BY <1>4, SpritesAssumption
  <2>2. Slots * q \in Nat
    BY <1>1
  <2> QED
    BY <1>4, <2>1, <2>2
<1>6. 2 * NumSprites + Slots + k = Slots * (q + 1) + k
  BY <1>1, <1>5, SMTT(30)
<1>7. PICK v \in Nat : v = h \div 4
  BY <1>1, <1>3
<1>8. PICK a \in Nat, s \in 0 .. Slots - 1 : v = Slots * a + s /\ v % Slots = s
  BY <1>1, Remainder
<1>9. s = k
  <2>1. k \in 0 .. Slots - 1 /\ q + 1 \in Nat
    BY <1>1
  <2>2. Slots * (q + 1) + k = Slots * a + s
    BY <1>3, <1>6, <1>7, <1>8
  <2> HIDE DEF h
  <2> QED
    BY <1>1, <2>1, <2>2, OneRemainder
<1>10. (h \div 4) % Slots = k
  BY <1>7, <1>8, <1>9
<1> HIDE DEF h
<1> QED
  BY <1>2, <1>3, <1>10

(* What the fetch unit reads for a slot of the list is its pattern.        *)
LEMMA Reads ==
    ASSUME SpritesTypeOK, DueInv, due.known, hc > EvalEnd, hc < FetchEnd, Turn < sprite_count
    PROVE  /\ hc % 4 = 0 => chr_addr1 = PatternOf(Turn, 0)
           /\ hc % 4 = 2 => chr_addr1 = PatternOf(Turn, 1)
<1>1. hc \in Nat /\ vc \in Nat /\ EvalEnd \in Nat /\ Slots \in Nat /\ table \in {0, 1}
  BY Numbers DEF SpritesTypeOK, TypeOK
<1>2. Turn \in Slot /\ Turn \in Nat /\ sprite_count \in Nat
  <2>1. PICK t \in Nat : t = hc \div 4
    BY <1>1
  <2>2. PICK q \in Nat, s \in 0 .. Slots - 1 : t = Slots * q + s /\ t % Slots = s
    BY <1>1, Remainder, Numbers
  <2>3. Turn = s
    BY <2>1, <2>2 DEF Turn
  <2> QED
    BY <1>1, <2>3 DEF Slot, SpritesTypeOK
<1> DEFINE e == list[Turn]
<1>3. e.y \in Int /\ e.tile \in 0 .. 255 /\ e.attr \in Int
  <2>1. e \in Entry
    BY <1>2 DEF SpritesTypeOK
  <2> QED
    BY <2>1 DEF Entry, Byte
<1>4. Rows(list, sprite_count, due.line) /\ due.line = vc /\ due.table = table /\ vc < EvalLines
  <2>1. sprite_count > 0
    BY <1>2
  <2> QED
    BY <2>1 DEF DueInv
<1>5. Y - e.y \in 0 .. 7 /\ Y = Bits(due.line, 1, 8)
  <2>1. Turn \in 0 .. sprite_count - 1
    BY <1>2
  <2> QED
    BY <1>4, <2>1 DEF Rows, Y
<1> DEFINE row == IF Bits(e.attr, 7, 1) = 1 THEN 7 - (Y - e.y) ELSE Y - e.y
<1>6. row \in 0 .. 7
  <2>1. PICK r \in 0 .. 7 : r = Y - e.y
    BY <1>5
  <2> HIDE DEF e
  <2> QED
    BY <2>1
<1>7. \A plane : PatternOf(Turn, plane) = 4096 * table + 16 * e.tile + row + 8 * plane
  BY <1>4, <1>5 DEF PatternOf
<1> DEFINE v == 4096 * table + 16 * e.tile + row + 8 * Bits(hc, 1, 1)
<1>8. chr_addr1 = v % 8192
  <2>1. ~ (hc < EvalEnd) /\ ~ (hc >= FetchEnd) /\ hc >= EvalEnd
    BY <1>1, Numbers
  <2>2. Turn <= sprite_count /\ ~ (vc >= EvalLines)
    BY <1>1, <1>2, <1>4, Numbers
  <2>3. Fetching
    BY <2>1, <2>2 DEF Fetching
  <2>4. chr_addr1 = IF hc < EvalEnd \/ hc >= FetchEnd THEN NoPattern
                    ELSE IF ~ Fetching \/ vc >= EvalLines THEN 0 ELSE v % 8192
    BY DEF chr_addr1
  <2> HIDE DEF v
  <2> QED
    BY <2>1, <2>2, <2>3, <2>4
<1> HIDE DEF row, e
<1>9. ASSUME NEW b \in {0, 1}
      PROVE  (4096 * table + 16 * e.tile + row + 8 * b) % 8192 = 4096 * table + 16 * e.tile + row + 8 * b
  <2>1. PICK t \in 0 .. 255 : t = e.tile
    BY <1>3
  <2>2. PICK r \in 0 .. 7 : r = row
    BY <1>6
  <2>3. PICK w \in Nat : w = 4096 * table + 16 * t + r + 8 * b
    BY <1>1
  <2>4. w < 8192
    BY <1>1, <2>3
  <2>5. w % 8192 = w
    BY <2>4
  <2> QED
    BY <2>1, <2>2, <2>3, <2>5
<1>10. Bits(hc, 1, 1) = (hc \div 2) % 2
  BY <1>1, BitsAre
<1>11. hc % 4 = 0 => Bits(hc, 1, 1) = 0
  BY <1>1, <1>10, Fours
<1>12. hc % 4 = 2 => Bits(hc, 1, 1) = 1
  BY <1>1, <1>10, Fours
<1>13. hc % 4 = 0 => chr_addr1 = PatternOf(Turn, 0)
  BY <1>7, <1>8, <1>9, <1>11
<1>14. hc % 4 = 2 => chr_addr1 = PatternOf(Turn, 1)
  BY <1>7, <1>8, <1>9, <1>12
<1> QED
  BY <1>13, <1>14

-----------------------------------------------------------------------------
(* What a pixel clock writes to the pattern bytes.                         *)
LEMMA Fetches ==
    ASSUME SpritesTypeOK, PixelClock, NEW k \in Slot
    PROVE  /\ sprite_ls'[k] = IF Fetching /\ hc % 4 = 1 /\ k = Turn THEN chr_dout1 ELSE sprite_ls[k]
           /\ sprite_ms'[k] = IF Fetching /\ hc % 4 = 3 /\ k = Turn THEN chr_dout1 ELSE sprite_ms[k]
<1>1. sprite_ls \in [Slot -> Address] /\ sprite_ms \in [Slot -> Address]
  BY DEF SpritesTypeOK
<1>2. Fetch
  BY DEF PixelClock
<1>3. /\ sprite_ls' = IF Fetching /\ hc % 4 = 1 THEN [sprite_ls EXCEPT ![Turn] = chr_dout1] ELSE sprite_ls
      /\ sprite_ms' = IF Fetching /\ hc % 4 = 3 THEN [sprite_ms EXCEPT ![Turn] = chr_dout1] ELSE sprite_ms
  BY <1>2 DEF Fetch
<1> QED
  BY <1>1, <1>3

(* After the list was handed over: a byte that has been fetched stays.     *)
LEMMA FetchStep ==
    ASSUME SpritesTypeOK, PixelClock, hc > EvalEnd, hc' = hc + 1,
           NEW k \in Slot, k < sprite_count, NEW p \in {1, 3}, Fetched(k, p)'
    PROVE  \/ hc >= EvalEnd + 2 /\ hc < FetchEnd /\ Fetching /\ hc % 4 = p /\ k = Turn
           \/ Fetched(k, p) /\ ~ (Fetching /\ hc % 4 = p /\ k = Turn)
<1>1. hc \in Nat /\ EvalEnd \in Nat /\ FetchEnd \in Nat /\ k \in Nat /\ sprite_count \in Nat
  BY Numbers DEF SpritesTypeOK, TypeOK, Slot
<1>2. \E h \in EvalEnd + 2 .. hc' - 1 : h < FetchEnd /\ h % 4 = p /\ (h \div 4) % Slots = k
  <2>1. ~ (hc' < EvalEnd)
    BY <1>1
  <2> QED
    BY <2>1, Zenon DEF Fetched, EvalEnd
<1>3. PICK h \in EvalEnd + 2 .. hc : h < FetchEnd /\ h % 4 = p /\ (h \div 4) % Slots = k
  <2>1. hc' - 1 = hc
    BY <1>1
  <2> QED
    BY <1>2, <2>1
<1>4. CASE h = hc
  <2>1. hc >= EvalEnd + 2 /\ hc < FetchEnd /\ hc % 4 = p /\ k = Turn
    BY <1>1, <1>3, <1>4 DEF Turn
  <2>2. Turn <= sprite_count
    BY <1>1, <2>1
  <2>3. Fetching
    BY <1>1, <2>1, <2>2 DEF Fetching
  <2> QED
    BY <2>1, <2>3
<1>5. CASE h # hc
  <2>1. h \in EvalEnd + 2 .. hc - 1
    BY <1>1, <1>3, <1>5
  <2>2. Fetched(k, p)
    BY <1>3, <2>1, Zenon DEF Fetched
  <2>3. Fetching => hc < FetchEnd
    BY DEF Fetching
  <2>4. hc >= EvalEnd + 2
    BY <1>1, <2>1
  <2> QED
    BY <2>2, <2>3, <2>4
<1> QED
  BY <1>4, <1>5

LEMMA PatternLater ==
    ASSUME SpritesTypeOK, PixelClock, DueInv, PatternInv, due.known, hc > EvalEnd, hc # hpixels
    PROVE  PatternInv'
<1>1. /\ hc \in Nat /\ hc' = hc + 1 /\ hc # EvalEnd /\ EvalEnd \in Nat /\ FetchEnd \in Nat
      /\ EvalEnd < FetchEnd
  BY SameLine, Numbers DEF SpritesTypeOK, TypeOK
<1>2. due' = due /\ list' = list /\ sprite_count' = sprite_count /\ chr_dout1' = chr_addr1
  BY <1>1 DEF PixelClock, HandOver
<1>3. \A k, plane : PatternOf(k, plane)' = PatternOf(k, plane)
  BY <1>2 DEF PatternOf, Bits
<1>4. 0 .. sprite_count - 1 \subseteq Slot /\ sprite_count \in Nat
      /\ \A k \in 0 .. sprite_count - 1 : k < sprite_count
  BY Numbers DEF SpritesTypeOK, Slot
<1>5. /\ \A k \in 0 .. sprite_count - 1 :
            /\ Fetched(k, 1) => sprite_ls[k] = PatternOf(k, 0)
            /\ Fetched(k, 3) => sprite_ms[k] = PatternOf(k, 1)
      /\ hc \in EvalEnd + 2 .. FetchEnd /\ Turn < sprite_count =>
            /\ hc % 4 = 1 => chr_dout1 = PatternOf(Turn, 0)
            /\ hc % 4 = 3 => chr_dout1 = PatternOf(Turn, 1)
  BY <1>1, Zenon DEF PatternInv
<1>6. ASSUME NEW k \in 0 .. sprite_count - 1
      PROVE  /\ Fetched(k, 1)' => sprite_ls'[k] = PatternOf(k, 0)
             /\ Fetched(k, 3)' => sprite_ms'[k] = PatternOf(k, 1)
  <2>1. k \in Slot /\ k < sprite_count
    BY <1>4
  <2>2. /\ sprite_ls'[k] = IF Fetching /\ hc % 4 = 1 /\ k = Turn THEN chr_dout1 ELSE sprite_ls[k]
        /\ sprite_ms'[k] = IF Fetching /\ hc % 4 = 3 /\ k = Turn THEN chr_dout1 ELSE sprite_ms[k]
    BY <2>1, Fetches
  <2>3. hc >= EvalEnd + 2 /\ hc < FetchEnd => hc \in EvalEnd + 2 .. FetchEnd
    BY <1>1
  <2>4. Fetched(k, 1)' => sprite_ls'[k] = PatternOf(k, 0)
    <3> SUFFICES ASSUME Fetched(k, 1)'
                 PROVE  sprite_ls'[k] = PatternOf(k, 0)
      OBVIOUS
    <3>1. \/ hc >= EvalEnd + 2 /\ hc < FetchEnd /\ Fetching /\ hc % 4 = 1 /\ k = Turn
          \/ Fetched(k, 1) /\ ~ (Fetching /\ hc % 4 = 1 /\ k = Turn)
      BY <1>1, <2>1, FetchStep
    <3> QED
      BY <1>5, <2>1, <2>2, <2>3, <3>1
  <2>5. Fetched(k, 3)' => sprite_ms'[k] = PatternOf(k, 1)
    <3> SUFFICES ASSUME Fetched(k, 3)'
                 PROVE  sprite_ms'[k] = PatternOf(k, 1)
      OBVIOUS
    <3>1. \/ hc >= EvalEnd + 2 /\ hc < FetchEnd /\ Fetching /\ hc % 4 = 3 /\ k = Turn
          \/ Fetched(k, 3) /\ ~ (Fetching /\ hc % 4 = 3 /\ k = Turn)
      BY <1>1, <2>1, FetchStep
    <3> QED
      BY <1>5, <2>1, <2>2, <2>3, <3>1
  <2> QED
    BY <2>4, <2>5
<1>7. ASSUME hc' \in EvalEnd + 2 .. FetchEnd, Turn' < sprite_count
      PROVE  /\ (hc % 4)' = 1 => chr_dout1' = PatternOf(Turn', 0)
             /\ (hc % 4)' = 3 => chr_dout1' = PatternOf(Turn', 1)
  <2>1. hc < FetchEnd
    BY <1>1, <1>7
  <2>2. /\ hc % 4 \in 0 .. 3
        /\ hc % 4 # 3 => (hc + 1) \div 4 = hc \div 4 /\ (hc + 1) % 4 = (hc % 4) + 1
        /\ hc % 4 = 3 => (hc + 1) % 4 = 0
    BY <1>1, Fours
  <2>3. hc % 4 # 3 => Turn' = Turn
    BY <1>1, <2>2 DEF Turn
  <2>4. (hc % 4)' = 1 => hc % 4 = 0
    BY <1>1, <2>2
  <2>5. (hc % 4)' = 3 => hc % 4 = 2
    BY <1>1, <2>2
  <2>6. hc % 4 # 3 => /\ hc % 4 = 0 => chr_addr1 = PatternOf(Turn, 0)
                      /\ hc % 4 = 2 => chr_addr1 = PatternOf(Turn, 1)
    BY <1>7, <2>1, <2>3, Reads
  <2>7. (hc % 4)' = 1 => chr_dout1' = PatternOf(Turn', 0)
    BY <1>2, <2>3, <2>4, <2>6
  <2>8. (hc % 4)' = 3 => chr_dout1' = PatternOf(Turn', 1)
    BY <1>2, <2>3, <2>5, <2>6
  <2> QED
    BY <2>7, <2>8
<1>8. PatternOf(Turn, 0)' = PatternOf(Turn', 0) /\ PatternOf(Turn, 1)' = PatternOf(Turn', 1)
  BY <1>2 DEF PatternOf, Bits
<1> QED
  BY <1>2, <1>3, <1>6, <1>7, <1>8, Zenon DEF PatternInv, EvalEnd

LEMMA PatternKept ==
    ASSUME SpritesTypeOK, PixelClock, DueInv, PatternInv
    PROVE  PatternInv'
<1>1. /\ hc \in Nat /\ EvalEnd \in Nat /\ FetchEnd \in Nat /\ EvalEnd < FetchEnd
      /\ FetchEnd <= hpixels /\ EvalEnd > 0
      /\ hc = hpixels => hc' = 0
      /\ hc # hpixels => hc' = hc + 1
  BY Beam, Numbers DEF SpritesTypeOK, PixelClock
<1>2. CASE hc = EvalEnd
  <2>1. hc' = EvalEnd + 1
    BY <1>1, <1>2
  <2>2. \A k, p : ~ Fetched(k, p)'
    <3>1. ~ (hc' < EvalEnd) /\ EvalEnd + 2 .. hc' - 1 = {}
      BY <1>1, <2>1
    <3> QED
      BY <3>1, Zenon DEF Fetched, EvalEnd
  <2>3. ~ (hc' \in EvalEnd + 2 .. FetchEnd)
    BY <1>1, <2>1
  <2> QED
    BY <2>2, <2>3, Zenon DEF PatternInv, EvalEnd
<1>3. CASE hc # EvalEnd /\ due.known /\ hc > EvalEnd /\ hc # hpixels
  BY <1>3, PatternLater
<1>4. CASE hc # EvalEnd /\ due.known /\ (hc < EvalEnd \/ hc = hpixels)
  <2> SUFFICES ASSUME hc' # EvalEnd
               PROVE  PatternInv'
    BY Zenon DEF PatternInv, EvalEnd
  <2>1. due' = due /\ list' = list /\ sprite_count' = sprite_count
    BY <1>4 DEF PixelClock, HandOver
  <2>2. \A k, plane : PatternOf(k, plane)' = PatternOf(k, plane)
    BY <2>1 DEF PatternOf, Bits
  <2>3. 0 .. sprite_count - 1 \subseteq Slot
    BY Numbers DEF SpritesTypeOK, Slot
  <2>4. ~ Fetching
    BY <1>1, <1>4 DEF Fetching
  <2>5. sprite_ls' = sprite_ls /\ sprite_ms' = sprite_ms
    BY <2>4 DEF PixelClock, Fetch
  <2>6. ASSUME NEW k \in 0 .. sprite_count - 1, NEW p \in {1, 3}
        PROVE  Fetched(k, p)
    <3>1. CASE hc < EvalEnd
      BY <3>1 DEF Fetched
    <3>2. CASE hc = hpixels
      <4>1. k \in Slot /\ p \in 0 .. 3
        BY <2>3
      <4> QED
        BY <3>2, <4>1, TurnOf DEF Fetched
    <3> QED
      BY <1>4, <3>1, <3>2
  <2>7. \A k \in 0 .. sprite_count - 1 : /\ sprite_ls[k] = PatternOf(k, 0)
                                         /\ sprite_ms[k] = PatternOf(k, 1)
    BY <1>4, <2>6 DEF PatternInv
  <2>8. ~ (hc' \in EvalEnd + 2 .. FetchEnd)
    BY <1>1, <1>4
  <2> QED
    BY <2>1, <2>2, <2>5, <2>7, <2>8, Zenon DEF PatternInv, EvalEnd
<1>5. CASE hc # EvalEnd /\ ~ due.known
  <2>1. ~ due'.known
    BY <1>5 DEF PixelClock
  <2> QED
    BY <2>1, Zenon DEF PatternInv
<1> QED
  BY <1>1, <1>2, <1>3, <1>4, <1>5

LEMMA PatternWrite ==
    ASSUME SpritesTypeOK, Write, PatternInv
    PROVE  PatternInv'
<1>1. /\ UNCHANGED <<hc, chr_dout1, list, sprite_count, sprite_ls, sprite_ms>>
      /\ due'.line = due.line /\ due'.table = due.table
      /\ due'.known => due.known
  BY Writes
<1>2. \A k, plane : PatternOf(k, plane)' = PatternOf(k, plane)
  BY <1>1 DEF PatternOf, Bits
<1>3. \A k, p : Fetched(k, p)' <=> Fetched(k, p)
  BY <1>1, Zenon DEF Fetched, EvalEnd
<1>4. Turn' = Turn /\ PatternOf(Turn, 0)' = PatternOf(Turn, 0) /\ PatternOf(Turn, 1)' = PatternOf(Turn, 1)
  <2>1. Turn' = Turn
    BY <1>1 DEF Turn
  <2> QED
    BY <1>1, <2>1 DEF PatternOf, Bits
<1> QED
  BY <1>1, <1>2, <1>3, <1>4, Zenon DEF PatternInv, EvalEnd

-----------------------------------------------------------------------------
(* A nonempty set of numbers has a least.                                  *)
LEMMA Least ==
    ASSUME NEW T, T \subseteq Nat, T # {}
    PROVE  \E m \in T : \A j \in T : m <= j
<1> DEFINE R == {ss \in Nat \X Nat : ss[1] < ss[2]}
<1>1. R = OpToRel(<, Nat)
  BY DEF OpToRel
<1>2. IsWellFoundedOn(R, Nat)
  BY <1>1, NatLessThanWellFounded, Zenon
<1> HIDE DEF R
<1>3. PICK m \in T : \A j \in T : ~ (<<j, m>> \in R)
  BY <1>2, WFMin
<1>4. \A j \in T : <<j, m>> \in R <=> j < m
  BY DEF R
<1>5. \A j \in T : ~ (j < m) /\ j \in Nat
  BY <1>3, <1>4
<1>6. m \in Nat
  OBVIOUS
<1>7. \A j \in T : m <= j
  BY <1>5, <1>6
<1> QED
  BY <1>7

MinOf(T) == CHOOSE i \in T : \A j \in T : i <= j

(* f takes T to F in order.                                                *)
InOrder(f, n, T, F) ==
    /\ n \in Nat /\ T \subseteq 0 .. n - 1 /\ T # {} /\ F \subseteq Nat
    /\ \A j, k \in 0 .. n - 1 : j < k => f[j] < f[k]
    /\ (\A k \in T : f[k] \in F) /\ (\A i \in F : \E k \in T : f[k] = i)

(* In two sets that correspond in order, the least ones correspond.        *)
LEMMA LeastOf ==
    ASSUME NEW f, NEW n, NEW T, NEW F, InOrder(f, n, T, F)
    PROVE  f[MinOf(T)] = MinOf(F)
<1>0. /\ n \in Nat /\ T \subseteq 0 .. n - 1 /\ T # {} /\ F \subseteq Nat
      /\ \A j, k \in 0 .. n - 1 : j < k => f[j] < f[k]
      /\ (\A k \in T : f[k] \in F) /\ (\A i \in F : \E k \in T : f[k] = i)
  BY DEF InOrder
<1> DEFINE IsLeast(m, A) == m \in A /\ \A j \in A : m <= j
<1>1. \A A, i, j : A \subseteq Nat /\ IsLeast(i, A) /\ IsLeast(j, A) => i = j
  <2> SUFFICES ASSUME NEW A, A \subseteq Nat, NEW i \in A, NEW j \in A, i <= j, j <= i
               PROVE  i = j
    OBVIOUS
  <2>1. i \in Nat /\ j \in Nat
    OBVIOUS
  <2> QED
    BY <2>1
<1>2. PICK t \in T : \A j \in T : t <= j
  <2>1. T \subseteq Nat
    BY <1>0
  <2> QED
    BY <1>0, <2>1, Least
<1>3. (CHOOSE i \in T : \A j \in T : i <= j) = t
  <2> DEFINE c == CHOOSE i \in T : \A j \in T : i <= j
  <2>1. c \in T /\ \A j \in T : c <= j
    BY <1>2
  <2> HIDE DEF c
  <2>2. T \subseteq Nat /\ IsLeast(c, T) /\ IsLeast(t, T)
    BY <1>0, <1>2, <2>1
  <2>3. c = t
    BY <1>1, <2>2
  <2> QED
    BY <2>3 DEF c
<1>4. f[t] \in F /\ \A i \in F : f[t] <= i
  <2>1. ASSUME NEW i \in F
        PROVE  f[t] <= i
    <3>1. PICK k \in T : f[k] = i
      BY <1>0
    <3>2. t \in 0 .. n - 1 /\ k \in 0 .. n - 1 /\ t <= k /\ f[t] \in F
      BY <1>0, <1>2
    <3>3. f[t] \in Nat /\ f[k] \in Nat
      BY <1>0, <3>1, <3>2
    <3>4. t < k \/ t = k
      BY <1>0, <3>2
    <3>5. t < k => f[t] < f[k]
      BY <1>0, <3>2
    <3> QED
      BY <3>1, <3>3, <3>4, <3>5
  <2> QED
    BY <1>0, <1>2, <2>1
<1>5. (CHOOSE i \in F : \A j \in F : i <= j) = f[t]
  <2> DEFINE c == CHOOSE i \in F : \A j \in F : i <= j
  <2>1. c \in F /\ \A j \in F : c <= j
    BY <1>4
  <2> HIDE DEF c
  <2>2. F \subseteq Nat /\ IsLeast(c, F) /\ IsLeast(f[t], F)
    BY <1>0, <1>4, <2>1
  <2>3. c = f[t]
    BY <1>1, <2>2
  <2> QED
    BY <2>3 DEF c
<1> QED
  BY <1>3, <1>5 DEF MinOf

-----------------------------------------------------------------------------
(* A slot of the list shows the color its sprite has.                      *)
LEMMA ColorIs ==
    ASSUME SpritesTypeOK, DueInv, PatternInv, due.known, hc < EvalEnd, NEW k \in 0 .. sprite_count - 1
    PROVE  Color(k) = ColorOf(list[k])
<1> DEFINE s == list[k]
           row == Bits(due.line, 1, 8) - s.y
           part == IF Bits(s.attr, 7, 1) = 1 THEN 7 - row ELSE row
           byte == 4096 * due.table + 16 * s.tile + part
<1>1. sprite_ls[k] = PatternOf(k, 0) /\ sprite_ms[k] = PatternOf(k, 1)
  <2>1. Fetched(k, 1) /\ Fetched(k, 3) /\ hc # EvalEnd
    BY Numbers DEF Fetched, SpritesTypeOK, TypeOK
  <2> QED
    BY <2>1, Zenon DEF PatternInv
<1>2. k \in Slot /\ k < sprite_count
  BY Numbers DEF SpritesTypeOK, Slot
<1>3. s \in Entry
  BY <1>2 DEF SpritesTypeOK
<1>4. s.y \in Int /\ s.tile \in Int /\ due.table \in Int /\ due.line \in Int
  <2>1. due.table \in {0, 1} /\ due.line \in 0 .. vlines
    BY DEF SpritesTypeOK, DueTypeOK
  <2> HIDE DEF s
  <2>2. s.y \in Int /\ s.tile \in Int
    BY <1>3 DEF Entry, Byte
  <2>3. due.table \in Int
    BY <2>1
  <2>4. due.line \in Int
    BY <2>1, Numbers
  <2> QED
    BY <2>2, <2>3, <2>4
<1>5. row \in Int
  <2>1. Bits(due.line, 1, 8) \in Int
    BY <1>4, BitsAre
  <2> HIDE DEF s
  <2> QED
    BY <1>4, <2>1
<1>6. part \in Int
  <2> HIDE DEF row, s
  <2> QED
    BY <1>5
<1>7. PatternOf(k, 0) = byte + 8 * 0 /\ PatternOf(k, 1) = byte + 8 * 1
  BY DEF PatternOf
<1>8. byte \in Int
  <2> HIDE DEF part, s
  <2> QED
    BY <1>4, <1>6
<1>9. ColorOf(s) = IF Column(s) \in 0 .. 7 THEN 2 * Bit(byte + 8, s) + Bit(byte, s) ELSE 0
  BY DEF ColorOf
<1>10. Color(k) = IF Column(s) \in 0 .. 7 THEN 2 * Bit(sprite_ms[k], s) + Bit(sprite_ls[k], s) ELSE 0
  BY <1>2 DEF Color
<1> HIDE DEF byte, s
<1>11. sprite_ls[k] = byte /\ sprite_ms[k] = byte + 8
  BY <1>1, <1>7, <1>8
<1>12. Color(k) = ColorOf(s)
  BY <1>9, <1>10, <1>11
<1> QED
  BY <1>12 DEF s

LEMMA Shown ==
    ASSUME SpritesTypeOK, DueInv, PatternInv
    PROVE  SpritesShown
<1> SUFFICES ASSUME due.known, hc < EvalEnd, NEW bg \in {0, 4, 7}
             PROVE  LET F == {i \in DOMAIN due.list : ColorOf(due.list[i]) # 0}
                        s == due.list[CHOOSE i \in F : \A j \in F : i <= j]
                    IN  palette_mem_addr(bg) =
                          IF F # {} /\ ~ (Bits(s.attr, 5, 1) = 1 /\ bg % 4 # 0)
                          THEN 16 + 4 * (s.attr % 4) + ColorOf(s)
                          ELSE IF bg % 4 # 0 THEN bg ELSE 0
  BY DEF SpritesShown
<1> DEFINE F == {i \in DOMAIN due.list : ColorOf(due.list[i]) # 0}
           l == MinOf(F)
           T == Front(bg)
           t == MinOf(T)
<1>1. PICK n \in Nat : n = sprite_count /\ n <= Slots
  BY Numbers DEF SpritesTypeOK
<1>2. PICK f \in [0 .. n - 1 -> DOMAIN due.list] :
         /\ \A j, k \in 0 .. n - 1 : j < k => f[j] < f[k]
         /\ \A i \in DOMAIN due.list : \E k \in 0 .. n - 1 : f[k] = i
         /\ \A k \in 0 .. n - 1 : list[k] = due.list[f[k]]
  BY <1>1 DEF DueInv, Packed
<1>3. \A k \in 0 .. n - 1 : Color(k) = ColorOf(due.list[f[k]])
  BY <1>1, <1>2, ColorIs
<1>4. \A k \in T : k \in 0 .. n - 1
  <2> SUFFICES ASSUME NEW k \in Slot, Color(k) # 0
               PROVE  k \in 0 .. n - 1
    BY DEF Front
  <2>1. k < sprite_count
    BY DEF Color
  <2> QED
    BY <1>1, <2>1, Numbers DEF Slot
<1>5. \A k \in 0 .. n - 1 : k \in Slot
  BY <1>1, Numbers DEF Slot
<1>6. \A k \in T : f[k] \in F
  BY <1>2, <1>3, <1>4 DEF Front
<1>7. \A i \in F : \E k \in T : f[k] = i
  BY <1>2, <1>3, <1>5 DEF Front
<1>8. F \subseteq Nat
  BY Numbers DEF SpritesTypeOK, DueTypeOK, Sprite
<1>9. T # {} <=> F # {}
  BY <1>6, <1>7
<1>10. T # {} => f[t] = l
  <2>1. T \subseteq 0 .. n - 1
    BY <1>4
  <2> HIDE DEF T, F
  <2>2. T # {} => InOrder(f, n, T, F)
    BY <1>1, <1>2, <1>6, <1>7, <1>8, <2>1 DEF InOrder
  <2> QED
    BY <2>2, LeastOf
<1>11. T # {} => t \in T
  <2> SUFFICES ASSUME T # {}
               PROVE  t \in T
    OBVIOUS
  <2>1. T \subseteq Nat
    BY <1>4
  <2> HIDE DEF T
  <2>2. PICK m \in T : \A j \in T : m <= j
    BY <2>1, Least
  <2> QED
    BY <2>2 DEF MinOf
<1>12. T # {} => list[t] = due.list[l] /\ Color(t) = ColorOf(due.list[l])
  <2> HIDE DEF T, F, t, l
  <2> QED
    BY <1>2, <1>3, <1>4, <1>10, <1>11
<1>13. palette_mem_addr(bg) = IF T # {} /\ ~ (Bits(list[t].attr, 5, 1) = 1 /\ bg % 4 # 0)
                              THEN 16 + 4 * (list[t].attr % 4) + Color(t)
                              ELSE IF bg % 4 # 0 THEN bg ELSE 0
  BY DEF palette_mem_addr, MinOf
<1>14. palette_mem_addr(bg) = IF F # {} /\ ~ (Bits(due.list[l].attr, 5, 1) = 1 /\ bg % 4 # 0)
                              THEN 16 + 4 * (due.list[l].attr % 4) + ColorOf(due.list[l])
                              ELSE IF bg % 4 # 0 THEN bg ELSE 0
  <2> HIDE DEF T, F, t, l
  <2> QED
    BY <1>9, <1>12, <1>13
<1> QED
  BY <1>14 DEF MinOf

-----------------------------------------------------------------------------
SpritesInv == /\ SpritesTypeOK /\ RestInv /\ CollectInv /\ DueInv /\ PatternInv
              /\ LineList /\ OverflowExact

LEMMA Starts == SpritesInit => SpritesInv
<1> SUFFICES ASSUME SpritesInit
             PROVE  SpritesInv
  OBVIOUS
<1>1. /\ hc = 0 /\ vc = 0 /\ TypeOK /\ ~ steady /\ ~ sprite_add /\ ~ overflow /\ sprite_count_next = 0
      /\ due = [known |-> FALSE, list |-> [i \in {} |-> NoEntry], line |-> 0, table |-> 0]
  <2>1. Init /\ ~ steady /\ ~ sprite_add /\ ~ overflow /\ sprite_count_next = 0
    BY Zenon DEF SpritesInit
  <2>2. due = [known |-> FALSE, list |-> [i \in {} |-> NoEntry], line |-> 0, table |-> 0]
    BY DEF SpritesInit
  <2>3. hc = 0 /\ vc = 0 /\ hs \in BOOLEAN /\ vs \in BOOLEAN
    BY <2>1, Zenon DEF Init
  <2>4. TypeOK
    BY <2>3, Numbers DEF TypeOK
  <2> QED
    BY <2>1, <2>2, <2>3, <2>4
<1>2. RestInv
  BY <1>1, Zenon DEF RestInv
<1>3. CollectInv /\ LineList /\ OverflowExact
  BY <1>1, Zenon DEF CollectInv, LineList, OverflowExact
<1>4. DueInv /\ PatternInv
  BY <1>1 DEF DueInv, PatternInv
<1>5. NoEntry \in Entry /\ NoPattern \in Address /\ 0 \in Byte
  BY DEF NoEntry, Entry, Byte, NoPattern, Address
<1>6. DueTypeOK
  <2>1. /\ due.known = FALSE /\ due.list = [i \in {} |-> NoEntry] /\ due.line = 0 /\ due.table = 0
    BY <1>1
  <2>2. 0 \in 0 .. vlines
    BY Numbers
  <2>3. DOMAIN due.list = {} /\ due.list \in [DOMAIN due.list -> Entry]
    BY <2>1, Zenon
  <2> QED
    BY <1>1, <2>1, <2>2, <2>3 DEF DueTypeOK
<1>7. oam \in [0 .. 4 * NumSprites - 1 -> Byte]
  BY SpritesAssumption DEF SpritesInit
<1>8. /\ sprite_count_next \in 0 .. Slots /\ sprite_count \in 0 .. Slots
      /\ next \in [Slot -> Entry] /\ list \in [Slot -> Entry]
      /\ sprite_ls \in [Slot -> Address] /\ sprite_ms \in [Slot -> Address]
  BY <1>5, Numbers DEF SpritesInit
<1>9. /\ tall \in BOOLEAN /\ table \in {0, 1} /\ oam_dout0 \in Byte /\ chr_dout1 \in Address
      /\ sprite_add \in BOOLEAN /\ overflow \in BOOLEAN /\ steady \in BOOLEAN
  BY <1>5 DEF SpritesInit
<1>10. SpritesTypeOK
  BY <1>1, <1>6, <1>7, <1>8, <1>9, Zenon DEF SpritesTypeOK
<1> QED
  BY <1>2, <1>3, <1>4, <1>10 DEF SpritesInv

LEMMA Stutter ==
    ASSUME SpritesInv, UNCHANGED spvars
    PROVE  SpritesInv'
<1>1. UNCHANGED <<hc, vc, hs, vs, oam, tall, table, oam_dout0, chr_dout1, sprite_add, next,
                  sprite_count_next, list, sprite_count, overflow, sprite_ls, sprite_ms, steady, due>>
  BY DEF spvars, beam, evaluation, patterns
<1>2. SpritesTypeOK' /\ RestInv'
  BY <1>1 DEF SpritesInv, SpritesTypeOK, RestInv, TypeOK, DueTypeOK, EvalEnd
<1>3. /\ Selected' = Selected /\ At' = At /\ Turn' = Turn
      /\ \A i : OamEntry(i)' = OamEntry(i)
      /\ \A k, p : PatternOf(k, p)' = PatternOf(k, p) /\ (Fetched(k, p)' <=> Fetched(k, p))
  BY <1>1 DEF Selected, OnLine, sprite_size, Bits, At, Turn, OamEntry, PatternOf, Fetched, EvalEnd
<1>4. Done' = Done /\ (\A i : Rank(i)' = Rank(i)) /\ Wanted' = Wanted
  BY <1>3, Zenon DEF Done, Rank, Wanted
<1>5. \A f : Listed(f)' <=> Listed(f)
  BY <1>1, <1>3, <1>4, Zenon DEF Listed, Lists
<1>6. Copying' <=> Copying
  BY <1>1, <1>3 DEF Copying
<1>7. CollectInv'
  BY <1>1, <1>3, <1>4, <1>5, <1>6 DEF SpritesInv, CollectInv, EvalEnd
<1>8. LineList' /\ OverflowExact'
  BY <1>1, <1>3, <1>4 DEF SpritesInv, LineList, OverflowExact, EvalEnd
<1>9. DueInv'
  BY <1>1 DEF SpritesInv, DueInv, Packed, Rows, Bits, EvalEnd
<1>10. PatternInv'
  BY <1>1, <1>3 DEF SpritesInv, PatternInv, EvalEnd
<1> QED
  BY <1>2, <1>7, <1>8, <1>9, <1>10 DEF SpritesInv

LEMMA Step == SpritesInv /\ [SpritesNext]_spvars => SpritesInv'
<1> SUFFICES ASSUME SpritesInv, [SpritesNext]_spvars
             PROVE  SpritesInv'
  OBVIOUS
<1>1. SpritesTypeOK /\ RestInv /\ CollectInv /\ DueInv /\ PatternInv /\ LineList /\ OverflowExact
  BY DEF SpritesInv
<1>2. CASE PixelClock
  <2>1. SpritesTypeOK' /\ RestInv'
    BY <1>1, <1>2, PixelTypes, PixelRest
  <2>2. CollectInv'
    BY <1>1, <1>2, <2>1, CollectKept
  <2>3. DueInv' /\ PatternInv'
    BY <1>1, <1>2, DueKept, PatternKept
  <2>4. LineList' /\ OverflowExact'
    BY <1>1, <1>2, <2>1, <2>2, LineListKept, OverflowKept
  <2> QED
    BY <2>1, <2>2, <2>3, <2>4 DEF SpritesInv
<1>3. CASE Write
  <2>1. SpritesTypeOK' /\ PatternInv'
    BY <1>1, <1>3, WriteTypes, PatternWrite
  <2>2. RestInv' /\ CollectInv' /\ OverflowExact' /\ LineList' /\ DueInv'
    BY <1>1, <1>3, WriteKeeps
  <2> QED
    BY <2>1, <2>2 DEF SpritesInv
<1>4. CASE UNCHANGED spvars
  BY <1>4, Stutter
<1> QED
  BY <1>2, <1>3, <1>4 DEF SpritesNext

LEMMA SpritesInvariant == SpritesSpec => []SpritesInv
  BY Starts, Step, PTL DEF SpritesSpec

LEMMA Shows == SpritesInv => SpritesTypeOK /\ LineList /\ OverflowExact /\ SpritesShown
  BY Shown DEF SpritesInv

(* Every register and port keeps to its range, the count of the list and   *)
(* the addresses of the patterns among them.                               *)
THEOREM SpriteTypes == SpritesSpec => []SpritesTypeOK
  BY SpritesInvariant, Shows, PTL

(* The list handed over is what OAM has on the line: the first entries, as *)
(* many as there are slots, whole and in order, after a line without a     *)
(* write, whatever was written in the lines before.                        *)
THEOREM ListIsOam == SpritesSpec => []LineList
  BY SpritesInvariant, Shows, PTL

(* PPUSTATUS[5] at the end of the evaluation says whether there were more. *)
THEOREM OverflowIsRight == SpritesSpec => []OverflowExact
  BY SpritesInvariant, Shows, PTL

(* The pixels of the next line are those of the first sprite in OAM's order*)
(* that has a color there, from the patterns of this line's rows.          *)
THEOREM SpritesAreShown == SpritesSpec => []SpritesShown
  BY SpritesInvariant, Shows, PTL
=============================================================================
