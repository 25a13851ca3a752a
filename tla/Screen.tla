--------------------------------- MODULE Screen --------------------------------
(***************************************************************************)
(* The picture processor with its registers, the objects in the OAM, and   *)
(* the drawing of a line at the end of its HBLANK.  The window is not      *)
(* drawn by the program; its registers only keep their values.             *)
(***************************************************************************)
EXTENDS Ppu, Integers, Sequences, FiniteSets, Functions

CONSTANTS
  MAX_OBJECTS, MAX_OBJECTS_PER_LINE,
  Columns,        (* the columns of the screen that are looked at          *)
  Vram,           (* the bytes of the video RAM                            *)
  Oams,           (* what the OAM may hold: four bytes for every object    *)
  Writes,         (* the program's writes: names of registers with bytes   *)
  Unset           (* a register or a colour before it is written           *)

BytesOf(S) == [S -> 0 .. 255]

VramIndex == 0 .. 8191

ASSUME ScreenAssumption ==
  /\ MAX_OBJECTS \in Nat /\ MAX_OBJECTS_PER_LINE \in Nat
  /\ LCD_HEIGHT <= 144
  /\ Columns \subseteq 0 .. 159
  /\ Vram \in BytesOf(VramIndex)
  /\ Oams \subseteq [0 .. MAX_OBJECTS - 1 -> BytesOf(1 .. 4)]
  /\ \A write \in Writes : write[2] \in 0 .. 255
  /\ Unset \notin 0 .. 3

Plain == {"SCY", "SCX", "LYC", "WY", "WX"}
Palettes == {"BGP", "OBP0", "OBP1"}

VARIABLES
  flags,          (* the bits of LCDC that are 1                           *)
  plain,          (* the registers that only keep a byte                   *)
  palettes,       (* the colours that the colour numbers stand for         *)
  oam,
  aborted         (* an assertion has ended the program                    *)

screenVars == <<flags, plain, palettes, oam, aborted>>

objectSize                        == 2
objectDisplayEnable               == 1
backgroundDisplayEnable           == 0
backgroundTileMapSelect           == 3
backgroundAndWindowTileDataSelect == 4

Bit(value, n) == (value \div <<1, 2, 4, 8, 16, 32, 64, 128>>[n + 1]) % 2

(* The colour number 0 of an object is transparent and has no colour. *)
Numbers(palette) == IF palette = "BGP" THEN 0 .. 3 ELSE 1 .. 3

(* The weight of a colour in the byte of its palette. *)
Weight == <<1, 4, 16, 64>>

(* LYC and the palettes are not initialised. *)
ScreenInit ==
  /\ Init
  /\ flags = {7, backgroundAndWindowTileDataSelect, backgroundDisplayEnable}
  /\ plain = [register \in Plain |-> IF register = "LYC" THEN Unset ELSE 0]
  /\ palettes = [palette \in Palettes |-> [number \in Numbers(palette) |-> Unset]]
  /\ oam \in Oams
  /\ aborted = FALSE

-------------------------------------------------------------------------------
(* The objects of the line.                                                *)

y(i) == oam[i][1]
x(i) == oam[i][2]
patternIndex(i) == oam[i][3]
attribute(i, bit) == Bit(oam[i][4], bit) = 1
priority(i) == attribute(i, 7)
yFlip(i) == attribute(i, 6)
xFlip(i) == attribute(i, 5)
objectPalette(i) == IF attribute(i, 4) THEN "OBP1" ELSE "OBP0"

objectHeight == IF objectSize \in flags THEN 16 ELSE 8

Covers(i) ==
  /\ currentLine >= y(i) - objectHeight * 2
  /\ currentLine < y(i) - objectHeight

(* The objects found among the first n: the first ones that cover the      *)
(* line, as many as a line has room for.                                   *)
found[n \in 0 .. MAX_OBJECTS] ==
  IF n = 0 THEN <<>>
  ELSE IF Covers(n - 1) /\ Len(found[n - 1]) < MAX_OBJECTS_PER_LINE
       THEN Append(found[n - 1], n - 1)
       ELSE found[n - 1]

oam_search == found[MAX_OBJECTS]

(* Mutant: of objects in one column the one with the higher number stays. *)
DrawnBefore_LowestFirst(i, j) == x(j) < x(i) \/ (x(i) = x(j) /\ i < j)

(* The order of qsort: the last one drawn stays on top. *)
DrawnBefore(i, j) == x(j) < x(i) \/ (x(i) = x(j) /\ j < i)

IsOrderOf(order, line) ==
  /\ Range(order) = Range(line)
  /\ \A j, k \in DOMAIN order : j < k => DrawnBefore(order[j], order[k])

DrawingOrder ==
  CHOOSE order \in [DOMAIN oam_search -> Range(oam_search)] : IsOrderOf(order, oam_search)

-------------------------------------------------------------------------------
(* The pixels of the line.                                                 *)

(* The colour number that a line of a tile pattern has at a bit. *)
ColorNumber(address, shift) == 2 * Bit(Vram[address + 1], shift) + Bit(Vram[address], shift)

(* The plane of 256 by 256 pixels wraps around. *)
PlaneY     == (currentLine + plain["SCY"]) % 256
PlaneX(x0) == (x0 + plain["SCX"]) % 256

tileMap   == IF backgroundTileMapSelect \in flags THEN 7168 ELSE 6144
tileIndex(x0) == (PlaneY \div 8) * 32 + PlaneX(x0) \div 8

(* Mutant: the pattern number is unsigned for both tables. *)
tilePatternLine_Unsigned(number) ==
  (IF backgroundAndWindowTileDataSelect \in flags THEN 0 ELSE 4096) + 16 * number + 2 * (PlaneY % 8)

(* The number of a pattern of the upper table is signed. *)
tilePatternLine(number) ==
  (IF backgroundAndWindowTileDataSelect \in flags THEN 16 * number
   ELSE 4096 + 16 * (IF number < 128 THEN number ELSE number - 256)) + 2 * (PlaneY % 8)

backgroundColorNumber(x0) ==
  IF backgroundDisplayEnable \in flags
  THEN ColorNumber(tilePatternLine(Vram[tileMap + tileIndex(x0)]), 7 - (PlaneX(x0) % 8))
  ELSE 0

BackgroundColor(x0) ==
  IF backgroundDisplayEnable \in flags THEN palettes["BGP"][backgroundColorNumber(x0)] ELSE 0

objectPixelY(i) == currentLine - y(i) + 2 * objectHeight
objectPixelX(i, x0) == x0 - x(i) + 8

(* The row of the pattern: flipped as a byte, for both sizes about 8 rows. *)
objectLine(i) ==
  16 * patternIndex(i)
    + 2 * ((IF yFlip(i) THEN 7 - objectPixelY(i) ELSE objectPixelY(i)) % 256)

objectColorNumber(i, x0) ==
  ColorNumber(objectLine(i),
              IF xFlip(i) THEN objectPixelX(i, x0) ELSE 7 - objectPixelX(i, x0))

(* Whether an object of the line sets a pixel of it. *)
Draws(i, x0) ==
  /\ objectPixelX(i, x0) \in 0 .. 7
  /\ objectColorNumber(i, x0) # 0
  /\ ~priority(i) \/ backgroundColorNumber(x0) = 0

ObjectColor(i, x0) == palettes[objectPalette(i)][objectColorNumber(i, x0)]

(* The colour of a pixel when the objects have painted over the background *)
(* and over each other.                                                    *)
PaintedOver(order, x0) ==
  LET painted[k \in 0 .. Len(order)] ==
        IF k = 0 THEN BackgroundColor(x0)
        ELSE IF Draws(order[k], x0) THEN ObjectColor(order[k], x0)
        ELSE painted[k - 1]
  IN  painted[Len(order)]

pixelColor(x0) ==
  IF objectDisplayEnable \in flags THEN PaintedOver(DrawingOrder, x0) ELSE BackgroundColor(x0)

-------------------------------------------------------------------------------
DrawsNow == mode = "HBLANK" /\ ModeOver

(* A tick draws what the registers say when its HBLANK ends.  A colour that *)
(* was never set may be one of the four by chance.                          *)
Tick == ppu_tick /\ UNCHANGED screenVars

(* If it is none of them the assertion of get_color_rgb fails. *)
Abort ==
  /\ ~enteringVBlank /\ DrawsNow
  /\ \E x0 \in Columns : pixelColor(x0) = Unset
  /\ aborted' = TRUE
  /\ UNCHANGED <<vars, flags, plain, palettes, oam>>

write_lcd_control(value) ==
  /\ flags' = {n \in 0 .. 7 : Bit(value, n) = 1}
  /\ UNCHANGED <<plain, palettes>>

write_plain(register, value) ==
  /\ plain' = [plain EXCEPT ![register] = value]
  /\ UNCHANGED <<flags, palettes>>

(* Mutant: the last colour is left out. *)
write_palette_ThreeColors(palette, value) ==
  /\ palettes' = [palettes EXCEPT ![palette] =
                    [number \in Numbers(palette) |->
                       IF number = 3 THEN @[3] ELSE (value \div Weight[number + 1]) % 4]]
  /\ UNCHANGED <<flags, plain>>

write_palette(palette, value) ==
  /\ palettes' = [palettes EXCEPT ![palette] =
                    [number \in Numbers(palette) |-> (value \div Weight[number + 1]) % 4]]
  /\ UNCHANGED <<flags, plain>>

(* STAT ignores what is written to it. *)
WriteRegister(register, value) ==
  \/ register = "LCDC" /\ write_lcd_control(value)
  \/ register \in Plain /\ write_plain(register, value)
  \/ register \in Palettes /\ write_palette(register, value)
  \/ register = "STAT" /\ UNCHANGED <<flags, plain, palettes>>

(* The program stores in the OAM, or the DMA copies a page there. *)
StoreOam == oam' \in Oams /\ UNCHANGED <<vars, flags, plain, palettes, aborted>>

ScreenNext ==
  /\ ~aborted
  /\ \/ Tick
     \/ Abort
     \/ (graphics_update \/ write_ly \/ AcknowledgeVBlank) /\ UNCHANGED screenVars
     \/ /\ ~enteringVBlank
        /\ \E write \in Writes : WriteRegister(write[1], write[2])
        /\ UNCHANGED <<vars, oam, aborted>>
     \/ ~enteringVBlank /\ StoreOam

allVars == <<vars, screenVars>>

ScreenSpec == ScreenInit /\ [][ScreenNext]_allVars

(* The loop ticks the PPU and ends its iteration as long as it runs. *)
ScreenFairSpec ==
  /\ ScreenSpec
  /\ WF_allVars(~aborted /\ Tick)
  /\ WF_allVars(~aborted /\ graphics_update /\ UNCHANGED screenVars)

-------------------------------------------------------------------------------
(* Every register keeps its type, and the colours of a palette are set all *)
(* at once.                                                                *)
RegistersTypeOK ==
  /\ flags \in SUBSET (0 .. 7)
  /\ plain \in [Plain -> (0 .. 255) \cup {Unset}]
  /\ \A register \in Plain \ {"LYC"} : plain[register] \in 0 .. 255
  /\ DOMAIN palettes = Palettes
  /\ \A palette \in Palettes :
       \/ palettes[palette] \in [Numbers(palette) -> {Unset}]
       \/ palettes[palette] \in [Numbers(palette) -> 0 .. 3]
  /\ oam \in Oams
  /\ aborted \in BOOLEAN

(* The counters stay in range too. *)
ScreenTypeOK == TypeOK /\ RegistersTypeOK

IsUnset(palette) == \A number \in Numbers(palette) : palettes[palette][number] = Unset

(* The assertion that ends the program fails only if the program displays  *)
(* something whose palette it has never written: the background, which is  *)
(* displayed from the start, or the objects.                               *)
AbortsNeedAnUnsetPalette ==
  aborted => \/ backgroundDisplayEnable \in flags /\ IsUnset("BGP")
             \/ objectDisplayEnable \in flags /\ (IsUnset("OBP0") \/ IsUnset("OBP1"))

InFront(i, j) == x(i) < x(j) \/ (x(i) = x(j) /\ i < j)

(* The objects of the line, of which there is room for the first few. *)
OnLine ==
  {i \in DOMAIN oam :
     Covers(i) /\ Cardinality({j \in DOMAIN oam : j < i /\ Covers(j)}) < MAX_OBJECTS_PER_LINE}

(* Searching, sorting and painting over leave in every pixel the object    *)
(* furthest to the left and, of those, the one with the lowest number:     *)
(* among the objects that have room on the line and set the pixel.  Where  *)
(* there is none the background shows.                                     *)
FrontmostObjectWins ==
  mode = "HBLANK" =>
    \A x0 \in Columns :
      LET painters == {i \in OnLine : objectDisplayEnable \in flags /\ Draws(i, x0)} IN
      /\ painters = {} => pixelColor(x0) = BackgroundColor(x0)
      /\ \A i \in painters :
           (\A j \in painters \ {i} : InFront(i, j)) => pixelColor(x0) = ObjectColor(i, x0)

(* The lines of the patterns of both tables, which overlap. *)
LowerTable == 0 .. 4094
UpperTable == 2048 .. 6142

(* Wherever the plane is scrolled and whatever the objects are moved to,   *)
(* the background reads its map and the table of its patterns, and an      *)
(* object of the line its own pattern, or the two from there on if it is   *)
(* tall; only a tall object that is flipped reads elsewhere, below the     *)
(* tables' end still.                                                      *)
DrawsFromTheTiles ==
  mode = "HBLANK" =>
    /\ \A x0 \in Columns :
         /\ tileIndex(x0) \in 0 .. 1023
         /\ tilePatternLine(Vram[tileMap + tileIndex(x0)]) \in
              IF backgroundAndWindowTileDataSelect \in flags THEN LowerTable ELSE UpperTable
    /\ \A i \in OnLine :
         /\ objectPixelY(i) \in 0 .. objectHeight - 1
         /\ objectLine(i) \in 0 .. 4590
         /\ \/ objectLine(i) - 16 * patternIndex(i) \in 0 .. 2 * objectHeight - 2
            \/ objectHeight = 16 /\ yFlip(i)

(* Frames keep being shown to a program that does not reset LY for ever,   *)
(* unless it is aborted.                                                   *)
FramesComeUnlessAborted == <>aborted \/ FramesKeepComing

===============================================================================
