----------------------------- MODULE MemoryMap -----------------------------
(***************************************************************************)
(* The memory map task: in its first turn it draws as many of the regions  *)
(* kernel_main has listed as fit between the header and the legend of its  *)
(* window, each with a colour bar and two lines of text.                   *)
(***************************************************************************)
EXTENDS Boot, RegionText

FONT_HEIGHT == 16
DEFAULT_TITLE_BAR_HEIGHT == 24
WINDOW_PADDING == 6

VARIABLES
  drawing,      \* position in draw_memmap
  cy,           \* where it draws
  rows          \* the rows in the window: where, and of which region

memmapVars == <<drawing, cy, rows>>

content ==
  [x |-> WINDOW_PADDING,
   y |-> DEFAULT_TITLE_BAR_HEIGHT + WINDOW_PADDING,
   width |-> Size("MemoryMap")[1] - 2 * WINDOW_PADDING,
   height |-> Size("MemoryMap")[2] - (DEFAULT_TITLE_BAR_HEIGHT + 2 * WINDOW_PADDING)]
right == content.x + content.width

\* Mutant: the gap below the two lines of a row is not counted.
TightRow == FONT_HEIGHT * 2 + 4

row_height == FONT_HEIGHT * 2 + 8

\* The legend has two columns.
legend_height == ((7 + 1) \div 2) * (FONT_HEIGHT + 4) + 8
legend_y == content.y + content.height - legend_height

max_visible == (content.height - (legend_height + FONT_HEIGHT + 8)) \div row_height
visible == Min({Len(MEM_REGIONS), max_visible})

\* end - start, from the digits.
Bytes(r) ==
  LET v[k \in 0 .. 16] == IF k = 0 THEN 0 ELSE 16 * v[k - 1] + (r.end[k] - r.start[k])
  IN  v[16]

\* No region ends before it starts.
ASSUME RegionsAssumption == \A m \in Machines : \A k \in DOMAIN m.map : Bytes(m.map[k]) \in Nat

\* The two lines of a row, and where the first one is drawn.
size_str(region) == format_size(Bytes(region))
addr_str(region) == format_addr_range(region.start, region.end)
size_x(region) == right - (Len(size_str(region)) * FONT_WIDTH + 2)
-----------------------------------------------------------------------------
MemmapInit ==
  /\ drawing = "start"
  /\ cy = 0
  /\ rows = <<>>

\* Without a screen there is no window to draw in.
Header ==
  /\ status = "running"
  /\ drawing = "start"
  /\ IF screen = NoScreen \/ MEM_REGIONS = <<>>
       THEN drawing' = "drawn" /\ UNCHANGED cy
       ELSE drawing' = "rows" /\ cy' = content.y + FONT_HEIGHT + 4 + 4
  /\ UNCHANGED rows

Row ==
  /\ drawing = "rows"
  /\ Len(rows) < visible
  /\ rows' = Append(rows, [top |-> cy, region |-> MEM_REGIONS[Len(rows) + 1]])
  /\ cy' = cy + 4 + FONT_HEIGHT + FONT_HEIGHT + 1 + 3
  /\ UNCHANGED drawing

Legend ==
  /\ drawing = "rows"
  /\ Len(rows) = visible
  /\ drawing' = "drawn"
  /\ UNCHANGED <<cy, rows>>

MemmapNext == Header \/ Row \/ Legend
-----------------------------------------------------------------------------
\* The lines of a row say what they should, in full and inside the window; the
\* size does not run into the longest label, "ACPI Reclaim", left of it.
Legible(region) ==
  /\ ReadsAs(size_str(region), Bytes(region))
  /\ addr_str(region) = Shortened(region.start) \o <<Char.dash>> \o Shortened(region.end)
  /\ size_x(region) >= content.x + 2 + 12 * FONT_WIDTH
  /\ size_x(region) + Len(size_str(region)) * FONT_WIDTH <= right
  /\ content.x + 2 + Len(addr_str(region)) * FONT_WIDTH <= right

\* Each row is of its region and clear of the row before it and of the legend;
\* the last one leaves no room for another region.
RowsFit ==
  drawing = "rows" =>
    /\ rows # <<>> =>
         LET row == rows[Len(rows)]
         IN  /\ row.region = MEM_REGIONS[Len(rows)]
             /\ row.top + 4 + 2 * FONT_HEIGHT <= cy /\ cy <= legend_y
    /\ Len(rows) = visible =>
         Len(rows) = Len(MEM_REGIONS) \/ cy + 4 + 2 * FONT_HEIGHT + 4 > legend_y

(***************************************************************************)
(* The window shows the first regions of the list, one per row, each with  *)
(* its size in the largest fitting unit and both bounds in full, whatever  *)
(* their length; rows neither run into one another or into the legend nor  *)
(* leave room for one more region (draw_memmap, format_size, write_hex).   *)
(***************************************************************************)
RowsShowRegions ==
  /\ RowsFit
  /\ drawing = "rows" /\ rows # <<>> => Legible(rows[Len(rows)].region)
=============================================================================
