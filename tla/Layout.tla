------------------------------- MODULE Layout -------------------------------
(***************************************************************************)
(* The layout functions of style.c: tui_style_render and the functions     *)
(* that measure it, tui_place, the two joins, and the horizontal border    *)
(* edge.  A block is what their strings show: a sequence of rows, each a    *)
(* sequence of screen columns.  Escape sequences take no columns and are   *)
(* left out; a wide character is two columns, and nothing here cuts a row. *)
(* The strings of a border are of any width, none included: TuiBorder is    *)
(* public, and NULL shows nothing (at the top and bottom it is no legal     *)
(* value).                                                                 *)
(*                                                                         *)
(* The module composes the functions the way an application does: the      *)
(* block one call returns is the content of the next.  Allocation does not *)
(* fail (a failure returns NULL and leaves nothing behind).                *)
(***************************************************************************)
EXTENDS Integers, SequencesExt

CONSTANTS
  Ink,       \* what the columns of a text hold
  Texts,     \* what an application starts from, and joins to the block
  Styles,    \* for tui_style_render
  Boxes,     \* sizes <<width, height>> for tui_place
  Edges,     \* arguments of tui_border_render_horizontal
  MaxCalls   \* bound: calls that are composed

Aligns == {"start", "middle", "end"}   \* left/top, center/middle, right/bottom

\* The strings of a TuiBorder that are drawn around a block.
BorderStrings == {"top_left", "top", "top_right", "left", "right",
                  "bottom_left", "bottom", "bottom_right"}

\* What a column of a block holds.
Cell == Ink \cup {"blank", "corner", "edge", "side"}

ASSUME LayoutAssumption ==
  /\ MaxCalls \in Nat
  /\ Texts \subseteq Seq(Seq(Cell)) \ {<<>>}
  /\ \A e \in Edges : /\ e.title \in Seq(Ink) /\ e.align \in Aligns
                     /\ e.pattern \in Seq(Seq(Cell) \ {<<>>}) \ {<<>>}
                     /\ e.title_pad_left \in Nat /\ e.title_pad_right \in Nat
  /\ Boxes \subseteq Nat \X (Nat \ {0})
  /\ \A s \in Styles :
       /\ s.width \in Int /\ s.height \in Int       \* Unset when negative
       /\ s.padding_top \in Nat /\ s.padding_right \in Nat
       /\ s.padding_bottom \in Nat /\ s.padding_left \in Nat
       /\ s.margin_top \in Nat /\ s.margin_right \in Nat
       /\ s.margin_bottom \in Nat /\ s.margin_left \in Nat
       /\ s.align_h \in Aligns /\ s.align_v \in Aligns
       /\ s.has_border \in BOOLEAN /\ s.inline_ \in BOOLEAN
       /\ s.border \in [BorderStrings -> Seq(Cell)]

VARIABLES
  block,   \* what the last call returned
  made,    \* ghost: that call's name, the size its header promises for the
           \* result, the blocks it was given, and whether their columns
           \* and their rows fit in it
  calls    \* ghost: how many calls there were

layoutVars == <<block, made, calls>>

Unset == -1

----------------------------------------------------------------------------
(* Rows and columns                                                        *)

AtLeastZero(n) == IF n < 0 THEN 0 ELSE n
Smaller(m, n)  == IF m < n THEN m ELSE n

Blank(n)       == [i \in 1 .. AtLeastZero(n) |-> "blank"]
Copies(row, n) == [i \in 1 .. AtLeastZero(n) |-> row]

\* append_glyph_repeat: the whole string, n times.
Tile(glyph, n) == [i \in 1 .. Len(glyph) * AtLeastZero(n) |->
                     glyph[((i - 1) % Len(glyph)) + 1]]

\* Width of the widest row: what block_dims and the renderer measure.
Natural(rows) ==
  CHOOSE n \in {Len(rows[i]) : i \in DOMAIN rows} :
    \A i \in DOMAIN rows : Len(rows[i]) <= n

\* How much of the room left over comes before the content.
Lead(extra, align) ==
  IF extra <= 0 \/ align = "start" THEN 0
  ELSE IF align = "middle" THEN extra \div 2 ELSE extra

\* emit_line_padded; a row that is too wide stays as it is.
Padded(row, width, align) ==
  LET extra == width - Len(row)
      left  == Lead(extra, align)
  IN  Blank(left) \o row \o Blank(extra - left)

\* The rows a string of no bytes shows, and those of one that ends with the
\* newline that is taken off.
Shown(rows) == IF rows = <<>> THEN << <<>> >> ELSE rows

----------------------------------------------------------------------------
(* tui_style_render                                                        *)

\* border_cols and border_rows, whatever the strings are
Border(s) == IF s.has_border THEN 2 ELSE 0

\* The space between the paddings.
InnerWidth(s, rows) ==
  IF s.width >= 0
  THEN AtLeastZero(s.width - s.padding_left - s.padding_right - Border(s))
  ELSE Natural(rows)
InnerHeight(s, rows) ==
  IF s.height >= 0
  THEN AtLeastZero(s.height - s.padding_top - s.padding_bottom - Border(s))
  ELSE Len(rows)

\* The rows of the content that are drawn, with the padding beside them.
ContentRows(s, rows) ==
  [i \in 1 .. Smaller(Len(rows), InnerHeight(s, rows)) |->
     Blank(s.padding_left) \o Padded(rows[i], InnerWidth(s, rows), s.align_h)
       \o Blank(s.padding_right)]

\* What is inside the border: padding rows, the content at its alignment.
Inside(s, rows) ==
  LET box  == Blank(InnerWidth(s, rows) + s.padding_left + s.padding_right)
      more == InnerHeight(s, rows) - Len(rows)
      top  == Lead(more, s.align_v)
  IN  Copies(box, s.padding_top + top) \o ContentRows(s, rows)
        \o Copies(box, AtLeastZero(more) - top + s.padding_bottom)

\* One row with its border and margins at the sides.
Framed(s, left, row, right) ==
  Blank(s.margin_left)
    \o (IF s.has_border THEN left \o row \o right ELSE row)
    \o Blank(s.margin_right)

\* The row above or below the box: its edge is repeated for each column.
BorderRow(s, rows, left, edge, right) ==
  IF s.has_border
  THEN LET columns == InnerWidth(s, rows) + s.padding_left + s.padding_right
       IN  << Framed(s, left, Tile(edge, columns), right) >>
  ELSE <<>>

Render(s, rows) ==
  IF s.inline_ THEN rows
  ELSE LET inside == Inside(s, rows)
           b      == s.border
       IN  Shown(Copies(<<>>, s.margin_top)
                   \o BorderRow(s, rows, b.top_left, b.top, b.top_right)
                   \o [i \in DOMAIN inside |->
                         Framed(s, b.left, inside[i], b.right)]
                   \o BorderRow(s, rows, b.bottom_left, b.bottom, b.bottom_right)
                   \o Copies(<<>>, s.margin_bottom))

\* Mutant of GetWidth: the border is forgotten.
GetWidthBare(s, rows) ==
  IF s.inline_ THEN Len(FlattenSeq(rows))
  ELSE InnerWidth(s, rows) + s.padding_left + s.padding_right
         + s.margin_left + s.margin_right

\* tui_style_get_width and tui_style_get_height; an inline style takes its
\* content for a single row.
GetWidth(s, rows) ==
  IF s.inline_ THEN Len(FlattenSeq(rows))
  ELSE InnerWidth(s, rows) + s.padding_left + s.padding_right + Border(s)
         + s.margin_left + s.margin_right
GetHeight(s, rows) ==
  IF s.inline_ THEN 1
  ELSE InnerHeight(s, rows) + s.padding_top + s.padding_bottom + Border(s)
         + s.margin_top + s.margin_bottom

----------------------------------------------------------------------------
(* tui_place, the joins and the edge                                       *)

Place(width, height, halign, valign, rows) ==
  LET n   == Smaller(Len(rows), height)
      top == Lead(height - n, valign)
  IN  Shown([i \in 1 .. height |->
        IF i - top \in 1 .. n THEN Padded(rows[i - top], width, halign)
        ELSE Blank(width)])

Tallest(blocks) ==
  CHOOSE n \in {Len(blocks[k]) : k \in DOMAIN blocks} :
    \A k \in DOMAIN blocks : Len(blocks[k]) <= n

\* Mutant of JoinHorizontal: blocks that have ended are not padded.
JoinHorizontalRagged(valign, blocks) ==
  [row \in 1 .. Tallest(blocks) |->
     FlattenSeq([k \in DOMAIN blocks |->
       LET i == row - Lead(Tallest(blocks) - Len(blocks[k]), valign)
       IN  IF i \in DOMAIN blocks[k]
           THEN Padded(blocks[k][i], Natural(blocks[k]), "start")
           ELSE <<>>])]

\* tui_join_horizontal and tui_join_vertical
JoinHorizontal(valign, blocks) ==
  [row \in 1 .. Tallest(blocks) |->
     FlattenSeq([k \in DOMAIN blocks |->
       LET i == row - Lead(Tallest(blocks) - Len(blocks[k]), valign)
       IN  IF i \in DOMAIN blocks[k]
           THEN Padded(blocks[k][i], Natural(blocks[k]), "start")
           ELSE Blank(Natural(blocks[k]))])]
JoinVertical(halign, blocks) ==
  LET rows == FlattenSeq(blocks)
  IN  [i \in DOMAIN rows |-> Padded(rows[i], Natural(rows), halign)]

\* append_pattern_tiled: the glyphs of a pattern in turn, for so many columns.
Tiled(pattern, cols) ==
  LET From[n \in 0 .. cols] == [p \in 1 .. Len(pattern) |->
        IF Len(pattern[p]) > n THEN Blank(n)
        ELSE pattern[p] \o From[n - Len(pattern[p])][(p % Len(pattern)) + 1]]
  IN  IF cols <= 0 THEN <<>> ELSE From[cols][1]

\* tui_border_render_horizontal, without its style
Edge(e, width) ==
  LET slot == e.title_pad_left + Len(e.title) + e.title_pad_right
      left == Lead(width - slot, e.align)
  IN  IF e.title = <<>> THEN Tiled(e.pattern, width)
      ELSE Tiled(e.pattern, left) \o Blank(e.title_pad_left) \o e.title
             \o Blank(e.title_pad_right)
             \o Tiled(e.pattern, width - slot - left)

----------------------------------------------------------------------------
(* An application that composes them                                       *)

Made(op, width, height, blocks, fits, whole) ==
  [op |-> op, width |-> width, height |-> height, blocks |-> blocks,
   fits |-> fits, whole |-> whole]

NoCall == Made("none", 0, 0, <<>>, TRUE, TRUE)

LayoutInit ==
  /\ block \in Texts
  /\ made = NoCall
  /\ calls = 0

\* The border, if there is one, is one column wide on every side, as the
\* prefabricated ones are: an ornate one is not what the measures count.
OneColumn(s) ==
  s.has_border => \A f \in BorderStrings : Len(s.border[f]) = 1

DoRender(s) ==
  /\ block' = Render(s, block)
  /\ made' = Made(IF s.inline_ THEN "inline"
                  ELSE IF OneColumn(s) THEN "render" ELSE "ornate",
                  GetWidth(s, block), GetHeight(s, block), <<block>>,
                  Natural(block) <= InnerWidth(s, block),
                  Len(block) <= InnerHeight(s, block))

DoPlace(box, halign, valign) ==
  /\ block' = Place(box[1], box[2], halign, valign, block)
  /\ made' = Made("place", box[1], box[2], <<block>>,
                  Natural(block) <= box[1], Len(block) <= box[2])

Total(sizes) ==
  LET sum[k \in 0 .. Len(sizes)] == IF k = 0 THEN 0 ELSE sum[k - 1] + sizes[k]
  IN  sum[Len(sizes)]

\* The block beside or above another one, of any width and height.
DoJoin(op, align, blocks) ==
  LET widths  == [k \in DOMAIN blocks |-> Natural(blocks[k])]
      heights == [k \in DOMAIN blocks |-> Len(blocks[k])]
  IN  \/ /\ op = "beside"
         /\ block' = JoinHorizontal(align, blocks)
         /\ made' = Made(op, Total(widths), Tallest(blocks), blocks, TRUE, TRUE)
      \/ /\ op = "below"
         /\ block' = JoinVertical(align, blocks)
         /\ made' = Made(op, Natural(FlattenSeq(blocks)), Total(heights), blocks,
                         TRUE, TRUE)

\* A divider: an edge as wide as the block, and what its header promises.
DoDivide(e) ==
  LET width == Natural(block)
      slot  == e.title_pad_left + Len(e.title) + e.title_pad_right
  IN  /\ width > 0
      /\ block' = block \o << Edge(e, width) >>
      /\ made' = Made("divide", width, Len(block) + 1, <<block>>,
                      e.title = <<>> \/ slot <= width, TRUE)

\* The application draws its next frame from another text.
NextFrame == /\ calls > 0 /\ calls' = 0
             /\ block' \in Texts /\ made' = NoCall

DoCall ==
  /\ \/ \E s \in Styles : DoRender(s)
     \/ \E box \in Boxes, halign, valign \in Aligns :
          DoPlace(box, halign, valign)
     \/ \E op \in {"beside", "below"}, align \in Aligns, text \in Texts :
          \/ DoJoin(op, align, <<block, text>>)
          \/ DoJoin(op, align, <<text, block, text>>)
     \/ \E e \in Edges : DoDivide(e)
  /\ calls < MaxCalls /\ calls' = calls + 1

LayoutNext == DoCall \/ NextFrame

LayoutSpec == LayoutInit /\ [][LayoutNext]_layoutVars

----------------------------------------------------------------------------
(* Properties                                                              *)

LayoutTypeOK ==
  /\ block \in Seq(Seq(Cell)) /\ block # <<>>
  /\ made.op \in {"none", "render", "ornate", "inline", "place", "beside",
                  "below", "divide"}

\* What is measured before a block is rendered is what rendering it gives: as
\* many rows, whatever the border is, and, for a border of one column and
\* content that fits, all of the width said but those of the margins.
RenderedHeight ==
  made.op \in {"render", "ornate"} /\ made.height > 0 => Len(block) = made.height
RenderedWidth ==
  made.op = "render" /\ made.fits /\ made.height > 0 =>
    \A i \in DOMAIN block : Len(block[i]) \in {0, made.width}
RenderedAsMeasured == RenderedHeight /\ RenderedWidth

\* Whatever was rendered, placed and joined before, the next block is a
\* rectangle of the size its call promises.
Rectangle(width, height) ==
  Len(block) = height /\ \A i \in DOMAIN block : Len(block[i]) = width
PlacedInBox == made.op = "place" /\ made.fits => Rectangle(made.width, made.height)
JoinedEvenly == made.op \in {"beside", "below"} => Rectangle(made.width, made.height)
EdgeAsWide == made.op = "divide" /\ made.fits => Len(Last(block)) = made.width

\* Every row given is found again, whole, and in the order given: below one
\* another, beside one another in the order of the blocks, and inside a box
\* or a border where the rows and the columns fit.
At(row, i, c) == /\ c + Len(row) <= Len(block[i])
                 /\ SubSeq(block[i], c + 1, c + Len(row)) = row
FoundFrom(rows, top) == \A i \in DOMAIN rows :
  /\ top + i \in DOMAIN block
  /\ \E c \in 0 .. Len(block[top + i]) : At(rows[i], top + i, c)
ContentKept ==
  /\ \/ made.op \in {"render", "ornate", "place"} /\ made.fits /\ made.whole
     \/ made.op \in {"inline", "divide"}
     => \E top \in 0 .. Len(block) : FoundFrom(made.blocks[1], top)
  /\ made.op = "below" => FoundFrom(FlattenSeq(made.blocks), 0)
  /\ made.op = "beside" =>
       \A k \in DOMAIN made.blocks :
         LET before == FlattenSeq([j \in 1 .. k - 1 |->
                                     Blank(Natural(made.blocks[j]))])
         IN  \E top \in 0 .. Len(block) : \A i \in DOMAIN made.blocks[k] :
               /\ top + i \in DOMAIN block
               /\ At(made.blocks[k][i], top + i, Len(before))

\* Whatever calls came before, the next one returns a block of the shape it
\* promises that holds all it was given, where that fits.
ComposedWhole ==
  LayoutTypeOK /\ PlacedInBox /\ JoinedEvenly /\ EdgeAsWide /\ ContentKept
=============================================================================
