---------------------------- MODULE LayoutProofs ----------------------------
(***************************************************************************)
(* What rendering and placing a block give, for every style and content:   *)
(* the size that is measured without rendering.                            *)
(***************************************************************************)
EXTENDS Layout, StatusBar, SequenceTheorems, Induction, TLAPS

\* A block: some rows, one of them the widest.  BlocksAre shows that every
\* sequence of rows but the empty one is a block.
IsBlock(rows) ==
  /\ rows \in Seq(Seq(Cell)) /\ rows # <<>>
  /\ \E i \in DOMAIN rows : \A j \in DOMAIN rows : Len(rows[j]) <= Len(rows[i])

----------------------------------------------------------------------------
(* Rows                                                                    *)

\* Blanks, tiles and copies are sequences of the length asked for.
LEMMA Repeated ==
  ASSUME NEW S, NEW x \in S, NEW m \in Nat
  PROVE  /\ [i \in 1 .. m |-> x] \in Seq(S)
         /\ Len([i \in 1 .. m |-> x]) = m
OBVIOUS

\* Three sequences after one another.
LEMMA Three ==
  ASSUME NEW S, NEW a \in Seq(S), NEW b \in Seq(S), NEW c \in Seq(S)
  PROVE  /\ a \o b \o c \in Seq(S)
         /\ Len(a \o b \o c) = Len(a) + Len(b) + Len(c)
<1>1. a \o b \in Seq(S) /\ Len(a \o b) = Len(a) + Len(b)
  BY ConcatProperties
<1> QED
  BY <1>1, ConcatProperties

\* What lies between two sequences is found again, element by element and
\* as a whole.
LEMMA MiddleElement ==
  ASSUME NEW S, NEW a \in Seq(S), NEW b \in Seq(S), NEW c \in Seq(S),
         NEW i \in 1 .. Len(b)
  PROVE  /\ Len(a) + i \in DOMAIN (a \o b \o c)
         /\ (a \o b \o c)[Len(a) + i] = b[i]
<1> DEFINE ab == a \o b
           t  == ab \o c
           m  == Len(a)
           n  == Len(b)
<1>1. m \in Nat /\ n \in Nat /\ Len(c) \in Nat
  OBVIOUS
<1>2. /\ ab \in Seq(S) /\ Len(ab) = m + n
      /\ \A j \in 1 .. m + n : ab[j] = IF j <= m THEN a[j] ELSE b[j - m]
  BY ConcatProperties
<1> HIDE DEF ab
<1>3. /\ t \in Seq(S) /\ Len(t) = Len(ab) + Len(c)
      /\ \A j \in 1 .. Len(ab) + Len(c) :
           t[j] = IF j <= Len(ab) THEN ab[j] ELSE c[j - Len(ab)]
  <2>1. ab \in Seq(S) /\ c \in Seq(S)
    BY <1>2
  <2> QED
    BY <2>1, ConcatProperties, Zenon
<1> HIDE DEF t, m, n
<1>4. i \in 1 .. n
  BY DEF n
<1>5. m + i \in 1 .. m + n /\ ~(m + i <= m) /\ (m + i) - m = i
  BY <1>1, <1>4
<1>6. ab[m + i] = b[i]
  BY <1>2, <1>5
<1>7. m + i \in 1 .. Len(ab) + Len(c) /\ m + i <= Len(ab)
  BY <1>1, <1>2, <1>5
<1>8. t[m + i] = b[i] /\ m + i \in DOMAIN t
  BY <1>3, <1>6, <1>7
<1> QED
  BY <1>8 DEF t, ab, m

LEMMA Middle ==
  ASSUME NEW S, NEW a \in Seq(S), NEW b \in Seq(S), NEW c \in Seq(S)
  PROVE  SubSeq(a \o b \o c, Len(a) + 1, Len(a) + Len(b)) = b
<1> DEFINE t  == a \o b \o c
           m  == Len(a)
           n  == Len(b)
<1>1. m \in Nat /\ n \in Nat
  OBVIOUS
<1>2. ASSUME NEW i \in 1 .. n PROVE m + i \in DOMAIN t /\ t[m + i] = b[i]
  <2>1. i \in 1 .. Len(b)
    OBVIOUS
  <2> HIDE DEF t, m, n
  <2>2. Len(a) + i \in DOMAIN (a \o b \o c) /\ (a \o b \o c)[Len(a) + i] = b[i]
    BY <2>1, MiddleElement
  <2> QED
    BY <2>2 DEF t, m
<1>3. \A i \in 1 .. n : b[i] \in S
  OBVIOUS
<1> HIDE DEF t, m, n
<1> DEFINE u == SubSeq(t, m + 1, m + n)
<1>6. m + 1 \in Int /\ m + n \in Int
  BY <1>1
<1>7. \A j \in m + 1 .. m + n : t[j] \in S
  <2>1. \A j \in m + 1 .. m + n : j - m \in 1 .. n /\ m + (j - m) = j
    BY <1>1
  <2> QED
    BY <1>2, <1>3, <2>1
<1>8. /\ u \in Seq(S)
      /\ Len(u) = IF m + 1 <= m + n THEN (m + n) - (m + 1) + 1 ELSE 0
      /\ \A i \in 1 .. (m + n) - (m + 1) + 1 : u[i] = t[(m + 1) + i - 1]
  BY <1>6, <1>7, SubSeqProperties
<1> HIDE DEF u
<1>9. Len(u) = n
  BY <1>1, <1>8
<1>10. \A i \in 1 .. n : u[i] = b[i]
  <2>1. \A i \in 1 .. n : i \in 1 .. (m + n) - (m + 1) + 1 /\ (m + 1) + i - 1 = m + i
    BY <1>1
  <2> QED
    BY <1>2, <1>8, <2>1
<1>11. u = b
  <2>1. Len(b) = n
    BY DEF n
  <2> QED
    BY <1>8, <1>9, <1>10, <2>1, SeqEqual
<1> QED
  BY <1>11 DEF u, t, m, n

LEMMA ZeroAtLeast == ASSUME NEW n \in Int PROVE AtLeastZero(n) \in Nat
BY DEF AtLeastZero

LEMMA Blanks ==
  ASSUME NEW n \in Int
  PROVE  Blank(n) \in Seq(Cell) /\ Len(Blank(n)) = AtLeastZero(n)
<1>1. "blank" \in Cell
  BY DEF Cell
<1> QED
  BY <1>1, ZeroAtLeast, Repeated DEF Blank

\* A string of one column is repeated once for each column.
LEMMA Tiles ==
  ASSUME NEW n \in Nat, NEW glyph \in Seq(Cell)
  PROVE  /\ Tile(glyph, n) \in Seq(Cell)
         /\ Len(glyph) = 1 => Len(Tile(glyph, n)) = n
<1> DEFINE l == Len(glyph)
           m == l * n
           tile == [i \in 1 .. m |-> glyph[((i - 1) % l) + 1]]
<1>1. l \in Nat /\ AtLeastZero(n) = n
  BY DEF AtLeastZero
<1>2. Tile(glyph, n) = tile
  BY <1>1 DEF Tile
<1>3. m \in Nat /\ (l = 0 => m = 0) /\ (l = 1 => m = n)
  <2> HIDE DEF l
  <2> QED
    BY <1>1
<1>4. ASSUME NEW i \in 1 .. m PROVE glyph[((i - 1) % l) + 1] \in Cell
  <2>1. i \in Nat /\ i > 0 /\ m > 0
    BY <1>3
  <2>2. l \in Nat \ {0} /\ i - 1 \in Nat
    BY <1>1, <1>3, <2>1
  <2>3. (i - 1) % l \in 0 .. l - 1
    <3> HIDE DEF l
    <3> QED
      BY <2>2
  <2>4. ((i - 1) % l) + 1 \in 1 .. l
    <3> HIDE DEF l
    <3> QED
      BY <2>2, <2>3
  <2> QED
    BY <2>4
<1>5. tile \in Seq(Cell) /\ Len(tile) = m
  <2> HIDE DEF m, l
  <2> QED
    BY <1>3, <1>4
<1> QED
  BY <1>2, <1>3, <1>5

LEMMA Copied ==
  ASSUME NEW n \in Int, NEW row \in Seq(Cell)
  PROVE  /\ Copies(row, n) \in Seq(Seq(Cell))
         /\ Len(Copies(row, n)) = AtLeastZero(n)
         /\ \A i \in 1 .. AtLeastZero(n) : Copies(row, n)[i] = row
BY ZeroAtLeast, Repeated DEF Copies

\* The content never starts before the room, nor after its end.
LEMMA LeadInRoom ==
  ASSUME NEW extra \in Int, NEW align \in Aligns
  PROVE  /\ Lead(extra, align) \in Nat
         /\ extra >= 0 => Lead(extra, align) <= extra
         /\ extra < 0 => Lead(extra, align) = 0
BY DEF Lead, Aligns

\* A row that fits is padded to exactly the width.
LEMMA PaddedWidth ==
  ASSUME NEW row \in Seq(Cell), NEW width \in Nat, NEW align \in Aligns
  PROVE  /\ Padded(row, width, align) \in Seq(Cell)
         /\ Len(row) <= width => Len(Padded(row, width, align)) = width
<1> DEFINE extra == width - Len(row)
           left  == Lead(extra, align)
<1>1. extra \in Int /\ Len(row) \in Nat
  OBVIOUS
<1>2. /\ left \in Nat
      /\ extra >= 0 => left <= extra
  BY <1>1, LeadInRoom
<1>3. extra - left \in Int
  BY <1>1, <1>2
<1> HIDE DEF extra, left
<1>4. /\ Blank(left) \in Seq(Cell) /\ Len(Blank(left)) = left
      /\ Blank(extra - left) \in Seq(Cell)
      /\ extra >= 0 => Len(Blank(extra - left)) = extra - left
  <2>1. AtLeastZero(left) = left
    BY <1>2 DEF AtLeastZero
  <2>2. extra >= 0 => AtLeastZero(extra - left) = extra - left
    BY <1>1, <1>2 DEF AtLeastZero
  <2> QED
    BY <1>2, <1>3, <2>1, <2>2, Blanks
<1>5. Padded(row, width, align) = Blank(left) \o row \o Blank(extra - left)
  BY DEF Padded, left, extra
<1>6. Padded(row, width, align) \in Seq(Cell)
  BY <1>4, <1>5
<1>7. ASSUME Len(row) <= width PROVE Len(Padded(row, width, align)) = width
  <2>1. extra = width - Len(row) /\ extra >= 0
    BY <1>1, <1>7 DEF extra
  <2>2. /\ Blank(left) \o row \in Seq(Cell)
        /\ Len(Blank(left) \o row) = left + Len(row)
    BY <1>4
  <2>3. Len(Padded(row, width, align))
          = Len(Blank(left) \o row) + Len(Blank(extra - left))
    BY <1>4, <1>5, <2>2
  <2> QED
    BY <1>1, <1>2, <1>4, <2>1, <2>2, <2>3
<1> QED
  BY <1>6, <1>7

\* The natural width is that of a row, and no row is wider.
LEMMA NaturalWidth ==
  ASSUME NEW rows, IsBlock(rows)
  PROVE  Natural(rows) \in Nat /\ \A i \in DOMAIN rows : Len(rows[i]) <= Natural(rows)
<1> DEFINE W == {Len(rows[i]) : i \in DOMAIN rows}
<1>1. PICK k \in DOMAIN rows : \A j \in DOMAIN rows : Len(rows[j]) <= Len(rows[k])
  BY DEF IsBlock
<1>2. \E n \in W : \A i \in DOMAIN rows : Len(rows[i]) <= n
  BY <1>1
<1>3. /\ Natural(rows) \in W
      /\ \A i \in DOMAIN rows : Len(rows[i]) <= Natural(rows)
  BY <1>2 DEF Natural
<1>4. W \subseteq Nat
  BY DEF IsBlock
<1> QED
  BY <1>3, <1>4

StyleTyped(s) ==
  /\ s.width \in Int /\ s.height \in Int
  /\ s.padding_top \in Nat /\ s.padding_right \in Nat
  /\ s.padding_bottom \in Nat /\ s.padding_left \in Nat
  /\ s.margin_top \in Nat /\ s.margin_right \in Nat
  /\ s.margin_bottom \in Nat /\ s.margin_left \in Nat
  /\ s.align_h \in Aligns /\ s.align_v \in Aligns
  /\ s.has_border \in BOOLEAN /\ s.inline_ \in BOOLEAN

LEMMA StyleFields == ASSUME NEW s \in Styles PROVE StyleTyped(s)
BY LayoutAssumption DEF StyleTyped

\* The strings of a border are rows; those of one column are as wide.
LEMMA BorderIsTyped ==
  ASSUME NEW s \in Styles
  PROVE  /\ s.border.top_left \in Seq(Cell) /\ s.border.top \in Seq(Cell)
         /\ s.border.top_right \in Seq(Cell)
         /\ s.border.left \in Seq(Cell) /\ s.border.right \in Seq(Cell)
         /\ s.border.bottom_left \in Seq(Cell) /\ s.border.bottom \in Seq(Cell)
         /\ s.border.bottom_right \in Seq(Cell)
         /\ s.has_border /\ OneColumn(s) =>
              /\ Len(s.border.top_left) = 1 /\ Len(s.border.top) = 1
              /\ Len(s.border.top_right) = 1
              /\ Len(s.border.left) = 1 /\ Len(s.border.right) = 1
              /\ Len(s.border.bottom_left) = 1 /\ Len(s.border.bottom) = 1
              /\ Len(s.border.bottom_right) = 1
<1>1. s.border \in [BorderStrings -> Seq(Cell)]
  BY LayoutAssumption
<1> QED
  BY <1>1 DEF BorderStrings, OneColumn

\* The size of what is inside the padding is a size.
LEMMA InnerSize ==
  ASSUME NEW s \in Styles, NEW rows, IsBlock(rows)
  PROVE  InnerWidth(s, rows) \in Nat /\ InnerHeight(s, rows) \in Nat
<1>1. StyleTyped(s)
  BY StyleFields
<1>2. Border(s) \in Nat
  BY <1>1 DEF Border, StyleTyped
<1>3. Natural(rows) \in Nat /\ Len(rows) \in Nat
  BY NaturalWidth DEF IsBlock
<1>4. /\ s.width - s.padding_left - s.padding_right - Border(s) \in Int
      /\ s.height - s.padding_top - s.padding_bottom - Border(s) \in Int
  BY <1>1, <1>2 DEF StyleTyped
<1>5. /\ AtLeastZero(s.width - s.padding_left - s.padding_right - Border(s)) \in Nat
      /\ AtLeastZero(s.height - s.padding_top - s.padding_bottom - Border(s)) \in Nat
  BY <1>4, ZeroAtLeast
<1> QED
  BY <1>3, <1>5 DEF InnerWidth, InnerHeight

----------------------------------------------------------------------------
(* tui_place                                                               *)

\* tui_place returns the box it was asked for, whatever its content and the
\* alignments, provided the content is no wider than the box.
THEOREM PlaceFillsBox ==
  ASSUME NEW width \in Nat, NEW height \in Nat \ {0},
         NEW halign \in Aligns, NEW valign \in Aligns,
         NEW rows \in Seq(Seq(Cell)),
         \A i \in DOMAIN rows : Len(rows[i]) <= width
  PROVE  LET placed == Place(width, height, halign, valign, rows)
         IN  /\ Len(placed) = height
             /\ \A i \in 1 .. height : Len(placed[i]) = width
<1> DEFINE n      == Smaller(Len(rows), height)
           top    == Lead(height - n, valign)
           row(i) == IF i - top \in 1 .. n THEN Padded(rows[i - top], width, halign)
                     ELSE Blank(width)
           box    == [i \in 1 .. height |-> row(i)]
<1>1. n \in Nat /\ n <= Len(rows) /\ n <= height
  BY DEF Smaller
<1>2. top \in Nat
  BY <1>1, LeadInRoom
<1>3. ASSUME NEW i \in 1 .. height
      PROVE  row(i) \in Seq(Cell) /\ Len(row(i)) = width
  <2>1. CASE i - top \in 1 .. n
    <3>1. i - top \in DOMAIN rows
      BY <1>1, <1>2, <2>1
    <3>2. rows[i - top] \in Seq(Cell) /\ Len(rows[i - top]) <= width
      BY <3>1
    <3> QED
      BY <2>1, <3>2, PaddedWidth
  <2>2. CASE ~(i - top \in 1 .. n)
    BY <2>2, Blanks DEF AtLeastZero
  <2> QED
    BY <2>1, <2>2
<1> HIDE DEF n, top, row
<1>4. /\ Len(box) = height
      /\ \A i \in 1 .. height : box[i] = row(i)
      /\ box \in Seq(Seq(Cell))
  BY <1>3
<1>5. box # <<>>
  BY <1>4
<1>6. Place(width, height, halign, valign, rows) = Shown(box)
  BY DEF Place, box, row, top, n
<1> QED
  BY <1>3, <1>4, <1>5, <1>6 DEF Shown

----------------------------------------------------------------------------
(* tui_style_render                                                        *)

BoxWidth(s, rows) == InnerWidth(s, rows) + s.padding_left + s.padding_right
Fits(s, rows) ==
  OneColumn(s) /\ \A i \in DOMAIN rows : Len(rows[i]) <= InnerWidth(s, rows)

\* A row of content between its paddings.
LEMMA ContentRow ==
  ASSUME NEW s \in Styles, NEW rows, IsBlock(rows), NEW i \in DOMAIN rows
  PROVE  LET row == Blank(s.padding_left)
                      \o Padded(rows[i], InnerWidth(s, rows), s.align_h)
                      \o Blank(s.padding_right)
         IN  /\ row \in Seq(Cell)
             /\ Fits(s, rows) => Len(row) = BoxWidth(s, rows)
<1> DEFINE middle == Padded(rows[i], InnerWidth(s, rows), s.align_h)
<1>1. StyleTyped(s) /\ InnerWidth(s, rows) \in Nat
  BY StyleFields, InnerSize
<1>2. rows[i] \in Seq(Cell)
  BY DEF IsBlock
<1>3. /\ middle \in Seq(Cell)
      /\ Len(rows[i]) <= InnerWidth(s, rows) => Len(middle) = InnerWidth(s, rows)
  BY <1>1, <1>2, PaddedWidth DEF StyleTyped
<1>4. /\ Blank(s.padding_left) \in Seq(Cell)
      /\ Len(Blank(s.padding_left)) = s.padding_left
      /\ Blank(s.padding_right) \in Seq(Cell)
      /\ Len(Blank(s.padding_right)) = s.padding_right
  BY SMTT(30), <1>1, Blanks DEF StyleTyped, AtLeastZero
<1> HIDE DEF middle
<1>6. /\ Blank(s.padding_left) \o middle \o Blank(s.padding_right) \in Seq(Cell)
      /\ Len(Blank(s.padding_left) \o middle \o Blank(s.padding_right))
           = s.padding_left + Len(middle) + s.padding_right
  <2> DEFINE l == Blank(s.padding_left)
             r == Blank(s.padding_right)
  <2>0. l \in Seq(Cell) /\ middle \in Seq(Cell) /\ r \in Seq(Cell)
    BY <1>3, <1>4
  <2>1. Len(l) = s.padding_left /\ Len(r) = s.padding_right
    BY <1>4
  <2> HIDE DEF l, r
  <2>2. /\ l \o middle \o r \in Seq(Cell)
        /\ Len(l \o middle \o r) = Len(l) + Len(middle) + Len(r)
    BY <2>0, Three
  <2>3. Len(l \o middle \o r) = s.padding_left + Len(middle) + s.padding_right
    BY <2>1, <2>2
  <2> QED
    BY <2>2, <2>3 DEF l, r
<1>7. Len(middle) \in Nat
  BY <1>3
<1>8. Fits(s, rows) => s.padding_left + Len(middle) + s.padding_right
                         = BoxWidth(s, rows)
  BY <1>1, <1>3, <1>7 DEF Fits, BoxWidth, StyleTyped
<1> QED
  BY <1>6, <1>8 DEF middle

\* Rows that are n columns wide; the rows of a content that fits, and of any.
Wide(n) == {row \in Seq(Cell) : Len(row) = n}
BoxRows(s, rows) == IF Fits(s, rows) THEN Wide(BoxWidth(s, rows)) ELSE Seq(Cell)

LEMMA BoxSize ==
  ASSUME NEW s \in Styles, NEW rows, IsBlock(rows)
  PROVE  BoxWidth(s, rows) \in Nat /\ Blank(BoxWidth(s, rows)) \in BoxRows(s, rows)
<1>1. BoxWidth(s, rows) \in Nat
  BY StyleFields, InnerSize DEF BoxWidth, StyleTyped
<1>2. /\ Blank(BoxWidth(s, rows)) \in Seq(Cell)
      /\ Len(Blank(BoxWidth(s, rows))) = BoxWidth(s, rows)
  BY <1>1, Blanks DEF AtLeastZero
<1> QED
  BY <1>1, <1>2 DEF BoxRows, Wide

LEMMA ContentRowsTyped ==
  ASSUME NEW s \in Styles, NEW rows, IsBlock(rows)
  PROVE  /\ ContentRows(s, rows) \in Seq(BoxRows(s, rows))
         /\ Len(ContentRows(s, rows)) = Smaller(Len(rows), InnerHeight(s, rows))
<1> DEFINE n == Smaller(Len(rows), InnerHeight(s, rows))
           row(i) == Blank(s.padding_left)
                       \o Padded(rows[i], InnerWidth(s, rows), s.align_h)
                       \o Blank(s.padding_right)
<1>1. n \in Nat /\ n <= Len(rows)
  BY InnerSize DEF Smaller, IsBlock
<1>2. DOMAIN rows = 1 .. Len(rows) /\ Len(rows) \in Nat
  BY DEF IsBlock
<1>3. ASSUME NEW i \in 1 .. n PROVE row(i) \in BoxRows(s, rows)
  <2>1. i \in DOMAIN rows
    BY <1>1, <1>2
  <2>2. row(i) \in Seq(Cell) /\ (Fits(s, rows) => Len(row(i)) = BoxWidth(s, rows))
    BY <2>1, ContentRow
  <2> HIDE DEF row
  <2> QED
    BY <2>2 DEF BoxRows, Wide
<1> HIDE DEF n, row
<1>4. ContentRows(s, rows) = [i \in 1 .. n |-> row(i)]
  BY DEF ContentRows, n, row
<1> QED
  BY <1>1, <1>3, <1>4 DEF n

\* Copies of a blank row.
LEMMA BlankRows ==
  ASSUME NEW s \in Styles, NEW rows, IsBlock(rows), NEW n \in Nat
  PROVE  /\ Copies(Blank(BoxWidth(s, rows)), n) \in Seq(BoxRows(s, rows))
         /\ Len(Copies(Blank(BoxWidth(s, rows)), n)) = n
BY BoxSize, Repeated DEF Copies, AtLeastZero

\* Inside the border there are the rows of the content that fit, and as many
\* blank ones as the height leaves.
LEMMA InsideSize ==
  ASSUME NEW s \in Styles, NEW rows, IsBlock(rows)
  PROVE  /\ Inside(s, rows) \in Seq(BoxRows(s, rows))
         /\ Len(Inside(s, rows))
              = InnerHeight(s, rows) + s.padding_top + s.padding_bottom
<1> DEFINE box  == Blank(BoxWidth(s, rows))
           H    == InnerHeight(s, rows)
           more == H - Len(rows)
           top  == Lead(more, s.align_v)
           rest == AtLeastZero(more) - top + s.padding_bottom
<1>1. StyleTyped(s) /\ H \in Nat /\ Len(rows) \in Nat
  BY StyleFields, InnerSize DEF IsBlock
<1>2. more \in Int /\ more = H - Len(rows)
  BY <1>1
<1>3. /\ top \in Nat
      /\ more >= 0 => top <= more
      /\ more < 0 => top = 0
  BY <1>1, <1>2, LeadInRoom DEF StyleTyped
<1>4. Inside(s, rows) = Copies(box, s.padding_top + top) \o ContentRows(s, rows)
                          \o Copies(box, rest)
  BY DEF Inside, BoxWidth
<1>5. rest = AtLeastZero(more) - top + s.padding_bottom
  OBVIOUS
<1> HIDE DEF H, more, top, rest
<1>6. /\ s.padding_top + top \in Nat /\ rest \in Nat
      /\ s.padding_top + top + Smaller(Len(rows), H) + rest
           = H + s.padding_top + s.padding_bottom
  <2>1. s.padding_top \in Nat /\ s.padding_bottom \in Nat
    BY <1>1 DEF StyleTyped
  <2>2. CASE more >= 0
    <3>1. AtLeastZero(more) = more /\ Smaller(Len(rows), H) = Len(rows)
      BY <1>1, <1>2, <2>2 DEF AtLeastZero, Smaller
    <3>2. rest = more - top + s.padding_bottom /\ top <= more
      BY <1>3, <1>5, <2>2, <3>1
    <3>3. rest \in Nat /\ top + rest = more + s.padding_bottom
      BY <1>2, <1>3, <2>1, <2>2, <3>2
    <3>4. top + Smaller(Len(rows), H) + rest = H + s.padding_bottom
      BY <1>1, <1>2, <1>3, <2>1, <3>1, <3>3
    <3>5. Smaller(Len(rows), H) \in Nat
      BY <1>1, <3>1
    <3>6. H \in Nat
      BY <1>1
    <3> DEFINE n == Smaller(Len(rows), H)
    <3> HIDE DEF n
    <3>7. n \in Nat /\ top + n + rest = H + s.padding_bottom
      BY <3>4, <3>5 DEF n
    <3>8. s.padding_top + top + n + rest = H + s.padding_top + s.padding_bottom
      BY <1>3, <2>1, <3>3, <3>6, <3>7
    <3> QED
      BY <1>3, <2>1, <3>3, <3>8 DEF n
  <2>3. CASE more < 0
    <3>1. AtLeastZero(more) = 0 /\ Smaller(Len(rows), H) = H /\ top = 0
      BY <1>1, <1>2, <1>3, <2>3 DEF AtLeastZero, Smaller
    <3> QED
      BY <1>1, <1>5, <2>1, <3>1
  <2> QED
    BY <1>2, <2>2, <2>3
<1>7. /\ Copies(box, s.padding_top + top) \in Seq(BoxRows(s, rows))
      /\ Len(Copies(box, s.padding_top + top)) = s.padding_top + top
      /\ Copies(box, rest) \in Seq(BoxRows(s, rows))
      /\ Len(Copies(box, rest)) = rest
  BY <1>6, BlankRows
<1> HIDE DEF box
<1>8. /\ ContentRows(s, rows) \in Seq(BoxRows(s, rows))
      /\ Len(ContentRows(s, rows)) = Smaller(Len(rows), H)
  BY ContentRowsTyped DEF H
<1> DEFINE over  == Copies(box, s.padding_top + top)
           kept  == ContentRows(s, rows)
           under == Copies(box, rest)
<1>0. /\ over \in Seq(BoxRows(s, rows))
      /\ kept \in Seq(BoxRows(s, rows))
      /\ under \in Seq(BoxRows(s, rows))
  BY <1>7, <1>8
<1>9. /\ Len(over) = s.padding_top + top
      /\ Len(kept) = Smaller(Len(rows), H)
      /\ Len(under) = rest
      /\ Inside(s, rows) = over \o kept \o under
  BY <1>4, <1>7, <1>8
<1> HIDE DEF over, kept, under
<1>10. /\ over \o kept \o under \in Seq(BoxRows(s, rows))
       /\ Len(over \o kept \o under) = Len(over) + Len(kept) + Len(under)
  BY <1>0, Three
<1>11. Len(Inside(s, rows)) = H + s.padding_top + s.padding_bottom
  BY <1>6, <1>9, <1>10
<1> QED
  BY <1>9, <1>10, <1>11 DEF H

\* A row gets as wide as the border and the margins beside it.
LEMMA FramedWidth ==
  ASSUME NEW s \in Styles, NEW left \in Seq(Cell), NEW right \in Seq(Cell),
         NEW row \in Seq(Cell)
  PROVE  /\ Framed(s, left, row, right) \in Seq(Cell)
         /\ (s.has_border => Len(left) = 1 /\ Len(right) = 1)
            => Len(Framed(s, left, row, right))
                 = Len(row) + Border(s) + s.margin_left + s.margin_right
<1> DEFINE l == Blank(s.margin_left)
           m == IF s.has_border THEN left \o row \o right ELSE row
           r == Blank(s.margin_right)
<1>1. s.margin_left \in Nat /\ s.margin_right \in Nat /\ s.has_border \in BOOLEAN
  BY StyleFields DEF StyleTyped
<1>2. l \in Seq(Cell) /\ Len(l) = s.margin_left
  BY <1>1, Blanks DEF AtLeastZero
<1>3. r \in Seq(Cell) /\ Len(r) = s.margin_right
  BY <1>1, Blanks DEF AtLeastZero
<1>4. /\ left \o row \o right \in Seq(Cell)
      /\ Len(left \o row \o right) = Len(left) + Len(row) + Len(right)
  BY Three
<1>5. m \in Seq(Cell)
  BY <1>4
<1>6. Framed(s, left, row, right) = l \o m \o r
  BY DEF Framed
<1>7. Border(s) = (IF s.has_border THEN 2 ELSE 0) /\ Len(row) \in Nat
  BY DEF Border
<1>8. ASSUME s.has_border => Len(left) = 1 /\ Len(right) = 1
      PROVE  Len(m) = Len(row) + Border(s)
  <2>1. CASE s.has_border
    <3>1. m = left \o row \o right
      BY <2>1
    <3>2. Len(left) = 1 /\ Len(right) = 1 /\ Border(s) = 2
      BY <1>7, <1>8, <2>1
    <3>3. Len(m) = Len(left) + Len(row) + Len(right)
      BY <1>4, <3>1
    <3> QED
      BY <1>7, <3>2, <3>3
  <2>2. CASE ~s.has_border
    BY <1>7, <2>2
  <2> QED
    BY <1>1, <2>1, <2>2
<1> HIDE DEF l, m, r
<1>9. l \o m \o r \in Seq(Cell) /\ Len(l \o m \o r) = Len(l) + Len(m) + Len(r)
  <2>1. l \in Seq(Cell) /\ m \in Seq(Cell) /\ r \in Seq(Cell)
    BY <1>2, <1>3, <1>5
  <2> QED
    BY <2>1, Three
<1>10. ASSUME s.has_border => Len(left) = 1 /\ Len(right) = 1
       PROVE  Len(l \o m \o r) = Len(row) + Border(s) + s.margin_left + s.margin_right
  BY <1>1, <1>2, <1>3, <1>7, <1>8, <1>9, <1>10
<1> QED
  BY <1>6, <1>9, <1>10

\* The rows of a rendered block: those of the margins are empty, the others
\* have the measured width when the content fits.
RenderedRows(s, rows) ==
  IF Fits(s, rows) THEN Wide(0) \cup Wide(GetWidth(s, rows)) ELSE Seq(Cell)

LEMMA FramedIsRendered ==
  ASSUME NEW s \in Styles, ~s.inline_, NEW rows, IsBlock(rows),
         NEW left \in Seq(Cell), NEW right \in Seq(Cell),
         s.has_border /\ OneColumn(s) => Len(left) = 1 /\ Len(right) = 1,
         NEW row \in BoxRows(s, rows)
  PROVE  Framed(s, left, row, right) \in RenderedRows(s, rows)
<1>1. row \in Seq(Cell)
  BY DEF BoxRows, Wide
<1>2. /\ Framed(s, left, row, right) \in Seq(Cell)
      /\ Fits(s, rows) =>
         Len(Framed(s, left, row, right))
           = Len(row) + Border(s) + s.margin_left + s.margin_right
  BY <1>1, FramedWidth DEF Fits
<1>3. CASE Fits(s, rows)
  <2>1. Len(row) = BoxWidth(s, rows)
    BY <1>3 DEF BoxRows, Wide
  <2>2. GetWidth(s, rows)
          = BoxWidth(s, rows) + Border(s) + s.margin_left + s.margin_right
    BY DEF GetWidth, BoxWidth
  <2> QED
    BY <1>2, <1>3, <2>1, <2>2 DEF RenderedRows, Wide
<1>4. CASE ~Fits(s, rows)
  BY <1>2, <1>4 DEF RenderedRows
<1> QED
  BY <1>3, <1>4

\* The border above or below.
LEMMA BorderRows ==
  ASSUME NEW s \in Styles, ~s.inline_, NEW rows, IsBlock(rows),
         NEW left \in Seq(Cell), NEW edge \in Seq(Cell), NEW right \in Seq(Cell),
         s.has_border /\ OneColumn(s) =>
           Len(left) = 1 /\ Len(edge) = 1 /\ Len(right) = 1
  PROVE  /\ BorderRow(s, rows, left, edge, right) \in Seq(RenderedRows(s, rows))
         /\ 2 * Len(BorderRow(s, rows, left, edge, right)) = Border(s)
<1> DEFINE row == Tile(edge, BoxWidth(s, rows))
<1>1. BoxWidth(s, rows) \in Nat /\ s.has_border \in BOOLEAN
  BY BoxSize, StyleFields DEF StyleTyped
<1>2. row \in Seq(Cell) /\ (Len(edge) = 1 => Len(row) = BoxWidth(s, rows))
  BY <1>1, Tiles
<1>3. BorderRow(s, rows, left, edge, right)
        = IF s.has_border THEN <<Framed(s, left, row, right)>> ELSE <<>>
  BY DEF BorderRow, BoxWidth
<1> HIDE DEF row
<1>4. CASE s.has_border
  <2>1. row \in BoxRows(s, rows)
    BY <1>2, <1>4 DEF BoxRows, Wide, Fits
  <2>2. Framed(s, left, row, right) \in RenderedRows(s, rows)
    BY <2>1, FramedIsRendered
  <2> QED
    BY <1>3, <1>4, <2>2 DEF Border
<1>5. CASE ~s.has_border
  BY <1>3, <1>5 DEF Border
<1> QED
  BY <1>1, <1>4, <1>5

\* The row above the box, and the row below it.
AboveBox(s, rows) ==
  BorderRow(s, rows, s.border.top_left, s.border.top, s.border.top_right)
BelowBox(s, rows) ==
  BorderRow(s, rows, s.border.bottom_left, s.border.bottom, s.border.bottom_right)

LEMMA BorderAround ==
  ASSUME NEW s \in Styles, ~s.inline_, NEW rows, IsBlock(rows)
  PROVE  /\ AboveBox(s, rows) \in Seq(RenderedRows(s, rows))
         /\ BelowBox(s, rows) \in Seq(RenderedRows(s, rows))
         /\ Len(AboveBox(s, rows)) + Len(BelowBox(s, rows)) = Border(s)
<1>1. /\ AboveBox(s, rows) \in Seq(RenderedRows(s, rows))
      /\ 2 * Len(AboveBox(s, rows)) = Border(s)
  <2> DEFINE left == s.border.top_left
             edge == s.border.top
             right == s.border.top_right
  <2>1. /\ left \in Seq(Cell) /\ edge \in Seq(Cell) /\ right \in Seq(Cell)
        /\ s.has_border /\ OneColumn(s) =>
             Len(left) = 1 /\ Len(edge) = 1 /\ Len(right) = 1
    BY BorderIsTyped
  <2>2. AboveBox(s, rows) = BorderRow(s, rows, left, edge, right)
    BY DEF AboveBox
  <2> HIDE DEF left, edge, right
  <2>3. /\ BorderRow(s, rows, left, edge, right) \in Seq(RenderedRows(s, rows))
        /\ 2 * Len(BorderRow(s, rows, left, edge, right)) = Border(s)
    BY <2>1, BorderRows
  <2> QED
    BY <2>2, <2>3
<1>2. /\ BelowBox(s, rows) \in Seq(RenderedRows(s, rows))
      /\ 2 * Len(BelowBox(s, rows)) = Border(s)
  <2> DEFINE left == s.border.bottom_left
             edge == s.border.bottom
             right == s.border.bottom_right
  <2>1. /\ left \in Seq(Cell) /\ edge \in Seq(Cell) /\ right \in Seq(Cell)
        /\ s.has_border /\ OneColumn(s) =>
             Len(left) = 1 /\ Len(edge) = 1 /\ Len(right) = 1
    BY BorderIsTyped
  <2>2. BelowBox(s, rows) = BorderRow(s, rows, left, edge, right)
    BY DEF BelowBox
  <2> HIDE DEF left, edge, right
  <2>3. /\ BorderRow(s, rows, left, edge, right) \in Seq(RenderedRows(s, rows))
        /\ 2 * Len(BorderRow(s, rows, left, edge, right)) = Border(s)
    BY <2>1, BorderRows
  <2> QED
    BY <2>2, <2>3
<1>3. Len(AboveBox(s, rows)) \in Nat /\ Len(BelowBox(s, rows)) \in Nat
  BY <1>1, <1>2
<1> QED
  BY <1>1, <1>2, <1>3 DEF Border

\* The rows inside the border, framed.
LEMMA FramedRows ==
  ASSUME NEW s \in Styles, ~s.inline_, NEW rows, IsBlock(rows)
  PROVE  LET inside == Inside(s, rows)
             framed == [i \in DOMAIN inside |-> Framed(s, s.border.left, inside[i], s.border.right)]
         IN  /\ framed \in Seq(RenderedRows(s, rows))
             /\ Len(framed) = Len(inside)
<1> DEFINE inside == Inside(s, rows)
           framed == [i \in DOMAIN inside |-> Framed(s, s.border.left, inside[i], s.border.right)]
<1>1. inside \in Seq(BoxRows(s, rows))
  BY InsideSize
<1>2. /\ s.border.left \in Seq(Cell) /\ s.border.right \in Seq(Cell)
      /\ s.has_border /\ OneColumn(s) =>
           Len(s.border.left) = 1 /\ Len(s.border.right) = 1
  BY BorderIsTyped
<1> HIDE DEF inside
<1>3. /\ DOMAIN inside = 1 .. Len(inside) /\ Len(inside) \in Nat
      /\ \A i \in 1 .. Len(inside) : inside[i] \in BoxRows(s, rows)
  BY <1>1
<1>4. \A i \in 1 .. Len(inside) :
        Framed(s, s.border.left, inside[i], s.border.right) \in RenderedRows(s, rows)
  BY <1>2, <1>3, FramedIsRendered
<1> QED
  BY <1>3, <1>4 DEF inside

\* The rows of a margin.
LEMMA MarginRows ==
  ASSUME NEW s \in Styles, NEW rows, NEW n \in Nat
  PROVE  /\ Copies(<<>>, n) \in Seq(RenderedRows(s, rows))
         /\ Len(Copies(<<>>, n)) = n
<1>1. <<>> \in Seq(Cell) /\ Len(<<>>) = 0
  OBVIOUS
<1>2. <<>> \in RenderedRows(s, rows)
  BY <1>1 DEF RenderedRows, Wide
<1> QED
  BY <1>2, Repeated DEF Copies, AtLeastZero

\* What the renderer puts together before it takes off the last newline.
Stacked(s, rows) ==
  LET inside == Inside(s, rows)
  IN  Copies(<<>>, s.margin_top) \o AboveBox(s, rows)
        \o [i \in DOMAIN inside |-> Framed(s, s.border.left, inside[i], s.border.right)]
        \o BelowBox(s, rows) \o Copies(<<>>, s.margin_bottom)

LEMMA StackedSize ==
  ASSUME NEW s \in Styles, ~s.inline_, NEW rows, IsBlock(rows)
  PROVE  /\ Stacked(s, rows) \in Seq(RenderedRows(s, rows))
         /\ Len(Stacked(s, rows)) = GetHeight(s, rows)
<1> DEFINE R  == RenderedRows(s, rows)
           inside == Inside(s, rows)
           mt == Copies(<<>>, s.margin_top)
           b  == AboveBox(s, rows)
           d  == BelowBox(s, rows)
           f  == [i \in DOMAIN inside |-> Framed(s, s.border.left, inside[i], s.border.right)]
           mb == Copies(<<>>, s.margin_bottom)
<1>1. StyleTyped(s)
  BY StyleFields
<1>2. s.margin_top \in Nat /\ s.margin_bottom \in Nat
  BY <1>1 DEF StyleTyped
<1>3. mt \in Seq(R) /\ mb \in Seq(R)
  BY <1>2, MarginRows
<1>4. Len(mt) = s.margin_top /\ Len(mb) = s.margin_bottom
  BY <1>2, MarginRows
<1>5. b \in Seq(R) /\ d \in Seq(R) /\ Len(b) + Len(d) = Border(s)
  BY BorderAround
<1>6. f \in Seq(R) /\ Len(f) = Len(inside)
  BY FramedRows
<1>7. Len(inside) = InnerHeight(s, rows) + s.padding_top + s.padding_bottom
  BY InsideSize
<1>8. Stacked(s, rows) = mt \o b \o f \o d \o mb
  BY DEF Stacked
<1>9. GetHeight(s, rows) = InnerHeight(s, rows) + s.padding_top + s.padding_bottom
                             + Border(s) + s.margin_top + s.margin_bottom
  BY DEF GetHeight
<1>10. InnerHeight(s, rows) \in Nat
  BY InnerSize
<1>11. s.padding_top \in Nat /\ s.padding_bottom \in Nat
  BY <1>1 DEF StyleTyped
<1> HIDE DEF R, mt, b, d, f, mb, inside
<1>12. mt \o b \o f \in Seq(R) /\ Len(mt \o b \o f) = Len(mt) + Len(b) + Len(f)
  <2>1. mt \in Seq(R) /\ b \in Seq(R) /\ f \in Seq(R)
    BY <1>3, <1>5, <1>6
  <2> QED
    BY <2>1, Three
<1>13. /\ mt \o b \o f \o d \o mb \in Seq(R)
       /\ Len(mt \o b \o f \o d \o mb) = Len(mt \o b \o f) + Len(d) + Len(mb)
  BY <1>3, <1>5, <1>12, Three
<1>14. Len(b) \in Nat /\ Len(d) \in Nat /\ Len(f) \in Nat
  BY <1>5, <1>6
<1>15. Len(mt \o b \o f \o d \o mb) = GetHeight(s, rows)
  BY SMTT(30), <1>2, <1>4, <1>5, <1>6, <1>7, <1>9, <1>10, <1>11, <1>12, <1>13, <1>14
<1> QED
  BY <1>8, <1>13, <1>15 DEF R

\* Rendering a block gives as many rows as tui_style_get_height says, for every
\* style that is not inline and every content; a height of 0 is one empty row.
THEOREM RenderHasHeight ==
  ASSUME NEW s \in Styles, ~s.inline_, NEW rows, IsBlock(rows),
         GetHeight(s, rows) > 0
  PROVE  Len(Render(s, rows)) = GetHeight(s, rows)
<1>1. Stacked(s, rows) # <<>>
  BY StackedSize
<1>2. Render(s, rows) = Stacked(s, rows)
  BY <1>1 DEF Render, Stacked, Shown, AboveBox, BelowBox
<1> QED
  BY <1>2, StackedSize

\* When the border is one column wide at every side and the content is no
\* wider than the style leaves it, every row that is not a margin is as wide
\* as tui_style_get_width says.
THEOREM RenderHasWidth ==
  ASSUME NEW s \in Styles, ~s.inline_, NEW rows, IsBlock(rows),
         OneColumn(s), GetHeight(s, rows) > 0,
         Natural(rows) <= InnerWidth(s, rows)
  PROVE  \A i \in DOMAIN Render(s, rows) :
           Len(Render(s, rows)[i]) \in {0, GetWidth(s, rows)}
<1>1. Stacked(s, rows) # <<>>
  BY StackedSize
<1>2. Render(s, rows) = Stacked(s, rows)
  BY <1>1 DEF Render, Stacked, Shown, AboveBox, BelowBox
<1>3. Fits(s, rows)
  <2>1. /\ Natural(rows) \in Nat /\ InnerWidth(s, rows) \in Nat
        /\ \A i \in DOMAIN rows : Len(rows[i]) <= Natural(rows)
    BY NaturalWidth, InnerSize
  <2>2. \A i \in DOMAIN rows : Len(rows[i]) \in Nat
    BY DEF IsBlock
  <2> QED
    BY <2>1, <2>2 DEF Fits
<1>4. Render(s, rows) \in Seq(Wide(0) \cup Wide(GetWidth(s, rows)))
  BY <1>2, <1>3, StackedSize DEF RenderedRows
<1> QED
  BY <1>4 DEF Wide

----------------------------------------------------------------------------
(* Sequences of sequences                                                  *)

\* Among the rows of a block there is a widest one.
LEMMA WidestExists ==
  ASSUME NEW S, NEW rows \in Seq(Seq(S)), rows # <<>>
  PROVE  \E i \in DOMAIN rows : \A j \in DOMAIN rows : Len(rows[j]) <= Len(rows[i])
<1> DEFINE n == Len(rows)
           Widest(i, m) == \A j \in 1 .. m : Len(rows[j]) <= Len(rows[i])
           R == {m \in 0 .. n : m > 0 => \E i \in 1 .. m : Widest(i, m)}
<1>1. n \in Nat /\ n > 0 /\ DOMAIN rows = 1 .. n
  BY EmptySeq, LenProperties
<1>2. \A i \in 1 .. n : Len(rows[i]) \in Nat
  OBVIOUS
<1> HIDE DEF n
<1>3. 0 \in R
  BY <1>1
<1>4. ASSUME NEW m \in 0 .. n - 1, m \in R PROVE m + 1 \in R
  <2>1. m + 1 \in 0 .. n /\ m + 1 \in 1 .. n
    BY <1>1
  <2>2. CASE m = 0
    <3>1. \A j \in 1 .. m + 1 : j = m + 1
      BY <2>2
    <3>2. Widest(m + 1, m + 1) /\ m + 1 \in 1 .. m + 1
      BY <1>2, <2>1, <2>2, <3>1
    <3> QED
      BY <2>1, <3>2
  <2>3. CASE m > 0
    <3>1. PICK i \in 1 .. m : Widest(i, m)
      BY <1>4, <2>3
    <3>2. \A j \in 1 .. m + 1 : j \in 1 .. m \/ j = m + 1
      OBVIOUS
    <3>3. i \in 1 .. n /\ \A j \in 1 .. m + 1 : j \in 1 .. n
      BY <1>1
    <3>4. CASE Len(rows[m + 1]) <= Len(rows[i])
      <4>0. ASSUME NEW j \in 1 .. m + 1 PROVE Len(rows[j]) <= Len(rows[i])
        BY <3>1, <3>2, <3>4
      <4>1. Widest(i, m + 1) /\ i \in 1 .. m + 1
        BY <4>0
      <4> QED
        BY <2>1, <4>1
    <3>5. CASE Len(rows[i]) <= Len(rows[m + 1])
      <4>1. \A j \in 1 .. m : Len(rows[j]) <= Len(rows[m + 1])
        BY SMTT(30), <1>2, <2>1, <3>1, <3>3, <3>5
      <4>2. Len(rows[m + 1]) <= Len(rows[m + 1])
        BY <1>2, <2>1
      <4>0. ASSUME NEW j \in 1 .. m + 1 PROVE Len(rows[j]) <= Len(rows[m + 1])
        BY <3>2, <4>1, <4>2
      <4>3. Widest(m + 1, m + 1) /\ m + 1 \in 1 .. m + 1
        BY <4>0
      <4> QED
        BY <2>1, <4>3
    <3>6. Len(rows[i]) \in Nat /\ Len(rows[m + 1]) \in Nat
      BY <1>2, <2>1, <3>3
    <3> QED
      BY <3>4, <3>5, <3>6
  <2> QED
    BY <2>2, <2>3
<1> HIDE DEF R
<1>5. \A m \in 0 .. n : m \in R
  BY <1>1, <1>3, <1>4, InductiveUpTo
<1>6. n \in R
  BY <1>1, <1>5
<1> QED
  BY <1>1, <1>6 DEF R

\* The sum of some sizes, one after the other.
LEMMA TotalSteps ==
  ASSUME NEW sizes \in Seq(Nat)
  PROVE  \E f \in [0 .. Len(sizes) -> Nat] :
           /\ f[0] = 0
           /\ \A k \in 1 .. Len(sizes) : f[k] = f[k - 1] + sizes[k]
           /\ Total(sizes) = f[Len(sizes)]
<1> DEFINE n == Len(sizes)
           F == [k \in 1 .. n |-> [x \in Nat |-> x + sizes[k]]]
           sum == CHOOSE f : f = [k \in 0 .. n |-> IF k = 0 THEN 0
                                                   ELSE f[k - 1] + sizes[k]]
<1>1. n \in Nat
  OBVIOUS
<1>2. F \in [1 .. n -> [Nat -> Nat]]
  OBVIOUS
<1>3. Total(sizes) = sum[n]
  BY DEF Total
<1> HIDE DEF F
<1>4. PICK f \in [0 .. n -> Nat] : f[0] = 0 /\ \A k \in 1 .. n : f[k] = F[k][f[k - 1]]
  <2>1. 0 \in Nat
    OBVIOUS
  <2> HIDE DEF n
  <2>2. \E f : Recursion(f, n, Nat, 0, F)
    BY <1>1, <1>2, <2>1, RecursionUpTo
  <2> QED
    BY <2>2 DEF Recursion
<1>5. \A k \in 1 .. n : k \in 0 .. n /\ k - 1 \in 0 .. n /\ k # 0
  BY <1>1
<1>6. \A k \in 1 .. n : f[k] = f[k - 1] + sizes[k]
  BY <1>4, <1>5 DEF F
<1>7. f = [k \in 0 .. n |-> IF k = 0 THEN 0 ELSE f[k - 1] + sizes[k]]
  <2>1. \A k \in 0 .. n : f[k] = IF k = 0 THEN 0 ELSE f[k - 1] + sizes[k]
    BY <1>1, <1>4, <1>6
  <2> QED
    BY <1>4, <2>1
<1>8. sum = [k \in 0 .. n |-> IF k = 0 THEN 0 ELSE sum[k - 1] + sizes[k]]
  BY <1>7
<1> HIDE DEF sum
<1>9. \A k \in 0 .. n : sum[k] = f[k]
  <2> DEFINE R == {k \in 0 .. n : sum[k] = f[k]}
  <2>1. 0 \in R
    BY <1>1, <1>4, <1>8
  <2>2. ASSUME NEW k \in 0 .. n - 1, k \in R PROVE k + 1 \in R
    <3>1. k + 1 \in 1 .. n /\ k + 1 \in 0 .. n /\ (k + 1) - 1 = k /\ k + 1 # 0
      BY <1>1
    <3>2. sum[k + 1] = sum[k] + sizes[k + 1]
      BY <1>8, <3>1
    <3>3. f[k + 1] = f[k] + sizes[k + 1]
      BY <1>6, <3>1
    <3> QED
      BY <2>2, <3>1, <3>2, <3>3
  <2> HIDE DEF R
  <2>3. \A k \in 0 .. n : k \in R
    BY <1>1, <2>1, <2>2, InductiveUpTo
  <2> QED
    BY <2>3 DEF R
<1>10. Total(sizes) = f[n]
  BY <1>1, <1>3, <1>9
<1> QED
  BY <1>4, <1>6, <1>10

\* FlattenSeq, one sequence after the other.
LEMMA FlattenSteps ==
  ASSUME NEW S, NEW seqs \in Seq(Seq(S))
  PROVE  \E f \in [0 .. Len(seqs) -> Seq(S)] :
           /\ f[0] = <<>>
           /\ \A k \in 1 .. Len(seqs) : f[k] = f[k - 1] \o seqs[k]
           /\ FlattenSeq(seqs) = f[Len(seqs)]
<1> DEFINE n == Len(seqs)
           F == [k \in 1 .. n |-> [x \in Seq(S) |-> x \o seqs[k]]]
           flat == CHOOSE f : f = [k \in 1 .. n |-> IF k = 1 THEN seqs[k]
                                                    ELSE f[k - 1] \o seqs[k]]
<1>1. n \in Nat
  OBVIOUS
<1>2. F \in [1 .. n -> [Seq(S) -> Seq(S)]]
  <2>1. \A k \in 1 .. n : \A x \in Seq(S) : x \o seqs[k] \in Seq(S)
    BY ConcatProperties
  <2> QED
    BY <2>1
<1>3. FlattenSeq(seqs) = IF n = 0 THEN seqs ELSE flat[n]
  BY DEF FlattenSeq
<1>4. \A k \in 1 .. n : seqs[k] \in Seq(S)
  OBVIOUS
<1> HIDE DEF F
<1>5. PICK f \in [0 .. n -> Seq(S)] :
        f[0] = <<>> /\ \A k \in 1 .. n : f[k] = F[k][f[k - 1]]
  <2>1. <<>> \in Seq(S)
    OBVIOUS
  <2> DEFINE T == Seq(S)
  <2>2. F \in [1 .. n -> [T -> T]] /\ <<>> \in T
    BY <1>2, <2>1
  <2> HIDE DEF n, T
  <2>3. \E f : Recursion(f, n, T, <<>>, F)
    BY <1>1, <2>2, RecursionUpTo
  <2> QED
    BY <2>3 DEF Recursion, T
<1>6. \A k \in 1 .. n : k \in 0 .. n /\ k - 1 \in 0 .. n /\ k # 0
  BY <1>1
<1>7. \A k \in 1 .. n : f[k] = f[k - 1] \o seqs[k]
  BY <1>5, <1>6 DEF F
<1>8. CASE n = 0
  <2>1. seqs = <<>>
    BY <1>8, EmptySeq
  <2> QED
    BY <1>3, <1>5, <1>7, <1>8, <2>1
<1>9. CASE n > 0
  <2>1. f[1] = seqs[1]
    <3>1. 1 \in 1 .. n /\ 1 - 1 = 0
      BY <1>1, <1>9
    <3>2. f[1] = <<>> \o seqs[1] /\ seqs[1] \in Seq(S)
      BY <1>4, <1>5, <1>7, <3>1
    <3> QED
      BY <3>2, ConcatEmptySeq
  <2> DEFINE g == [k \in 1 .. n |-> f[k]]
  <2>2. g = [k \in 1 .. n |-> IF k = 1 THEN seqs[k] ELSE g[k - 1] \o seqs[k]]
    <3>1. \A k \in 1 .. n : k # 1 => k - 1 \in 1 .. n
      BY <1>1
    <3>2. \A k \in 1 .. n : g[k] = IF k = 1 THEN seqs[k] ELSE g[k - 1] \o seqs[k]
      BY <1>7, <2>1, <3>1
    <3> QED
      BY <3>2
  <2>3. flat = [k \in 1 .. n |-> IF k = 1 THEN seqs[k] ELSE flat[k - 1] \o seqs[k]]
    BY <2>2
  <2> HIDE DEF flat, g
  <2>4. \A k \in 0 .. n : k > 0 => flat[k] = f[k]
    <3> DEFINE R == {k \in 0 .. n : k > 0 => flat[k] = f[k]}
    <3>1. 0 \in R
      BY <1>1
    <3>2. ASSUME NEW k \in 0 .. n - 1, k \in R PROVE k + 1 \in R
      <4>1. k + 1 \in 1 .. n /\ k + 1 \in 0 .. n /\ (k + 1) - 1 = k
        BY <1>1
      <4>2. CASE k = 0
        BY <2>1, <2>3, <4>1, <4>2
      <4>3. CASE k > 0
        <5>0. k + 1 # 1
          BY <4>3
        <5>1. flat[k + 1] = flat[k] \o seqs[k + 1]
          BY <2>3, <4>1, <5>0
        <5>2. f[k + 1] = f[k] \o seqs[k + 1]
          BY <1>7, <4>1
        <5>3. flat[k] = f[k]
          BY <3>2, <4>3
        <5> QED
          BY <4>1, <5>1, <5>2, <5>3
      <4> QED
        BY <4>2, <4>3
    <3> HIDE DEF R
    <3>3. \A k \in 0 .. n : k \in R
      BY <1>1, <3>1, <3>2, InductiveUpTo
    <3> QED
      BY <3>3 DEF R
  <2>5. FlattenSeq(seqs) = f[n]
    BY <1>1, <1>3, <1>9, <2>4
  <2> QED
    BY <1>5, <1>7, <2>5
<1>10. n = 0 \/ n > 0
  BY <1>1
<1> QED
  BY <1>8, <1>9, <1>10

\* Steps over the same sizes give the same sums.
Sums(f, n, sizes) ==
  f[0] = 0 /\ \A k \in 1 .. n : f[k] = f[k - 1] + sizes[k]

LEMMA SameSums ==
  ASSUME NEW n \in Nat, NEW sizes, NEW f, NEW g, Sums(f, n, sizes), Sums(g, n, sizes)
  PROVE  \A k \in 0 .. n : f[k] = g[k]
<1> DEFINE R == {k \in 0 .. n : f[k] = g[k]}
<1> USE DEF Sums
<1>1. 0 \in R
  OBVIOUS
<1>2. ASSUME NEW k \in 0 .. n - 1, k \in R PROVE k + 1 \in R
  <2>1. k + 1 \in 1 .. n /\ k + 1 \in 0 .. n /\ (k + 1) - 1 = k
    OBVIOUS
  <2> QED
    BY <1>2, <2>1
<1> HIDE DEF R
<1>3. \A k \in 0 .. n : k \in R
  BY <1>1, <1>2, InductiveUpTo
<1> QED
  BY <1>3 DEF R

\* The sums on the way to a total are the totals of the first sizes.
LEMMA TotalOfFirst ==
  ASSUME NEW sizes \in Seq(Nat), NEW m \in 0 .. Len(sizes), NEW g,
         g[0] = 0, \A k \in 1 .. Len(sizes) : g[k] = g[k - 1] + sizes[k]
  PROVE  Total([j \in 1 .. m |-> sizes[j]]) = g[m]
<1> DEFINE first == [j \in 1 .. m |-> sizes[j]]
<1>1. m \in Nat /\ \A j \in 1 .. m : j \in 1 .. Len(sizes) /\ sizes[j] \in Nat
  OBVIOUS
<1>2. first \in Seq(Nat) /\ Len(first) = m /\ \A j \in 1 .. m : first[j] = sizes[j]
  BY <1>1
<1> HIDE DEF first
<1>3. PICK f \in [0 .. m -> Nat] : /\ f[0] = 0
                                   /\ \A k \in 1 .. m : f[k] = f[k - 1] + first[k]
                                   /\ Total(first) = f[m]
  BY <1>2, TotalSteps
<1>4. \A k \in 1 .. m : f[k] = f[k - 1] + sizes[k] /\ g[k] = g[k - 1] + sizes[k]
  BY <1>1, <1>2, <1>3
<1>5. \A k \in 0 .. m : f[k] = g[k]
  <2>1. Sums(f, m, sizes) /\ Sums(g, m, sizes)
    BY <1>3, <1>4 DEF Sums
  <2> QED
    BY <1>1, <2>1, SameSums
<1>6. f[m] = g[m]
  BY <1>1, <1>5
<1> QED
  BY <1>3, <1>6 DEF first

\* Sequences of these lengths.
HaveSizes(S, seqs, sizes) ==
  /\ seqs \in Seq(Seq(S)) /\ sizes \in Seq(Nat) /\ Len(sizes) = Len(seqs)
  /\ \A k \in 1 .. Len(seqs) : Len(seqs[k]) = sizes[k]

\* FlattenSeq and the sum of the lengths, step by step.
FlatAndSum(f, g, S, seqs, sizes) ==
  /\ f \in [0 .. Len(seqs) -> Seq(S)] /\ g \in [0 .. Len(seqs) -> Nat]
  /\ f[0] = <<>> /\ g[0] = 0
  /\ \A k \in 1 .. Len(seqs) : /\ f[k] = f[k - 1] \o seqs[k]
                               /\ g[k] = g[k - 1] + sizes[k]
  /\ \A k \in 0 .. Len(seqs) : Len(f[k]) = g[k]
  /\ FlattenSeq(seqs) = f[Len(seqs)] /\ Total(sizes) = g[Len(seqs)]

LEMMA FlattenLengths ==
  ASSUME NEW S, NEW seqs, NEW sizes, HaveSizes(S, seqs, sizes)
  PROVE  \E f, g : FlatAndSum(f, g, S, seqs, sizes)
<1> DEFINE n == Len(seqs)
<1>1. n \in Nat /\ seqs \in Seq(Seq(S)) /\ sizes \in Seq(Nat) /\ Len(sizes) = n
  BY DEF HaveSizes
<1>2. \A k \in 1 .. n : seqs[k] \in Seq(S) /\ Len(seqs[k]) = sizes[k] /\ sizes[k] \in Nat
  BY <1>1 DEF HaveSizes
<1>3. PICK f \in [0 .. n -> Seq(S)] : /\ f[0] = <<>>
                                      /\ \A k \in 1 .. n : f[k] = f[k - 1] \o seqs[k]
                                      /\ FlattenSeq(seqs) = f[n]
  BY <1>1, FlattenSteps
<1>4. PICK g \in [0 .. n -> Nat] : /\ g[0] = 0
                                   /\ \A k \in 1 .. n : g[k] = g[k - 1] + sizes[k]
                                   /\ Total(sizes) = g[n]
  BY <1>1, TotalSteps
<1> HIDE DEF n
<1>5. \A k \in 0 .. n : Len(f[k]) = g[k]
  <2> DEFINE R == {k \in 0 .. n : Len(f[k]) = g[k]}
  <2>1. 0 \in R
    <3>1. Len(<<>>) = 0
      OBVIOUS
    <3> QED
      BY <1>1, <1>3, <1>4, <3>1
  <2>2. ASSUME NEW k \in 0 .. n - 1, k \in R PROVE k + 1 \in R
    <3>1. k + 1 \in 1 .. n /\ k + 1 \in 0 .. n /\ (k + 1) - 1 = k /\ k \in 0 .. n
      BY <1>1
    <3>2. f[k + 1] = f[k] \o seqs[k + 1] /\ g[k + 1] = g[k] + sizes[k + 1]
      BY <1>3, <1>4, <3>1
    <3>3. f[k] \in Seq(S) /\ seqs[k + 1] \in Seq(S) /\ Len(seqs[k + 1]) = sizes[k + 1]
      BY <1>2, <1>3, <3>1
    <3>4. Len(f[k] \o seqs[k + 1]) = Len(f[k]) + Len(seqs[k + 1])
      BY <3>3, ConcatProperties
    <3> QED
      BY <2>2, <3>1, <3>2, <3>3, <3>4
  <2> HIDE DEF R
  <2>3. \A k \in 0 .. n : k \in R
    BY <1>1, <2>1, <2>2, InductiveUpTo
  <2> QED
    BY <2>3 DEF R
<1>6. FlatAndSum(f, g, S, seqs, sizes)
  BY <1>3, <1>4, <1>5 DEF FlatAndSum, n
<1> QED
  BY <1>6

\* The width of sequences after one another.
LEMMA FlattenWidth ==
  ASSUME NEW S, NEW seqs, NEW sizes, HaveSizes(S, seqs, sizes)
  PROVE  FlattenSeq(seqs) \in Seq(S) /\ Len(FlattenSeq(seqs)) = Total(sizes)
<1>1. PICK f, g : FlatAndSum(f, g, S, seqs, sizes)
  BY FlattenLengths
<1>2. Len(seqs) \in 0 .. Len(seqs)
  BY DEF HaveSizes
<1> QED
  BY <1>1, <1>2 DEF FlatAndSum

\* Behind so many others, in a longer sequence.
FoundAt(S, big, piece, at) ==
  \E a, c \in Seq(S) : big = a \o piece \o c /\ Len(a) = at

\* Each of them is found again, behind those before it.
LEMMA FlattenPiece ==
  ASSUME NEW S, NEW seqs, NEW sizes, HaveSizes(S, seqs, sizes),
         NEW k \in 1 .. Len(seqs)
  PROVE  FoundAt(S, FlattenSeq(seqs), seqs[k], Total([j \in 1 .. k - 1 |-> sizes[j]]))
<1> DEFINE n == Len(seqs)
<1>1. PICK f, g : FlatAndSum(f, g, S, seqs, sizes)
  BY FlattenLengths
<1>2. /\ n \in Nat /\ seqs \in Seq(Seq(S)) /\ sizes \in Seq(Nat) /\ Len(sizes) = n
      /\ k \in Nat
  BY DEF HaveSizes
<1>3. /\ f \in [0 .. n -> Seq(S)] /\ g[0] = 0 /\ FlattenSeq(seqs) = f[n]
      /\ \A m \in 1 .. n : f[m] = f[m - 1] \o seqs[m] /\ g[m] = g[m - 1] + sizes[m]
      /\ \A m \in 0 .. n : Len(f[m]) = g[m]
  BY <1>1 DEF FlatAndSum
<1>4. \A m \in 1 .. n : seqs[m] \in Seq(S)
  BY <1>2
<1>5. k \in 1 .. n /\ k - 1 \in 0 .. n /\ k \in 0 .. n /\ n \in 0 .. n
  BY <1>2
<1> HIDE DEF n
<1> DEFINE a == f[k - 1]
           Found(m) == \E c \in Seq(S) : f[m] = a \o seqs[k] \o c
           R == {m \in 0 .. n : m >= k => Found(m)}
<1>6. a \in Seq(S) /\ seqs[k] \in Seq(S) /\ a \o seqs[k] \in Seq(S)
  BY <1>3, <1>4, <1>5, ConcatProperties
<1>7. 0 \in R
  <2>1. 0 \in 0 .. n /\ ~(0 >= k)
    BY <1>2, <1>5
  <2> HIDE DEF Found
  <2> QED
    BY <2>1
<1>8. ASSUME NEW m \in 0 .. n - 1, m \in R PROVE m + 1 \in R
  <2>1. m + 1 \in 1 .. n /\ m + 1 \in 0 .. n /\ (m + 1) - 1 = m
    BY <1>2
  <2>2. f[m + 1] = f[m] \o seqs[m + 1]
    BY <1>3, <2>1
  <2>3. CASE m + 1 = k
    <3>1. m = k - 1
      BY <2>3
    <3>2. f[m + 1] = a \o seqs[k]
      BY <2>2, <2>3, <3>1
    <3>3. <<>> \in Seq(S) /\ a \o seqs[k] \o <<>> = a \o seqs[k]
      BY <1>6, ConcatEmptySeq, EmptySeq
    <3>4. Found(m + 1)
      BY <3>2, <3>3
    <3> QED
      BY <2>1, <3>4
  <2>4. CASE m + 1 > k
    <3>1. m >= k
      BY <1>2, <2>4
    <3>2. PICK c \in Seq(S) : f[m] = a \o seqs[k] \o c
      BY <1>8, <3>1
    <3>3. seqs[m + 1] \in Seq(S)
      BY <1>4, <2>1
    <3>4. c \o seqs[m + 1] \in Seq(S)
      BY <3>3, ConcatProperties
    <3>5. (a \o seqs[k] \o c) \o seqs[m + 1] = a \o seqs[k] \o (c \o seqs[m + 1])
      <4> DEFINE ab == a \o seqs[k]
                 d  == seqs[m + 1]
      <4>1. ab \in Seq(S) /\ d \in Seq(S) /\ c \in Seq(S)
        BY <1>6, <3>2, <3>3
      <4> HIDE DEF ab, d
      <4>2. (ab \o c) \o d = ab \o (c \o d)
        BY SMTT(30), <4>1, ConcatAssociative
      <4> QED
        BY <4>2 DEF ab, d
    <3>6. Found(m + 1)
      BY <2>2, <3>2, <3>4, <3>5
    <3> QED
      BY <2>1, <3>6
  <2>5. CASE m + 1 < k
    <3>1. ~(m + 1 >= k)
      BY <1>2, <2>5
    <3> HIDE DEF Found
    <3> QED
      BY <2>1, <3>1
  <2>6. m \in Nat /\ (m + 1 = k \/ m + 1 > k \/ m + 1 < k)
    BY <1>2
  <2> HIDE DEF R
  <2> QED
    BY <2>3, <2>4, <2>5, <2>6
<1> HIDE DEF R
<1>9. \A m \in 0 .. n : m \in R
  BY <1>2, <1>7, <1>8, InductiveUpTo
<1>10. Found(n)
  <2>1. n \in R /\ n >= k
    BY <1>2, <1>5, <1>9
  <2> QED
    BY <2>1 DEF R
<1>11. Len(a) = Total([j \in 1 .. k - 1 |-> sizes[j]])
  <2>1. \A m \in 1 .. Len(sizes) : g[m] = g[m - 1] + sizes[m]
    BY <1>2, <1>3
  <2>2. k - 1 \in 0 .. Len(sizes)
    BY <1>2, <1>5
  <2>3. Total([j \in 1 .. k - 1 |-> sizes[j]]) = g[k - 1]
    BY <1>2, <1>3, <2>1, <2>2, TotalOfFirst
  <2> QED
    BY <1>3, <1>5, <2>3
<1> QED
  BY <1>3, <1>6, <1>10, <1>11 DEF FoundAt

----------------------------------------------------------------------------
(* What a row or a block holds                                             *)

Within(S, big, row) == \E a, c \in Seq(S) : big = a \o row \o c
RowHas(big, row) == Within(Cell, big, row)

LEMMA ContainsItself ==
  ASSUME NEW row \in Seq(Cell) PROVE RowHas(row, row)
<1>1. <<>> \in Seq(Cell)
  OBVIOUS
<1>2. <<>> \o row \o <<>> = row
  BY ConcatEmptySeq
<1> QED
  BY <1>1, <1>2 DEF RowHas, Within

\* Concatenation in the one order or the other.
LEMMA Grouped ==
  \A S : \A p, q, r \in Seq(S) : p \o (q \o r) = (p \o q) \o r
<1>1. ASSUME NEW S, NEW p \in Seq(S), NEW q \in Seq(S), NEW r \in Seq(S)
      PROVE  p \o (q \o r) = (p \o q) \o r
  BY SMTT(30), ConcatAssociative
<1> QED
  BY <1>1

LEMMA Closed == \A S : \A p, q \in Seq(S) : p \o q \in Seq(S)
BY ConcatProperties

LEMMA WithinWithin ==
  ASSUME NEW S, NEW big, NEW mid, NEW row \in Seq(S),
         Within(S, big, mid), Within(S, mid, row)
  PROVE  Within(S, big, row)
<1>1. PICK a \in Seq(S), c \in Seq(S) : big = a \o mid \o c
  BY DEF Within
<1>2. PICK b \in Seq(S), d \in Seq(S) : mid = b \o row \o d
  BY DEF Within
<1> DEFINE x == b \o row
           y == a \o b
           z == y \o row
<1>3. x \in Seq(S) /\ y \in Seq(S) /\ z \in Seq(S) /\ d \o c \in Seq(S)
  BY Closed
<1>4. a \o x = z
  BY Grouped, SMTT(30)
<1> HIDE DEF x, z
<1>5. a \o (x \o d) = (a \o x) \o d
  BY <1>3, Grouped, SMTT(30)
<1>6. z \o (d \o c) = (z \o d) \o c
  BY <1>3, Grouped, SMTT(30)
<1>7. big = z \o (d \o c)
  BY <1>1, <1>2, <1>4, <1>5, <1>6 DEF x
<1> QED
  BY <1>3, <1>7 DEF Within, z

LEMMA ContainsWithin ==
  ASSUME NEW big, NEW mid, NEW row \in Seq(Cell),
         RowHas(big, mid), RowHas(mid, row)
  PROVE  RowHas(big, row)
BY WithinWithin DEF RowHas

\* What is contained is found at some column.
LEMMA ContainedIsFound ==
  ASSUME NEW big, NEW row \in Seq(Cell), RowHas(big, row)
  PROVE  /\ big \in Seq(Cell)
         /\ \E c \in 0 .. Len(big) : /\ c + Len(row) <= Len(big)
                                     /\ SubSeq(big, c + 1, c + Len(row)) = row
<1>1. PICK a \in Seq(Cell), d \in Seq(Cell) : big = a \o row \o d
  BY DEF RowHas, Within
<1>2. big \in Seq(Cell) /\ Len(big) = Len(a) + Len(row) + Len(d)
  BY <1>1, Three
<1>3. SubSeq(big, Len(a) + 1, Len(a) + Len(row)) = row
  BY <1>1, Middle
<1>4. Len(a) \in Nat /\ Len(row) \in Nat /\ Len(d) \in Nat
  OBVIOUS
<1>5. Len(a) \in 0 .. Len(big) /\ Len(a) + Len(row) <= Len(big)
  BY <1>2, <1>4
<1> QED
  BY <1>2, <1>3, <1>5

\* Padding keeps the row.
LEMMA PaddedContains ==
  ASSUME NEW row \in Seq(Cell), NEW width \in Nat, NEW align \in Aligns
  PROVE  RowHas(Padded(row, width, align), row)
<1> DEFINE extra == width - Len(row)
           left  == Lead(extra, align)
<1>1. extra \in Int
  OBVIOUS
<1>2. left \in Nat /\ extra - left \in Int
  BY <1>1, LeadInRoom
<1>3. Blank(left) \in Seq(Cell) /\ Blank(extra - left) \in Seq(Cell)
  BY <1>2, Blanks
<1>4. Padded(row, width, align) = Blank(left) \o row \o Blank(extra - left)
  BY DEF Padded
<1> QED
  BY <1>3, <1>4 DEF RowHas, Within

\* The rows of one block from some row of another one on.
RowsFrom(big, rows, top) ==
  \A i \in DOMAIN rows : top + i \in DOMAIN big /\ RowHas(big[top + i], rows[i])

\* Stacked between others, the rows of a block keep their order.
LEMMA RowsBetween ==
  ASSUME NEW a \in Seq(Seq(Cell)), NEW b \in Seq(Seq(Cell)), NEW c \in Seq(Seq(Cell)),
         NEW rows \in Seq(Seq(Cell)), NEW top \in Nat, RowsFrom(b, rows, top)
  PROVE  RowsFrom(a \o b \o c, rows, Len(a) + top)
<1> DEFINE big == a \o b \o c
<1>1. ASSUME NEW i \in DOMAIN rows
      PROVE  Len(a) + top + i \in DOMAIN big /\ RowHas(big[Len(a) + top + i], rows[i])
  <2>1. top + i \in 1 .. Len(b) /\ RowHas(b[top + i], rows[i]) /\ i \in Nat
    BY SMTT(30) DEF RowsFrom
  <2> DEFINE T == Seq(Cell)
             j == top + i
  <2>4. a \in Seq(T) /\ b \in Seq(T) /\ c \in Seq(T) /\ j \in 1 .. Len(b)
    BY <2>1
  <2> HIDE DEF T, j
  <2>5. Len(a) + j \in DOMAIN (a \o b \o c) /\ (a \o b \o c)[Len(a) + j] = b[j]
    BY <2>4, MiddleElement
  <2>2. /\ Len(a) + (top + i) \in DOMAIN big
        /\ big[Len(a) + (top + i)] = b[top + i]
    BY <2>5 DEF j
  <2>3. Len(a) + top + i = Len(a) + (top + i)
    BY <2>1
  <2> QED
    BY <2>1, <2>2, <2>3
<1> HIDE DEF big
<1> QED
  BY <1>1 DEF RowsFrom, big

\* A block before another one: its rows stay where they are.
LEMMA RowsBefore ==
  ASSUME NEW b \in Seq(Seq(Cell)), NEW c \in Seq(Seq(Cell)),
         NEW rows \in Seq(Seq(Cell)), NEW top \in Nat, RowsFrom(b, rows, top)
  PROVE  RowsFrom(b \o c, rows, top)
<1>1. <<>> \in Seq(Seq(Cell)) /\ Len(<<>>) = 0 /\ <<>> \o b = b
  BY ConcatEmptySeq
<1>2. RowsFrom(<<>> \o b \o c, rows, Len(<<>>) + top)
  BY <1>1, RowsBetween
<1> QED
  BY <1>1, <1>2

\* Every block has a widest row, and is therefore measured.
LEMMA BlocksAre ==
  ASSUME NEW rows \in Seq(Seq(Cell)), rows # <<>> PROVE IsBlock(rows)
BY WidestExists DEF IsBlock

\* A frame keeps its row.
LEMMA FramedContains ==
  ASSUME NEW s \in Styles, NEW left \in Seq(Cell), NEW right \in Seq(Cell),
         NEW row \in Seq(Cell)
  PROVE  RowHas(Framed(s, left, row, right), row)
<1> DEFINE l == Blank(s.margin_left)
           m == IF s.has_border THEN left \o row \o right ELSE row
           r == Blank(s.margin_right)
<1>1. s.margin_left \in Nat /\ s.margin_right \in Nat /\ s.has_border \in BOOLEAN
  BY StyleFields DEF StyleTyped
<1>2. l \in Seq(Cell) /\ r \in Seq(Cell)
  <2>1. s.margin_left \in Int /\ s.margin_right \in Int
    BY <1>1
  <2>2. l \in Seq(Cell) /\ r \in Seq(Cell)
    BY <2>1, Blanks
  <2> QED
    BY <2>2
<1>3. RowHas(m, row)
  <2>1. CASE s.has_border
    BY <1>2, <2>1 DEF RowHas, Within
  <2>2. CASE ~s.has_border
    BY <2>2, ContainsItself
  <2> QED
    BY <1>1, <2>1, <2>2
<1>4. Framed(s, left, row, right) = l \o m \o r
  BY DEF Framed
<1> HIDE DEF l, m, r
<1>5. RowHas(Framed(s, left, row, right), m)
  BY <1>2, <1>4 DEF RowHas, Within
<1> QED
  BY <1>3, <1>5, ContainsWithin

\* The row of a content that is not cut off, between its paddings.
LEMMA ContentContains ==
  ASSUME NEW s \in Styles, NEW rows, IsBlock(rows),
         Len(rows) <= InnerHeight(s, rows)
  PROVE  RowsFrom(ContentRows(s, rows), rows, 0)
<1> DEFINE row(i) == Blank(s.padding_left)
                       \o Padded(rows[i], InnerWidth(s, rows), s.align_h)
                       \o Blank(s.padding_right)
<1>1. StyleTyped(s) /\ InnerWidth(s, rows) \in Nat /\ InnerHeight(s, rows) \in Nat
  BY StyleFields, InnerSize
<1>2. Len(rows) \in Nat /\ DOMAIN rows = 1 .. Len(rows)
  BY DEF IsBlock
<1>3. Smaller(Len(rows), InnerHeight(s, rows)) = Len(rows)
  BY <1>1, <1>2 DEF Smaller
<1>4. ASSUME NEW i \in DOMAIN rows PROVE RowHas(row(i), rows[i])
  <2> DEFINE middle == Padded(rows[i], InnerWidth(s, rows), s.align_h)
  <2>1. rows[i] \in Seq(Cell)
    BY DEF IsBlock
  <2>2. RowHas(middle, rows[i])
    BY <1>1, <2>1, PaddedContains DEF StyleTyped
  <2>3. Blank(s.padding_left) \in Seq(Cell) /\ Blank(s.padding_right) \in Seq(Cell)
    <3>1. s.padding_left \in Int /\ s.padding_right \in Int
      BY <1>1 DEF StyleTyped
    <3> QED
      BY <3>1, Blanks
  <2> HIDE DEF middle
  <2>4. RowHas(row(i), middle)
    BY <2>3 DEF RowHas, Within, middle
  <2> HIDE DEF row
  <2> QED
    BY <2>1, <2>2, <2>4, ContainsWithin
<1>5. ContentRows(s, rows) = [i \in 1 .. Len(rows) |-> row(i)]
  BY <1>3 DEF ContentRows
<1> HIDE DEF row
<1>6. \A i \in DOMAIN rows :
        /\ i \in DOMAIN ContentRows(s, rows)
        /\ ContentRows(s, rows)[i] = row(i)
        /\ 0 + i = i
  BY <1>2, <1>5
<1> QED
  BY <1>4, <1>6 DEF RowsFrom

\* Inside the border the content starts somewhere below the padding.
LEMMA InsideContains ==
  ASSUME NEW s \in Styles, NEW rows, IsBlock(rows),
         Len(rows) <= InnerHeight(s, rows)
  PROVE  \E top \in Nat : RowsFrom(Inside(s, rows), rows, top)
<1> DEFINE box   == Blank(BoxWidth(s, rows))
           more  == InnerHeight(s, rows) - Len(rows)
           lead  == Lead(more, s.align_v)
           over  == Copies(box, s.padding_top + lead)
           kept  == ContentRows(s, rows)
           under == Copies(box, AtLeastZero(more) - lead + s.padding_bottom)
<1>1. StyleTyped(s) /\ BoxWidth(s, rows) \in Nat /\ InnerHeight(s, rows) \in Nat
      /\ Len(rows) \in Nat /\ rows \in Seq(Seq(Cell))
  BY StyleFields, InnerSize, BoxSize DEF IsBlock
<1>2. box \in Seq(Cell) /\ more \in Int
  BY <1>1, Blanks
<1>3. lead \in Nat
  BY <1>1, <1>2, LeadInRoom DEF StyleTyped
<1>4. /\ s.padding_top + lead \in Int
      /\ AtLeastZero(more) - lead + s.padding_bottom \in Int
  <2>1. s.padding_top \in Nat /\ s.padding_bottom \in Nat
    BY <1>1 DEF StyleTyped
  <2>2. AtLeastZero(more) \in Nat
    BY <1>2, ZeroAtLeast
  <2> HIDE DEF more, lead
  <2> QED
    BY <1>3, <2>1, <2>2
<1> HIDE DEF box, more, lead
<1>5. over \in Seq(Seq(Cell)) /\ under \in Seq(Seq(Cell))
  BY <1>2, <1>4, Copied
<1>6. kept \in Seq(Seq(Cell))
  <2>1. BoxRows(s, rows) \subseteq Seq(Cell)
    BY DEF BoxRows, Wide
  <2> QED
    BY <2>1, ContentRowsTyped, SeqMonotonic
<1>7. RowsFrom(kept, rows, 0)
  BY ContentContains
<1>8. Inside(s, rows) = over \o kept \o under
  BY DEF Inside, BoxWidth, box, more, lead
<1> HIDE DEF over, kept, under
<1>9. RowsFrom(over \o kept \o under, rows, Len(over) + 0)
  BY <1>1, <1>5, <1>6, <1>7, RowsBetween
<1>10. Len(over) + 0 \in Nat
  BY <1>5
<1> QED
  BY <1>8, <1>9, <1>10

\* Rendering keeps every row of a content that fits, in order, below the top
\* margin, the border and the padding (tui_style_render).
THEOREM RenderKeepsRows ==
  ASSUME NEW s \in Styles, NEW rows \in Seq(Seq(Cell)), rows # <<>>
  PROVE  /\ Render(s, rows) \in Seq(Seq(Cell)) /\ Render(s, rows) # <<>>
         /\ s.inline_ \/ Len(rows) <= InnerHeight(s, rows) =>
              \E top \in Nat : RowsFrom(Render(s, rows), rows, top)
<1>1. IsBlock(rows) /\ StyleTyped(s)
  BY BlocksAre, StyleFields
<1>2. CASE s.inline_
  <2>1. Render(s, rows) = rows
    BY <1>2 DEF Render
  <2>2. \A i \in DOMAIN rows : 0 + i \in DOMAIN rows /\ RowHas(rows[0 + i], rows[i])
    <3>1. \A i \in DOMAIN rows : 0 + i = i /\ rows[i] \in Seq(Cell)
      OBVIOUS
    <3> QED
      BY <3>1, ContainsItself
  <2>3. RowsFrom(rows, rows, 0)
    BY <2>2 DEF RowsFrom
  <2> QED
    BY <2>1, <2>3
<1>3. CASE ~s.inline_
  <2> DEFINE inside == Inside(s, rows)
             mt == Copies(<<>>, s.margin_top)
             b  == AboveBox(s, rows)
             d  == BelowBox(s, rows)
             f  == [i \in DOMAIN inside |->
                      Framed(s, s.border.left, inside[i], s.border.right)]
             mb == Copies(<<>>, s.margin_bottom)
  <2>1. RenderedRows(s, rows) \subseteq Seq(Cell)
    BY DEF RenderedRows, Wide
  <2>2. /\ mt \in Seq(Seq(Cell)) /\ mb \in Seq(Seq(Cell))
        /\ b \in Seq(Seq(Cell)) /\ d \in Seq(Seq(Cell))
        /\ f \in Seq(Seq(Cell))
    <3>1. s.margin_top \in Int /\ s.margin_bottom \in Int /\ <<>> \in Seq(Cell)
      BY <1>1 DEF StyleTyped
    <3>2. mt \in Seq(Seq(Cell)) /\ mb \in Seq(Seq(Cell))
      BY <3>1, Copied
    <3>3. b \in Seq(Seq(Cell)) /\ d \in Seq(Seq(Cell))
      BY <1>1, <1>3, <2>1, BorderAround, SeqMonotonic
    <3>4. f \in Seq(Seq(Cell))
      BY <1>1, <1>3, <2>1, FramedRows, SeqMonotonic
    <3> QED
      BY <3>2, <3>3, <3>4
  <2>3. Stacked(s, rows) = mt \o b \o f \o d \o mb
    BY DEF Stacked
  <2>4. Render(s, rows) = Shown(Stacked(s, rows))
    BY <1>3 DEF Render, Stacked, AboveBox, BelowBox
  <2>5. Stacked(s, rows) \in Seq(Seq(Cell))
    BY <1>1, <1>3, <2>1, StackedSize, SeqMonotonic
  <2>6. Render(s, rows) \in Seq(Seq(Cell)) /\ Render(s, rows) # <<>>
    BY <2>4, <2>5 DEF Shown
  <2>7. ASSUME Len(rows) <= InnerHeight(s, rows)
        PROVE  \E top \in Nat : RowsFrom(Render(s, rows), rows, top)
    <3>1. PICK t \in Nat : RowsFrom(inside, rows, t)
      BY <1>1, <2>7, InsideContains
    <3>2. inside \in Seq(Seq(Cell))
      <4>1. BoxRows(s, rows) \subseteq Seq(Cell)
        BY DEF BoxRows, Wide
      <4> QED
        BY <1>1, <4>1, InsideSize, SeqMonotonic
    <3>3. \A i \in DOMAIN inside : RowHas(Framed(s, s.border.left, inside[i], s.border.right), inside[i])
      <4>1. s.border.left \in Seq(Cell) /\ s.border.right \in Seq(Cell)
        BY BorderIsTyped
      <4>2. \A i \in DOMAIN inside : inside[i] \in Seq(Cell)
        BY <3>2
      <4> QED
        BY <4>1, <4>2, FramedContains
    <3> HIDE DEF inside
    <3>4. ASSUME NEW i \in DOMAIN rows
          PROVE  t + i \in DOMAIN f /\ RowHas(f[t + i], rows[i])
      <4>1. t + i \in DOMAIN inside /\ RowHas(inside[t + i], rows[i])
        BY <3>1 DEF RowsFrom
      <4>2. f[t + i] = Framed(s, s.border.left, inside[t + i], s.border.right) /\ t + i \in DOMAIN f
        BY <4>1
      <4>3. rows[i] \in Seq(Cell) /\ RowHas(Framed(s, s.border.left, inside[t + i], s.border.right), inside[t + i])
        BY <3>3, <4>1
      <4> QED
        BY <4>1, <4>2, <4>3, ContainsWithin
    <3>5. RowsFrom(f, rows, t)
      BY <3>4 DEF RowsFrom
    <3> HIDE DEF mt, b, d, f, mb
    <3> DEFINE T  == Seq(Cell)
               mtb == mt \o b
               x   == mtb \o f \o d
    <3>6. mtb \in Seq(T)
      BY <2>2, Closed
    <3>7. x \in Seq(T)
      <4> HIDE DEF mtb
      <4> QED
        BY <2>2, <3>6, Closed
    <3>8. Len(mtb) + t \in Nat
      BY <3>6
    <3> HIDE DEF mtb, x
    <3>9. RowsFrom(x, rows, Len(mtb) + t)
      BY <2>2, <3>5, <3>6, RowsBetween DEF x, T
    <3>10. RowsFrom(x \o mb, rows, Len(mtb) + t)
      BY <2>2, <3>7, <3>8, <3>9, RowsBefore DEF T
    <3>11. Stacked(s, rows) = x \o mb
      BY <2>3 DEF x, mtb
    <3>12. Stacked(s, rows) # <<>>
      <4>1. 1 \in DOMAIN rows
        BY EmptySeq, LenProperties
      <4>2. Len(mtb) + t + 1 \in DOMAIN Stacked(s, rows)
        BY <3>10, <3>11, <4>1 DEF RowsFrom
      <4> QED
        BY <4>2
    <3> QED
      BY <2>4, <3>8, <3>10, <3>11, <3>12 DEF Shown
  <2> QED
    BY <1>3, <2>6, <2>7
<1> QED
  BY <1>1, <1>2, <1>3 DEF StyleTyped

\* Placing keeps every row of a content that fits the box by its rows and its
\* columns, in order, at its alignment (tui_place).
THEOREM PlaceKeepsRows ==
  ASSUME NEW width \in Nat, NEW height \in Nat \ {0},
         NEW halign \in Aligns, NEW valign \in Aligns,
         NEW rows \in Seq(Seq(Cell))
  PROVE  LET placed == Place(width, height, halign, valign, rows)
         IN  /\ placed \in Seq(Seq(Cell)) /\ placed # <<>>
             /\ /\ Len(rows) <= height
                /\ \A i \in DOMAIN rows : Len(rows[i]) <= width
                => \E top \in Nat : RowsFrom(placed, rows, top)
<1> DEFINE n      == Smaller(Len(rows), height)
           top    == Lead(height - n, valign)
           row(i) == IF i - top \in 1 .. n THEN Padded(rows[i - top], width, halign)
                     ELSE Blank(width)
           box    == [i \in 1 .. height |-> row(i)]
           placed == Place(width, height, halign, valign, rows)
<1>1. n \in Nat /\ n <= Len(rows) /\ n <= height /\ Len(rows) \in Nat
  BY DEF Smaller
<1>2. height - n \in Int /\ height - n >= 0
  BY <1>1
<1>3. top \in Nat /\ top <= height - n
  <2> HIDE DEF n
  <2> QED
    BY <1>2, LeadInRoom
<1> HIDE DEF n, top
<1>4. ASSUME NEW i \in 1 .. height PROVE row(i) \in Seq(Cell)
  <2>1. CASE i - top \in 1 .. n
    <3>1. i - top \in DOMAIN rows
      BY <1>1, <1>3, <2>1
    <3>2. rows[i - top] \in Seq(Cell)
      BY <3>1
    <3> QED
      BY <2>1, <3>2, PaddedWidth
  <2>2. CASE ~(i - top \in 1 .. n)
    <3>1. width \in Int
      OBVIOUS
    <3> QED
      BY <2>2, <3>1, Blanks
  <2> QED
    BY <2>1, <2>2
<1>5. box \in Seq(Seq(Cell)) /\ box # <<>>
  <2> HIDE DEF row
  <2>1. box \in Seq(Seq(Cell)) /\ Len(box) = height
    BY <1>4
  <2> QED
    BY <2>1
<1>6. placed = box
  <2>1. placed = Shown(box)
    BY DEF Place, box, row, top, n
  <2> QED
    BY <1>5, <2>1 DEF Shown
<1>7. ASSUME Len(rows) <= height PROVE RowsFrom(placed, rows, top)
  <2>1. n = Len(rows)
    BY <1>1, <1>7 DEF n, Smaller
  <2>2. ASSUME NEW i \in DOMAIN rows
        PROVE  top + i \in DOMAIN box /\ RowHas(box[top + i], rows[i])
    <3>1. /\ i \in 1 .. n /\ top + i \in 1 .. height /\ (top + i) - top = i
          /\ rows[i] \in Seq(Cell)
      BY <1>1, <1>3, <2>1
    <3>2. row(top + i) = Padded(rows[i], width, halign)
      BY <3>1
    <3> HIDE DEF row
    <3>3. top + i \in DOMAIN box /\ box[top + i] = row(top + i)
      BY <3>1
    <3> QED
      BY <3>1, <3>2, <3>3, PaddedContains
  <2> HIDE DEF box, placed
  <2> QED
    BY <1>6, <2>2 DEF RowsFrom
<1> QED
  BY <1>3, <1>5, <1>6, <1>7

\* Some blocks, as a join is given them.
Blocks == Seq(Seq(Seq(Cell)) \ {<<>>}) \ {<<>>}
Heights(blocks) == [k \in DOMAIN blocks |-> Len(blocks[k])]
BlockWidths(blocks) == [k \in DOMAIN blocks |-> Natural(blocks[k])]

LEMMA BlockParts ==
  ASSUME NEW blocks \in Blocks
  PROVE  /\ blocks \in Seq(Seq(Seq(Cell))) /\ blocks # <<>>
         /\ Len(blocks) \in Nat /\ Len(blocks) > 0
         /\ \A k \in 1 .. Len(blocks) :
              /\ blocks[k] \in Seq(Seq(Cell)) /\ blocks[k] # <<>>
              /\ IsBlock(blocks[k]) /\ Natural(blocks[k]) \in Nat
              /\ Len(blocks[k]) \in Nat /\ Len(blocks[k]) > 0
<1>1. blocks \in Seq(Seq(Seq(Cell)) \ {<<>>}) /\ blocks # <<>>
  BY DEF Blocks
<1>2. Seq(Seq(Cell)) \ {<<>>} \subseteq Seq(Seq(Cell))
  OBVIOUS
<1>3. blocks \in Seq(Seq(Seq(Cell)))
  BY <1>1, <1>2, SeqMonotonic
<1>4. Len(blocks) \in Nat /\ Len(blocks) > 0
  BY <1>1, <1>3, EmptySeq, LenProperties
<1>5. ASSUME NEW k \in 1 .. Len(blocks)
      PROVE  /\ blocks[k] \in Seq(Seq(Cell)) /\ blocks[k] # <<>>
             /\ IsBlock(blocks[k]) /\ Natural(blocks[k]) \in Nat
             /\ Len(blocks[k]) \in Nat /\ Len(blocks[k]) > 0
  <2>1. blocks[k] \in Seq(Seq(Cell)) /\ blocks[k] # <<>>
    BY <1>1
  <2>2. IsBlock(blocks[k])
    BY <2>1, BlocksAre
  <2>3. Natural(blocks[k]) \in Nat
    BY <2>2, NaturalWidth
  <2>4. Len(blocks[k]) \in Nat /\ Len(blocks[k]) > 0
    BY <2>1, EmptySeq, LenProperties
  <2> QED
    BY <2>1, <2>2, <2>3, <2>4
<1> QED
  BY <1>1, <1>3, <1>4, <1>5

LEMMA BlockSizes ==
  ASSUME NEW blocks \in Blocks
  PROVE  /\ HaveSizes(Seq(Cell), blocks, Heights(blocks))
         /\ BlockWidths(blocks) \in Seq(Nat) /\ Len(BlockWidths(blocks)) = Len(blocks)
         /\ FlattenSeq(blocks) \in Seq(Seq(Cell)) /\ FlattenSeq(blocks) # <<>>
         /\ Len(FlattenSeq(blocks)) = Total(Heights(blocks))
<1> DEFINE T == Seq(Cell)
           n == Len(blocks)
<1>1. /\ blocks \in Seq(Seq(T)) /\ n \in Nat /\ n > 0 /\ DOMAIN blocks = 1 .. n
      /\ \A k \in 1 .. n : /\ blocks[k] \in Seq(T) /\ Natural(blocks[k]) \in Nat
                           /\ Len(blocks[k]) \in Nat /\ Len(blocks[k]) > 0
  BY BlockParts
<1> HIDE DEF T, n
<1>2. /\ Heights(blocks) \in Seq(Nat) /\ Len(Heights(blocks)) = n
      /\ \A k \in 1 .. n : Heights(blocks)[k] = Len(blocks[k])
  BY <1>1 DEF Heights
<1>3. BlockWidths(blocks) \in Seq(Nat) /\ Len(BlockWidths(blocks)) = n
  BY <1>1 DEF BlockWidths
<1>4. HaveSizes(T, blocks, Heights(blocks))
  BY <1>1, <1>2 DEF HaveSizes, n
<1>5. /\ FlattenSeq(blocks) \in Seq(T)
      /\ Len(FlattenSeq(blocks)) = Total(Heights(blocks))
  BY <1>4, FlattenWidth
<1>6. FlattenSeq(blocks) # <<>>
  <2>1. 1 \in 1 .. Len(blocks)
    BY <1>1 DEF n
  <2>2. PICK a \in Seq(T), c \in Seq(T) : FlattenSeq(blocks) = a \o blocks[1] \o c
    <3>1. FoundAt(T, FlattenSeq(blocks), blocks[1],
                  Total([j \in 1 .. 1 - 1 |-> Heights(blocks)[j]]))
      BY <1>4, <2>1, FlattenPiece
    <3> QED
      BY <3>1 DEF FoundAt
  <2>3. blocks[1] \in Seq(T) /\ Len(blocks[1]) > 0 /\ Len(blocks[1]) \in Nat
    BY <1>1
  <2>4. Len(FlattenSeq(blocks)) = Len(a) + Len(blocks[1]) + Len(c)
    BY <2>2, <2>3, Three
  <2>5. Len(a) \in Nat /\ Len(c) \in Nat
    OBVIOUS
  <2>6. Len(FlattenSeq(blocks)) > 0
    BY <2>3, <2>4, <2>5
  <2> QED
    BY <2>6
<1> QED
  BY <1>3, <1>4, <1>5, <1>6 DEF T, n

\* Blocks below one another: every row of every block, in order, all as wide
\* as the widest (tui_join_vertical).
THEOREM VerticalKeepsRows ==
  ASSUME NEW halign \in Aligns, NEW blocks \in Blocks
  PROVE  LET rows   == FlattenSeq(blocks)
             joined == JoinVertical(halign, blocks)
         IN  /\ joined \in Seq(Seq(Cell)) /\ joined # <<>>
             /\ Len(joined) = Total(Heights(blocks))
             /\ \A i \in DOMAIN joined : Len(joined[i]) = Natural(rows)
             /\ RowsFrom(joined, rows, 0)
<1> DEFINE rows   == FlattenSeq(blocks)
           joined == JoinVertical(halign, blocks)
<1>1. rows \in Seq(Seq(Cell)) /\ rows # <<>> /\ Len(rows) = Total(Heights(blocks))
  BY BlockSizes
<1>2. joined = [i \in DOMAIN rows |-> Padded(rows[i], Natural(rows), halign)]
  BY DEF JoinVertical
<1> HIDE DEF rows, joined
<1>3. Natural(rows) \in Nat /\ \A i \in DOMAIN rows : Len(rows[i]) <= Natural(rows)
  BY <1>1, BlocksAre, NaturalWidth
<1>4. DOMAIN rows = 1 .. Len(rows) /\ Len(rows) \in Nat /\ Len(rows) > 0
  BY <1>1, EmptySeq, LenProperties
<1>5. ASSUME NEW i \in 1 .. Len(rows)
      PROVE  /\ Padded(rows[i], Natural(rows), halign) \in Seq(Cell)
             /\ Len(Padded(rows[i], Natural(rows), halign)) = Natural(rows)
             /\ RowHas(Padded(rows[i], Natural(rows), halign), rows[i])
  <2>1. rows[i] \in Seq(Cell) /\ Len(rows[i]) <= Natural(rows)
    BY <1>1, <1>3, <1>4
  <2> QED
    BY <1>3, <2>1, PaddedWidth, PaddedContains
<1>6. /\ joined \in Seq(Seq(Cell)) /\ Len(joined) = Len(rows)
      /\ \A i \in 1 .. Len(rows) :
           joined[i] = Padded(rows[i], Natural(rows), halign)
  BY <1>2, <1>4, <1>5
<1>7. joined # <<>>
  BY <1>4, <1>6
<1>8. \A i \in DOMAIN joined : Len(joined[i]) = Natural(rows)
  BY <1>5, <1>6
<1>9. RowsFrom(joined, rows, 0)
  <2>1. \A i \in DOMAIN rows : /\ i \in 1 .. Len(rows) /\ 0 + i = i
                               /\ i \in DOMAIN joined
    BY <1>4, <1>6
  <2>2. \A i \in DOMAIN rows : RowHas(joined[i], rows[i])
    BY <1>5, <1>6, <2>1
  <2> QED
    BY <2>1, <2>2 DEF RowsFrom
<1> QED
  BY <1>1, <1>6, <1>7, <1>8, <1>9 DEF rows, joined

\* Among some blocks there is a tallest one.
LEMMA TallestBlock ==
  ASSUME NEW blocks \in Blocks
  PROVE  /\ Tallest(blocks) \in Nat /\ Tallest(blocks) > 0
         /\ \A k \in 1 .. Len(blocks) : Len(blocks[k]) <= Tallest(blocks)
<1> DEFINE T == Seq(Cell)
           H == {Len(blocks[k]) : k \in DOMAIN blocks}
<1>1. /\ blocks \in Seq(Seq(T)) /\ blocks # <<>> /\ DOMAIN blocks = 1 .. Len(blocks)
      /\ \A k \in 1 .. Len(blocks) : Len(blocks[k]) \in Nat /\ Len(blocks[k]) > 0
  BY BlockParts
<1>2. PICK m \in DOMAIN blocks : \A k \in DOMAIN blocks : Len(blocks[k]) <= Len(blocks[m])
  <2> HIDE DEF T
  <2> QED
    BY <1>1, WidestExists
<1>3. \E n \in H : \A k \in DOMAIN blocks : Len(blocks[k]) <= n
  BY <1>2
<1>4. Tallest(blocks) \in H /\ \A k \in DOMAIN blocks : Len(blocks[k]) <= Tallest(blocks)
  BY <1>3 DEF Tallest
<1> QED
  BY <1>1, <1>4

\* Row `row` of block k, or the blanks beside a block that has ended.
Piece(valign, blocks, row, k) ==
  LET i == row - Lead(Tallest(blocks) - Len(blocks[k]), valign)
  IN  IF i \in DOMAIN blocks[k]
      THEN Padded(blocks[k][i], Natural(blocks[k]), "start")
      ELSE Blank(Natural(blocks[k]))

LEMMA PieceWidth ==
  ASSUME NEW valign \in Aligns, NEW blocks \in Blocks, NEW row \in Nat,
         NEW k \in 1 .. Len(blocks)
  PROVE  /\ Piece(valign, blocks, row, k) \in Seq(Cell)
         /\ Len(Piece(valign, blocks, row, k)) = Natural(blocks[k])
<1> DEFINE w == Natural(blocks[k])
           i == row - Lead(Tallest(blocks) - Len(blocks[k]), valign)
<1>1. /\ blocks[k] \in Seq(Seq(Cell)) /\ IsBlock(blocks[k]) /\ w \in Nat
  BY BlockParts
<1>2. \A j \in DOMAIN blocks[k] : Len(blocks[k][j]) <= w
  BY <1>1, NaturalWidth
<1>3. Piece(valign, blocks, row, k)
        = IF i \in DOMAIN blocks[k] THEN Padded(blocks[k][i], w, "start") ELSE Blank(w)
  BY DEF Piece
<1>4. "start" \in Aligns
  BY DEF Aligns
<1> HIDE DEF w, i
<1>5. CASE i \in DOMAIN blocks[k]
  <2>1. blocks[k][i] \in Seq(Cell) /\ Len(blocks[k][i]) <= w
    BY <1>1, <1>2, <1>5
  <2> QED
    BY <1>1, <1>3, <1>4, <1>5, <2>1, PaddedWidth DEF w
<1>6. CASE i \notin DOMAIN blocks[k]
  <2>1. w \in Int /\ AtLeastZero(w) = w
    BY <1>1 DEF AtLeastZero
  <2> QED
    BY <1>3, <1>6, <2>1, Blanks DEF w
<1> QED
  BY <1>5, <1>6

\* One row of the blocks beside one another.
BesideRow(valign, blocks, row) ==
  FlattenSeq([k \in DOMAIN blocks |-> Piece(valign, blocks, row, k)])

LEMMA BesideRowWidth ==
  ASSUME NEW valign \in Aligns, NEW blocks \in Blocks, NEW row \in Nat
  PROVE  /\ HaveSizes(Cell, [k \in DOMAIN blocks |-> Piece(valign, blocks, row, k)],
                      BlockWidths(blocks))
         /\ BesideRow(valign, blocks, row) \in Seq(Cell)
         /\ Len(BesideRow(valign, blocks, row)) = Total(BlockWidths(blocks))
<1> DEFINE n == Len(blocks)
           pieces == [k \in DOMAIN blocks |-> Piece(valign, blocks, row, k)]
<1>1. n \in Nat /\ DOMAIN blocks = 1 .. n
  BY BlockParts
<1>2. \A k \in 1 .. n : /\ Piece(valign, blocks, row, k) \in Seq(Cell)
                        /\ Len(Piece(valign, blocks, row, k)) = Natural(blocks[k])
  BY PieceWidth
<1>3. BlockWidths(blocks) \in Seq(Nat) /\ Len(BlockWidths(blocks)) = n
  BY BlockSizes
<1>4. \A k \in 1 .. n : BlockWidths(blocks)[k] = Natural(blocks[k])
  BY <1>1 DEF BlockWidths
<1> HIDE DEF n
<1>5. /\ pieces \in Seq(Seq(Cell)) /\ Len(pieces) = n
      /\ \A k \in 1 .. n : pieces[k] = Piece(valign, blocks, row, k)
  BY <1>1, <1>2
<1> HIDE DEF pieces
<1>6. HaveSizes(Cell, pieces, BlockWidths(blocks))
  BY <1>2, <1>3, <1>4, <1>5 DEF HaveSizes
<1>7. /\ FlattenSeq(pieces) \in Seq(Cell)
      /\ Len(FlattenSeq(pieces)) = Total(BlockWidths(blocks))
  BY <1>6, FlattenWidth
<1> QED
  BY <1>6, <1>7 DEF BesideRow, pieces

\* The columns before block k.
Before(blocks, k) == FlattenSeq([j \in 1 .. k - 1 |-> Blank(Natural(blocks[j]))])

LEMMA BeforeWidth ==
  ASSUME NEW blocks \in Blocks, NEW k \in 1 .. Len(blocks)
  PROVE  Len(Before(blocks, k)) = Total([j \in 1 .. k - 1 |-> BlockWidths(blocks)[j]])
<1> DEFINE gaps  == [j \in 1 .. k - 1 |-> Blank(Natural(blocks[j]))]
           sizes == [j \in 1 .. k - 1 |-> BlockWidths(blocks)[j]]
           m     == k - 1
<1>1. m \in Nat /\ Len(blocks) \in Nat /\ DOMAIN blocks = 1 .. Len(blocks)
  BY BlockParts
<1>2. ASSUME NEW j \in 1 .. m
      PROVE  /\ Blank(Natural(blocks[j])) \in Seq(Cell)
             /\ Len(Blank(Natural(blocks[j]))) = BlockWidths(blocks)[j]
             /\ BlockWidths(blocks)[j] \in Nat
  <2>1. j \in 1 .. Len(blocks)
    BY <1>1
  <2>2. Natural(blocks[j]) \in Nat /\ BlockWidths(blocks)[j] = Natural(blocks[j])
    BY <1>1, <2>1, BlockParts DEF BlockWidths
  <2>3. Natural(blocks[j]) \in Int /\ AtLeastZero(Natural(blocks[j])) = Natural(blocks[j])
    BY <2>2 DEF AtLeastZero
  <2> QED
    BY <2>2, <2>3, Blanks
<1>3. gaps = [j \in 1 .. m |-> Blank(Natural(blocks[j]))]
      /\ sizes = [j \in 1 .. m |-> BlockWidths(blocks)[j]]
  OBVIOUS
<1> HIDE DEF gaps, sizes, m
<1>4. /\ gaps \in Seq(Seq(Cell)) /\ Len(gaps) = m
      /\ \A j \in 1 .. m : gaps[j] = Blank(Natural(blocks[j]))
  BY <1>1, <1>2, <1>3
<1>5. /\ sizes \in Seq(Nat) /\ Len(sizes) = m
      /\ \A j \in 1 .. m : sizes[j] = BlockWidths(blocks)[j]
  BY <1>1, <1>2, <1>3
<1>6. HaveSizes(Cell, gaps, sizes)
  BY <1>2, <1>4, <1>5 DEF HaveSizes
<1>7. Len(FlattenSeq(gaps)) = Total(sizes)
  BY <1>6, FlattenWidth
<1> QED
  BY <1>7 DEF Before, gaps, sizes

\* A row of a block that is joined stands behind the blocks before it.
FoundBehind(big, row, n) ==
  n + Len(row) <= Len(big) /\ SubSeq(big, n + 1, n + Len(row)) = row

LEMMA FrontIsFound ==
  ASSUME NEW S, NEW a \in Seq(S), NEW row \in Seq(S), NEW d \in Seq(S),
         NEW c \in Seq(S), NEW big, big = a \o (row \o d) \o c
  PROVE  FoundBehind(big, row, Len(a))
<1> DEFINE x == a \o row
           y == d \o c
<1>1. x \in Seq(S) /\ y \in Seq(S)
  BY Closed
<1>2. a \o (row \o d) = x \o d
  BY Grouped, SMTT(30)
<1> HIDE DEF x
<1>3. x \o y = (x \o d) \o c
  BY <1>1, Grouped, SMTT(30)
<1>4. big = a \o row \o y
  BY <1>2, <1>3 DEF x
<1> HIDE DEF y
<1>5. Len(big) = Len(a) + Len(row) + Len(y)
  BY <1>1, <1>4, Three
<1>6. SubSeq(big, Len(a) + 1, Len(a) + Len(row)) = row
  BY <1>1, <1>4, Middle
<1>7. Len(a) \in Nat /\ Len(row) \in Nat /\ Len(y) \in Nat
  BY <1>1
<1> QED
  BY <1>5, <1>6, <1>7 DEF FoundBehind

\* Blocks beside one another: all rows as wide as all of them together, and
\* every row of every block where its block begins (tui_join_horizontal).
THEOREM HorizontalKeepsRows ==
  ASSUME NEW valign \in Aligns, NEW blocks \in Blocks
  PROVE  LET joined == JoinHorizontal(valign, blocks)
         IN  /\ joined \in Seq(Seq(Cell)) /\ joined # <<>>
             /\ Len(joined) = Tallest(blocks)
             /\ \A i \in DOMAIN joined : Len(joined[i]) = Total(BlockWidths(blocks))
             /\ \A k \in 1 .. Len(blocks) : \E top \in Nat : \A i \in DOMAIN blocks[k] :
                  /\ top + i \in DOMAIN joined
                  /\ FoundBehind(joined[top + i], blocks[k][i], Len(Before(blocks, k)))
<1> DEFINE joined == JoinHorizontal(valign, blocks)
           t == Tallest(blocks)
<1>1. t \in Nat /\ t > 0 /\ \A k \in 1 .. Len(blocks) : Len(blocks[k]) <= t
  BY TallestBlock
<1>2. joined = [row \in 1 .. t |-> BesideRow(valign, blocks, row)]
  BY DEF JoinHorizontal, BesideRow, Piece
<1>3. \A row \in 1 .. t : /\ BesideRow(valign, blocks, row) \in Seq(Cell)
                          /\ Len(BesideRow(valign, blocks, row))
                               = Total(BlockWidths(blocks))
  <2>1. \A row \in 1 .. t : row \in Nat
    OBVIOUS
  <2> QED
    BY <2>1, BesideRowWidth
<1> HIDE DEF joined
<1>4. /\ joined \in Seq(Seq(Cell)) /\ Len(joined) = t /\ DOMAIN joined = 1 .. t
      /\ \A row \in 1 .. t : joined[row] = BesideRow(valign, blocks, row)
  BY <1>1, <1>2, <1>3
<1>5. joined # <<>>
  BY <1>1, <1>4
<1>6. ASSUME NEW k \in 1 .. Len(blocks)
      PROVE  \E top \in Nat : \A i \in DOMAIN blocks[k] :
               /\ top + i \in DOMAIN joined
               /\ FoundBehind(joined[top + i], blocks[k][i], Len(Before(blocks, k)))
  <2> DEFINE top == Lead(t - Len(blocks[k]), valign)
             w == Natural(blocks[k])
  <2>1. /\ blocks[k] \in Seq(Seq(Cell)) /\ IsBlock(blocks[k]) /\ w \in Nat
        /\ Len(blocks[k]) \in Nat /\ DOMAIN blocks[k] = 1 .. Len(blocks[k])
    BY BlockParts
  <2>2. t - Len(blocks[k]) \in Int /\ t - Len(blocks[k]) >= 0
    BY <1>1, <2>1
  <2>3. top \in Nat /\ top <= t - Len(blocks[k])
    BY <2>2, LeadInRoom
  <2>4. ASSUME NEW i \in DOMAIN blocks[k]
        PROVE  /\ top + i \in DOMAIN joined
               /\ FoundBehind(joined[top + i], blocks[k][i], Len(Before(blocks, k)))
    <3> DEFINE line   == top + i
               row    == blocks[k][i]
               pieces == [j \in DOMAIN blocks |-> Piece(valign, blocks, line, j)]
               d      == Blank(w - Len(row))
    <3>1. line \in 1 .. t /\ line \in Nat /\ line - top = i /\ row \in Seq(Cell)
      <4> HIDE DEF top
      <4> QED
        BY SMTT(30), <1>1, <2>1, <2>3
    <3>2. joined[line] = FlattenSeq(pieces) /\ line \in DOMAIN joined
      BY <1>4, <3>1 DEF BesideRow
    <3>3. HaveSizes(Cell, pieces, BlockWidths(blocks))
      BY <3>1, BesideRowWidth
    <3>4. k \in DOMAIN blocks /\ DOMAIN blocks = 1 .. Len(blocks) /\ Len(pieces) = Len(blocks)
      BY BlockParts
    <3>5. pieces[k] = Padded(row, w, "start")
      <4>1. pieces[k] = Piece(valign, blocks, line, k)
        BY <3>4
      <4> QED
        BY <3>1, <4>1 DEF Piece
    <3>6. Padded(row, w, "start") = row \o d /\ d \in Seq(Cell)
      <4>1. w - Len(row) \in Int /\ (w - Len(row)) - 0 = w - Len(row)
        BY <2>1, <3>1
      <4>2. Lead(w - Len(row), "start") = 0
        BY DEF Lead
      <4>3. Blank(0) = <<>>
        BY DEF Blank, AtLeastZero
      <4>4. Padded(row, w, "start") = <<>> \o row \o d
        BY <4>1, <4>2, <4>3 DEF Padded
      <4>5. <<>> \o row = row
        BY <3>1, ConcatEmptySeq
      <4> QED
        BY <4>1, <4>4, <4>5, Blanks
    <3> HIDE DEF pieces, d, row, line
    <3>7. FoundAt(Cell, FlattenSeq(pieces), pieces[k],
                  Total([j \in 1 .. k - 1 |-> BlockWidths(blocks)[j]]))
      BY <3>3, <3>4, FlattenPiece
    <3>8. PICK a \in Seq(Cell), c \in Seq(Cell) :
            /\ FlattenSeq(pieces) = a \o pieces[k] \o c
            /\ Len(a) = Total([j \in 1 .. k - 1 |-> BlockWidths(blocks)[j]])
      BY <3>7 DEF FoundAt
    <3>9. joined[line] = a \o (row \o d) \o c
      BY <3>2, <3>5, <3>6, <3>8
    <3>10. FoundBehind(joined[line], row, Len(a))
      BY <3>1, <3>6, <3>9, FrontIsFound
    <3>11. Len(a) = Len(Before(blocks, k))
      BY <3>8, BeforeWidth
    <3> QED
      BY <3>2, <3>10, <3>11 DEF line, row
  <2> HIDE DEF top
  <2> QED
    BY <2>3, <2>4
<1> QED
  BY <1>3, <1>4, <1>5, <1>6 DEF joined

----------------------------------------------------------------------------
(* Tiles                                                                   *)

Patterns == Seq(Seq(Cell) \ {<<>>}) \ {<<>>}

\* What the tiling puts from glyph p on, when f does for fewer columns.
TileStep(pattern, f, n, p) ==
  IF Len(pattern[p]) > n THEN Blank(n)
  ELSE pattern[p] \o f[n - Len(pattern[p])][(p % Len(pattern)) + 1]

\* A function that tiles up to m columns, exactly.
Tiling(pattern, f, m) ==
  /\ f \in [0 .. m -> [1 .. Len(pattern) -> Seq(Cell)]]
  /\ \A n \in 0 .. m : \A p \in 1 .. Len(pattern) :
       f[n][p] = TileStep(pattern, f, n, p) /\ Len(f[n][p]) = n

\* A pattern has glyphs, every one of them takes columns, and after the last
\* comes the first.
LEMMA PatternParts ==
  ASSUME NEW pattern \in Patterns
  PROVE  /\ Len(pattern) \in Nat /\ Len(pattern) > 0
         /\ \A p \in 1 .. Len(pattern) :
              /\ pattern[p] \in Seq(Cell) /\ Len(pattern[p]) \in Nat
              /\ Len(pattern[p]) > 0
              /\ (p % Len(pattern)) + 1 \in 1 .. Len(pattern)
<1>1. pattern \in Seq(Seq(Cell) \ {<<>>}) /\ pattern # <<>>
  BY DEF Patterns
<1>2. Len(pattern) \in Nat /\ Len(pattern) > 0
  BY <1>1, EmptySeq, LenProperties
<1>3. ASSUME NEW p \in 1 .. Len(pattern)
      PROVE  /\ pattern[p] \in Seq(Cell) /\ Len(pattern[p]) \in Nat
             /\ Len(pattern[p]) > 0
  <2>1. pattern[p] \in Seq(Cell) /\ pattern[p] # <<>>
    BY <1>1
  <2> QED
    BY <2>1, EmptySeq, LenProperties
<1>4. ASSUME NEW p \in 1 .. Len(pattern)
      PROVE  (p % Len(pattern)) + 1 \in 1 .. Len(pattern)
  <2> DEFINE l == Len(pattern)
  <2>1. l \in Nat /\ l > 0 /\ p \in Nat
    BY <1>2
  <2> HIDE DEF l
  <2>2. p % l \in 0 .. l - 1
    BY <2>1
  <2>3. (p % l) + 1 \in 1 .. l
    BY <2>1, <2>2
  <2> QED
    BY <2>3 DEF l
<1> QED
  BY <1>2, <1>3, <1>4

\* One step puts as many columns as are asked for.
LEMMA TileStepWidth ==
  ASSUME NEW pattern \in Patterns, NEW n \in Nat, NEW p \in 1 .. Len(pattern), NEW f,
         Len(pattern[p]) <= n =>
           /\ f[n - Len(pattern[p])][(p % Len(pattern)) + 1] \in Seq(Cell)
           /\ Len(f[n - Len(pattern[p])][(p % Len(pattern)) + 1])
                = n - Len(pattern[p])
  PROVE  /\ TileStep(pattern, f, n, p) \in Seq(Cell)
         /\ Len(TileStep(pattern, f, n, p)) = n
<1> DEFINE glyph == pattern[p]
           rest  == f[n - Len(pattern[p])][(p % Len(pattern)) + 1]
<1>1. glyph \in Seq(Cell) /\ Len(glyph) \in Nat
  BY PatternParts
<1>2. Len(glyph) <= n => rest \in Seq(Cell) /\ Len(rest) = n - Len(glyph)
  OBVIOUS
<1>3. TileStep(pattern, f, n, p) = IF Len(glyph) > n THEN Blank(n) ELSE glyph \o rest
  BY DEF TileStep
<1> HIDE DEF glyph, rest
<1>4. CASE Len(glyph) > n
  <2>1. n \in Int /\ AtLeastZero(n) = n
    BY DEF AtLeastZero
  <2> QED
    BY <1>3, <1>4, <2>1, Blanks
<1>5. CASE Len(glyph) <= n
  <2>1. glyph \o rest \in Seq(Cell) /\ Len(glyph \o rest) = Len(glyph) + Len(rest)
    BY <1>1, <1>2, <1>5, ConcatProperties
  <2>2. ~(Len(glyph) > n)
    BY <1>1, <1>5
  <2>3. TileStep(pattern, f, n, p) = glyph \o rest
    BY <1>3, <2>2
  <2>4. Len(rest) = n - Len(glyph)
    BY <1>2, <1>5
  <2>5. Len(glyph \o rest) = n
    BY <1>1, <2>1, <2>4
  <2> QED
    BY <2>1, <2>3, <2>5
<1> QED
  BY <1>1, <1>4, <1>5

LEMMA TilingUpTo ==
  ASSUME NEW pattern \in Patterns, NEW cols \in Nat
  PROVE  \E f : Tiling(pattern, f, cols)
<1> DEFINE l == Len(pattern)
           R == {m \in 0 .. cols : \E f : Tiling(pattern, f, m)}
<1>1. /\ l \in Nat /\ l > 0
      /\ \A p \in 1 .. l : /\ pattern[p] \in Seq(Cell) /\ Len(pattern[p]) \in Nat
                           /\ Len(pattern[p]) > 0
                           /\ (p % l) + 1 \in 1 .. l
  BY PatternParts
<1>2. 0 \in R
  <2> DEFINE f == [n \in 0 .. 0 |-> [p \in 1 .. l |-> Blank(0)]]
  <2>1. Blank(0) = <<>> /\ Blank(0) \in Seq(Cell) /\ Len(Blank(0)) = 0
    BY DEF Blank, AtLeastZero
  <2>2. f \in [0 .. 0 -> [1 .. l -> Seq(Cell)]]
    BY <2>1
  <2>3. ASSUME NEW n \in 0 .. 0, NEW p \in 1 .. l
        PROVE  f[n][p] = TileStep(pattern, f, n, p) /\ Len(f[n][p]) = n
    <3>0. n = 0 /\ f[n][p] = Blank(0)
      OBVIOUS
    <3>1. Len(pattern[p]) > n
      <4> HIDE DEF l, f
      <4> QED
        BY <1>1, <3>0
    <3> QED
      BY <2>1, <3>0, <3>1 DEF TileStep
  <2> HIDE DEF f
  <2>4. Tiling(pattern, f, 0)
    BY <2>2, <2>3 DEF Tiling
  <2> QED
    BY <2>4
<1>3. ASSUME NEW m \in 0 .. cols - 1, m \in R PROVE m + 1 \in R
  <2>1. PICK f : Tiling(pattern, f, m)
    BY <1>3
  <2>2. /\ f \in [0 .. m -> [1 .. l -> Seq(Cell)]]
        /\ \A n \in 0 .. m : \A p \in 1 .. l :
             f[n][p] = TileStep(pattern, f, n, p) /\ Len(f[n][p]) = n
    BY <2>1 DEF Tiling
  <2> DEFINE k == m + 1
             top == [p \in 1 .. l |-> TileStep(pattern, f, k, p)]
             g == [n \in 0 .. k |-> IF n = k THEN top ELSE f[n]]
  <2>3. k \in Nat /\ k \in 0 .. cols /\ \A n \in 0 .. m : n \in 0 .. k /\ n # k
    OBVIOUS
  <2>4. ASSUME NEW p \in 1 .. l
        PROVE  /\ TileStep(pattern, f, k, p) \in Seq(Cell)
               /\ Len(TileStep(pattern, f, k, p)) = k
    <3>1. ASSUME Len(pattern[p]) <= k
          PROVE  /\ f[k - Len(pattern[p])][(p % l) + 1] \in Seq(Cell)
                 /\ Len(f[k - Len(pattern[p])][(p % l) + 1]) = k - Len(pattern[p])
      <4>1. /\ Len(pattern[p]) \in Nat /\ Len(pattern[p]) > 0
            /\ (p % l) + 1 \in 1 .. l
        <5> HIDE DEF l
        <5> QED
          BY <1>1
      <4>2. k - Len(pattern[p]) \in 0 .. m
        BY <3>1, <4>1
      <4> HIDE DEF k
      <4> QED
        BY <2>2, <4>1, <4>2
    <3> HIDE DEF k
    <3> QED
      BY <2>3, <3>1, TileStepWidth
  <2>13. \A n \in 0 .. k : n = k \/ n \in 0 .. m
    OBVIOUS
  <2>14. \A n \in 0 .. k : \A j \in Nat : j > 0 /\ j <= n => n - j \in 0 .. m
    OBVIOUS
  <2> HIDE DEF k
  <2>5. top \in [1 .. l -> Seq(Cell)]
    BY <2>4
  <2>6. /\ g[k] = top
        /\ \A n \in 0 .. m : g[n] = f[n]
    <3> HIDE DEF top
    <3>1. k \in 0 .. k
      BY <2>3
    <3>2. g[k] = top
      BY <3>1
    <3>3. \A n \in 0 .. m : g[n] = f[n]
      BY <2>3
    <3> QED
      BY <3>2, <3>3
  <2>8. g \in [0 .. k -> [1 .. l -> Seq(Cell)]]
    <3> DEFINE Q == [1 .. l -> Seq(Cell)]
    <3>1. top \in Q /\ f \in [0 .. m -> Q]
      BY <2>2, <2>5
    <3> HIDE DEF Q, top
    <3> QED
      BY <2>13, <3>1 DEF Q
  <2>9. \A p \in 1 .. l : top[p] = TileStep(pattern, f, k, p) /\ Len(top[p]) = k
    BY <2>4
  <2> HIDE DEF g, top
  <2>10. ASSUME NEW n \in 0 .. k, NEW p \in 1 .. l
         PROVE  TileStep(pattern, g, n, p) = TileStep(pattern, f, n, p)
    <3> DEFINE w == Len(pattern[p])
    <3>1. w \in Nat /\ w > 0
      <4> HIDE DEF l
      <4> QED
        BY <1>1
    <3>2. n \in Nat
      OBVIOUS
    <3>3. w <= n => n - w \in 0 .. m
      <4> HIDE DEF w
      <4> QED
        BY <2>14, <3>1
    <3>4. w <= n => g[n - w] = f[n - w]
      BY <2>6, <3>3
    <3>5. CASE w > n
      BY <3>5 DEF TileStep
    <3>6. CASE w <= n
      <4>1. ~(w > n)
        BY <3>1, <3>2, <3>6
      <4> QED
        BY <3>4, <3>6, <4>1 DEF TileStep
    <3> QED
      BY <3>1, <3>2, <3>5, <3>6
  <2>11. ASSUME NEW n \in 0 .. k, NEW p \in 1 .. l
         PROVE  g[n][p] = TileStep(pattern, g, n, p) /\ Len(g[n][p]) = n
    <3>1. CASE n = k
      BY <2>6, <2>9, <2>10, <3>1
    <3>2. CASE n \in 0 .. m
      BY <2>2, <2>6, <2>10, <3>2
    <3> QED
      BY <2>13, <3>1, <3>2
  <2>12. Tiling(pattern, g, k)
    BY <2>8, <2>11 DEF Tiling
  <2> QED
    BY <2>3, <2>12 DEF k
<1> HIDE DEF R
<1>4. cols \in R
  <2>1. \A m \in 0 .. cols : m \in R
    BY <1>2, <1>3, InductiveUpTo
  <2> QED
    BY <2>1
<1> QED
  BY <1>4 DEF R

\* A pattern is tiled over exactly the columns asked for, whatever the widths
\* of its glyphs (append_pattern_tiled).
LEMMA TiledWidth ==
  ASSUME NEW pattern \in Patterns, NEW cols \in Int
  PROVE  /\ Tiled(pattern, cols) \in Seq(Cell)
         /\ Len(Tiled(pattern, cols)) = AtLeastZero(cols)
<1>1. CASE cols <= 0
  <2>1. Tiled(pattern, cols) = <<>>
    BY ONLY <1>1, Zenon DEF Tiled
  <2>2. AtLeastZero(cols) = 0
    BY <1>1 DEF AtLeastZero
  <2> QED
    BY <2>1, <2>2
<1>2. CASE cols > 0
  <2> DEFINE l == Len(pattern)
             From == CHOOSE f : f = [n \in 0 .. cols |-> [p \in 1 .. l |->
                       IF Len(pattern[p]) > n THEN Blank(n)
                       ELSE pattern[p] \o f[n - Len(pattern[p])][(p % l) + 1]]]
  <2>1. cols \in Nat /\ ~(cols <= 0) /\ AtLeastZero(cols) = cols
    BY SMTT(30), <1>2 DEF AtLeastZero
  <2>2. Tiled(pattern, cols) = From[cols][1]
    BY <2>1 DEF Tiled
  <2>3. PICK t : Tiling(pattern, t, cols)
    BY <2>1, TilingUpTo
  <2>4. t = [n \in 0 .. cols |-> [p \in 1 .. l |-> TileStep(pattern, t, n, p)]]
    <3>1. /\ t \in [0 .. cols -> [1 .. l -> Seq(Cell)]]
          /\ \A n \in 0 .. cols : \A p \in 1 .. l : t[n][p] = TileStep(pattern, t, n, p)
      BY SMTT(30), <2>3 DEF Tiling
    <3>2. \A n \in 0 .. cols : t[n] = [p \in 1 .. l |-> TileStep(pattern, t, n, p)]
      BY <3>1
    <3> QED
      BY <3>1, <3>2
  <2>5. From = [n \in 0 .. cols |-> [p \in 1 .. l |-> TileStep(pattern, From, n, p)]]
    BY <2>4 DEF TileStep
  <2> HIDE DEF From
  <2>6. /\ l \in Nat /\ l > 0
        /\ \A p \in 1 .. l : /\ Len(pattern[p]) \in Nat /\ Len(pattern[p]) > 0
                             /\ (p % l) + 1 \in 1 .. l
    BY PatternParts
  <2> HIDE DEF l
  <2>7. \A n \in 0 .. cols : \A p \in 1 .. l : From[n][p] = TileStep(pattern, From, n, p)
    <3>1. ASSUME NEW n \in 0 .. cols, NEW p \in 1 .. l
          PROVE  From[n][p] = TileStep(pattern, From, n, p)
      <4>1. From[n] = [q \in 1 .. l |-> TileStep(pattern, From, n, q)]
        BY <2>5
      <4> QED
        BY <4>1
    <3> QED
      BY <3>1
  <2> DEFINE Exact(n) == \A p \in 1 .. l : /\ From[n][p] \in Seq(Cell)
                                           /\ Len(From[n][p]) = n
             R == {m \in 0 .. cols : \A n \in 0 .. m : Exact(n)}
  <2>8. ASSUME NEW k \in 0 .. cols, \A n \in 0 .. k - 1 : Exact(n) PROVE Exact(k)
    <3>1. ASSUME NEW p \in 1 .. l
          PROVE  From[k][p] \in Seq(Cell) /\ Len(From[k][p]) = k
      <4>1. ASSUME Len(pattern[p]) <= k
            PROVE  /\ From[k - Len(pattern[p])][(p % l) + 1] \in Seq(Cell)
                   /\ Len(From[k - Len(pattern[p])][(p % l) + 1]) = k - Len(pattern[p])
        <5>1. k - Len(pattern[p]) \in 0 .. k - 1 /\ (p % l) + 1 \in 1 .. l
          BY <2>6, <4>1
        <5> QED
          BY <2>8, <5>1
      <4>2. k \in Nat /\ p \in 1 .. Len(pattern)
        BY DEF l
      <4>3. /\ TileStep(pattern, From, k, p) \in Seq(Cell)
            /\ Len(TileStep(pattern, From, k, p)) = k
        BY <4>1, <4>2, TileStepWidth DEF l
      <4> QED
        BY <2>7, <4>3
    <3> QED
      BY <3>1
  <2> HIDE DEF Exact
  <2>9. 0 \in R
    <3>1. Exact(0)
      BY <2>1, <2>8
    <3> QED
      BY <2>1, <3>1
  <2>10. ASSUME NEW m \in 0 .. cols - 1, m \in R PROVE m + 1 \in R
    <3>1. \A n \in 0 .. m : Exact(n)
      BY <2>10
    <3>2. m + 1 \in 0 .. cols /\ (m + 1) - 1 = m
      BY <2>1
    <3>3. Exact(m + 1)
      BY <2>8, <3>1, <3>2
    <3>4. \A n \in 0 .. m + 1 : n = m + 1 \/ n \in 0 .. m
      OBVIOUS
    <3> QED
      BY <3>1, <3>2, <3>3, <3>4
  <2> HIDE DEF R
  <2>11. \A m \in 0 .. cols : m \in R
    BY <2>1, <2>9, <2>10, InductiveUpTo
  <2>12. Exact(cols)
    BY <2>1, <2>11 DEF R
  <2>13. From[cols][1] \in Seq(Cell) /\ Len(From[cols][1]) = cols
    BY <2>6, <2>12 DEF Exact
  <2> QED
    BY <2>1, <2>2, <2>13
<1> QED
  BY <1>1, <1>2

\* An edge is as wide as asked for when its title and the paddings beside it
\* fit (tui_border_render_horizontal).
LEMMA EdgeWidth ==
  ASSUME NEW e \in Edges, NEW width \in Nat
  PROVE  /\ Edge(e, width) \in Seq(Cell)
         /\ e.title = <<>> \/ e.title_pad_left + Len(e.title) + e.title_pad_right <= width
              => Len(Edge(e, width)) = width
<1> DEFINE l     == e.title_pad_left
           r     == e.title_pad_right
           slot  == l + Len(e.title) + r
           room  == width - slot
           left  == Lead(room, e.align)
           right == room - left
<1>1. /\ e.title \in Seq(Ink) /\ e.align \in Aligns /\ e.pattern \in Patterns
      /\ l \in Nat /\ r \in Nat
  BY LayoutAssumption DEF Patterns
<1>2. e.title \in Seq(Cell) /\ Len(e.title) \in Nat
  <2>1. Ink \subseteq Cell
    BY DEF Cell
  <2>2. e.title \in Seq(Cell)
    BY <1>1, <2>1, SeqMonotonic
  <2> QED
    BY <2>2
<1>3. CASE e.title = <<>>
  <2>1. Edge(e, width) = Tiled(e.pattern, width)
    BY <1>3 DEF Edge
  <2>2. width \in Int /\ AtLeastZero(width) = width
    BY DEF AtLeastZero
  <2> QED
    BY <1>1, <2>1, <2>2, TiledWidth
<1>4. CASE e.title # <<>>
  <2> DEFINE t  == e.title
             a  == Tiled(e.pattern, left)
             bl == Blank(l)
             br == Blank(r)
             z  == Tiled(e.pattern, right)
             x  == a \o bl \o t
  <2>1. Edge(e, width) = x \o br \o z
    <3>1. right = width - slot - left
      OBVIOUS
    <3> QED
      BY <1>4, <3>1 DEF Edge
  <2>2. slot \in Nat /\ room \in Int /\ room = width - slot
    BY SMTT(30), <1>1, <1>2
  <2>3. /\ left \in Nat /\ right \in Int /\ right = room - left
        /\ room >= 0 => left <= room
    <3> HIDE DEF room
    <3> QED
      BY <1>1, <2>2, LeadInRoom
  <2>4. slot = l + Len(t) + r
    OBVIOUS
  <2> HIDE DEF slot, room, left, right
  <2>5. /\ a \in Seq(Cell) /\ Len(a) = left
        /\ z \in Seq(Cell) /\ Len(z) = AtLeastZero(right)
    <3>1. left \in Int /\ AtLeastZero(left) = left
      BY <2>3 DEF AtLeastZero
    <3>2. /\ a \in Seq(Cell) /\ Len(a) = AtLeastZero(left)
      BY <1>1, <3>1, TiledWidth
    <3>3. z \in Seq(Cell) /\ Len(z) = AtLeastZero(right)
      BY <1>1, <2>3, TiledWidth
    <3> QED
      BY <3>1, <3>2, <3>3
  <2> HIDE DEF l, r
  <2>6. /\ bl \in Seq(Cell) /\ Len(bl) = l
        /\ br \in Seq(Cell) /\ Len(br) = r
    <3>1. l \in Int /\ r \in Int /\ AtLeastZero(l) = l /\ AtLeastZero(r) = r
      BY <1>1 DEF AtLeastZero
    <3> QED
      BY <3>1, Blanks
  <2> HIDE DEF a, bl, br, z, t
  <2>7. t \in Seq(Cell) /\ Len(t) \in Nat
    BY <1>2 DEF t
  <2>8. x \in Seq(Cell) /\ Len(x) = Len(a) + Len(bl) + Len(t)
    <3>1. a \in Seq(Cell) /\ bl \in Seq(Cell) /\ t \in Seq(Cell)
      BY <2>5, <2>6, <2>7
    <3> QED
      BY <3>1, Three
  <2> HIDE DEF x
  <2>9. /\ x \o br \o z \in Seq(Cell)
        /\ Len(x \o br \o z) = Len(x) + Len(br) + Len(z)
    <3>1. x \in Seq(Cell) /\ br \in Seq(Cell) /\ z \in Seq(Cell)
      BY <2>5, <2>6, <2>8
    <3> QED
      BY <3>1, Three
  <2>10. ASSUME slot <= width PROVE Len(Edge(e, width)) = width
    <3>1. AtLeastZero(right) = right
      BY <2>2, <2>3, <2>10 DEF AtLeastZero
    <3>2. Len(Edge(e, width)) = left + l + Len(t) + r + right
      BY <1>1, <2>1, <2>3, <2>5, <2>6, <2>7, <2>8, <2>9, <3>1
    <3> QED
      BY <1>1, <2>2, <2>3, <2>4, <2>7, <3>2
  <2> QED
    BY <1>4, <2>1, <2>9, <2>10 DEF slot, l, r
<1> QED
  BY <1>3, <1>4

----------------------------------------------------------------------------
(* The calls of the application                                            *)

\* What every call leaves behind.
LayoutInv == ComposedWhole /\ RenderedAsMeasured

\* Rows that were kept are found in the block.
FoundRows(big, rows, top) == \A i \in DOMAIN rows :
  /\ top + i \in DOMAIN big
  /\ \E c \in 0 .. Len(big[top + i]) : FoundBehind(big[top + i], rows[i], c)

LEMMA KeptIsFound ==
  ASSUME NEW rows \in Seq(Seq(Cell)), rows # <<>>, NEW big \in Seq(Seq(Cell)),
         NEW top \in Nat, RowsFrom(big, rows, top)
  PROVE  top \in 0 .. Len(big) /\ FoundRows(big, rows, top)
<1>1. ASSUME NEW i \in DOMAIN rows
      PROVE  /\ top + i \in DOMAIN big
             /\ \E c \in 0 .. Len(big[top + i]) : FoundBehind(big[top + i], rows[i], c)
  <2>1. /\ top + i \in DOMAIN big /\ RowHas(big[top + i], rows[i])
        /\ rows[i] \in Seq(Cell)
    BY DEF RowsFrom
  <2>2. \E c \in 0 .. Len(big[top + i]) :
          /\ c + Len(rows[i]) <= Len(big[top + i])
          /\ SubSeq(big[top + i], c + 1, c + Len(rows[i])) = rows[i]
    BY <2>1, ContainedIsFound
  <2> QED
    BY <2>1, <2>2 DEF FoundBehind
<1>2. FoundRows(big, rows, top)
  BY <1>1 DEF FoundRows
<1>3. 1 \in DOMAIN rows
  BY EmptySeq, LenProperties
<1>4. top + 1 \in 1 .. Len(big) /\ Len(big) \in Nat
  BY <1>1, <1>3
<1> QED
  BY <1>2, <1>4

\* A call that is given one block keeps it.
LEMMA OneBlockKept ==
  ASSUME made'.op \in {"render", "ornate", "inline", "place", "divide"},
         made'.blocks[1] = block, block \in Seq(Seq(Cell)), block # <<>>,
         block' \in Seq(Seq(Cell)),
         \/ made'.fits /\ made'.whole
         \/ made'.op \in {"inline", "divide"}
         => \E top \in Nat : RowsFrom(block', block, top)
  PROVE  ContentKept'
<1> DEFINE kept == \/ made'.fits /\ made'.whole
                   \/ made'.op \in {"inline", "divide"}
<1>1. ASSUME kept
      PROVE  \E top \in 0 .. Len(block') : FoundRows(block', block, top)
  <2>1. PICK top \in Nat : RowsFrom(block', block, top)
    BY <1>1
  <2>2. top \in 0 .. Len(block') /\ FoundRows(block', block, top)
    BY <2>1, KeptIsFound
  <2> QED
    BY <2>2
<1>2. ASSUME kept
      PROVE  \E top \in 0 .. Len(block') : FoundFrom(made.blocks[1], top)'
  <2>1. PICK top \in 0 .. Len(block') : FoundRows(block', block, top)
    BY <1>1, <1>2
  <2>2. FoundFrom(made.blocks[1], top)'
    BY <2>1 DEF FoundFrom, At, FoundRows, FoundBehind
  <2> QED
    BY <2>2
<1> QED
  BY <1>2 DEF ContentKept

\* A call of tui_style_render on any block gives what was measured for it,
\* and keeps the rows it was given.
THEOREM RenderKeepsMeasure ==
  ASSUME NEW s \in Styles, LayoutTypeOK, DoRender(s)
  PROVE  LayoutInv'
<1>0. block \in Seq(Seq(Cell)) /\ block # <<>> /\ IsBlock(block)
  BY BlocksAre DEF LayoutTypeOK
<1>1. /\ block' = Render(s, block)
      /\ made'.op = IF s.inline_ THEN "inline"
                    ELSE IF OneColumn(s) THEN "render" ELSE "ornate"
      /\ made'.height = GetHeight(s, block) /\ made'.width = GetWidth(s, block)
      /\ made'.fits = (Natural(block) <= InnerWidth(s, block))
      /\ made'.whole = (Len(block) <= InnerHeight(s, block))
      /\ made'.blocks[1] = block
  BY DEF DoRender, Made
<1>2. s.inline_ \in BOOLEAN
  BY StyleFields DEF StyleTyped
<1>3. RenderedAsMeasured'
  <2>1. CASE s.inline_
    <3>1. made'.op = "inline"
      BY <1>1, <2>1
    <3> QED
      BY <3>1 DEF RenderedAsMeasured, RenderedHeight, RenderedWidth
  <2>2. CASE ~s.inline_
    <3>1. GetHeight(s, block) > 0 => Len(block') = made'.height
      BY <1>0, <1>1, <2>2, RenderHasHeight
    <3>2. OneColumn(s) /\ made'.fits /\ GetHeight(s, block) > 0 =>
            \A i \in DOMAIN block' : Len(block'[i]) \in {0, made'.width}
      BY <1>0, <1>1, <2>2, RenderHasWidth
    <3> QED
      BY <1>1, <3>1, <3>2 DEF RenderedAsMeasured, RenderedHeight, RenderedWidth
  <2> QED
    BY <1>2, <2>1, <2>2
<1>4. made'.op \in {"render", "ornate", "inline"}
  BY <1>1
<1>5. block' \in Seq(Seq(Cell)) /\ block' # <<>>
  BY <1>0, <1>1, RenderKeepsRows
<1>6. \/ made'.fits /\ made'.whole
      \/ made'.op \in {"inline", "divide"}
      => \E top \in Nat : RowsFrom(block', block, top)
  <2>1. s.inline_ \/ made'.whole => \E top \in Nat : RowsFrom(block', block, top)
    BY <1>0, <1>1, RenderKeepsRows
  <2>2. made'.op \in {"inline", "divide"} => s.inline_
    BY <1>1
  <2> QED
    BY <2>1, <2>2
<1>7. ContentKept'
  BY <1>0, <1>1, <1>4, <1>5, <1>6, OneBlockKept
<1>8. LayoutTypeOK'
  BY <1>4, <1>5 DEF LayoutTypeOK
<1> QED
  BY <1>3, <1>4, <1>7, <1>8
  DEF LayoutInv, ComposedWhole, PlacedInBox, JoinedEvenly, EdgeAsWide

\* A call of tui_place on any block fills the box it names, and keeps the
\* rows it was given.
THEOREM PlaceKeepsBox ==
  ASSUME NEW box \in Boxes, NEW halign \in Aligns, NEW valign \in Aligns,
         LayoutTypeOK, DoPlace(box, halign, valign)
  PROVE  LayoutInv'
<1>0. block \in Seq(Seq(Cell)) /\ block # <<>> /\ IsBlock(block)
  BY BlocksAre DEF LayoutTypeOK
<1>1. box[1] \in Nat /\ box[2] \in Nat \ {0}
  BY LayoutAssumption
<1>2. /\ block' = Place(box[1], box[2], halign, valign, block)
      /\ made'.op = "place" /\ made'.blocks[1] = block
      /\ made'.width = box[1] /\ made'.height = box[2]
      /\ made'.fits = (Natural(block) <= box[1])
      /\ made'.whole = (Len(block) <= box[2])
  BY DEF DoPlace, Made
<1>3. ASSUME made'.fits PROVE \A i \in DOMAIN block : Len(block[i]) <= box[1]
  <2>1. /\ Natural(block) \in Nat /\ Natural(block) <= box[1]
        /\ \A i \in DOMAIN block : Len(block[i]) <= Natural(block)
    BY <1>0, <1>2, <1>3, NaturalWidth
  <2>2. \A i \in DOMAIN block : Len(block[i]) \in Nat
    BY <1>0
  <2> QED
    BY <1>1, <2>1, <2>2
<1>4. /\ block' \in Seq(Seq(Cell)) /\ block' # <<>>
      /\ made'.fits /\ made'.whole => \E top \in Nat : RowsFrom(block', block, top)
  BY <1>0, <1>1, <1>2, <1>3, PlaceKeepsRows
<1>5. ASSUME made'.fits
      PROVE  /\ Len(block') = box[2]
             /\ \A i \in DOMAIN block' : Len(block'[i]) = box[1]
  <2>1. /\ Len(block') = box[2]
        /\ \A i \in 1 .. box[2] : Len(block'[i]) = box[1]
    BY SMTT(30), <1>0, <1>1, <1>2, <1>3, <1>5, PlaceFillsBox
  <2>2. DOMAIN block' = 1 .. box[2]
    BY <1>4, <2>1
  <2> QED
    BY <2>1, <2>2
<1>6. PlacedInBox'
  BY <1>2, <1>5 DEF PlacedInBox, Rectangle
<1>7. ContentKept'
  BY <1>0, <1>2, <1>4, OneBlockKept
<1>8. LayoutTypeOK'
  BY <1>2, <1>4 DEF LayoutTypeOK
<1> QED
  BY <1>2, <1>6, <1>7, <1>8
  DEF LayoutInv, ComposedWhole, JoinedEvenly, EdgeAsWide,
      RenderedAsMeasured, RenderedHeight, RenderedWidth

\* A join of any blocks is a rectangle as wide and as high as they are
\* together, and keeps every row of every one of them.
THEOREM JoinKeepsBlocks ==
  ASSUME NEW op, NEW align \in Aligns, NEW blocks \in Blocks, DoJoin(op, align, blocks)
  PROVE  LayoutInv'
<1>1. CASE op = "beside"
  <2>1. /\ block' = JoinHorizontal(align, blocks)
        /\ made'.op = "beside" /\ made'.blocks = blocks
        /\ made'.width = Total(BlockWidths(blocks))
        /\ made'.height = Tallest(blocks)
    BY <1>1 DEF DoJoin, Made, BlockWidths
  <2>2. /\ block' \in Seq(Seq(Cell)) /\ block' # <<>>
        /\ Len(block') = made'.height
        /\ \A i \in DOMAIN block' : Len(block'[i]) = made'.width
    BY <2>1, HorizontalKeepsRows
  <2>3. \A k \in 1 .. Len(blocks) : \E top \in Nat : \A i \in DOMAIN blocks[k] :
          /\ top + i \in DOMAIN block'
          /\ FoundBehind(block'[top + i], blocks[k][i], Len(Before(blocks, k)))
    BY <2>1, HorizontalKeepsRows
  <2>4. ASSUME NEW k \in DOMAIN blocks
        PROVE  \E top \in 0 .. Len(block') : \A i \in DOMAIN blocks[k] :
                 /\ top + i \in DOMAIN block'
                 /\ FoundBehind(block'[top + i], blocks[k][i], Len(Before(blocks, k)))
    <3>1. /\ k \in 1 .. Len(blocks) /\ Len(blocks[k]) > 0 /\ Len(blocks[k]) \in Nat
          /\ DOMAIN blocks[k] = 1 .. Len(blocks[k])
      BY BlockParts
    <3>2. PICK top \in Nat : \A i \in DOMAIN blocks[k] :
            /\ top + i \in DOMAIN block'
            /\ FoundBehind(block'[top + i], blocks[k][i], Len(Before(blocks, k)))
      BY <2>3, <3>1
    <3>3. top + 1 \in DOMAIN block'
      BY <3>1, <3>2
    <3>4. top \in 0 .. Len(block')
      BY <2>2, <3>3
    <3> QED
      BY <3>2, <3>4
  <2>5. ContentKept'
    <3>1. ASSUME NEW k \in DOMAIN blocks
          PROVE  LET before == FlattenSeq([j \in 1 .. k - 1 |->
                                             Blank(Natural(blocks[j]))])
                 IN  \E top \in 0 .. Len(block') : \A i \in DOMAIN blocks[k] :
                       /\ top + i \in DOMAIN block'
                       /\ At(blocks[k][i], top + i, Len(before))'
      <4>1. PICK top \in 0 .. Len(block') : \A i \in DOMAIN blocks[k] :
              /\ top + i \in DOMAIN block'
              /\ FoundBehind(block'[top + i], blocks[k][i], Len(Before(blocks, k)))
        BY <2>4
      <4>2. \A i \in DOMAIN blocks[k] :
              /\ top + i \in DOMAIN block'
              /\ At(blocks[k][i], top + i, Len(Before(blocks, k)))'
        BY <4>1 DEF At, FoundBehind
      <4> QED
        BY <4>2 DEF Before
    <3>2. ~(made'.op \in {"render", "ornate", "inline", "place", "divide"}) /\ made'.op # "below"
      BY <2>1
    <3> QED
      BY SMTT(30), <2>1, <3>1, <3>2 DEF ContentKept, At
  <2>6. JoinedEvenly'
    BY <2>2 DEF JoinedEvenly, Rectangle
  <2>7. LayoutTypeOK'
    BY <2>1, <2>2 DEF LayoutTypeOK
  <2> QED
    BY <2>1, <2>5, <2>6, <2>7
    DEF LayoutInv, ComposedWhole, PlacedInBox, EdgeAsWide,
        RenderedAsMeasured, RenderedHeight, RenderedWidth
<1>2. CASE op = "below"
  <2> DEFINE rows == FlattenSeq(blocks)
  <2>1. /\ block' = JoinVertical(align, blocks)
        /\ made'.op = "below" /\ made'.blocks = blocks
        /\ made'.width = Natural(rows)
        /\ made'.height = Total(Heights(blocks))
    BY <1>2 DEF DoJoin, Made, Heights
  <2>2. /\ block' \in Seq(Seq(Cell)) /\ block' # <<>>
        /\ Len(block') = made'.height
        /\ \A i \in DOMAIN block' : Len(block'[i]) = made'.width
        /\ RowsFrom(block', rows, 0)
    BY <2>1, VerticalKeepsRows
  <2>3. rows \in Seq(Seq(Cell)) /\ rows # <<>>
    BY BlockSizes
  <2> HIDE DEF rows
  <2>4. FoundRows(block', rows, 0)
    BY <2>2, <2>3, KeptIsFound
  <2>5. FoundFrom(FlattenSeq(made.blocks), 0)'
    BY <2>1, <2>4 DEF FoundFrom, At, FoundRows, FoundBehind, rows
  <2>6. ContentKept'
    BY <2>1, <2>5 DEF ContentKept
  <2>7. JoinedEvenly'
    BY <2>2 DEF JoinedEvenly, Rectangle
  <2>8. LayoutTypeOK'
    BY <2>1, <2>2 DEF LayoutTypeOK
  <2> QED
    BY <2>1, <2>6, <2>7, <2>8
    DEF LayoutInv, ComposedWhole, PlacedInBox, EdgeAsWide,
        RenderedAsMeasured, RenderedHeight, RenderedWidth
<1> QED
  BY <1>1, <1>2 DEF DoJoin

\* A divider under any block is as wide as the block, and leaves it there.
THEOREM DividerKeepsBlock ==
  ASSUME NEW e \in Edges, LayoutTypeOK, DoDivide(e)
  PROVE  LayoutInv'
<1> DEFINE edge == Edge(e, Natural(block))
<1>0. block \in Seq(Seq(Cell)) /\ block # <<>> /\ IsBlock(block)
  BY BlocksAre DEF LayoutTypeOK
<1>1. /\ block' = block \o <<edge>>
      /\ made'.op = "divide" /\ made'.blocks[1] = block
      /\ made'.width = Natural(block)
      /\ made'.fits = (e.title = <<>>
                         \/ e.title_pad_left + Len(e.title) + e.title_pad_right
                              <= Natural(block))
  BY DEF DoDivide, Made
<1>2. Natural(block) \in Nat
  BY <1>0, NaturalWidth
<1>3. edge \in Seq(Cell) /\ (made'.fits => Len(edge) = made'.width)
  BY <1>1, <1>2, EdgeWidth
<1> HIDE DEF edge
<1>4. <<edge>> \in Seq(Seq(Cell)) /\ Len(<<edge>>) = 1
  BY <1>3
<1>5. block' \in Seq(Seq(Cell)) /\ Len(block') = Len(block) + 1
  BY <1>0, <1>1, <1>4, ConcatProperties
<1>6. block' # <<>> /\ Last(block') = edge
  <2>1. Len(block) \in Nat
    BY <1>0
  <2>2. block'[Len(block) + 1] = edge
    BY <1>0, <1>1, <1>4
  <2> QED
    BY <1>5, <2>1, <2>2 DEF Last
<1>7. EdgeAsWide'
  BY <1>3, <1>6 DEF EdgeAsWide
<1>8. RowsFrom(block', block, 0)
  <2>1. \A i \in DOMAIN block : 0 + i \in DOMAIN block /\ RowHas(block[0 + i], block[i])
    <3>1. \A i \in DOMAIN block : 0 + i = i /\ block[i] \in Seq(Cell)
      BY <1>0
    <3> QED
      BY <3>1, ContainsItself
  <2>2. RowsFrom(block, block, 0)
    BY <2>1 DEF RowsFrom
  <2> QED
    BY <1>0, <1>1, <1>4, <2>2, RowsBefore
<1>9. ContentKept'
  BY <1>0, <1>1, <1>5, <1>8, OneBlockKept
<1>10. LayoutTypeOK'
  BY <1>1, <1>5, <1>6 DEF LayoutTypeOK
<1> QED
  BY <1>1, <1>7, <1>9, <1>10
  DEF LayoutInv, ComposedWhole, PlacedInBox, JoinedEvenly,
      RenderedAsMeasured, RenderedHeight, RenderedWidth

\* The texts an application starts from hold nothing yet.
LEMMA TextsAreBlocks ==
  ASSUME NEW text \in Texts PROVE text \in Seq(Seq(Cell)) /\ text # <<>>
BY LayoutAssumption

\* What is kept depends on the block and on the call alone.
Kept(big, call) ==
  /\ \/ call.op \in {"render", "ornate", "place"} /\ call.fits /\ call.whole
     \/ call.op \in {"inline", "divide"}
     => \E top \in 0 .. Len(big) : FoundRows(big, call.blocks[1], top)
  /\ call.op = "below" => FoundRows(big, FlattenSeq(call.blocks), 0)
  /\ call.op = "beside" =>
       \A k \in DOMAIN call.blocks :
         \E top \in 0 .. Len(big) : \A i \in DOMAIN call.blocks[k] :
           /\ top + i \in DOMAIN big
           /\ FoundBehind(big[top + i], call.blocks[k][i],
                          Len(Before(call.blocks, k)))

LEMMA SameContentKept ==
  ASSUME block' = block, made' = made, ContentKept
  PROVE  ContentKept'
<1>1. Kept(block, made)
  BY DEF Kept, ContentKept, FoundFrom, At, FoundRows, FoundBehind, Before
<1>2. Kept(block', made')
  BY <1>1
<1> QED
  BY <1>2 DEF Kept, ContentKept, FoundFrom, At, FoundRows, FoundBehind, Before

\* Whatever calls came before, the next one returns a block of the shape and
\* the size it promises that holds all it was given, where that fits: the
\* size was measured by other functions than those that render and place.
THEOREM LayoutInvariant == LayoutSpec => []LayoutInv
<1> USE DEF ComposedWhole, PlacedInBox, JoinedEvenly, EdgeAsWide, ContentKept,
            RenderedAsMeasured, RenderedHeight, RenderedWidth
<1>1. LayoutInit => LayoutInv
  <2> SUFFICES ASSUME LayoutInit PROVE LayoutInv
    OBVIOUS
  <2>1. block \in Seq(Seq(Cell)) /\ block # <<>> /\ made.op = "none"
    BY TextsAreBlocks DEF LayoutInit, NoCall, Made
  <2> QED
    BY <2>1 DEF LayoutInv, LayoutTypeOK
<1>2. LayoutInv /\ [LayoutNext]_layoutVars => LayoutInv'
  <2> SUFFICES ASSUME LayoutInv, [LayoutNext]_layoutVars PROVE LayoutInv'
    OBVIOUS
  <2>1. LayoutTypeOK
    BY DEF LayoutInv
  <2>2. ASSUME NEW s \in Styles, DoRender(s) PROVE LayoutInv'
    BY <2>1, <2>2, RenderKeepsMeasure
  <2>3. ASSUME NEW box \in Boxes, NEW halign \in Aligns, NEW valign \in Aligns,
               DoPlace(box, halign, valign)
        PROVE  LayoutInv'
    BY <2>1, <2>3, PlaceKeepsBox
  <2>4. ASSUME NEW op, NEW align \in Aligns, NEW text \in Texts,
               \/ DoJoin(op, align, <<block, text>>)
               \/ DoJoin(op, align, <<text, block, text>>)
        PROVE  LayoutInv'
    <3> DEFINE B == Seq(Seq(Cell)) \ {<<>>}
    <3>1. block \in B /\ text \in B
      BY <2>1, TextsAreBlocks DEF LayoutTypeOK
    <3> HIDE DEF B
    <3>2. <<block, text>> \in Seq(B) \ {<<>>} /\ <<text, block, text>> \in Seq(B) \ {<<>>}
      BY <3>1
    <3>3. <<block, text>> \in Blocks /\ <<text, block, text>> \in Blocks
      BY <3>2 DEF B, Blocks
    <3> QED
      BY <2>4, <3>3, JoinKeepsBlocks
  <2>5. ASSUME NEW e \in Edges, DoDivide(e) PROVE LayoutInv'
    BY <2>1, <2>5, DividerKeepsBlock
  <2>6. CASE NextFrame
    <3>1. block' \in Seq(Seq(Cell)) /\ block' # <<>> /\ made'.op = "none"
      BY <2>6, TextsAreBlocks DEF NextFrame, NoCall, Made
    <3> QED
      BY <3>1 DEF LayoutInv, LayoutTypeOK
  <2>7. CASE UNCHANGED layoutVars
    <3>1. block' = block /\ made' = made
      BY <2>7 DEF layoutVars
    <3>2. LayoutTypeOK' /\ PlacedInBox' /\ JoinedEvenly' /\ EdgeAsWide'
          /\ RenderedAsMeasured'
      BY <3>1 DEF LayoutInv, LayoutTypeOK, Rectangle
    <3>3. ContentKept'
      <4> HIDE DEF ContentKept
      <4>1. ContentKept
        BY DEF LayoutInv
      <4> QED
        BY <3>1, <4>1, SameContentKept
    <3> QED
      BY <3>2, <3>3 DEF LayoutInv
  <2> HIDE DEF ComposedWhole, RenderedAsMeasured
  <2> QED
    BY <2>2, <2>3, <2>4, <2>5, <2>6, <2>7 DEF LayoutNext, DoCall
<1> QED
  BY <1>1, <1>2, PTL DEF LayoutSpec

\* What tui_style_get_width and tui_style_get_height measure before a block
\* is rendered is what rendering it gives: the rows for every style that is
\* not inline, the columns for a border of one column and content that fits.
THEOREM MeasuresAreRight == LayoutSpec => []RenderedAsMeasured
<1>1. LayoutInv => RenderedAsMeasured
  BY DEF LayoutInv
<1> QED
  BY <1>1, LayoutInvariant, PTL

\* Every call returns a block of the shape it promises with all it was given,
\* provided that fits the size it was given: what is too high is cut off, and
\* a row that is too wide is left to overflow.
THEOREM CompositionIsWhole == LayoutSpec => []ComposedWhole
<1>1. LayoutInv => ComposedWhole
  BY DEF LayoutInv
<1> QED
  BY <1>1, LayoutInvariant, PTL

----------------------------------------------------------------------------
(* The status bar                                                          *)

\* The row is the mode, a gap and the notification.
Gap ==
  LET padding == term_width - notification_display_width
                   - (IF mode_text = <<>> THEN 0 ELSE mode_display_width)
  IN  IF notification = <<>> THEN <<>>
      ELSE IF padding > 0 THEN Spaces(padding)
      ELSE IF mode_text = <<>> THEN <<>> ELSE Spaces(2)

\* What a column of the status bar holds.
Column == STRING \cup {"blank"}

\* The cached widths are those of the texts.
StatusBarInv ==
  /\ SBTypeOK
  /\ mode_display_width = Len(mode_text)
  /\ notification_display_width = Len(notification)

\* The inductive invariant of the status bar.
THEOREM StatusBarInvariant == SBSpec => []StatusBarInv
<1>1. SBInit => StatusBarInv
  BY DEF SBInit, StatusBarInv, SBTypeOK
<1>2. StatusBarInv /\ [SBNext]_sbVars => StatusBarInv'
  <2> SUFFICES ASSUME StatusBarInv, [SBNext]_sbVars PROVE StatusBarInv'
    OBVIOUS
  <2> USE DEF StatusBarInv, SBTypeOK
  <2>1. ASSUME NEW text \in Messages, SetMode(text) PROVE StatusBarInv'
    BY <2>1 DEF SetMode, notifVars
  <2>2. ASSUME NEW text \in Messages, SetNotification(text) PROVE StatusBarInv'
    BY <2>2 DEF SetNotification, modeTextVars
  <2>3. CASE ClearNotification
    BY <2>3 DEF ClearNotification, modeTextVars
  <2>4. ASSUME NEW w \in Widths, SetTerminalWidth(w) PROVE StatusBarInv'
    BY <2>4 DEF SetTerminalWidth, modeTextVars, notifVars
  <2>5. CASE UNCHANGED sbVars
    BY <2>5 DEF sbVars, modeTextVars, notifVars
  <2> QED
    BY <2>1, <2>2, <2>3, <2>4, <2>5 DEF SBNext
<1> QED
  BY <1>1, <1>2, PTL DEF SBSpec

\* Whatever was set, cleared, failed and resized, the bar of texts the terminal
\* has room for is a single line with the mode at its left end and the
\* notification against the right edge (tui_statusbar_view).
THEOREM StatusBarHoldsBoth == SBSpec => []RowHolds
<1>1. StatusBarInv => RowHolds
  <2> SUFFICES ASSUME StatusBarInv PROVE RowHolds
    OBVIOUS
  <2> DEFINE m == mode_text
             n == notification
             g == Gap
             w == term_width
             p == w - Len(n) - Len(m)
  <2>1. m \in Seq(Column) /\ n \in Seq(Column) /\ SBTypeOK
    <3>1. <<>> \in Seq(Column)
      OBVIOUS
    <3>2. ASSUME NEW t \in Messages PROVE t \in Seq(Column)
      <4>1. t \in Seq(STRING) /\ STRING \subseteq Column
        BY StatusBarAssumption DEF Column
      <4> QED
        BY <4>1, SeqMonotonic
    <3> QED
      BY <3>1, <3>2 DEF StatusBarInv, SBTypeOK
  <2>2. /\ Len(m) \in Nat /\ Len(n) \in Nat
        /\ (m = <<>> <=> Len(m) = 0) /\ (n = <<>> <=> Len(n) = 0)
    BY <2>1, EmptySeq, LenProperties
  <2>3. w \in Nat
    BY StatusBarAssumption DEF StatusBarInv, SBTypeOK, term_width
  <2>4. p \in Int
    BY <2>2, <2>3
  <2>5. g = IF n = <<>> THEN <<>> ELSE IF p > 0 THEN Spaces(p)
            ELSE IF m = <<>> THEN <<>> ELSE Spaces(2)
    BY <2>2, <2>3 DEF Gap, StatusBarInv
  <2>6. Row = m \o g \o n
    <3>1. CASE n = <<>>
      <4>1. m \o <<>> = m
        BY <2>1, ConcatEmptySeq
      <4> QED
        BY <2>5, <3>1, <4>1 DEF Row
    <3>2. CASE n # <<>>
      BY <3>2 DEF Row, Gap
    <3> QED
      BY <3>1, <3>2
  <2> HIDE DEF m, g, n, w, p
  <2>7. \A k \in Nat : Spaces(k) \in Seq(Column) /\ Len(Spaces(k)) = k
    <3>1. "blank" \in Column
      BY DEF Column
    <3> QED
      BY <3>1, Repeated DEF Spaces
  <2>8. /\ g \in Seq(Column)
        /\ Len(g) = IF n = <<>> THEN 0 ELSE IF p > 0 THEN p
                    ELSE IF m = <<>> THEN 0 ELSE 2
    <3>1. <<>> \in Seq(Column) /\ Len(<<>>) = 0
      OBVIOUS
    <3>2. p > 0 => p \in Nat
      BY <2>4
    <3> QED
      BY <2>5, <2>7, <3>1, <3>2
  <2>9. Row \in Seq(Column) /\ Len(Row) = Len(m) + Len(g) + Len(n)
    <3>1. m \in Seq(Column) /\ g \in Seq(Column) /\ n \in Seq(Column)
      BY <2>1, <2>8
    <3>2. /\ m \o g \o n \in Seq(Column)
          /\ Len(m \o g \o n) = Len(m) + Len(g) + Len(n)
      BY <3>1, Three
    <3> QED
      BY <2>6, <3>2
  <2>10. SubSeq(Row, 1, Len(m)) = m
    <3>1. <<>> \in Seq(Column) /\ Len(<<>>) = 0
      OBVIOUS
    <3>2. g \o n \in Seq(Column)
      BY <2>1, <2>8, ConcatProperties
    <3>3. SubSeq(<<>> \o m \o (g \o n), Len(<<>>) + 1, Len(<<>>) + Len(m)) = m
      BY <2>1, <3>1, <3>2, Middle
    <3>4. <<>> \o m = m
      BY <2>1, ConcatEmptySeq
    <3>5. m \o (g \o n) = Row
      BY SMTT(30), <2>1, <2>6, <2>8, ConcatAssociative
    <3>6. Len(<<>>) + 1 = 1 /\ Len(<<>>) + Len(m) = Len(m)
      BY <2>2, <3>1
    <3> QED
      BY <3>3, <3>4, <3>5, <3>6
  <2>11. EndsWith(Row, n)
    <3>1. <<>> \in Seq(Column)
      OBVIOUS
    <3>2. m \o g \in Seq(Column) /\ Len(m \o g) = Len(m) + Len(g)
      BY <2>1, <2>8, ConcatProperties
    <3>3. SubSeq(m \o g \o n \o <<>>, Len(m \o g) + 1, Len(m \o g) + Len(n)) = n
      BY <2>1, <3>1, <3>2, Middle
    <3>4. m \o g \o n \o <<>> = Row
      BY <2>6, <2>9, ConcatEmptySeq
    <3>5. Len(g) \in Nat
      BY <2>8
    <3>6. /\ Len(m \o g) + 1 = Len(Row) - Len(n) + 1
          /\ Len(m \o g) + Len(n) = Len(Row)
      BY <2>2, <2>9, <3>2, <3>5
    <3> QED
      BY <3>3, <3>4, <3>6 DEF EndsWith
  <2>12. ASSUME Len(m) + Len(n) + (IF m = <<>> \/ n = <<>> THEN 0 ELSE 1) <= w
         PROVE  Len(Row) <= w /\ (n # <<>> => Len(Row) = w)
    <3>1. p = w - Len(n) - Len(m)
      BY DEF p
    <3>2. CASE n = <<>>
      BY <2>2, <2>3, <2>8, <2>9, <2>12, <3>2
    <3>3. CASE n # <<>> /\ m = <<>>
      BY <2>2, <2>3, <2>8, <2>9, <2>12, <3>1, <3>3
    <3>4. CASE n # <<>> /\ m # <<>>
      BY <2>2, <2>3, <2>8, <2>9, <2>12, <3>1, <3>4
    <3> QED
      BY <3>2, <3>3, <3>4
  <2> QED
    BY <2>1, <2>10, <2>11, <2>12 DEF RowHolds, HasRoom, m, n, w
<1> QED
  BY <1>1, StatusBarInvariant, PTL

=============================================================================
