----------------------- MODULE EpisodeAssembly_proofs -----------------------
(***************************************************************************)
(* For documents of any length, and any script, lexicon and claims:        *)
(*                                                                         *)
(*  - blocks tile the document (BlocksTileTheSource, by TileInv);          *)
(*  - tokens keep their place (TokensKeepTheirPlace, by TokenInv);         *)
(*  - segments divide the script (SegmentsPartitionTurns, by ScriptInv).   *)
(*                                                                         *)
(* Blocks first.                                                           *)
(* The property speaks of a scan that has ended.  Before it has, the lines *)
(* behind it are either covered by a block it has found or belong to the   *)
(* one it is in, and what the open block may hold depends on its kind: a   *)
(* fenced block has not been closed after its first line; a list knows     *)
(* whether a fence is open in it and where its latest item has its column, *)
(* so that a heading in it is under one or the other; and when its latest  *)
(* line is blank and no fence is open, then more of the list is ahead,     *)
(* which is what the scan's lookahead found out.                           *)
(***************************************************************************)
EXTENDS EpisodeAssembly, Integers, NaturalsInduction, WellFoundedInduction, SequenceTheorems,
        TLAPS

Tile == [kind : {"list", "code", "heading", "blockquote", "table", "paragraph"},
         first : Nat, last : Nat]

Openers == {"heading", "quote", "item"}

IsAhead(column, i) ==
  \E j \in i .. Len(lines) :
    /\ \A k \in i .. j - 1 : Kind(k) = "blank"
    /\ Kind(j) \in Lists \/ ContinuesItem(j, column)

(* A fence of this kind was opened in lines first .. i - 1 and not closed, *)
(* and their latest item has its content in this column.                   *)
HasFence(first, fence, i) ==
  \E j \in first .. i - 1 :
    IsFence(j) /\ Marker(j) = fence /\ \A k \in j + 1 .. i - 1 : ~Closes(k, fence)
HasItem(first, column, i) ==
  \E j \in first .. i - 1 :
    /\ Kind(j) \in Lists /\ ContentColumn(j) = column
    /\ \A k \in j + 1 .. i - 1 : Kind(k) \in Lists => UnderFence(first, k)

ScanTypeOK ==
  /\ lines \in Seq(Line)
  /\ at \in 1 .. Len(lines) + 1
  /\ open \in Block \cup {Nothing}
  /\ blocks \in Seq(Tile)

(* The lines of an open block, from its first to the one before line i.    *)
IsOpenCode(b, i) ==
  b.kind = "code" =>
    /\ IsFence(b.first) /\ b.fence = Marker(b.first)
    /\ \A j \in b.first + 1 .. i - 1 : ~Closes(j, b.fence)
IsOpenList(b, i) ==
  b.kind = "list" =>
    /\ b.fence # "none" => HasFence(b.first, b.fence, i)
    /\ HasItem(b.first, b.column, i)
    /\ \A j \in b.first .. i - 1 : Kind(j) \in {"heading", "quote"} =>
         UnderFence(b.first, j) \/ UnderItem(b.first, j)
    /\ Kind(i - 1) # "blank" \/ b.fence # "none" \/ IsAhead(b.column, i)
IsOpenOther(b, i) ==
  /\ b.kind = "heading" => i = b.first + 1 /\ Kind(b.first) = "heading"
  /\ \A j \in b.first .. i - 1 :
       /\ b.kind \in {"blockquote", "table", "paragraph"} => Kind(j) # "blank"
       /\ b.kind = "blockquote" => Kind(j) = "quote"
       /\ b.kind = "paragraph" => Kind(j) \notin Openers
       /\ b.kind = "table" => (Kind(j) \in Openers => Cells(j) > 0)
IsOpen(b, i) ==
  /\ 1 <= b.first /\ b.first < i /\ Kind(b.first) # "blank"
  /\ IsOpenCode(b, i) /\ IsOpenList(b, i) /\ IsOpenOther(b, i)

OpenInv == open # Nothing => IsOpen(open, at)

(* What the property says of one block.                                    *)
IsTile(b) ==
  /\ 1 <= b.first /\ b.first <= b.last /\ b.last <= Len(lines)
  /\ Kind(b.first) # "blank"
  /\ Kind(b.last) # "blank" \/ EndsUnderFence(b)
  /\ \A i \in b.first .. b.last : Kind(i) \in Openers => IsInPlace(b, i)

TilesInv ==
  \A k \in 1 .. Len(blocks) :
    /\ IsTile(blocks[k]) /\ blocks[k].last < at
    /\ open # Nothing => blocks[k].last < open.first
    /\ k > 1 => blocks[k - 1].last < blocks[k].first

CoverInv ==
  \A i \in 1 .. at - 1 : Kind(i) # "blank" =>
    \/ \E k \in 1 .. Len(blocks) : Covers(blocks[k], i)
    \/ open # Nothing /\ open.first <= i

TileInv == ScanTypeOK /\ OpenInv /\ TilesInv /\ CoverInv

--------------------------------------------------------------------------

(* What a line may be.                                                     *)
LEMMA LineFacts ==
  ASSUME lines \in Seq(Line), NEW i \in 1 .. Len(lines)
  PROVE  /\ Kind(i) \in {"blank", "heading", "quote"} \cup Lists \cup Plain
         /\ Indent(i) \in Nat /\ Cells(i) \in Nat /\ ContentColumn(i) \in Nat
         /\ Cells(i) > 0 => Kind(i) # "blank"
         /\ lines[i].mark \in {"rule", "delimiter"} => Kind(i) \in {"text", "rule", "delimiter"}
<1>1. lines[i] \in Line
  OBVIOUS
<1>2. /\ lines[i].mark \in {"blank", "heading", "quote"} \cup Lists \cup Plain
      /\ Indent(i) \in Nat /\ Cells(i) \in Nat
      /\ lines[i].mark = "blank" => Cells(i) = 0
  BY <1>1 DEF Line, Indent, Cells
<1>3. Kind(i) \in {"blank", "heading", "quote"} \cup Lists \cup Plain
  BY <1>2 DEF Kind, Plain
<1>4. Cells(i) > 0 => Kind(i) # "blank"
  BY <1>2 DEF Kind
<1>5. ContentColumn(i) \in Nat
  BY <1>2 DEF ContentColumn
<1>6. lines[i].mark \in {"rule", "delimiter"} => Kind(i) \in {"text", "rule", "delimiter"}
  BY DEF Kind
<1> QED
  BY <1>2, <1>3, <1>4, <1>5, <1>6

(* The lines stay what they are.                                           *)
LEMMA SameLines ==
  ASSUME lines' = lines
  PROVE  /\ \A i : /\ Kind(i)' = Kind(i) /\ Indent(i)' = Indent(i) /\ Cells(i)' = Cells(i)
                   /\ ContentColumn(i)' = ContentColumn(i) /\ Marker(i)' = Marker(i)
                   /\ IsFence(i)' = IsFence(i)
         /\ \A i, fence : Closes(i, fence)' = Closes(i, fence)
         /\ \A i, column : ContinuesItem(i, column)' = ContinuesItem(i, column)
         /\ \A first, i : UnderFence(first, i)' <=> UnderFence(first, i)
         /\ \A first, i : UnderItem(first, i)' <=> UnderItem(first, i)
         /\ \A first, fence, i : HasFence(first, fence, i)' <=> HasFence(first, fence, i)
         /\ \A first, column, i : HasItem(first, column, i)' <=> HasItem(first, column, i)
         /\ \A column, i : IsAhead(column, i)' <=> IsAhead(column, i)
         /\ \A b, i : IsInPlace(b, i)' <=> IsInPlace(b, i)
         /\ \A b : EndsUnderFence(b)' <=> EndsUnderFence(b)
         /\ \A b : IsTile(b)' <=> IsTile(b)
<1>1. \A i : Kind(i)' = Kind(i) /\ Indent(i)' = Indent(i) /\ Cells(i)' = Cells(i)
  BY DEF Kind, Indent, Cells
<1>2. \A i : /\ ContentColumn(i)' = ContentColumn(i) /\ Marker(i)' = Marker(i)
             /\ IsFence(i)' = IsFence(i)
  BY <1>1 DEF ContentColumn, Marker, IsFence
<1>3. \A i, fence : Closes(i, fence)' = Closes(i, fence)
  BY <1>1 DEF Closes
<1>4. \A i, column : ContinuesItem(i, column)' = ContinuesItem(i, column)
  BY <1>1 DEF ContinuesItem
<1>5. \A first, i : UnderFence(first, i)' <=> UnderFence(first, i)
  BY <1>2, <1>3 DEF UnderFence
<1>6. \A first, i : UnderItem(first, i)' <=> UnderItem(first, i)
  BY <1>1, <1>2, <1>5 DEF UnderItem
<1>7. \A first, fence, i : HasFence(first, fence, i)' <=> HasFence(first, fence, i)
  BY <1>2, <1>3 DEF HasFence
<1>8. \A first, column, i : HasItem(first, column, i)' <=> HasItem(first, column, i)
  BY <1>1, <1>2, <1>5 DEF HasItem
<1>9. \A column, i : IsAhead(column, i)' <=> IsAhead(column, i)
  BY <1>1, <1>4 DEF IsAhead
<1>10. \A b, i : IsInPlace(b, i)' <=> IsInPlace(b, i)
  BY <1>1, <1>5, <1>6 DEF IsInPlace
<1>11. \A b : EndsUnderFence(b)' <=> EndsUnderFence(b)
  BY <1>5 DEF EndsUnderFence
<1>12. \A b : IsTile(b)' <=> IsTile(b)
  BY <1>1, <1>10, <1>11 DEF IsTile
<1> QED
  BY <1>1, <1>2, <1>3, <1>4, <1>5, <1>6, <1>7, <1>8, <1>9, <1>10, <1>11, <1>12

(* An open fence hides what follows, and an open item holds what is        *)
(* indented to its column.                                                 *)
LEMMA UnderFacts ==
  ASSUME NEW first, NEW i
  PROVE  /\ \A fence : HasFence(first, fence, i) => UnderFence(first, i)
         /\ \A column : HasItem(first, column, i) /\ column <= Indent(i) => UnderItem(first, i)
BY DEF HasFence, HasItem, UnderFence, UnderItem

(* Both are kept over a line that neither closes the fence nor begins an   *)
(* item, unless a fence hides it.                                          *)
LEMMA KeepsFence ==
  ASSUME NEW first \in Nat, NEW i \in Nat, NEW fence, HasFence(first, fence, i),
         ~Closes(i, fence)
  PROVE  HasFence(first, fence, i + 1)
<1>1. PICK j \in first .. i - 1 :
        IsFence(j) /\ Marker(j) = fence /\ \A k \in j + 1 .. i - 1 : ~Closes(k, fence)
  BY DEF HasFence
<1>2. \A k \in j + 1 .. (i + 1) - 1 : k \in j + 1 .. i - 1 \/ k = i
  OBVIOUS
<1>3. j \in first .. (i + 1) - 1
  OBVIOUS
<1>4. \A k \in j + 1 .. (i + 1) - 1 : ~Closes(k, fence)
  BY <1>1, <1>2
<1> QED
  BY <1>1, <1>3, <1>4 DEF HasFence

LEMMA KeepsItem ==
  ASSUME NEW first \in Nat, NEW i \in Nat, NEW column, HasItem(first, column, i),
         Kind(i) \in Lists => UnderFence(first, i)
  PROVE  HasItem(first, column, i + 1)
<1>1. PICK j \in first .. i - 1 :
        /\ Kind(j) \in Lists /\ ContentColumn(j) = column
        /\ \A k \in j + 1 .. i - 1 : Kind(k) \in Lists => UnderFence(first, k)
  BY DEF HasItem
<1>2. \A k \in j + 1 .. (i + 1) - 1 : k \in j + 1 .. i - 1 \/ k = i
  OBVIOUS
<1>3. j \in first .. (i + 1) - 1
  OBVIOUS
<1>4. \A k \in j + 1 .. (i + 1) - 1 : Kind(k) \in Lists => UnderFence(first, k)
  BY <1>1, <1>2
<1> QED
  BY <1>1, <1>3, <1>4 DEF HasItem

LEMMA NewFence ==
  ASSUME NEW first \in Nat, NEW i \in Nat, first <= i, IsFence(i)
  PROVE  HasFence(first, Marker(i), i + 1)
BY DEF HasFence

LEMMA NewItem ==
  ASSUME NEW first \in Nat, NEW i \in Nat, first <= i, Kind(i) \in Lists
  PROVE  HasItem(first, ContentColumn(i), i + 1)
BY DEF HasItem

(* A new block begins at a line that is not blank, and what kind of block  *)
(* it is says what kind of line that is.                                   *)
LEMMA BlockKindFacts ==
  ASSUME lines \in Seq(Line), NEW i \in 1 .. Len(lines), Kind(i) # "blank"
  PROVE  /\ BlockKind(i) \in {"list", "code", "heading", "blockquote", "table", "paragraph"}
         /\ BlockKind(i) = "list" => Kind(i) \in Lists
         /\ BlockKind(i) = "code" => IsFence(i)
         /\ BlockKind(i) = "heading" => Kind(i) = "heading"
         /\ BlockKind(i) = "blockquote" => Kind(i) = "quote"
         /\ BlockKind(i) = "paragraph" => Kind(i) \notin Openers
         /\ BlockKind(i) = "table" =>
              /\ Cells(i) > 0 /\ i < Len(lines)
              /\ Kind(i + 1) \in {"text", "rule", "delimiter"}
<1>1. BlockKind(i) = "table" => IsTableStart(i)
  BY DEF BlockKind
<1>2. IsTableStart(i) =>
        /\ Cells(i) > 0 /\ i < Len(lines)
        /\ lines[i + 1].mark \in {"rule", "delimiter"}
  BY DEF IsTableStart
<1>3. BlockKind(i) = "table" => Kind(i + 1) \in {"text", "rule", "delimiter"}
  <2> SUFFICES ASSUME BlockKind(i) = "table"
               PROVE  Kind(i + 1) \in {"text", "rule", "delimiter"}
    OBVIOUS
  <2>1. i + 1 \in 1 .. Len(lines) /\ lines[i + 1].mark \in {"rule", "delimiter"}
    BY <1>1, <1>2
  <2> QED
    BY <2>1, LineFacts
<1>4. /\ BlockKind(i) \in {"list", "code", "heading", "blockquote", "table", "paragraph"}
      /\ BlockKind(i) = "list" => Kind(i) \in Lists
      /\ BlockKind(i) = "code" => IsFence(i)
      /\ BlockKind(i) = "heading" => Kind(i) = "heading"
      /\ BlockKind(i) = "blockquote" => Kind(i) = "quote"
      /\ BlockKind(i) = "paragraph" => Kind(i) \notin Openers
  BY DEF BlockKind, Openers, Lists
<1> QED
  BY <1>1, <1>2, <1>3, <1>4

(* A block that ends is a tile when what is known of it while it was open  *)
(* says so, and the blocks then cover the lines up to its last one.        *)
LEMMA EndedBlock ==
  ASSUME TileInv, open # Nothing, lines' = lines, NEW last \in Nat, NEW kind,
         kind \in {"list", "code", "heading", "blockquote", "table", "paragraph"},
         EndAs(open, kind, last), at' = last + 1, at' \in {at, at + 1}, last <= Len(lines),
         IsTile([kind |-> kind, first |-> open.first, last |-> last])
  PROVE  TileInv'
<1>1. PICK t : t = [kind |-> kind, first |-> open.first, last |-> last]
  OBVIOUS
<1>2. blocks' = Append(blocks, t) /\ open' = Nothing
  BY <1>1 DEF EndAs
<1>3. /\ open \in Block /\ open.first \in Nat /\ at \in Nat /\ Len(lines) \in Nat
      /\ blocks \in Seq(Tile) /\ t \in Tile /\ lines \in Seq(Line)
  <2>1. /\ open \in Block /\ at \in 1 .. Len(lines) + 1
        /\ blocks \in Seq(Tile) /\ lines \in Seq(Line)
    BY DEF TileInv, ScanTypeOK
  <2> QED
    BY <1>1, <2>1 DEF Block, Tile
<1>4. /\ Len(blocks') = Len(blocks) + 1 /\ blocks'[Len(blocks) + 1] = t
      /\ \A k \in 1 .. Len(blocks) : blocks'[k] = blocks[k] /\ blocks[k] \in Tile
      /\ blocks' \in Seq(Tile) /\ Len(blocks) \in Nat
  BY <1>2, <1>3
<1>5. IsTile(t) /\ t.first = open.first /\ t.last = last
  BY <1>1
<1>6. ScanTypeOK'
  BY <1>2, <1>3, <1>4 DEF ScanTypeOK
<1>7. OpenInv'
  BY <1>2 DEF OpenInv
<1>8. TilesInv'
  <2>1. \A b : IsTile(b) => IsTile(b)'
    BY SameLines
  <2>2. t.first <= t.last
    BY <1>5 DEF IsTile
  <2>3. ASSUME NEW k \in 1 .. Len(blocks'), NEW b, b = blocks'[k]
        PROVE  IsTile(b) /\ b.last < at' /\ (k > 1 => blocks'[k - 1].last < b.first)
    <3>1. CASE k = Len(blocks) + 1
      <4>1. b = t
        BY <1>4, <2>3, <3>1
      <4>2. k > 1 => k - 1 \in 1 .. Len(blocks) /\ blocks[k - 1].last < open.first
        BY <1>2, <1>4, <3>1, <1>3, SourceAssumption DEF TileInv, TilesInv
      <4>3. k > 1 => blocks'[k - 1] = blocks[k - 1]
        BY <1>4, <4>2
      <4>4. IsTile(b)
        BY <1>5, <4>1
      <4>5. b.last < at' /\ b.first = open.first
        BY <1>5, <4>1
      <4> QED
        BY <4>2, <4>3, <4>4, <4>5
    <3>2. CASE k \in 1 .. Len(blocks)
      <4>1. b = blocks[k] /\ b \in Tile
        BY <1>4, <2>3, <3>2
      <4>2. IsTile(b) /\ b.last < at /\ (k > 1 => blocks[k - 1].last < b.first)
        BY <3>2, <4>1 DEF TileInv, TilesInv
      <4>3. k > 1 => k - 1 \in 1 .. Len(blocks)
        BY <1>4, <3>2
      <4>4. k > 1 => blocks'[k - 1] = blocks[k - 1]
        BY <1>4, <4>3
      <4>5. b.last < at'
        BY <1>3, <4>1, <4>2, SMTT(30) DEF Tile
      <4> QED
        BY <4>2, <4>4, <4>5
    <3> QED
      BY <1>4, <2>3, <3>1, <3>2
  <2>4. \A k \in 1 .. Len(blocks') : \A b : b = blocks'[k] =>
          IsTile(b)' /\ b.last < at' /\ (k > 1 => blocks'[k - 1].last < b.first)
    BY <2>1, <2>3
  <2> SUFFICES ASSUME NEW k \in 1 .. Len(blocks')
               PROVE  /\ IsTile(blocks[k])' /\ blocks'[k].last < at'
                      /\ k > 1 => blocks'[k - 1].last < blocks'[k].first
    BY <1>2 DEF TilesInv
  <2>5. PICK b : b = blocks'[k]
    OBVIOUS
  <2>6. IsTile(b)' <=> IsTile(blocks[k])'
    BY <2>5 DEF IsTile, IsInPlace, EndsUnderFence
  <2> QED
    BY <2>4, <2>5, <2>6
<1>9. CoverInv'
  <2>1. ASSUME NEW i \in 1 .. last, Kind(i) # "blank"
        PROVE  \E k \in 1 .. Len(blocks') : Covers(blocks'[k], i)
    <3>1. CASE \E k \in 1 .. Len(blocks) : Covers(blocks[k], i)
      BY <1>4, <3>1
    <3>2. CASE open.first <= i
      BY <1>3, <1>4, <1>5, <2>1, <3>2 DEF Covers
    <3>3. i <= at - 1 \/ i = at
      BY <1>3, <2>1
    <3>4. open.first < at
      BY DEF TileInv, OpenInv, IsOpen
    <3>5. CASE i <= at - 1
      <4>1. i \in 1 .. at - 1
        BY <1>3, <2>1, <3>5
      <4>2. (\E k \in 1 .. Len(blocks) : Covers(blocks[k], i)) \/ open.first <= i
        BY <2>1, <4>1 DEF TileInv, CoverInv
      <4> QED
        BY <3>1, <3>2, <4>2
    <3>6. CASE i = at
      BY <1>3, <3>2, <3>4, <3>6
    <3> QED
      BY <3>3, <3>5, <3>6
  <2>2. 1 .. at' - 1 = 1 .. last /\ \A i : Kind(i)' = Kind(i)
    BY <1>3, SameLines
  <2>3. \A k, i : Covers(blocks[k], i)' = Covers(blocks'[k], i)
    BY DEF Covers
  <2> QED
    BY <2>1, <2>2, <2>3 DEF CoverInv
<1> QED
  BY <1>6, <1>7, <1>8, <1>9 DEF TileInv

(* A step that ends no block keeps the tiles, and leaves no line behind    *)
(* that is neither blank nor in the open block.                            *)
LEMMA SameBlocks ==
  ASSUME TileInv, lines' = lines, blocks' = blocks, at' \in Nat, at <= at',
         at' <= Len(lines) + 1, open' \in Block \cup {Nothing}, OpenInv',
         \/ open # Nothing /\ open' # Nothing /\ open'.first = open.first
         \/ open = Nothing /\ open' # Nothing /\ open'.first = at
         \/ open = Nothing /\ open' = Nothing /\ at' = at + 1 /\ Kind(at) = "blank"
  PROVE  TileInv'
<1>1. /\ at \in Nat /\ at' \in Nat /\ Len(lines) \in Nat /\ at' \in 1 .. Len(lines) + 1
      /\ lines \in Seq(Line) /\ blocks \in Seq(Tile)
      /\ open # Nothing => open.first \in Nat /\ open.first < at
      /\ open' # Nothing => open'.first \in Nat
  <2>1. /\ at \in 1 .. Len(lines) + 1 /\ lines \in Seq(Line) /\ blocks \in Seq(Tile)
        /\ open \in Block \cup {Nothing}
    BY DEF TileInv, ScanTypeOK
  <2>2. open # Nothing => open.first < at
    BY DEF TileInv, OpenInv, IsOpen
  <2> QED
    BY <2>1, <2>2 DEF Block
<1>2. ScanTypeOK'
  BY <1>1 DEF ScanTypeOK
<1>3. TilesInv'
  <2> SUFFICES ASSUME NEW k \in 1 .. Len(blocks)
               PROVE  /\ IsTile(blocks[k])' /\ blocks[k].last < at'
                      /\ open' # Nothing => blocks[k].last < open'.first
                      /\ k > 1 => blocks[k - 1].last < blocks[k].first
    BY DEF TilesInv
  <2>1. PICK b : b = blocks[k]
    OBVIOUS
  <2>2. b \in Tile
    BY <1>1, <2>1
  <2>3. /\ IsTile(b) /\ b.last < at /\ (open # Nothing => b.last < open.first)
        /\ k > 1 => blocks[k - 1].last < b.first
    BY <2>1 DEF TileInv, TilesInv
  <2>4. IsTile(b) => IsTile(blocks[k])'
    <3>1. IsTile(b)' <=> IsTile(blocks[k])'
      BY <2>1 DEF IsTile, IsInPlace, EndsUnderFence
    <3> QED
      BY <3>1, SameLines
  <2>5. b.last < at' /\ (open' # Nothing => b.last < open'.first)
    BY <1>1, <2>2, <2>3 DEF Tile
  <2> QED
    BY <2>1, <2>3, <2>4, <2>5
<1>4. CoverInv'
  <2>1. ASSUME NEW i \in 1 .. at' - 1, Kind(i) # "blank"
        PROVE  \/ \E k \in 1 .. Len(blocks) : Covers(blocks[k], i)
               \/ open' # Nothing /\ open'.first <= i
    <3>1. CASE i < at
      <4>1. i \in 1 .. at - 1
        BY <1>1, <3>1
      <4> QED
        BY <2>1, <4>1 DEF TileInv, CoverInv
    <3>2. CASE i >= at /\ open' # Nothing
      BY <1>1, <3>2
    <3>3. CASE i >= at /\ open' = Nothing
      <4>1. at' = at + 1 /\ Kind(at) = "blank"
        BY <3>3
      <4>2. i = at
        BY <1>1, <3>3, <4>1
      <4> QED
        BY <2>1, <4>1, <4>2
    <3> QED
      BY <1>1, <3>1, <3>2, <3>3
  <2>2. \A i : Kind(i)' = Kind(i)
    BY SameLines
  <2>3. \A k, i : Covers(blocks[k], i)' = Covers(blocks[k], i)
    BY DEF Covers
  <2> QED
    BY <2>1, <2>2, <2>3 DEF CoverInv
<1> QED
  BY <1>2, <1>3, <1>4 DEF TileInv

LEMMA SkipBlankStep == TileInv /\ SkipBlank => TileInv'
<1> SUFFICES ASSUME TileInv, SkipBlank
             PROVE  TileInv'
  OBVIOUS
<1>1. at \in 1 .. Len(lines) + 1 /\ Len(lines) \in Nat
  BY DEF TileInv, ScanTypeOK
<1>2. OpenInv'
  BY DEF SkipBlank, OpenInv
<1> QED
  BY <1>1, <1>2, SameBlocks DEF SkipBlank, Reading

(* What is known of the block that is open after a step is known of these  *)
(* lines, which the step has not changed.                                  *)
LEMMA OpenNext ==
  ASSUME lines' = lines, NEW b, NEW n, open' = b, at' = n, IsOpen(b, n)
  PROVE  OpenInv'
<1>1. IsOpenCode(b, n)'
  BY SameLines DEF IsOpen, IsOpenCode
<1>2. IsOpenList(b, n)'
  BY SameLines DEF IsOpen, IsOpenList
<1>3. IsOpenOther(b, n)'
  BY SameLines DEF IsOpen, IsOpenOther
<1>4. 1 <= b.first /\ b.first < n /\ Kind(b.first)' # "blank"
  BY SameLines DEF IsOpen
<1>5. IsOpen(b, n)'
  BY <1>1, <1>2, <1>3, <1>4 DEF IsOpen
<1> QED
  BY <1>5
  DEF OpenInv, IsOpen, IsOpenCode, IsOpenList, IsOpenOther, HasFence, HasItem, IsAhead,
      UnderFence, UnderItem, Closes, ContinuesItem, Kind, Cells

LEMMA OpenBlockStep == TileInv /\ OpenBlock => TileInv'
<1> SUFFICES ASSUME TileInv, OpenBlock
             PROVE  TileInv'
  OBVIOUS
<1>1. PICK b : b = [kind |-> BlockKind(at), first |-> at,
                    fence |-> IF BlockKind(at) = "code" THEN Marker(at) ELSE "none",
                    column |-> ContentColumn(at), paragraph |-> HasParagraph(at)]
  OBVIOUS
<1>2. PICK n : n = at + (IF BlockKind(at) = "table" THEN 2 ELSE 1)
  OBVIOUS
<1>3. at \in 1 .. Len(lines) /\ Len(lines) \in Nat /\ Kind(at) # "blank" /\ lines \in Seq(Line)
  BY DEF TileInv, ScanTypeOK, OpenBlock, Reading
<1>4. /\ BlockKind(at) \in {"list", "code", "heading", "blockquote", "table", "paragraph"}
      /\ BlockKind(at) = "list" => Kind(at) \in Lists
      /\ BlockKind(at) = "code" => IsFence(at)
      /\ BlockKind(at) = "heading" => Kind(at) = "heading"
      /\ BlockKind(at) = "blockquote" => Kind(at) = "quote"
      /\ BlockKind(at) = "paragraph" => Kind(at) \notin Openers
      /\ BlockKind(at) = "table" =>
           /\ Cells(at) > 0 /\ at < Len(lines)
           /\ Kind(at + 1) \in {"text", "rule", "delimiter"}
  BY <1>3, BlockKindFacts
<1>5. /\ b.kind = BlockKind(at) /\ b.first = at /\ b.column = ContentColumn(at)
      /\ b.fence = (IF BlockKind(at) = "code" THEN Marker(at) ELSE "none")
  BY <1>1
<1>6. b \in Block
  <2>1. ContentColumn(at) \in Nat
    BY <1>3, LineFacts
  <2>2. PICK p \in BOOLEAN : p = HasParagraph(at)
    <3>1. HasParagraph(at) \in BOOLEAN
      BY DEF HasParagraph
    <3> QED
      BY <3>1
  <2>3. Marker(at) \in {"none", "backticks", "tildes"}
    BY DEF Marker
  <2>4. PICK f \in {"none", "backticks", "tildes"} :
          f = IF BlockKind(at) = "code" THEN Marker(at) ELSE "none"
    BY <2>3
  <2>5. b = [kind |-> BlockKind(at), first |-> at, fence |-> f,
             column |-> ContentColumn(at), paragraph |-> p]
    BY <1>1, <2>2, <2>4
  <2> QED
    BY <1>3, <1>4, <2>1, <2>5 DEF Block
<1>7. open = Nothing /\ open' = b /\ lines' = lines /\ blocks' = blocks /\ at' = n
  BY <1>1, <1>2 DEF OpenBlock
<1>8. n = at + 1 \/ (BlockKind(at) = "table" /\ n = at + 2 /\ at < Len(lines))
  BY <1>2, <1>4
<1>9. n \in Nat /\ at < n /\ n <= Len(lines) + 1
  BY <1>3, <1>8
<1>10. IsOpenCode(b, n)
  <2>1. b.kind = "code" => n = at + 1 /\ IsFence(at) /\ b.fence = Marker(at)
    BY <1>4, <1>5, <1>8
  <2> QED
    BY <1>3, <1>5, <2>1 DEF IsOpenCode
<1>11. IsOpenList(b, n)
  <2> SUFFICES ASSUME b.kind = "list"
               PROVE  /\ b.fence = "none" /\ HasItem(b.first, b.column, n)
                      /\ \A j \in b.first .. n - 1 : Kind(j) \notin {"blank", "heading", "quote"}
                      /\ n - 1 \in b.first .. n - 1
    BY DEF IsOpenList
  <2>1. n = at + 1 /\ Kind(at) \in Lists /\ b.fence = "none"
    BY <1>4, <1>5, <1>8
  <2>2. HasItem(b.first, b.column, n)
    BY <1>3, <1>5, <2>1, NewItem
  <2>3. \A j \in b.first .. n - 1 : j = at
    BY <1>3, <1>5, <2>1
  <2> QED
    BY <1>3, <1>5, <2>1, <2>2, <2>3 DEF Lists
<1>12. IsOpenOther(b, n)
  <2>1. b.kind = "heading" => n = b.first + 1 /\ Kind(b.first) = "heading"
    BY <1>4, <1>5, <1>8
  <2>2. ASSUME NEW j \in b.first .. n - 1
        PROVE  /\ b.kind \in {"blockquote", "table", "paragraph"} => Kind(j) # "blank"
               /\ b.kind = "blockquote" => Kind(j) = "quote"
               /\ b.kind = "paragraph" => Kind(j) \notin Openers
               /\ b.kind = "table" => (Kind(j) \in Openers => Cells(j) > 0)
    <3>1. CASE j = at
      BY <1>3, <1>4, <1>5, <3>1
    <3>2. CASE b.kind = "table" /\ j = at + 1
      BY <1>4, <1>5, <3>2 DEF Openers
    <3> QED
      BY <1>3, <1>5, <1>8, <2>2, <3>1, <3>2
  <2> QED
    BY <2>1, <2>2 DEF IsOpenOther
<1>13. IsOpen(b, n)
  BY <1>3, <1>5, <1>9, <1>10, <1>11, <1>12 DEF IsOpen
<1>14. OpenInv'
  BY <1>7, <1>13, OpenNext
<1>15. b # Nothing
  BY <1>6, SourceAssumption
<1> QED
  BY <1>3, <1>5, <1>6, <1>7, <1>9, <1>14, <1>15, SameBlocks

(* The lines of an open block, as far as the scan has read them.           *)
LEMMA OpenFacts ==
  ASSUME TileInv, open # Nothing
  PROVE  /\ open \in Block /\ open.first \in Nat /\ open.column \in Nat
         /\ at \in 1 .. Len(lines) + 1 /\ Len(lines) \in Nat /\ lines \in Seq(Line)
         /\ 1 <= open.first /\ open.first < at /\ Kind(open.first) # "blank"
         /\ IsOpenCode(open, at) /\ IsOpenList(open, at) /\ IsOpenOther(open, at)
<1>1. open \in Block /\ at \in 1 .. Len(lines) + 1 /\ lines \in Seq(Line)
  BY DEF TileInv, ScanTypeOK
<1> QED
  BY <1>1 DEF TileInv, OpenInv, IsOpen, Block

LEMMA ContinueBlockStep == TileInv /\ ContinueBlock => TileInv'
<1> SUFFICES ASSUME TileInv, ContinueBlock
             PROVE  TileInv'
  OBVIOUS
<1>1. PICK b : b = open
  OBVIOUS
<1>2. PICK n : n = at + 1
  OBVIOUS
<1>3. /\ open # Nothing /\ open' = b /\ b.kind # "list" /\ Continues(b) /\ at <= Len(lines)
      /\ lines' = lines /\ blocks' = blocks /\ at' = n
  BY <1>1, <1>2 DEF ContinueBlock, Continues, Reading
<1>4. /\ b \in Block /\ b.first \in Nat /\ at \in 1 .. Len(lines) /\ Len(lines) \in Nat
      /\ 1 <= b.first /\ b.first < at /\ Kind(b.first) # "blank" /\ lines \in Seq(Line)
      /\ IsOpenCode(b, at) /\ IsOpenOther(b, at)
  BY <1>1, <1>3, OpenFacts
<1>5. IsOpenCode(b, n)
  <2>1. b.kind = "code" => ~Closes(at, b.fence)
    BY <1>3 DEF Continues
  <2>2. \A j \in b.first + 1 .. n - 1 : j \in b.first + 1 .. at - 1 \/ j = at
    BY <1>2, <1>4
  <2> QED
    BY <1>4, <2>1, <2>2 DEF IsOpenCode
<1>6. IsOpenOther(b, n)
  <2>1. b.kind # "heading"
    BY <1>3 DEF Continues
  <2>2. /\ b.kind \in {"blockquote", "table", "paragraph"} => Kind(at) # "blank"
        /\ b.kind = "blockquote" => Kind(at) = "quote"
        /\ b.kind = "paragraph" => Kind(at) \notin Openers
        /\ b.kind = "table" => Cells(at) > 0
    <3>1. CASE b.kind = "blockquote"
      BY <1>3, <3>1 DEF Continues
    <3>2. CASE b.kind = "table"
      <4>1. Cells(at) > 0
        BY <1>3, <3>2 DEF Continues
      <4> QED
        BY <1>4, <3>2, <4>1, LineFacts
    <3>3. CASE b.kind = "paragraph"
      <4>1. (Kind(at) \in Lists /\ ~Interrupts(at)) \/ IsParagraphLine(at)
        BY <1>3, <3>3 DEF Continues
      <4> QED
        BY <3>3, <4>1 DEF Lists, Interrupts, IsParagraphLine, Openers
    <3> QED
      BY <3>1, <3>2, <3>3
  <2>3. \A j \in b.first .. n - 1 : j \in b.first .. at - 1 \/ j = at
    BY <1>2, <1>4
  <2> QED
    BY <1>4, <2>1, <2>2, <2>3 DEF IsOpenOther
<1>7. IsOpenList(b, n)
  BY <1>3 DEF IsOpenList
<1>8. IsOpen(b, n)
  BY <1>2, <1>4, <1>5, <1>6, <1>7 DEF IsOpen
<1>9. OpenInv'
  BY <1>3, <1>8, OpenNext
<1>10. at' \in Nat /\ at <= at' /\ at' <= Len(lines) + 1
  BY <1>2, <1>3, <1>4
<1> QED
  BY <1>1, <1>3, <1>4, <1>9, <1>10, SourceAssumption, SameBlocks

(* What one more line does to an open list: a fence stays open until it is *)
(* closed, an item moves the column, and a line that is neither has been   *)
(* read because of a fence, of its indentation or of what is ahead of it.  *)
ListStep(b, c) ==
  /\ c \in Block /\ c.kind = "list" /\ c.first = b.first
  /\ \/ /\ b.fence # "none" /\ c.column = b.column
        /\ c.fence = IF Closes(at, b.fence) THEN "none" ELSE b.fence
     \/ /\ b.fence = "none" /\ c.fence = "none"
        /\ Kind(at) \in Lists /\ c.column = ContentColumn(at)
     \/ /\ b.fence = "none" /\ Kind(at) \notin Lists /\ c.column = b.column
        /\ Kind(at) # "blank" /\ b.column <= Indent(at)
        /\ c.fence = IF IsFence(at) THEN Marker(at) ELSE "none"
     \/ /\ b.fence = "none" /\ c.fence = "none" /\ c.column = b.column
        /\ Kind(at) \notin Lists
        /\ Kind(at) \notin {"blank", "heading", "quote"} \/ StaysInList(b)

LEMMA ListSteps ==
  ASSUME TileInv, ContinueList, NEW b, b = open, NEW c, c = open'
  PROVE  ListStep(b, c)
<1>1. open # Nothing /\ b.kind = "list" /\ ListContinues(b)
  BY DEF ContinueList, Continues
<1>2. b \in Block
  BY <1>1, OpenFacts
<1>3. b.column \in Nat /\ at \in 1 .. Len(lines) /\ lines \in Seq(Line)
  <2>1. at <= Len(lines)
    BY DEF ContinueList, Continues, Reading
  <2> QED
    BY <1>1, <2>1, OpenFacts
<1>4. Indent(at) \in Nat /\ ContentColumn(at) \in Nat
  BY <1>3, LineFacts
<1>5. CASE b.fence # "none"
  <2>1. PICK f : f = IF Closes(at, b.fence) THEN "none" ELSE b.fence
    OBVIOUS
  <2>2. c = [b EXCEPT !.fence = f, !.paragraph = FALSE]
    BY <1>5, <2>1 DEF ContinueList
  <2>3. f \in {"none", "backticks", "tildes"}
    BY <1>2, <2>1 DEF Block
  <2>4. c \in Block /\ c.kind = "list" /\ c.first = b.first /\ c.column = b.column /\ c.fence = f
    BY <1>1, <1>2, <2>2, <2>3 DEF Block
  <2> QED
    BY <1>5, <2>1, <2>4 DEF ListStep
<1>6. CASE b.fence = "none" /\ Kind(at) \in Lists
  <2>1. PICK p \in BOOLEAN : p = HasParagraph(at)
    <3>1. HasParagraph(at) \in BOOLEAN
      BY DEF HasParagraph
    <3> QED
      BY <3>1
  <2>2. PICK m \in Nat : m = ContentColumn(at)
    BY <1>4
  <2>3. c = [b EXCEPT !.column = m, !.paragraph = p]
    BY <1>6, <2>1, <2>2 DEF ContinueList
  <2>4. c \in Block /\ c.kind = "list" /\ c.first = b.first /\ c.column = m /\ c.fence = b.fence
    BY <1>1, <1>2, <2>3 DEF Block
  <2> QED
    BY <1>6, <2>2, <2>4 DEF ListStep
<1>7. CASE b.fence = "none" /\ Kind(at) \notin Lists /\ ContinuesItem(at, b.column)
  <2>1. PICK f : f = IF IsFence(at) THEN Marker(at) ELSE "none"
    OBVIOUS
  <2>2. PICK p \in BOOLEAN : p = (IsParagraphLine(at) /\ Indent(at) < b.column + 4)
    <3>1. (IsParagraphLine(at) /\ Indent(at) < b.column + 4) \in BOOLEAN
      BY DEF IsParagraphLine
    <3> QED
      BY <3>1
  <2>3. c = [b EXCEPT !.fence = f, !.paragraph = p]
    BY <1>7, <2>1, <2>2 DEF ContinueList
  <2>4. f \in {"none", "backticks", "tildes"}
    BY <2>1 DEF Marker
  <2>5. c \in Block /\ c.kind = "list" /\ c.first = b.first /\ c.column = b.column /\ c.fence = f
    BY <1>1, <1>2, <2>3, <2>4 DEF Block
  <2>6. Kind(at) # "blank" /\ b.column <= Indent(at)
    BY <1>3, <1>4, <1>7 DEF ContinuesItem
  <2> QED
    BY <1>7, <2>1, <2>5, <2>6 DEF ListStep
<1>8. CASE b.fence = "none" /\ Kind(at) \notin Lists /\ ~ContinuesItem(at, b.column)
  <2>1. c = b
    BY <1>8 DEF ContinueList
  <2>2. StaysInList(b) \/ IsParagraphLine(at)
    BY <1>1, <1>8 DEF ListContinues
  <2>3. IsParagraphLine(at) => Kind(at) \notin {"blank", "heading", "quote"}
    BY DEF IsParagraphLine
  <2> QED
    BY <1>1, <1>2, <1>8, <2>1, <2>2, <2>3 DEF ListStep
<1> QED
  BY <1>5, <1>6, <1>7, <1>8

LEMMA ContinueListStep == TileInv /\ ContinueList => TileInv'
<1> SUFFICES ASSUME TileInv, ContinueList
             PROVE  TileInv'
  OBVIOUS
<1>1. PICK b : b = open
  OBVIOUS
<1>2. PICK c : c = open'
  OBVIOUS
<1>3. PICK n : n = at + 1
  OBVIOUS
<1>4. /\ open # Nothing /\ b.kind = "list" /\ at <= Len(lines)
      /\ lines' = lines /\ blocks' = blocks /\ at' = n
  BY <1>1, <1>3 DEF ContinueList, Continues, Reading
<1>5. /\ b \in Block /\ b.first \in Nat /\ at \in 1 .. Len(lines) /\ Len(lines) \in Nat
      /\ 1 <= b.first /\ b.first < at /\ Kind(b.first) # "blank" /\ lines \in Seq(Line)
      /\ b.fence # "none" => HasFence(b.first, b.fence, at)
      /\ HasItem(b.first, b.column, at)
      /\ \A j \in b.first .. at - 1 : Kind(j) \in {"heading", "quote"} =>
           UnderFence(b.first, j) \/ UnderItem(b.first, j)
  BY <1>1, <1>4, OpenFacts DEF IsOpenList
<1>6. ListStep(b, c)
  BY <1>1, <1>2, ListSteps
<1>7. c \in Block /\ c.kind = "list" /\ c.first = b.first
  BY <1>6 DEF ListStep
<1>8. b.fence # "none" => UnderFence(b.first, at)
  BY <1>5, UnderFacts
<1>9. c.fence # "none" => HasFence(b.first, c.fence, n)
  <2> SUFFICES ASSUME c.fence # "none"
               PROVE  HasFence(b.first, c.fence, n)
    OBVIOUS
  <2>1. \/ c.fence = b.fence /\ ~Closes(at, b.fence)
        \/ IsFence(at) /\ c.fence = Marker(at)
    BY <1>6 DEF ListStep
  <2>2. CASE c.fence = b.fence /\ ~Closes(at, b.fence)
    BY <1>3, <1>5, <2>2, KeepsFence
  <2>3. CASE IsFence(at) /\ c.fence = Marker(at)
    BY <1>3, <1>5, <2>3, NewFence
  <2> QED
    BY <2>1, <2>2, <2>3
<1>10. HasItem(b.first, c.column, n)
  <2>1. \/ c.column = b.column /\ (Kind(at) \in Lists => b.fence # "none")
        \/ Kind(at) \in Lists /\ c.column = ContentColumn(at)
    BY <1>6 DEF ListStep
  <2>2. CASE c.column = b.column /\ (Kind(at) \in Lists => b.fence # "none")
    BY <1>3, <1>5, <1>8, <2>2, KeepsItem
  <2>3. CASE Kind(at) \in Lists /\ c.column = ContentColumn(at)
    BY <1>3, <1>5, <2>3, NewItem
  <2> QED
    BY <2>1, <2>2, <2>3
<1>11. ASSUME NEW j \in b.first .. n - 1, Kind(j) \in {"heading", "quote"}
       PROVE  UnderFence(b.first, j) \/ UnderItem(b.first, j)
  <2>1. CASE j \in b.first .. at - 1
    BY <1>5, <1>11, <2>1
  <2>2. CASE j = at
    <3>1. b.fence # "none" \/ b.column <= Indent(at)
      <4>1. Kind(at) \notin Lists \cup {"blank"}
        BY <1>11, <2>2 DEF Lists
      <4> QED
        BY <1>6, <1>11, <2>2, <4>1 DEF ListStep, StaysInList
    <3> QED
      BY <1>5, <1>8, <2>2, <3>1, UnderFacts
  <2> QED
    BY <1>3, <1>5, <1>11, <2>1, <2>2
<1>12. Kind(at) # "blank" \/ c.fence # "none" \/ IsAhead(c.column, n)
  <2> SUFFICES ASSUME Kind(at) = "blank"
               PROVE  c.fence # "none" \/ IsAhead(c.column, n)
    OBVIOUS
  <2>1. CASE b.fence # "none"
    <3>1. ~Closes(at, b.fence)
      BY <1>5, <2>1 DEF Closes, Block
    <3> QED
      BY <1>6, <2>1, <3>1 DEF ListStep
  <2>2. CASE b.fence = "none"
    <3>1. StaysInList(b) /\ c.column = b.column
      BY <1>6, <2>2 DEF ListStep, Lists
    <3>2. PICK j \in at + 1 .. Len(lines) :
            /\ \A k \in at .. j - 1 : Kind(k) = "blank"
            /\ Kind(j) \in Lists \/ ContinuesItem(j, b.column)
      BY <3>1 DEF StaysInList
    <3>3. j \in n .. Len(lines) /\ \A k \in n .. j - 1 : k \in at .. j - 1
      BY <1>3, <1>5
    <3> QED
      BY <3>1, <3>2, <3>3 DEF IsAhead
  <2> QED
    BY <2>1, <2>2
<1>13. IsOpenList(c, n)
  <2>1. n - 1 = at
    BY <1>3, <1>5
  <2> QED
    BY <1>7, <1>9, <1>10, <1>11, <1>12, <2>1 DEF IsOpenList
<1>14. IsOpen(c, n)
  BY <1>3, <1>5, <1>7, <1>13 DEF IsOpen, IsOpenCode, IsOpenOther
<1>15. OpenInv'
  BY <1>2, <1>4, <1>14, OpenNext
<1>16. at' \in Nat /\ at <= at' /\ at' <= Len(lines) + 1
  BY <1>3, <1>4, <1>5
<1>17. c # Nothing /\ open'.first = open.first
  BY <1>1, <1>2, <1>7, SourceAssumption
<1> QED
  BY <1>2, <1>4, <1>7, <1>15, <1>16, <1>17, SameBlocks

(* The lines of a block that is open are in place in the tile it becomes.  *)
LEMMA LinesInPlace ==
  ASSUME TileInv, open # Nothing, NEW b, b = open, NEW t, t.first = b.first,
         NEW i \in b.first .. at - 1, Kind(i) \in Openers,
         t.kind = b.kind \/ b.kind = "paragraph", b.kind = "heading" => t.last = at - 1
  PROVE  IsInPlace(t, i)
<1>1. /\ b \in Block /\ b.first \in Nat /\ at \in 1 .. Len(lines) + 1 /\ Len(lines) \in Nat
      /\ 1 <= b.first /\ b.first < at
      /\ IsOpenCode(b, at) /\ IsOpenList(b, at) /\ IsOpenOther(b, at)
  BY OpenFacts
<1>2. CASE b.kind = "code"
  <2>1. /\ IsFence(b.first) /\ b.fence = Marker(b.first)
        /\ \A j \in b.first + 1 .. at - 1 : ~Closes(j, b.fence)
    BY <1>1, <1>2 DEF IsOpenCode
  <2>2. i # b.first
    BY <2>1 DEF IsFence, Fences, Openers
  <2>3. b.first \in b.first .. i - 1 /\ \A k \in b.first + 1 .. i - 1 : k \in b.first + 1 .. at - 1
    BY <1>1, <2>2
  <2>4. UnderFence(b.first, i)
    BY <2>1, <2>3 DEF UnderFence
  <2> QED
    BY <1>2, <2>4 DEF IsInPlace
<1>3. CASE b.kind = "list"
  <2>1. Kind(i) = "item" \/ UnderFence(b.first, i) \/ UnderItem(b.first, i)
    BY <1>1, <1>3 DEF IsOpenList, Openers
  <2> QED
    BY <1>3, <2>1 DEF IsInPlace
<1>4. CASE b.kind = "heading"
  <2>1. i = b.first /\ at - 1 = b.first /\ Kind(i) = "heading"
    BY <1>1, <1>4 DEF IsOpenOther
  <2> QED
    BY <1>4, <2>1 DEF IsInPlace
<1>5. CASE b.kind = "blockquote"
  BY <1>1, <1>5 DEF IsOpenOther, IsInPlace
<1>6. CASE b.kind = "table"
  BY <1>1, <1>6 DEF IsOpenOther, IsInPlace
<1>7. CASE b.kind = "paragraph"
  BY <1>1, <1>7 DEF IsOpenOther
<1> QED
  BY <1>1, <1>2, <1>3, <1>4, <1>5, <1>6, <1>7 DEF Block

LEMMA EndWithLineStep == TileInv /\ EndWithLine => TileInv'
<1> SUFFICES ASSUME TileInv, EndWithLine
             PROVE  TileInv'
  OBVIOUS
<1>1. PICK b : b = open
  OBVIOUS
<1>2. PICK kind : kind = IF b.kind = "paragraph" THEN "heading" ELSE b.kind
  OBVIOUS
<1>3. /\ open # Nothing /\ IsLastLine(b) /\ at <= Len(lines)
      /\ EndAs(open, kind, at) /\ lines' = lines /\ at' = at + 1
  BY <1>1, <1>2 DEF EndWithLine, IsLastLine, Reading
<1>4. /\ b \in Block /\ b.first \in Nat /\ at \in 1 .. Len(lines) /\ Len(lines) \in Nat
      /\ 1 <= b.first /\ b.first < at /\ Kind(b.first) # "blank" /\ IsOpenCode(b, at)
  BY <1>1, <1>3, OpenFacts
<1>5. kind \in {"list", "code", "heading", "blockquote", "table", "paragraph"}
  BY <1>2, <1>4 DEF Block
<1>6. PICK t : t = [kind |-> kind, first |-> b.first, last |-> at]
  OBVIOUS
<1>7. \/ b.kind = "code" /\ Closes(at, b.fence)
      \/ b.kind = "paragraph" /\ Kind(at) = "rule"
  BY <1>3 DEF IsLastLine, Continues
<1>8. Kind(at) \notin {"blank"} \cup Openers
  <2>1. CASE b.kind = "code" /\ Closes(at, b.fence)
    BY <1>4, <2>1 DEF IsOpenCode, Closes, Marker, Openers
  <2>2. CASE Kind(at) = "rule"
    BY <2>2 DEF Openers
  <2> QED
    BY <1>7, <2>1, <2>2
<1>9. ASSUME NEW i \in b.first .. at, Kind(i) \in Openers
      PROVE  IsInPlace(t, i)
  <2>1. i \in b.first .. at - 1
    BY <1>4, <1>8, <1>9
  <2>2. t.first = b.first /\ (t.kind = b.kind \/ b.kind = "paragraph") /\ b.kind # "heading"
    BY <1>2, <1>6, <1>7
  <2> QED
    BY <1>1, <1>3, <1>9, <2>1, <2>2, LinesInPlace
<1>10. IsTile(t)
  BY <1>4, <1>6, <1>8, <1>9 DEF IsTile
<1> QED
  BY <1>1, <1>3, <1>4, <1>5, <1>6, <1>10, EndedBlock

(* A block that ends before the line ends as it is.  It ends with a blank  *)
(* line only if it is fenced, and then nothing but the end of the document *)
(* ends it: what was ahead of a list would have continued it.              *)
LEMMA EndBlockStep == TileInv /\ EndBlock => TileInv'
<1> SUFFICES ASSUME TileInv, EndBlock
             PROVE  TileInv'
  OBVIOUS
<1>1. PICK b : b = open
  OBVIOUS
<1>2. PICK last : last = at - 1
  OBVIOUS
<1>3. PICK t : t = [kind |-> b.kind, first |-> b.first, last |-> last]
  OBVIOUS
<1>4. /\ open # Nothing /\ ~Continues(b) /\ ~IsLastLine(b)
      /\ EndAs(open, b.kind, last) /\ lines' = lines /\ at' = at
  BY <1>1, <1>2 DEF EndBlock
<1>5. /\ b \in Block /\ b.first \in Nat /\ at \in 1 .. Len(lines) + 1 /\ Len(lines) \in Nat
      /\ 1 <= b.first /\ b.first < at /\ Kind(b.first) # "blank" /\ lines \in Seq(Line)
      /\ IsOpenCode(b, at) /\ IsOpenList(b, at) /\ IsOpenOther(b, at)
  BY <1>1, <1>4, OpenFacts
<1>6. /\ last \in Nat /\ at = last + 1 /\ b.first <= last /\ last <= Len(lines)
      /\ b.kind \in {"list", "code", "heading", "blockquote", "table", "paragraph"}
  BY <1>2, <1>5 DEF Block
<1>7. Kind(last) # "blank" \/ EndsUnderFence(t)
  <2> SUFFICES ASSUME Kind(last) = "blank"
               PROVE  EndsUnderFence(t)
    OBVIOUS
  <2>1. CASE b.kind = "code"
    <3>1. last = Len(lines)
      BY <1>4, <1>5, <1>6, <2>1 DEF Continues, IsLastLine, Reading
    <3>2. /\ IsFence(b.first) /\ b.fence = Marker(b.first)
          /\ \A j \in b.first + 1 .. at - 1 : ~Closes(j, b.fence)
      BY <1>5, <2>1 DEF IsOpenCode
    <3>3. b.first # last
      BY <1>5
    <3>4. /\ b.first \in b.first .. last - 1
          /\ \A k \in b.first + 1 .. last - 1 : k \in b.first + 1 .. at - 1
      BY <1>5, <1>6, <3>3
    <3>5. UnderFence(b.first, last)
      BY <3>2, <3>4 DEF UnderFence
    <3> QED
      BY <1>3, <3>1, <3>5 DEF EndsUnderFence
  <2>2. CASE b.kind = "list"
    <3>1. b.fence # "none" \/ IsAhead(b.column, at)
      BY <1>2, <1>5, <2>2 DEF IsOpenList
    <3>2. ASSUME Reading
          PROVE  FALSE
      <4>1. ~ListContinues(b)
        BY <1>4, <2>2, <3>2 DEF Continues
      <4>2. b.fence = "none"
        BY <4>1 DEF ListContinues
      <4>3. PICK j \in at .. Len(lines) :
              /\ \A k \in at .. j - 1 : Kind(k) = "blank"
              /\ Kind(j) \in Lists \/ ContinuesItem(j, b.column)
        BY <3>1, <4>2 DEF IsAhead
      <4>4. j # at
        BY <4>1, <4>3 DEF ListContinues
      <4>5. j \in at + 1 .. Len(lines) /\ Kind(at) = "blank"
        BY <1>5, <4>3, <4>4
      <4> QED
        BY <4>1, <4>3, <4>5 DEF ListContinues, StaysInList
    <3>3. last = Len(lines) /\ at > Len(lines)
      BY <1>5, <1>6, <3>2 DEF Reading
    <3>4. b.fence # "none"
      BY <1>5, <3>1, <3>3 DEF IsAhead
    <3>5. PICK j \in b.first .. at - 1 :
            IsFence(j) /\ Marker(j) = b.fence /\ \A k \in j + 1 .. at - 1 : ~Closes(k, b.fence)
      BY <1>5, <2>2, <3>4 DEF IsOpenList, HasFence
    <3>6. j # last
      BY <3>5 DEF IsFence, Fences
    <3>7. j \in b.first .. last - 1 /\ \A k \in j + 1 .. last - 1 : k \in j + 1 .. at - 1
      BY <1>5, <1>6, <3>6
    <3>8. UnderFence(b.first, last)
      BY <3>5, <3>7 DEF UnderFence
    <3> QED
      BY <1>3, <3>3, <3>8 DEF EndsUnderFence
  <2>3. CASE b.kind = "heading"
    BY <1>2, <1>5, <2>3 DEF IsOpenOther
  <2>4. CASE b.kind \in {"blockquote", "table", "paragraph"}
    BY <1>2, <1>5, <1>6, <2>4 DEF IsOpenOther
  <2> QED
    BY <1>6, <2>1, <2>2, <2>3, <2>4
<1>8. ASSUME NEW i \in b.first .. last, Kind(i) \in Openers
      PROVE  IsInPlace(t, i)
  BY <1>1, <1>2, <1>3, <1>4, <1>8, LinesInPlace
<1>9. IsTile(t)
  BY <1>3, <1>5, <1>6, <1>7, <1>8 DEF IsTile
<1> QED
  BY <1>1, <1>3, <1>4, <1>5, <1>6, <1>9, EndedBlock

--------------------------------------------------------------------------

LEMMA TileInit == Init => TileInv
<1> SUFFICES ASSUME Init
             PROVE  TileInv
  OBVIOUS
<1>1. /\ request \in Requests /\ lines = request.document
      /\ at = 1 /\ open = Nothing /\ blocks = <<>>
  BY DEF Init, PreparationInit, ScanInit
<1>2. lines \in Seq(Line) /\ Len(lines) \in Nat
  BY <1>1, RequestsAssumption
<1> QED
  BY <1>1, <1>2 DEF TileInv, ScanTypeOK, OpenInv, TilesInv, CoverInv

LEMMA TileStep == TileInv /\ [Next]_vars => TileInv'
<1> SUFFICES ASSUME TileInv, [Next]_vars
             PROVE  TileInv'
  OBVIOUS
<1>1. CASE Scan
  BY <1>1, SkipBlankStep, OpenBlockStep, ContinueBlockStep, ContinueListStep,
     EndWithLineStep, EndBlockStep DEF Scan, ScanStep
<1>2. CASE UNCHANGED <<lines, at, open, blocks>>
  <2>1. ScanTypeOK'
    BY <1>2 DEF TileInv, ScanTypeOK
  <2>2. OpenInv'
    <3>1. CASE open = Nothing
      BY <1>2, <3>1 DEF OpenInv
    <3>2. CASE open # Nothing
      BY <1>2, <3>2, OpenNext DEF TileInv, OpenInv
    <3> QED
      BY <3>1, <3>2
  <2>3. TilesInv'
    <3> SUFFICES ASSUME NEW k \in 1 .. Len(blocks)
                 PROVE  /\ IsTile(blocks[k])' /\ blocks[k].last < at
                        /\ open # Nothing => blocks[k].last < open.first
                        /\ k > 1 => blocks[k - 1].last < blocks[k].first
      BY <1>2 DEF TilesInv
    <3>1. PICK b : b = blocks[k]
      OBVIOUS
    <3>2. IsTile(b)' <=> IsTile(blocks[k])'
      BY <1>2, <3>1 DEF IsTile, IsInPlace, EndsUnderFence
    <3>3. IsTile(b)' <=> IsTile(b)
      BY <1>2, SameLines
    <3> QED
      BY <3>1, <3>2, <3>3 DEF TileInv, TilesInv
  <2>4. CoverInv'
    <3>1. \A i : Kind(i)' = Kind(i)
      BY <1>2, SameLines
    <3>2. \A k, i : Covers(blocks[k], i)' = Covers(blocks[k], i)
      BY <1>2 DEF Covers
    <3> QED
      BY <1>2, <3>1, <3>2 DEF TileInv, CoverInv
  <2> QED
    BY <2>1, <2>2, <2>3, <2>4 DEF TileInv
<1>3. [Next]_vars => Scan \/ UNCHANGED <<lines, at, open, blocks>>
  BY DEF Next, vars, Prepare, PreparationStep, LoadProfile, ReadFrontmatter, EndScan,
         ResolveMetadata, AdaptSource, RepairTurn, ExtractTokens, MergeMatch, EndMerge,
         BindToken, EndBinding, SegmentScript, AddTurn, EndSegments,
         DeliverTakes, JudgeTakes, MasterAudio, Transcribe, EvaluateMaster,
         GeneratePackage, scan
<1> QED
  BY <1>1, <1>2, <1>3

LEMMA TilesTheSource == TileInv => BlocksTileTheSource
<1> SUFFICES ASSUME TileInv, Scanned
             PROVE  BlocksTileTheSource
  BY DEF BlocksTileTheSource
<1>1. at \in 1 .. Len(lines) + 1 /\ Len(lines) \in Nat /\ open = Nothing /\ ~(at <= Len(lines))
  BY DEF TileInv, ScanTypeOK, Scanned, Reading
<1>2. at - 1 = Len(lines)
  BY <1>1
<1>3. \A i \in 1 .. Len(lines) : Kind(i) # "blank" =>
        \E k \in 1 .. Len(blocks) : Covers(blocks[k], i)
  BY <1>1, <1>2 DEF TileInv, CoverInv
<1>4. \A k \in 1 .. Len(blocks) :
        IsTile(blocks[k]) /\ (k > 1 => blocks[k - 1].last < blocks[k].first)
  BY DEF TileInv, TilesInv
<1> QED
  BY <1>3, <1>4 DEF BlocksTileTheSource, IsTile, Openers

(* Blocks tile every document: each line that is not blank is in a block,  *)
(* blocks follow one another, none begins with a blank line or ends with   *)
(* one unless a fence is open there to the end of the document, and a      *)
(* heading is a block by itself, quotes are with quotes and items in their *)
(* list unless a table takes the line for its pipe, an open fence hides it *)
(* or it is indented into a list item.  (snapshot_source.)                 *)
THEOREM BlocksTileTheSourceHolds == Spec => []BlocksTileTheSource
<1>1. Init => TileInv
  BY TileInit
<1>2. TileInv /\ [Next]_vars => TileInv'
  BY TileStep
<1>3. TileInv => BlocksTileTheSource
  BY TilesTheSource
<1> QED
  BY <1>1, <1>2, <1>3, PTL DEF Spec

--------------------------------------------------------------------------
(***************************************************************************)
(* Tokens keep their place (TokensKeepTheirPlace), whatever the script,    *)
(* the lexicon and the claims are.                                         *)
(*                                                                         *)
(* Matches are found without overlap and merged without any, so the next   *)
(* one to be bound begins after all that have been.  A token is bound at   *)
(* or after the place where the search for it began, and that is after the *)
(* last of its kind, because those before it have kept their place.        *)
(***************************************************************************)
IsMatch(m) ==
  /\ m = [first |-> m.first, last |-> m.last, category |-> m.category,
          spoken |-> m.spoken, form |-> m.form]
  /\ m.first \in Int /\ m.last \in Int /\ m.first <= m.last

IsBound(t) ==
  /\ t.anchor \in SourceAnchor
  /\ t.first \in Int /\ t.last \in Int /\ t.anchor.first <= t.first /\ t.first <= t.last
  /\ t.said \in Int /\ t.saidTo \in Int /\ t.said <= t.saidTo

(* What binding works on, as far as it needs a type.                       *)
InputInv ==
  /\ request \in Requests
  /\ script \in Seq(ScriptTurn)
  /\ lexicon \subseteq LexiconEntry
  /\ stage \in {"scanning", "metadata"} => request.metadata # Nothing

MatchInv ==
  /\ \A m \in unmerged \cup found : IsMatch(m)
  /\ \A m, n \in found : m # n => ~Overlap(m, n)

BeforeBinding ==
  {"profile", "frontmatter", "scanning", "metadata", "adapting", "adapted", "repaired",
   "merging"}

BoundInv ==
  /\ \E S : tokens \in Seq(S)
  /\ \A k \in 1 .. Len(tokens) : IsBound(tokens[k])
  /\ stage \in BeforeBinding => tokens = <<>>
  /\ stage = "binding" =>
       \A k \in 1 .. Len(tokens), m \in found : tokens[k].saidTo < m.first

TokenInv == InputInv /\ MatchInv /\ BoundInv /\ TokensKeepTheirPlace

(* Numbers that are bounded below have a least one, and those that are     *)
(* bounded above a greatest one.                                           *)
LEMMA LeastNumber ==
  ASSUME NEW S \in SUBSET Int, NEW low \in Int, S # {}, \A n \in S : low <= n
  PROVE  \E n \in S : \A m \in S : n <= m
<1> DEFINE R == {p \in Nat \X Nat : p[1] < p[2]}
           D == {n - low : n \in S}
<1>1. IsWellFoundedOn(R, Nat)
  BY NatLessThanWellFounded DEF OpToRel
<1>2. \A m, n \in Nat : m < n => <<m, n>> \in R
  OBVIOUS
<1>3. D # {} /\ \A d \in D : d \in Nat
  <2>1. \A n \in S : n \in Int /\ n - low \in Nat
    OBVIOUS
  <2>2. \A d \in D : d \in Nat
    BY <2>1
  <2>3. PICK n \in S : TRUE
    OBVIOUS
  <2>4. n - low \in D
    BY <2>3
  <2> QED
    BY <2>2, <2>4
<1> HIDE DEF R
<1>4. D \in SUBSET Nat
  BY <1>3
<1>5. PICK d \in D : \A e \in D : ~(<<e, d>> \in R)
  BY <1>1, <1>3, <1>4, WFMin
<1> HIDE DEF D
<1>6. \A e \in D : d \in Nat /\ e \in Nat /\ ~(e < d)
  BY <1>2, <1>4, <1>5
<1>7. \A e \in D : d <= e
  BY <1>6
<1>8. PICK n \in S : d = n - low
  BY DEF D
<1>9. \A m \in S : m - low \in D
  BY DEF D
<1>10. \A m \in S : d <= m - low /\ m \in Int /\ n \in Int
  BY <1>7, <1>9
<1> QED
  BY <1>8, <1>10

LEMMA GreatestNumber ==
  ASSUME NEW S \in SUBSET Int, NEW high \in Int, S # {}, \A n \in S : n <= high
  PROVE  \E n \in S : \A m \in S : m <= n
<1> DEFINE D == {high - n : n \in S}
<1>1. D \in SUBSET Int /\ D # {} /\ \A d \in D : 0 <= d
  <2>1. \A n \in S : high - n \in Int /\ 0 <= high - n
    OBVIOUS
  <2>2. \A d \in D : d \in Int /\ 0 <= d
    BY <2>1
  <2>3. PICK n \in S : TRUE
    OBVIOUS
  <2>4. high - n \in D
    BY <2>3
  <2> QED
    BY <2>2, <2>4
<1> HIDE DEF D
<1>2. PICK d \in D : \A e \in D : d <= e
  BY <1>1, LeastNumber, SMTT(30)
<1>3. PICK n \in S : d = high - n
  BY DEF D
<1>4. \A m \in S : high - m \in D
  BY DEF D
<1>5. \A m \in S : d <= high - m /\ m \in Int /\ n \in Int
  BY <1>2, <1>4
<1> QED
  BY <1>3, <1>5

(* An occurrence that is found is in the text, at or after the start of    *)
(* the search.                                                             *)
LEMMA FindSpanFacts ==
  ASSUME NEW form, NEW text, NEW start \in Int, 1 <= start,
         FindSpan(form, text, start) # 0
  PROVE  /\ FindSpan(form, text, start) \in Int /\ start <= FindSpan(form, text, start)
         /\ Len(text) \in Int => FindSpan(form, text, start) <= Len(text)
<1> DEFINE S == {i \in start .. Len(text) : ShowsAt(form, text, i)}
<1>1. S \in SUBSET Int /\ \A i \in S : start <= i
  OBVIOUS
<1>2. FindSpan(form, text, start) = IF S = {} THEN 0 ELSE CHOOSE i \in S : \A j \in S : i <= j
  BY DEF FindSpan
<1>3. Len(text) \in Int => \A i \in S : i <= Len(text)
  OBVIOUS
<1> HIDE DEF S
<1>4. S # {}
  BY <1>2
<1>5. \E i \in S : \A j \in S : i <= j
  BY <1>1, <1>4, LeastNumber
<1>6. FindSpan(form, text, start) \in S
  BY <1>2, <1>4, <1>5
<1> QED
  BY <1>1, <1>3, <1>6

(* The search for a form begins after all places that its tokens have.     *)
LEMMA SearchFromFacts ==
  ASSUME BoundInv, TokensKeepTheirPlace, NEW a \in SourceAnchor, NEW form
  PROVE  /\ SearchFrom(tokens, a, form) \in Int /\ 1 <= SearchFrom(tokens, a, form)
         /\ \A k \in 1 .. Len(tokens) : tokens[k].anchor = a /\ tokens[k].form = form =>
              tokens[k].last + 2 - a.first <= SearchFrom(tokens, a, form)
<1> DEFINE I == {k \in 1 .. Len(tokens) : tokens[k].anchor = a /\ tokens[k].form = form}
           used == {b.last : b \in {b \in ToSet(tokens) : b.anchor = a /\ b.form = form}}
<1>1. Len(tokens) \in Nat /\ DOMAIN tokens = 1 .. Len(tokens)
  BY DEF BoundInv
<1>2. used = {tokens[k].last : k \in I}
  BY <1>1 DEF ToSet
<1>3. \A k \in I : IsBound(tokens[k]) /\ a.first \in Nat /\ a.first <= tokens[k].last
  BY DEF BoundInv, IsBound, SourceAnchor
<1>4. SearchFrom(tokens, a, form)
        = IF used = {} THEN 1 ELSE 2 - a.first + CHOOSE n \in used : \A m \in used : m <= n
  BY DEF SearchFrom
<1> HIDE DEF used
<1>5. CASE I = {}
  BY <1>2, <1>4, <1>5
<1>6. CASE I # {}
  <2>1. I \in SUBSET Int /\ Len(tokens) \in Int /\ \A k \in I : k <= Len(tokens)
    BY <1>1
  <2> HIDE DEF I
  <2>2. PICK top \in I : \A k \in I : k <= top
    BY <1>1, <1>6, <2>1, GreatestNumber
  <2> USE DEF I
  <2>3. \A k \in I : tokens[k].last <= tokens[top].last
    <3> SUFFICES ASSUME NEW k \in I, k # top
                 PROVE  tokens[k].last <= tokens[top].last
      BY <1>3 DEF IsBound
    <3>1. k < top
      BY <2>1, <2>2
    <3>2. tokens[k].last < tokens[top].first
      BY <3>1 DEF TokensKeepTheirPlace
    <3> QED
      BY <1>3, <3>2 DEF IsBound
  <2> HIDE DEF I
  <2>4. used # {} /\ tokens[top].last \in used /\ \A m \in used : m <= tokens[top].last
    BY <1>2, <2>2, <2>3
  <2>5. PICK most : most = CHOOSE n \in used : \A m \in used : m <= n
    OBVIOUS
  <2>6. most \in used /\ \A m \in used : m <= most
    BY <2>4, <2>5
  <2>7. PICK j \in I : most = tokens[j].last
    BY <1>2, <2>6
  <2>8. \A k \in I : tokens[k].last <= most
    BY <1>2, <2>6
  <2>9. most \in Int /\ a.first <= most /\ a.first \in Nat
    BY <1>3, <2>7 DEF IsBound
  <2>10. SearchFrom(tokens, a, form) = 2 - a.first + most
    BY <1>4, <2>4, <2>5
  <2>11. \A k \in I : tokens[k].last + 2 - a.first <= 2 - a.first + most
    BY <1>3, <2>8, <2>9 DEF IsBound
  <2> QED
    BY <2>9, <2>10, <2>11 DEF I
<1> QED
  BY <1>5, <1>6

(* Matches that need no lexicon share no word: a unit has its number before*)
(* it, and a word is not a number, a unit and a negation at once.          *)
LEMMA StructuralFacts ==
  ASSUME NEW text
  PROVE  \A m, n \in StructuralMatches(text) : IsMatch(m) /\ (m # n => ~Overlap(m, n))
<1> DEFINE units == {i \in 1 .. Len(text) - 1 : text[i] \in Numbers /\ text[i + 1] \in Units}
           alone == {i \in 1 .. Len(text) : i \notin units /\ i - 1 \notin units}
           Unit(i) == Match(text, i, i + 1, "unit", Spoken(text[i]) \o Spoken(text[i + 1]))
           Negation(i) == Match(text, i, i, "negation", <<text[i]>>)
           Number(i) == Match(text, i, i, "number", Spoken(text[i]))
<1>1. /\ Numbers \cap Units = {}
      /\ Negations \cap (Numbers \cup Units) = {}
  BY CriticalTokensAssumption
<1>2. /\ \A i \in units : i \in Int /\ text[i] \in Numbers /\ text[i + 1] \in Units
      /\ \A i \in alone : i \in Int /\ i \notin units /\ i - 1 \notin units
  OBVIOUS
<1>3. \A m \in StructuralMatches(text) :
        \/ \E i \in units : m = Unit(i)
        \/ \E i \in alone : \/ text[i] \in Negations /\ m = Negation(i)
                            \/ text[i] \in Numbers /\ m = Number(i)
  <2>1. \A m \in StructuralMatches(text) :
          \/ \E i \in units : m = Unit(i)
          \/ \E i \in alone : text[i] \in Negations /\ m = Negation(i)
          \/ \E i \in alone : text[i] \in Numbers /\ m = Number(i)
    BY DEF StructuralMatches
  <2> HIDE DEF units, alone, Unit, Negation, Number
  <2> QED
    BY <2>1
<1> HIDE DEF units, alone
<1>4. \A i : /\ Unit(i).first = i /\ Unit(i).last = i + 1
             /\ Negation(i).first = i /\ Negation(i).last = i
             /\ Number(i).first = i /\ Number(i).last = i
             /\ i \in Int => IsMatch(Unit(i)) /\ IsMatch(Negation(i)) /\ IsMatch(Number(i))
  BY DEF Match, IsMatch
<1> HIDE DEF Unit, Negation, Number
<1>5. \A i, j \in units : i # j => i + 1 < j \/ j + 1 < i
  <2> SUFFICES ASSUME NEW i \in units, NEW j \in units, j = i + 1
               PROVE  FALSE
    BY <1>2
  <2> QED
    BY <1>1, <1>2
<1>6. \A i \in units, j \in alone : j # i /\ j # i + 1
  BY <1>2
<1>7. \A i \in alone : ~(text[i] \in Negations /\ text[i] \in Numbers)
  BY <1>1
<1> SUFFICES ASSUME NEW m \in StructuralMatches(text), NEW n \in StructuralMatches(text)
             PROVE  IsMatch(m) /\ (m # n => ~Overlap(m, n))
  OBVIOUS
<1>8. CASE \E i \in units : m = Unit(i)
  <2>1. PICK i \in units : m = Unit(i)
    BY <1>8
  <2>2. CASE \E j \in units : n = Unit(j)
    BY <1>2, <1>4, <1>5, <2>1, <2>2 DEF Overlap
  <2>3. CASE \E j \in alone : n = Negation(j) \/ n = Number(j)
    BY <1>2, <1>4, <1>6, <2>1, <2>3 DEF Overlap
  <2> QED
    BY <1>3, <2>2, <2>3
<1>9. CASE \E i \in alone : \/ text[i] \in Negations /\ m = Negation(i)
                            \/ text[i] \in Numbers /\ m = Number(i)
  <2>1. PICK i \in alone : \/ text[i] \in Negations /\ m = Negation(i)
                           \/ text[i] \in Numbers /\ m = Number(i)
    BY <1>9
  <2>2. CASE \E j \in units : n = Unit(j)
    BY <1>2, <1>4, <1>6, <2>1, <2>2 DEF Overlap
  <2>3. CASE \E j \in alone : \/ text[j] \in Negations /\ n = Negation(j)
                              \/ text[j] \in Numbers /\ n = Number(j)
    BY <1>2, <1>4, <1>7, <2>1, <2>3 DEF Overlap
  <2> QED
    BY <1>3, <2>2, <2>3
<1> QED
  BY <1>3, <1>8, <1>9

LEMMA LexiconFacts ==
  ASSUME NEW text, NEW entries, \A e \in entries : e.key \in Key
  PROVE  \A m \in LexiconMatches(text, entries) : IsMatch(m)
<1> SUFFICES ASSUME NEW m \in LexiconMatches(text, entries)
             PROVE  IsMatch(m)
  OBVIOUS
<1>1. PICK k \in Found(text, entries) : \E category, spoken :
        m = Match(text, k[2], k[2] + Len(k[1]) - 1, category, spoken)
  BY DEF LexiconMatches
<1>2. k \in {e.key : e \in entries} \X (1 .. Len(text))
  BY DEF Found
<1>3. k[1] \in Key /\ k[2] \in Int
  BY <1>2
<1>4. Len(k[1]) \in Nat /\ 1 <= Len(k[1])
  BY <1>3 DEF Key
<1> QED
  BY <1>1, <1>3, <1>4 DEF Match, IsMatch

LEMMA MergeFacts ==
  ASSUME NEW F, NEW m, IsMatch(m), IsMergeable(m, F),
         \A x, y \in F : IsMatch(x) /\ (x # y => ~Overlap(x, y))
  PROVE  \A x, y \in Merged(m, F) : IsMatch(x) /\ (x # y => ~Overlap(x, y))
<1>1. PICK category : Merged(m, F)
        = (F \ Overlapped(m, F)) \cup {[m EXCEPT !.category = category]}
  BY DEF Merged
<1>2. PICK c : c = [m EXCEPT !.category = category]
  OBVIOUS
<1>3. IsMatch(c) /\ c.first = m.first /\ c.last = m.last
  BY <1>2 DEF IsMatch
<1>4. \A x \in F \ Overlapped(m, F) : IsMatch(x) /\ ~Overlap(c, x) /\ ~Overlap(x, c)
  BY <1>3 DEF Overlapped, Overlap, IsMatch
<1> QED
  BY <1>1, <1>2, <1>3, <1>4

--------------------------------------------------------------------------

(* A step that leaves matches and tokens alone and does not go back in the *)
(* order of the stages.                                                    *)
LEMMA SameTokens ==
  ASSUME TokenInv, UNCHANGED <<matches, tokens>>, InputInv',
         stage' \in BeforeBinding => stage \in BeforeBinding,
         stage' = "binding" => tokens = <<>>
  PROVE  TokenInv'
<1>1. MatchInv'
  BY DEF TokenInv, MatchInv, matches
<1>2. BoundInv'
  BY DEF TokenInv, BoundInv, matches
<1>3. TokensKeepTheirPlace'
  BY DEF TokenInv, TokensKeepTheirPlace
<1> QED
  BY <1>1, <1>2, <1>3 DEF TokenInv

(* Where a step of preparation leads.                                      *)
LEMMA AdvanceFacts ==
  ASSUME NEW ok, NEW next, Advance(ok, next)
  PROVE  (ok /\ stage' = next) \/ (~ok /\ stage' = "rejected")
BY DEF Advance

LEMMA SameInput ==
  ASSUME InputInv, UNCHANGED <<request, script, lexicon>>,
         stage' \in {"scanning", "metadata"} => stage \in {"scanning", "metadata"}
  PROVE  InputInv'
BY DEF InputInv

LEMMA ResolveMetadataStep == TokenInv /\ ResolveMetadata => TokenInv'
<1> SUFFICES ASSUME TokenInv, ResolveMetadata
             PROVE  TokenInv'
  OBVIOUS
<1>1. stage = "metadata" /\ stage' \in {"adapting", "rejected"}
  BY DEF ResolveMetadata, Advance
<1>2. PICK o : o = request.metadata.overrides
  OBVIOUS
<1>3. lexicon' = Overlay(request.lexicon, o)
  BY <1>2 DEF ResolveMetadata
<1>4. /\ request.lexicon \subseteq LexiconEntry
      /\ \A x \in o : x.key \in Key /\ x.spoken \in Seq(STRING)
  BY <1>1, <1>2, RequestsAssumption DEF TokenInv, InputInv
<1>5. lexicon' \subseteq LexiconEntry
  <2>1. "episode" \in ToSet(Scopes)
    BY DEF ToSet, Scopes
  <2>2. \A x \in o : [scope |-> "episode", key |-> x.key, spoken |-> x.spoken,
                     category |-> "technical_term"] \in LexiconEntry
    <3> SUFFICES ASSUME NEW x \in o
                 PROVE  [scope |-> "episode", key |-> x.key, spoken |-> x.spoken,
                         category |-> "technical_term"] \in LexiconEntry
      OBVIOUS
    <3>1. x.key \in Key /\ x.spoken \in Seq(STRING)
      BY <1>4, Zenon
    <3>2. PICK k \in Key, p \in Seq(STRING) : k = x.key /\ p = x.spoken
      BY <3>1
    <3>3. [scope |-> "episode", key |-> k, spoken |-> p, category |-> "technical_term"]
            \in LexiconEntry
      BY <2>1 DEF LexiconEntry
    <3> QED
      BY <3>2, <3>3, Zenon
  <2> QED
    BY <1>3, <1>4, <2>2 DEF Overlay
<1>6. InputInv'
  BY <1>1, <1>5 DEF ResolveMetadata, TokenInv, InputInv
<1> QED
  BY <1>1, <1>6, SameTokens DEF ResolveMetadata, BeforeBinding

LEMMA AdaptSourceStep == TokenInv /\ AdaptSource => TokenInv'
<1> SUFFICES ASSUME TokenInv, AdaptSource
             PROVE  TokenInv'
  OBVIOUS
<1>1. stage = "adapting" /\ stage' \in {"adapted", "rejected"}
  BY DEF AdaptSource, Advance
<1>2. script' \in Seq(ScriptTurn)
  BY RequestsAssumption DEF AdaptSource, TokenInv, InputInv
<1>3. InputInv'
  BY <1>1, <1>2 DEF AdaptSource, TokenInv, InputInv
<1> QED
  BY <1>1, <1>3, SameTokens DEF AdaptSource, BeforeBinding

LEMMA RepairTurnStep == TokenInv /\ RepairTurn => TokenInv'
<1> SUFFICES ASSUME TokenInv, RepairTurn
             PROVE  TokenInv'
  OBVIOUS
<1>1. stage = "adapted" /\ stage' = "repaired"
  BY DEF RepairTurn
<1>2. PICK r \in request.repairs, i \in 1 .. Len(script) :
        script' \in {ReplaceAt(script, i, r), script}
  BY DEF RepairTurn
<1>3. r \in ScriptTurn /\ script \in Seq(ScriptTurn)
  BY <1>2, RequestsAssumption DEF TokenInv, InputInv
<1>4. ReplaceAt(script, i, r) \in Seq(ScriptTurn)
  BY <1>3 DEF ReplaceAt
<1>5. InputInv'
  BY <1>1, <1>2, <1>3, <1>4 DEF RepairTurn, TokenInv, InputInv
<1> QED
  BY <1>1, <1>5, SameTokens DEF RepairTurn, BeforeBinding

LEMMA ExtractTokensStep == TokenInv /\ ExtractTokens => TokenInv'
<1> SUFFICES ASSUME TokenInv, ExtractTokens
             PROVE  TokenInv'
  OBVIOUS
<1>1. stage \in {"adapted", "repaired"} /\ stage' \in {"merging", "rejected"}
  BY DEF ExtractTokens, Advance
<1>2. InputInv'
  BY <1>1, SameInput DEF ExtractTokens, TokenInv
<1>3. MatchInv'
  <2>1. PICK text : text = Text(script)
    OBVIOUS
  <2>2. found' = StructuralMatches(text)
    BY <2>1 DEF ExtractTokens
  <2>3. unmerged' \in {LexiconMatches(text, lexicon), {}}
    BY <2>1 DEF ExtractTokens
  <2>4. \A e \in lexicon : e.key \in Key
    BY DEF TokenInv, InputInv, LexiconEntry
  <2>5. \A m \in LexiconMatches(text, lexicon) : IsMatch(m)
    BY <2>4, LexiconFacts
  <2>6. \A m, n \in StructuralMatches(text) : IsMatch(m) /\ (m # n => ~Overlap(m, n))
    BY StructuralFacts
  <2> QED
    BY <2>2, <2>3, <2>5, <2>6 DEF MatchInv
<1>4. tokens' = tokens /\ tokens = <<>>
  BY <1>1 DEF ExtractTokens, TokenInv, BoundInv, BeforeBinding
<1>5. BoundInv' /\ TokensKeepTheirPlace'
  BY <1>1, <1>4 DEF TokenInv, BoundInv, TokensKeepTheirPlace
<1> QED
  BY <1>2, <1>3, <1>5 DEF TokenInv

LEMMA MergeMatchStep == TokenInv /\ MergeMatch => TokenInv'
<1> SUFFICES ASSUME TokenInv, MergeMatch
             PROVE  TokenInv'
  OBVIOUS
<1>1. stage = "merging" /\ stage' \in {"merging", "rejected"}
  BY DEF MergeMatch, Advance
<1>2. InputInv'
  BY <1>1, SameInput DEF MergeMatch, TokenInv
<1>3. MatchInv'
  <2>1. PICK m \in unmerged :
          /\ unmerged' = unmerged \ {m}
          /\ found' = IF IsMergeable(m, found) THEN Merged(m, found) ELSE found
    BY DEF MergeMatch
  <2>2. /\ IsMatch(m) /\ \A n \in unmerged' : IsMatch(n)
        /\ \A x, y \in found : IsMatch(x) /\ (x # y => ~Overlap(x, y))
    BY <2>1 DEF TokenInv, MatchInv
  <2>3. CASE IsMergeable(m, found)
    <3>1. \A x, y \in Merged(m, found) : IsMatch(x) /\ (x # y => ~Overlap(x, y))
      BY <2>2, <2>3, MergeFacts
    <3> QED
      BY <2>1, <2>2, <2>3, <3>1 DEF MatchInv
  <2>4. CASE ~IsMergeable(m, found)
    BY <2>1, <2>2, <2>4 DEF MatchInv
  <2> QED
    BY <2>3, <2>4
<1>4. tokens' = tokens /\ tokens = <<>>
  BY <1>1 DEF MergeMatch, TokenInv, BoundInv, BeforeBinding
<1>5. BoundInv' /\ TokensKeepTheirPlace'
  BY <1>1, <1>4 DEF TokenInv, BoundInv, TokensKeepTheirPlace
<1> QED
  BY <1>2, <1>3, <1>5 DEF TokenInv

(* A match that is bound is the next one in the script, and has been found *)
(* in an anchor; otherwise there are no tokens any more.                   *)
LEMMA BindTokenFacts ==
  ASSUME TokenInv, BindToken
  PROVE  \E m \in found, i \in 1 .. Len(script) :
           /\ \A n \in found : m.first <= n.first
           /\ found' = found \ {m}
           /\ \/ tokens' = <<>> /\ stage' = "rejected"
              \/ /\ stage' = "binding"
                 /\ \E a \in SourceAnchor : /\ PlaceIn(a, m.form) # 0
                                            /\ tokens' = Append(tokens, BoundToken(m, i, a))
<1>1. PICK m \in found, i \in 1 .. Len(script) :
        /\ \A n \in found : m.first <= n.first
        /\ LET claim == script[i].claim
               places == {c \in 1 .. Len(claim) : PlaceIn(claim[c], m.form) # 0}
           IN /\ tokens' = IF places = {} THEN <<>>
                           ELSE Append(tokens, BoundToken(m, i,
                                  claim[CHOOSE c \in places : \A d \in places : c <= d]))
              /\ Advance(places # {}, "binding")
        /\ found' = found \ {m}
  BY DEF BindToken
<1>2. PICK claim : claim = script[i].claim
  OBVIOUS
<1>3. claim \in Seq(SourceAnchor) /\ Len(claim) \in Nat
  <2>1. script[i] \in ScriptTurn
    BY DEF TokenInv, InputInv
  <2> QED
    BY <1>2, <2>1 DEF ScriptTurn
<1>4. PICK places : places = {c \in 1 .. Len(claim) : PlaceIn(claim[c], m.form) # 0}
  OBVIOUS
<1>5. PICK c : c = CHOOSE x \in places : \A d \in places : x <= d
  OBVIOUS
<1>6. /\ tokens' = IF places = {} THEN <<>> ELSE Append(tokens, BoundToken(m, i, claim[c]))
      /\ Advance(places # {}, "binding")
  BY <1>1, <1>2, <1>4, <1>5
<1>7. CASE places = {}
  BY <1>1, <1>6, <1>7 DEF Advance
<1>8. CASE places # {}
  <2>1. places \in SUBSET Int /\ \A d \in places : 1 <= d
    BY <1>3, <1>4
  <2>2. c \in places
    <3>1. \E n \in places : \A d \in places : n <= d
      BY <1>8, <2>1, 1 \in Int, LeastNumber
    <3> QED
      BY <1>5, <3>1
  <2>3. c \in 1 .. Len(claim) /\ PlaceIn(claim[c], m.form) # 0
    BY <1>4, <2>2
  <2>4. PICK a \in SourceAnchor : a = claim[c]
    BY <1>3, <2>3
  <2>5. PlaceIn(a, m.form) # 0 /\ tokens' = Append(tokens, BoundToken(m, i, a))
    BY <1>6, <1>8, <2>3, <2>4
  <2>6. stage' = "binding"
    BY <1>6, <1>8 DEF Advance
  <2> QED
    BY <1>1, <2>5, <2>6
<1> QED
  BY <1>7, <1>8

(* The next match becomes a token behind all tokens there are: in the      *)
(* script, because none of them overlaps it, and in its claim anchor.      *)
LEMMA BindTokenStep == TokenInv /\ BindToken => TokenInv'
<1> SUFFICES ASSUME TokenInv, BindToken
             PROVE  TokenInv'
  OBVIOUS
<1>1. stage = "binding" /\ stage' \in {"binding", "rejected"}
  BY DEF BindToken, Advance
<1>2. InputInv'
  BY <1>1, SameInput DEF BindToken, TokenInv
<1>3. PICK m \in found, i \in 1 .. Len(script) :
        /\ \A n \in found : m.first <= n.first
        /\ found' = found \ {m}
        /\ \/ tokens' = <<>>
           \/ \E a \in SourceAnchor : /\ PlaceIn(a, m.form) # 0
                                      /\ tokens' = Append(tokens, BoundToken(m, i, a))
  BY BindTokenFacts
<1>4. /\ IsMatch(m) /\ \A n \in found' : IsMatch(n) /\ m.last < n.first
      /\ MatchInv'
  <2>1. \A n \in found : IsMatch(n) /\ (n # m => ~Overlap(m, n))
    BY DEF TokenInv, MatchInv
  <2>2. \A n \in found' : n \in found /\ n # m /\ m.first <= n.first
    BY <1>3
  <2>3. \A n \in found' : m.last < n.first
    BY <2>1, <2>2, <1>3 DEF Overlap, IsMatch
  <2>4. MatchInv'
    BY <2>2 DEF BindToken, TokenInv, MatchInv
  <2> QED
    BY <2>1, <2>2, <2>3, <2>4
<1>5. CASE tokens' = <<>>
  BY <1>1, <1>2, <1>4, <1>5 DEF TokenInv, BoundInv, TokensKeepTheirPlace
<1>6. CASE tokens' # <<>>
  <2>1. PICK a \in SourceAnchor :
          PlaceIn(a, m.form) # 0 /\ tokens' = Append(tokens, BoundToken(m, i, a))
    BY <1>3, <1>6
  <2>2. PICK b : b = BoundToken(m, i, a)
    OBVIOUS
  <2>3. /\ IsBound(b) /\ b.said = m.first /\ b.saidTo = m.last
        /\ b.anchor = a /\ b.form = m.form
        /\ \A k \in 1 .. Len(tokens) : tokens[k].anchor = a /\ tokens[k].form = m.form =>
             tokens[k].last < b.first
    <3>1. PICK start : start = SearchFrom(tokens, a, m.form)
      OBVIOUS
    <3>2. PICK place : place = PlaceIn(a, m.form)
      OBVIOUS
    <3>3. /\ start \in Int /\ 1 <= start
          /\ \A k \in 1 .. Len(tokens) : tokens[k].anchor = a /\ tokens[k].form = m.form =>
               tokens[k].last + 2 - a.first <= start
      BY <3>1, SearchFromFacts DEF TokenInv
    <3>4. place = FindSpan(m.form, AnchorText(a), start) /\ place # 0
      BY <2>1, <3>1, <3>2 DEF PlaceIn
    <3>5. place \in Int /\ start <= place
      BY <3>3, <3>4, FindSpanFacts
    <3>6. b = [anchor |-> a, form |-> m.form, spoken |-> m.spoken, category |-> m.category,
               turn |-> i, first |-> a.first + place - 1,
               last |-> a.first + place - 1 + m.last - m.first,
               said |-> m.first, saidTo |-> m.last]
      BY <2>2, <3>2 DEF BoundToken
    <3>7. a.first \in Nat /\ m.first \in Int /\ m.last \in Int /\ m.first <= m.last
      BY <1>4 DEF SourceAnchor, IsMatch
    <3>8. /\ b.first = a.first + place - 1
          /\ b.last = a.first + place - 1 + m.last - m.first
          /\ b.said = m.first /\ b.saidTo = m.last /\ b.anchor = a /\ b.form = m.form
      BY <3>6
    <3>9. IsBound(b)
      BY <3>3, <3>5, <3>7, <3>8 DEF IsBound
    <3>10. ASSUME NEW k \in 1 .. Len(tokens), tokens[k].anchor = a, tokens[k].form = m.form
           PROVE  tokens[k].last < b.first
      <4>1. tokens[k].last \in Int /\ tokens[k].last + 2 - a.first <= start
        BY <3>3, <3>10 DEF TokenInv, BoundInv, IsBound
      <4> QED
        BY <3>3, <3>5, <3>7, <3>8, <4>1, SMTT(30)
    <3> QED
      BY <3>8, <3>9, <3>10
  <2>4. /\ Len(tokens) \in Nat /\ Len(tokens') = Len(tokens) + 1
        /\ tokens'[Len(tokens) + 1] = b
        /\ \A k \in 1 .. Len(tokens) : tokens'[k] = tokens[k]
        /\ \E S : tokens' \in Seq(S)
    <3>1. PICK S : tokens \in Seq(S)
      BY DEF TokenInv, BoundInv
    <3>2. PICK T : T = S \cup {b}
      OBVIOUS
    <3>3. tokens \in Seq(T) /\ b \in T
      BY <3>1, <3>2
    <3>4. tokens' \in Seq(T)
      BY <2>1, <2>2, <3>3
    <3> QED
      BY <2>1, <2>2, <3>3, <3>4
  <2>5. \A k \in 1 .. Len(tokens) : IsBound(tokens[k]) /\ tokens[k].saidTo < m.first
    BY <1>1 DEF TokenInv, BoundInv
  <2>6. \A k \in 1 .. Len(tokens') : \A t : t = tokens'[k] =>
          IsBound(t) /\ t.saidTo <= m.last
    <3> SUFFICES ASSUME NEW k \in 1 .. Len(tokens'), NEW t, t = tokens'[k]
                 PROVE  IsBound(t) /\ t.saidTo <= m.last
      OBVIOUS
    <3>1. CASE k \in 1 .. Len(tokens)
      <4>1. t = tokens[k]
        BY <2>4, <3>1
      <4>2. IsBound(t) /\ t.saidTo < m.first
        BY <2>5, <3>1, <4>1
      <4> QED
        BY <1>4, <4>2 DEF IsMatch, IsBound
    <3>2. CASE k = Len(tokens) + 1
      <4>1. t = b
        BY <2>4, <3>2
      <4> QED
        BY <1>4, <2>3, <4>1 DEF IsMatch
    <3> QED
      BY <2>4, <3>1, <3>2
  <2>7. BoundInv'
    <3>1. \A k \in 1 .. Len(tokens'), n \in found' : tokens'[k].saidTo < n.first
      BY <1>4, <2>6 DEF IsMatch, IsBound
    <3>2. \A k \in 1 .. Len(tokens') : IsBound(tokens[k])'
      BY <2>6 DEF IsBound
    <3> QED
      BY <1>1, <2>4, <3>1, <3>2 DEF BoundInv, BeforeBinding
  <2>8. TokensKeepTheirPlace'
    <3> SUFFICES ASSUME NEW j \in 1 .. Len(tokens'), NEW k \in 1 .. Len(tokens'), j < k
                 PROVE  /\ tokens'[j].saidTo < tokens'[k].said
                        /\ tokens'[j].anchor = tokens'[k].anchor
                             /\ tokens'[j].form = tokens'[k].form
                           => tokens'[j].last < tokens'[k].first
      BY DEF TokensKeepTheirPlace
    <3>1. j \in 1 .. Len(tokens) /\ tokens'[j] = tokens[j]
      BY <2>4
    <3>2. CASE k \in 1 .. Len(tokens)
      BY <2>4, <3>1, <3>2 DEF TokenInv, TokensKeepTheirPlace
    <3>3. CASE k = Len(tokens) + 1
      BY <2>3, <2>4, <2>5, <3>1, <3>3
    <3> QED
      BY <2>4, <3>2, <3>3
  <2> QED
    BY <1>2, <1>4, <2>7, <2>8 DEF TokenInv
<1> QED
  BY <1>5, <1>6

LEMMA TokenInit == Init => TokenInv
<1> SUFFICES ASSUME Init
             PROVE  TokenInv
  OBVIOUS
<1>1. /\ request \in Requests /\ lexicon = {} /\ script = <<>> /\ unmerged = {}
      /\ found = {} /\ tokens = <<>> /\ stage = "profile"
  BY DEF Init, PreparationInit
<1>2. script \in Seq(ScriptTurn) /\ tokens \in Seq({})
  BY <1>1
<1> QED
  BY <1>1, <1>2
  DEF TokenInv, InputInv, MatchInv, BoundInv, TokensKeepTheirPlace, BeforeBinding

LEMMA TokenStep == TokenInv /\ [Next]_vars => TokenInv'
<1> SUFFICES ASSUME TokenInv, [Next]_vars
             PROVE  TokenInv'
  OBVIOUS
<1>1. CASE \/ ResolveMetadata \/ AdaptSource \/ RepairTurn
           \/ ExtractTokens \/ MergeMatch \/ BindToken
  BY <1>1, ResolveMetadataStep, AdaptSourceStep, RepairTurnStep, ExtractTokensStep,
     MergeMatchStep, BindTokenStep
<1>2. CASE UNCHANGED <<request, script, lexicon, matches, tokens, stage>>
  BY <1>2 DEF TokenInv, InputInv, MatchInv, BoundInv, TokensKeepTheirPlace, matches
<1>3. CASE LoadProfile \/ ReadFrontmatter \/ EndScan
  <2>1. UNCHANGED <<request, script, lexicon, matches, tokens>>
    BY <1>3 DEF LoadProfile, ReadFrontmatter, EndScan, prepared
  <2>2. /\ stage \in BeforeBinding /\ stage' # "binding"
        /\ stage' \in {"scanning", "metadata"} =>
             stage \in {"scanning", "metadata"} \/ request.metadata # Nothing
    BY <1>3 DEF LoadProfile, ReadFrontmatter, EndScan, Advance, BeforeBinding
  <2>3. InputInv'
    BY <2>1, <2>2 DEF TokenInv, InputInv
  <2> QED
    BY <2>1, <2>2, <2>3, SameTokens
<1>4. CASE \/ EndMerge \/ EndBinding \/ SegmentScript \/ AddTurn \/ EndSegments
           \/ DeliverTakes \/ JudgeTakes \/ MasterAudio \/ Transcribe \/ EvaluateMaster
           \/ GeneratePackage
  <2>1. UNCHANGED <<request, script, lexicon, matches, tokens>>
    BY <1>4 DEF EndMerge, EndBinding, SegmentScript, AddTurn, EndSegments, DeliverTakes,
                JudgeTakes, MasterAudio, Transcribe, EvaluateMaster, GeneratePackage, prepared
  <2>2. /\ stage' \notin BeforeBinding
        /\ stage' = "binding" => stage = "merging"
    BY <1>4 DEF EndMerge, EndBinding, SegmentScript, AddTurn, EndSegments, DeliverTakes,
                JudgeTakes, MasterAudio, Transcribe, EvaluateMaster, GeneratePackage, Advance,
                BeforeBinding
  <2>3. stage = "merging" => tokens = <<>>
    BY DEF TokenInv, BoundInv, BeforeBinding
  <2>4. InputInv'
    BY <2>1, <2>2, SameInput DEF TokenInv, BeforeBinding
  <2> QED
    BY <2>1, <2>2, <2>3, <2>4, SameTokens
<1>5. Scan \/ UNCHANGED vars => UNCHANGED <<request, script, lexicon, matches, tokens, stage>>
  BY DEF Scan, vars, prepared
<1> QED
  BY <1>1, <1>2, <1>3, <1>4, <1>5 DEF Next, Prepare, PreparationStep

(* Tokens are bound in the order of the script without sharing a word, and *)
(* tokens of one form and claim anchor to different places in it, in that  *)
(* order.  (_merge_lexicon_matches, _source_bound_tokens.)                 *)
THEOREM TokensKeepTheirPlaceHolds == Spec => []TokensKeepTheirPlace
<1>1. Init => TokenInv
  BY TokenInit
<1>2. TokenInv /\ [Next]_vars => TokenInv'
  BY TokenStep
<1>3. TokenInv => TokensKeepTheirPlace
  BY DEF TokenInv
<1> QED
  BY <1>1, <1>2, <1>3, PTL DEF Spec

--------------------------------------------------------------------------
(***************************************************************************)
(* Flattening sequences. FlattenSeq is defined by a recursive function in  *)
(* the community module; what the proofs need of it is proved here by      *)
(* induction over the integers, as least numbers exist (LeastNumber).      *)
(***************************************************************************)

(* Induction over the integers from a lower bound on.                      *)
LEMMA Induct ==
  ASSUME NEW S, NEW low \in Int, low \in S,
         \A n \in Int : low <= n /\ n \in S => n + 1 \in S
  PROVE  \A n \in Int : low <= n => n \in S
<1> SUFFICES ASSUME NEW m \in Int, low <= m, m \notin S
             PROVE  FALSE
  OBVIOUS
<1>1. PICK D : D = {n \in Int : low <= n /\ n \notin S}
  OBVIOUS
<1>2. D \in SUBSET Int /\ D # {} /\ \A n \in D : low <= n
  BY <1>1
<1>3. PICK n \in D : \A k \in D : n <= k
  BY <1>2, LeastNumber
<1>4. n # low /\ n \in Int /\ low <= n /\ n \notin S
  BY <1>1, <1>3
<1>5. n - 1 \in Int /\ low <= n - 1 /\ n - 1 \notin D
  BY <1>3, <1>4
<1>6. n - 1 \in S
  BY <1>1, <1>5
<1>7. (n - 1) + 1 \in S
  BY <1>5, <1>6
<1> QED
  BY <1>4, <1>7

(* FlattenSeq's recursive function: what a sequence's first parts flatten  *)
(* to.                                                                     *)
IsFlatten(f, s) ==
  /\ DOMAIN f = 1 .. Len(s)
  /\ \A i \in 1 .. Len(s) : f[i] = IF i = 1 THEN s[i] ELSE f[i - 1] \o s[i]

(* FlattenSeq's recursive function exists: each value follows from the one *)
(* before it.                                                              *)
LEMMA FlattenExists ==
  ASSUME NEW S, NEW s \in Seq(Seq(S))
  PROVE  \E f : f = [i \in 1 .. Len(s) |-> IF i = 1 THEN s[i] ELSE f[i - 1] \o s[i]]
<1> DEFINE P(n) == \E f \in [1 .. n -> Seq(S)] :
                     \A i \in 1 .. n : f[i] = IF i = 1 THEN s[i] ELSE f[i - 1] \o s[i]
           T == {n \in Int : n <= Len(s) => P(n)}
<1>1. P(0)
  <2>1. [i \in 1 .. 0 |-> <<>>] \in [1 .. 0 -> Seq(S)] /\ 1 .. 0 = {}
    OBVIOUS
  <2> QED
    BY <2>1
<1>2. ASSUME NEW n \in Int, 0 <= n, P(n), n + 1 <= Len(s)
      PROVE  P(n + 1)
  <2>1. PICK f \in [1 .. n -> Seq(S)] :
          \A i \in 1 .. n : f[i] = IF i = 1 THEN s[i] ELSE f[i - 1] \o s[i]
    BY <1>2
  <2>2. PICK x : x = IF n = 0 THEN s[1] ELSE f[n] \o s[n + 1]
    OBVIOUS
  <2>3. x \in Seq(S)
    <3>1. s[n + 1] \in Seq(S)
      BY <1>2
    <3>2. CASE n = 0
      BY <2>2, <3>1, <3>2
    <3>3. CASE n # 0
      <4>1. f[n] \in Seq(S)
        BY <1>2, <3>3
      <4> QED
        BY <2>2, <3>1, <3>3, <4>1, ConcatProperties
    <3> QED
      BY <3>2, <3>3
  <2>4. PICK g : g = [i \in 1 .. n + 1 |-> IF i = n + 1 THEN x ELSE f[i]]
    OBVIOUS
  <2>5. g \in [1 .. n + 1 -> Seq(S)]
    BY <2>1, <2>3, <2>4
  <2>6. \A i \in 1 .. n + 1 : g[i] = IF i = 1 THEN s[i] ELSE g[i - 1] \o s[i]
    <3> SUFFICES ASSUME NEW i \in 1 .. n + 1
                 PROVE  g[i] = IF i = 1 THEN s[i] ELSE g[i - 1] \o s[i]
      OBVIOUS
    <3>1. CASE i = n + 1
      BY <1>2, <2>2, <2>4, <3>1
    <3>2. CASE i # n + 1
      <4>1. i \in 1 .. n /\ (i # 1 => i - 1 \in 1 .. n)
        BY <1>2, <3>2
      <4>2. g[i] = f[i] /\ (i # 1 => g[i - 1] = f[i - 1])
        BY <1>2, <2>4, <4>1
      <4> QED
        BY <2>1, <4>1, <4>2
    <3> QED
      BY <3>1, <3>2
  <2> QED
    BY <2>5, <2>6
<1> HIDE DEF P
<1>3. 0 \in Int /\ 0 \in T /\ \A n \in Int : 0 <= n /\ n \in T => n + 1 \in T
  BY <1>1, <1>2
<1> HIDE DEF T
<1>4. Len(s) \in T
  <2>1. \A n \in Int : 0 <= n => n \in T
    BY ONLY <1>3, Induct
  <2> QED
    BY <2>1
<1>5. PICK f \in [1 .. Len(s) -> Seq(S)] :
        \A i \in 1 .. Len(s) : f[i] = IF i = 1 THEN s[i] ELSE f[i - 1] \o s[i]
  BY <1>4 DEF T, P
<1>6. f = [i \in 1 .. Len(s) |-> IF i = 1 THEN s[i] ELSE f[i - 1] \o s[i]]
  BY <1>5
<1> QED
  BY <1>6

(* FlattenSeq gives the last value of that function.                       *)
LEMMA FlattenIsFold ==
  ASSUME NEW S, NEW s \in Seq(Seq(S)), s # <<>>
  PROVE  \E f : IsFlatten(f, s) /\ FlattenSeq(s) = f[Len(s)]
<1>1. PICK f : f = CHOOSE g : g = [i \in 1 .. Len(s) |-> IF i = 1 THEN s[i] ELSE g[i - 1] \o s[i]]
  OBVIOUS
<1>2. f = [i \in 1 .. Len(s) |-> IF i = 1 THEN s[i] ELSE f[i - 1] \o s[i]]
  BY <1>1, FlattenExists
<1>3. FlattenSeq(s) = f[Len(s)]
  BY <1>1 DEF FlattenSeq
<1>4. IsFlatten(f, s)
  BY <1>2 DEF IsFlatten
<1> QED
  BY <1>3, <1>4

(* What it gives for a prefix does not depend on what follows.             *)
LEMMA FlattenUnique ==
  ASSUME NEW s, NEW t, NEW f, NEW g, NEW n \in Nat, n <= Len(s), n <= Len(t),
         Len(s) \in Nat, Len(t) \in Nat, \A i \in 1 .. n : s[i] = t[i],
         IsFlatten(f, s), IsFlatten(g, t)
  PROVE  \A i \in 1 .. n : f[i] = g[i]
<1> DEFINE T == {i \in Int : i <= n => f[i] = g[i]}
<1>1. \A i \in 1 .. n : i \in 1 .. Len(s) /\ i \in 1 .. Len(t)
  OBVIOUS
<1>2. 1 \in T
  <2> SUFFICES ASSUME 1 <= n
               PROVE  f[1] = g[1]
    OBVIOUS
  <2>1. 1 \in 1 .. n
    OBVIOUS
  <2> QED
    BY <1>1, <2>1 DEF IsFlatten
<1>3. ASSUME NEW i \in Int, 1 <= i, i \in T
      PROVE  i + 1 \in T
  <2> SUFFICES ASSUME i + 1 <= n
               PROVE  f[i + 1] = g[i + 1]
    BY <1>3
  <2>1. f[i] = g[i] /\ i + 1 \in 1 .. n
    BY <1>3
  <2>2. i + 1 \in 1 .. Len(s) /\ i + 1 \in 1 .. Len(t) /\ i + 1 # 1 /\ (i + 1) - 1 = i
    BY <1>1, <1>3, <2>1
  <2>3. f[i + 1] = f[i] \o s[i + 1] /\ g[i + 1] = g[i] \o t[i + 1]
    BY <2>2 DEF IsFlatten
  <2> QED
    BY <2>1, <2>3
<1> HIDE DEF T
<1>4. \A i \in Int : 1 <= i => i \in T
  <2>1. 1 \in Int /\ \A i \in Int : 1 <= i /\ i \in T => i + 1 \in T
    BY <1>3
  <2> QED
    BY ONLY <1>2, <2>1, Induct
<1> QED
  BY <1>4 DEF T

(* Nothing flattens to nothing.                                            *)
LEMMA FlattenEmpty == FlattenSeq(<<>>) = <<>>
BY DEF FlattenSeq

(* One more sequence is added at the end.                                  *)
LEMMA FlattenAppend ==
  ASSUME NEW S, NEW s \in Seq(Seq(S)), NEW x \in Seq(S)
  PROVE  FlattenSeq(Append(s, x)) = FlattenSeq(s) \o x
<1>1. PICK t : t = Append(s, x)
  OBVIOUS
<1>2. /\ t \in Seq(Seq(S)) /\ t # <<>> /\ Len(t) = Len(s) + 1 /\ t[Len(s) + 1] = x
      /\ \A i \in 1 .. Len(s) : t[i] = s[i]
  BY <1>1, AppendProperties
<1>3. PICK g : IsFlatten(g, t) /\ FlattenSeq(t) = g[Len(t)]
  BY <1>2, FlattenIsFold
<1>4. Len(s) \in Nat /\ Len(t) \in Nat
  BY <1>2
<1>5. CASE s = <<>>
  <2>1. Len(s) = 0 /\ FlattenSeq(s) = <<>>
    BY <1>5, FlattenEmpty
  <2>2. g[1] = t[1]
    BY <1>2, <1>3, <2>1 DEF IsFlatten
  <2>3. FlattenSeq(t) = x
    BY <1>2, <1>3, <2>1, <2>2
  <2> QED
    BY <1>1, <2>1, <2>3, ConcatEmptySeq
<1>6. CASE s # <<>>
  <2>1. PICK f : IsFlatten(f, s) /\ FlattenSeq(s) = f[Len(s)]
    BY <1>6, FlattenIsFold
  <2>2. Len(s) \in 1 .. Len(s)
    BY <1>4, <1>6, EmptySeq
  <2>3. f[Len(s)] = g[Len(s)]
    <3>1. PICK n \in Nat : n = Len(s)
      BY <1>4
    <3>2. /\ n <= Len(s) /\ n <= Len(t) /\ \A i \in 1 .. n : s[i] = t[i]
          /\ IsFlatten(f, s) /\ IsFlatten(g, t) /\ Len(s) \in Nat /\ Len(t) \in Nat
      BY <1>2, <1>3, <1>4, <2>1, <3>1
    <3>3. \A i \in 1 .. n : f[i] = g[i]
      BY ONLY <3>2, FlattenUnique, n \in Nat
    <3> QED
      BY <2>2, <3>1, <3>3
  <2>4. g[Len(s) + 1] = g[Len(s)] \o t[Len(s) + 1]
    <3>1. Len(s) + 1 \in 1 .. Len(t) /\ Len(s) + 1 # 1 /\ (Len(s) + 1) - 1 = Len(s)
      BY <1>2, <1>4, <2>2
    <3> QED
      BY <1>3, <3>1 DEF IsFlatten
  <2> QED
    BY <1>1, <1>2, <1>3, <2>1, <2>3, <2>4
<1> QED
  BY <1>5, <1>6

(* Where the i-th part of a flattened sequence begins, from 0.             *)
Offset(s, i) == Len(FlattenSeq(SubSeq(s, 1, i - 1)))

(* The prefixes of a sequence.                                             *)
LEMMA PrefixFacts ==
  ASSUME NEW S, NEW s \in Seq(S), NEW i \in 0 .. Len(s)
  PROVE  /\ SubSeq(s, 1, i) \in Seq(S) /\ Len(SubSeq(s, 1, i)) = i
         /\ \A j \in 1 .. i : SubSeq(s, 1, i)[j] = s[j]
         /\ i > 0 => s[i] \in S /\ SubSeq(s, 1, i) = Append(SubSeq(s, 1, i - 1), s[i])
<1>1. /\ SubSeq(s, 1, i) \in Seq(S) /\ Len(SubSeq(s, 1, i)) = i
      /\ \A j \in 1 .. i : SubSeq(s, 1, i)[j] = s[j]
  <2>1. \A j \in 1 .. i : s[j] \in S
    OBVIOUS
  <2>2. i \in Int /\ 1 \in Int
    OBVIOUS
  <2> QED
    BY <2>1, <2>2, SubSeqProperties
<1>2. ASSUME i > 0
      PROVE  s[i] \in S /\ SubSeq(s, 1, i) = Append(SubSeq(s, 1, i - 1), s[i])
  <2>1. 1 \in 1 .. Len(s) /\ i \in 1 .. Len(s) /\ s[i] \in S
    BY <1>2
  <2>2. SubSeq(s, 1, i) = SubSeq(s, 1, i - 1) \o <<s[i]>>
    BY <2>1, SubSeqRecursiveSecond
  <2>3. SubSeq(s, 1, i - 1) \in Seq(S)
    <3>1. \A j \in 1 .. i - 1 : s[j] \in S
      BY <2>1
    <3> QED
      BY <2>1, <3>1, SubSeqProperties
  <2> QED
    BY <2>1, <2>2, <2>3, AppendIsConcat
<1> QED
  BY <1>1, <1>2

(* The prefixes of a flattened sequence, one part after the other.         *)
LEMMA FlattenPrefix ==
  ASSUME NEW S, NEW s \in Seq(Seq(S))
  PROVE  /\ FlattenSeq(s) \in Seq(S)
         /\ \A i \in 0 .. Len(s) : FlattenSeq(SubSeq(s, 1, i)) \in Seq(S)
         /\ \A i \in 1 .. Len(s) :
              /\ s[i] \in Seq(S)
              /\ FlattenSeq(SubSeq(s, 1, i)) = FlattenSeq(SubSeq(s, 1, i - 1)) \o s[i]
<1>1. ASSUME NEW i \in 1 .. Len(s)
      PROVE  /\ s[i] \in Seq(S)
             /\ FlattenSeq(SubSeq(s, 1, i)) = FlattenSeq(SubSeq(s, 1, i - 1)) \o s[i]
  <2>1. i \in 0 .. Len(s) /\ i - 1 \in 0 .. Len(s) /\ i > 0
    OBVIOUS
  <2>2. /\ SubSeq(s, 1, i - 1) \in Seq(Seq(S)) /\ s[i] \in Seq(S)
        /\ SubSeq(s, 1, i) = Append(SubSeq(s, 1, i - 1), s[i])
    BY <2>1, PrefixFacts
  <2> QED
    BY <2>2, FlattenAppend
<1> DEFINE T == {i \in Int : i <= Len(s) => FlattenSeq(SubSeq(s, 1, i)) \in Seq(S)}
<1>2. 0 \in T
  <2>1. SubSeq(s, 1, 0) = <<>>
    BY SubSeqEmpty
  <2>2. FlattenSeq(SubSeq(s, 1, 0)) \in Seq(S)
    BY <2>1, FlattenEmpty, EmptySeq
  <2> QED
    BY <2>2
<1>3. ASSUME NEW i \in Int, 0 <= i, i \in T
      PROVE  i + 1 \in T
  <2> SUFFICES ASSUME i + 1 <= Len(s)
               PROVE  FlattenSeq(SubSeq(s, 1, i + 1)) \in Seq(S)
    BY <1>3
  <2>1. i + 1 \in 1 .. Len(s) /\ FlattenSeq(SubSeq(s, 1, i)) \in Seq(S) /\ (i + 1) - 1 = i
    BY <1>3
  <2>2. /\ s[i + 1] \in Seq(S)
        /\ FlattenSeq(SubSeq(s, 1, i + 1)) = FlattenSeq(SubSeq(s, 1, i)) \o s[i + 1]
    BY <1>1, <2>1
  <2> QED
    BY <2>1, <2>2, ConcatProperties
<1> HIDE DEF T
<1>4. \A i \in Int : 0 <= i => i \in T
  <2>1. 0 \in Int /\ \A i \in Int : 0 <= i /\ i \in T => i + 1 \in T
    BY <1>3
  <2> QED
    BY ONLY <1>2, <2>1, Induct
<1>5. \A i \in 0 .. Len(s) : FlattenSeq(SubSeq(s, 1, i)) \in Seq(S)
  BY <1>4 DEF T
<1>6. FlattenSeq(s) \in Seq(S)
  <2>1. Len(s) \in 0 .. Len(s) /\ SubSeq(s, 1, Len(s)) = s
    BY SubSeqFull
  <2> QED
    BY <1>5, <2>1
<1> QED
  BY <1>1, <1>5, <1>6

(* A part begins where the one before it ends.                             *)
LEMMA OffsetFacts ==
  ASSUME NEW S, NEW s \in Seq(Seq(S))
  PROVE  /\ Offset(s, 1) = 0 /\ Offset(s, Len(s) + 1) = Len(FlattenSeq(s))
         /\ \A i \in 1 .. Len(s) + 1 : Offset(s, i) \in Nat
         /\ \A i \in 1 .. Len(s) : Len(s[i]) \in Nat /\ Offset(s, i + 1) = Offset(s, i) + Len(s[i])
<1>1. Offset(s, 1) = 0
  <2>1. SubSeq(s, 1, 1 - 1) = <<>>
    BY SubSeqEmpty
  <2>2. Offset(s, 1) = Len(FlattenSeq(SubSeq(s, 1, 1 - 1)))
    BY DEF Offset
  <2>3. PICK e : e = SubSeq(s, 1, 1 - 1)
    OBVIOUS
  <2>4. e = <<>> /\ Offset(s, 1) = Len(FlattenSeq(e))
    BY ONLY <2>1, <2>2, <2>3
  <2> QED
    BY <2>4, FlattenEmpty
<1>2. Offset(s, Len(s) + 1) = Len(FlattenSeq(s))
  <2>1. (Len(s) + 1) - 1 = Len(s) /\ SubSeq(s, 1, Len(s)) = s
    BY SubSeqFull
  <2> QED
    BY <2>1 DEF Offset
<1>3. ASSUME NEW i \in 1 .. Len(s) + 1
      PROVE  Offset(s, i) \in Nat
  <2>1. FlattenSeq(SubSeq(s, 1, i - 1)) \in Seq(S)
    <3>1. i - 1 \in 0 .. Len(s)
      OBVIOUS
    <3> QED
      BY <3>1, FlattenPrefix
  <2> QED
    BY <2>1, LenProperties DEF Offset
<1>4. ASSUME NEW i \in 1 .. Len(s)
      PROVE  Len(s[i]) \in Nat /\ Offset(s, i + 1) = Offset(s, i) + Len(s[i])
  <2>1. /\ s[i] \in Seq(S) /\ FlattenSeq(SubSeq(s, 1, i - 1)) \in Seq(S)
        /\ FlattenSeq(SubSeq(s, 1, i)) = FlattenSeq(SubSeq(s, 1, i - 1)) \o s[i]
    <3>1. i - 1 \in 0 .. Len(s)
      OBVIOUS
    <3> QED
      BY <3>1, FlattenPrefix
  <2>2. (i + 1) - 1 = i
    OBVIOUS
  <2>3. /\ Offset(s, i + 1) = Len(FlattenSeq(SubSeq(s, 1, i - 1)) \o s[i])
        /\ Offset(s, i) = Len(FlattenSeq(SubSeq(s, 1, i - 1)))
    BY <2>1, <2>2 DEF Offset
  <2>4. PICK f \in Seq(S), g \in Seq(S) : f = FlattenSeq(SubSeq(s, 1, i - 1)) /\ g = s[i]
    BY <2>1
  <2>5. Offset(s, i + 1) = Len(f \o g) /\ Offset(s, i) = Len(f)
    BY <2>3, <2>4
  <2>6. Len(f \o g) = Len(f) + Len(g) /\ Len(g) \in Nat
    BY ConcatProperties, LenProperties
  <2> QED
    BY <2>4, <2>5, <2>6
<1> QED
  BY <1>1, <1>2, <1>3, <1>4

(* Parts begin in their order.                                             *)
LEMMA OffsetMonotone ==
  ASSUME NEW S, NEW s \in Seq(Seq(S)), NEW i \in 1 .. Len(s) + 1, NEW j \in i .. Len(s) + 1
  PROVE  Offset(s, i) <= Offset(s, j)
<1> DEFINE T == {k \in Int : k <= Len(s) + 1 => Offset(s, i) <= Offset(s, k)}
<1>1. i \in T
  BY OffsetFacts
<1>2. ASSUME NEW k \in Int, i <= k, k \in T
      PROVE  k + 1 \in T
  <2> SUFFICES ASSUME k + 1 <= Len(s) + 1
               PROVE  Offset(s, i) <= Offset(s, k + 1)
    BY <1>2
  <2>1. k \in 1 .. Len(s) /\ k \in 1 .. Len(s) + 1 /\ Offset(s, i) <= Offset(s, k)
    BY <1>2
  <2>2. /\ Offset(s, k + 1) = Offset(s, k) + Len(s[k]) /\ Len(s[k]) \in Nat
        /\ Offset(s, i) \in Nat /\ Offset(s, k) \in Nat
    BY <2>1, OffsetFacts
  <2> QED
    BY <2>1, <2>2
<1> HIDE DEF T
<1>3. \A k \in Int : i <= k => k \in T
  <2>1. i \in Int /\ \A k \in Int : i <= k /\ k \in T => k + 1 \in T
    BY <1>2
  <2> QED
    BY ONLY <1>1, <2>1, Induct
<1> QED
  BY <1>3 DEF T

(* Where an element of a part is in the flattened sequence.                *)
LEMMA FlattenAt ==
  ASSUME NEW S, NEW s \in Seq(Seq(S)), NEW i \in 1 .. Len(s), NEW n \in 1 .. Len(s[i])
  PROVE  /\ Offset(s, i) + n \in 1 .. Len(FlattenSeq(s))
         /\ FlattenSeq(s)[Offset(s, i) + n] = s[i][n]
<1> DEFINE F(k) == FlattenSeq(SubSeq(s, 1, k))
           o == Offset(s, i) + n
           T == {k \in Int : k <= Len(s) => o <= Len(F(k)) /\ F(k)[o] = s[i][n]}
<1>1. /\ \A k \in 0 .. Len(s) : F(k) \in Seq(S) /\ Len(F(k)) \in Nat
      /\ \A k \in 1 .. Len(s) : s[k] \in Seq(S) /\ Len(s[k]) \in Nat /\ F(k) = F(k - 1) \o s[k]
  BY FlattenPrefix, LenProperties
<1>2. Offset(s, i) = Len(F(i - 1))
  BY DEF Offset
<1> HIDE DEF F
<1>3. ASSUME NEW k \in 1 .. Len(s)
      PROVE  /\ Len(F(k)) = Len(F(k - 1)) + Len(s[k])
             /\ \A j \in 1 .. Len(F(k)) :
                  F(k)[j] = IF j <= Len(F(k - 1)) THEN F(k - 1)[j] ELSE s[k][j - Len(F(k - 1))]
  <2>1. k - 1 \in 0 .. Len(s)
    OBVIOUS
  <2>2. F(k - 1) \in Seq(S) /\ s[k] \in Seq(S) /\ F(k) = F(k - 1) \o s[k]
    BY <1>1, <2>1
  <2>3. PICK f : f = F(k - 1)
    OBVIOUS
  <2>4. f \in Seq(S) /\ s[k] \in Seq(S) /\ F(k) = f \o s[k]
    BY <2>2, <2>3
  <2>5. Len(F(k)) = Len(f) + Len(s[k])
    BY <2>4, ConcatProperties
  <2>6. \A j \in 1 .. Len(F(k)) : F(k)[j] = IF j <= Len(f) THEN f[j] ELSE s[k][j - Len(f)]
    BY <2>4, <2>5, ConcatProperties
  <2> QED
    BY <2>3, <2>5, <2>6
<1>4. o \in Int /\ 1 <= o /\ n \in Nat
  <2>1. i - 1 \in 0 .. Len(s)
    OBVIOUS
  <2>2. Len(F(i - 1)) \in Nat
    BY <1>1, <2>1
  <2> QED
    BY <1>2, <2>2
<1>5. i \in T
  <2>1. i - 1 \in 0 .. Len(s)
    OBVIOUS
  <2>2. Len(F(i - 1)) \in Nat /\ Len(F(i)) = Len(F(i - 1)) + Len(s[i]) /\ Len(s[i]) \in Nat
    BY <1>1, <1>3, <2>1
  <2>3. o \in 1 .. Len(F(i)) /\ ~(o <= Len(F(i - 1))) /\ o - Len(F(i - 1)) = n
    BY <1>2, <1>4, <2>2
  <2>4. F(i)[o] = s[i][n]
    BY <1>3, <2>3
  <2> QED
    BY <2>3, <2>4
<1>6. ASSUME NEW k \in Int, i <= k, k \in T
      PROVE  k + 1 \in T
  <2> SUFFICES ASSUME k + 1 <= Len(s)
               PROVE  o <= Len(F(k + 1)) /\ F(k + 1)[o] = s[i][n]
    BY <1>6
  <2>1. k \in 0 .. Len(s) /\ k + 1 \in 1 .. Len(s) /\ (k + 1) - 1 = k
    BY <1>6
  <2>2. o <= Len(F(k)) /\ F(k)[o] = s[i][n] /\ Len(F(k)) \in Nat /\ Len(s[k + 1]) \in Nat
    BY <1>1, <1>6, <2>1
  <2>3. /\ Len(F(k + 1)) = Len(F(k)) + Len(s[k + 1])
        /\ \A j \in 1 .. Len(F(k + 1)) :
             F(k + 1)[j] = IF j <= Len(F(k)) THEN F(k)[j] ELSE s[k + 1][j - Len(F(k))]
    BY <1>3, <2>1
  <2>4. o \in 1 .. Len(F(k + 1))
    BY <1>4, <2>2, <2>3
  <2> QED
    BY <2>2, <2>3, <2>4, SMTT(30)
<1> HIDE DEF T
<1>7. \A k \in Int : i <= k => k \in T
  <2>1. i \in Int /\ \A k \in Int : i <= k /\ k \in T => k + 1 \in T
    BY <1>6
  <2> QED
    BY ONLY <1>5, <2>1, Induct
<1>8. o <= Len(F(Len(s))) /\ F(Len(s))[o] = s[i][n]
  BY <1>7 DEF T
<1>9. F(Len(s)) = FlattenSeq(s)
  BY SubSeqFull DEF F
<1> QED
  BY <1>1, <1>4, <1>8, <1>9

(* Each place of the flattened sequence is in a part.                      *)
LEMMA FlattenPlace ==
  ASSUME NEW S, NEW s \in Seq(Seq(S)), NEW j \in 1 .. Len(FlattenSeq(s))
  PROVE  \E i \in 1 .. Len(s) : /\ Offset(s, i) < j /\ j <= Offset(s, i + 1)
                                /\ j - Offset(s, i) \in 1 .. Len(s[i])
<1> DEFINE D == {i \in 1 .. Len(s) + 1 : j <= Offset(s, i)}
<1>1. /\ Offset(s, 1) = 0 /\ Offset(s, Len(s) + 1) = Len(FlattenSeq(s))
      /\ \A i \in 1 .. Len(s) + 1 : Offset(s, i) \in Nat
      /\ \A i \in 1 .. Len(s) : Len(s[i]) \in Nat /\ Offset(s, i + 1) = Offset(s, i) + Len(s[i])
  BY OffsetFacts
<1>2. Len(s) \in Nat /\ Len(s) + 1 \in D /\ D \in SUBSET Int /\ \A i \in D : 1 <= i
  BY <1>1
<1>3. PICK k \in D : \A i \in D : k <= i
  <2>1. D \in SUBSET Int /\ D # {} /\ 1 \in Int /\ \A i \in D : 1 <= i
    BY <1>2
  <2> HIDE DEF D
  <2> QED
    BY <2>1, LeastNumber
<1>4. k # 1 /\ k \in 1 .. Len(s) + 1 /\ j <= Offset(s, k)
  BY <1>1, <1>3
<1>5. k - 1 \in 1 .. Len(s) /\ k - 1 \notin D /\ (k - 1) + 1 = k
  <2>1. k - 1 \in 1 .. Len(s) /\ (k - 1) + 1 = k /\ ~(k <= k - 1)
    BY <1>2, <1>4
  <2> QED
    BY <1>3, <2>1
<1>6. /\ Offset(s, k - 1) \in Nat /\ j \in Nat /\ Len(s[k - 1]) \in Nat
      /\ Offset(s, k) = Offset(s, k - 1) + Len(s[k - 1])
  <2>1. k - 1 \in 1 .. Len(s) + 1
    BY <1>2, <1>5
  <2> QED
    BY <1>1, <1>5, <2>1
<1>7. Offset(s, k - 1) < j
  <2>1. ~(j <= Offset(s, k - 1))
    BY <1>2, <1>5
  <2> QED
    BY <1>6, <2>1
<1>8. j - Offset(s, k - 1) \in 1 .. Len(s[k - 1])
  BY <1>4, <1>6, <1>7
<1> QED
  BY <1>4, <1>5, <1>7, <1>8
(* An element added to the second of two sequences is added to both.       *)
LEMMA ConcatAppend ==
  ASSUME NEW S, NEW s \in Seq(S), NEW g \in Seq(S), NEW x \in S
  PROVE  s \o g \in Seq(S) /\ s \o Append(g, x) = Append(s \o g, x)
<1>1. PICK r : r = s \o g
  OBVIOUS
<1>2. PICK y \in Seq(S) : y = <<x>>
  <2>1. <<x>> \in Seq(S)
    OBVIOUS
  <2> QED
    BY <2>1
<1>3. r \in Seq(S)
  BY <1>1, ConcatProperties
<1>4. Append(g, x) = g \o y /\ Append(r, x) = r \o y
  BY <1>2, <1>3, AppendIsConcat
<1>5. (s \o g) \o y = s \o (g \o y)
  BY ONLY s \in Seq(S), g \in Seq(S), y \in Seq(S)
<1>6. s \o Append(g, x) = Append(r, x)
  BY ONLY <1>1, <1>4, <1>5
<1> QED
  BY ONLY <1>1, <1>3, <1>6

(* Two sequences flatten one after the other.                              *)
LEMMA FlattenConcat ==
  ASSUME NEW S, NEW s \in Seq(Seq(S)), NEW t \in Seq(Seq(S))
  PROVE  FlattenSeq(s \o t) = FlattenSeq(s) \o FlattenSeq(t)
<1> DEFINE G(k) == SubSeq(t, 1, k)
           T == {k \in Int : k <= Len(t) =>
                    FlattenSeq(s \o G(k)) = FlattenSeq(s) \o FlattenSeq(G(k))}
<1>1. FlattenSeq(s) \in Seq(S)
  BY FlattenPrefix
<1>2. 0 \in T
  <2>1. G(0) = <<>>
    BY SubSeqEmpty
  <2>2. s \o <<>> = s /\ FlattenSeq(s) \o <<>> = FlattenSeq(s)
    BY <1>1, ConcatEmptySeq
  <2>3. FlattenSeq(s \o G(0)) = FlattenSeq(s) \o FlattenSeq(G(0))
    <3> HIDE DEF G
    <3> QED
      BY <2>1, <2>2, FlattenEmpty
  <2> QED
    BY <2>3
<1>3. ASSUME NEW k \in Int, 0 <= k, k \in T
      PROVE  k + 1 \in T
  <2> SUFFICES ASSUME k + 1 <= Len(t)
               PROVE  FlattenSeq(s \o G(k + 1)) = FlattenSeq(s) \o FlattenSeq(G(k + 1))
    BY <1>3
  <2>1. /\ k + 1 \in 0 .. Len(t) /\ k + 1 > 0 /\ (k + 1) - 1 = k /\ k \in 0 .. Len(t)
        /\ FlattenSeq(s \o G(k)) = FlattenSeq(s) \o FlattenSeq(G(k))
    BY <1>3
  <2>2. PICK x \in Seq(S) : x = t[k + 1]
    BY <2>1
  <2>3. G(k) \in Seq(Seq(S)) /\ G(k + 1) = Append(G(k), x)
    BY <2>1, <2>2, PrefixFacts
  <2>4. FlattenSeq(G(k)) \in Seq(S)
    BY <2>3, FlattenPrefix
  <2> HIDE DEF G, T
  <2>5. s \o G(k) \in Seq(Seq(S)) /\ s \o Append(G(k), x) = Append(s \o G(k), x)
    <3>1. PICK W : W = Seq(S)
      OBVIOUS
    <3>2. PICK u \in Seq(W), g \in Seq(W), y \in W : u = s /\ g = G(k) /\ y = x
      BY <2>3, <3>1
    <3>3. u \o g \in Seq(W) /\ u \o Append(g, y) = Append(u \o g, y)
      BY ConcatAppend
    <3> QED
      BY ONLY <3>1, <3>2, <3>3
  <2>6. FlattenSeq(Append(s \o G(k), x)) = FlattenSeq(s \o G(k)) \o x
    BY <2>5, FlattenAppend
  <2>7. FlattenSeq(Append(G(k), x)) = FlattenSeq(G(k)) \o x
    BY <2>3, FlattenAppend
  <2>8. (FlattenSeq(s) \o FlattenSeq(G(k))) \o x = FlattenSeq(s) \o (FlattenSeq(G(k)) \o x)
    <3>1. PICK f \in Seq(S), g \in Seq(S) : f = FlattenSeq(s) /\ g = FlattenSeq(G(k))
      BY <1>1, <2>4
    <3>2. (f \o g) \o x = f \o (g \o x)
      BY ONLY f \in Seq(S), g \in Seq(S), x \in Seq(S)
    <3> QED
      BY <3>1, <3>2
  <2> QED
    BY <2>1, <2>3, <2>5, <2>6, <2>7, <2>8
<1> HIDE DEF T, G
<1>4. \A k \in Int : 0 <= k => k \in T
  <2>1. 0 \in Int /\ \A k \in Int : 0 <= k /\ k \in T => k + 1 \in T
    BY <1>3
  <2> QED
    BY ONLY <1>2, <2>1, Induct
<1>5. FlattenSeq(s \o G(Len(t))) = FlattenSeq(s) \o FlattenSeq(G(Len(t)))
  BY <1>4 DEF T
<1>6. G(Len(t)) = t
  BY SubSeqFull DEF G
<1> QED
  BY <1>5, <1>6

--------------------------------------------------------------------------
(***************************************************************************)
(* The text of a script, turn by turn.                                     *)
(***************************************************************************)

(* The turns of a script as what they say.                                 *)
Texts(turns) == [i \in 1 .. Len(turns) |-> turns[i].text]

(* The text of a script is that of its turns.                              *)
LEMMA TextFacts ==
  ASSUME NEW turns \in Seq(ScriptTurn)
  PROVE  /\ Texts(turns) \in Seq(Seq(STRING)) /\ Len(Texts(turns)) = Len(turns)
         /\ Text(turns) = FlattenSeq(Texts(turns)) /\ Text(turns) \in Seq(STRING)
         /\ Len(Text(turns)) \in Nat
<1>1. \A i \in 1 .. Len(turns) : turns[i].text \in Seq(STRING)
  <2>1. \A t \in ScriptTurn : t.text \in Seq(STRING)
    BY DEF ScriptTurn
  <2> QED
    BY <2>1
<1>2. Texts(turns) \in Seq(Seq(STRING)) /\ Len(Texts(turns)) = Len(turns)
  BY <1>1 DEF Texts
<1>3. Text(turns) = FlattenSeq(Texts(turns))
  BY DEF Text, Texts
<1>4. Text(turns) \in Seq(STRING)
  BY <1>2, <1>3, FlattenPrefix
<1> QED
  BY <1>2, <1>3, <1>4, LenProperties

(* The texts of some turns in a row.                                       *)
LEMMA TextsOfRange ==
  ASSUME NEW turns \in Seq(ScriptTurn), NEW i \in 1 .. Len(turns) + 1,
         NEW j \in i - 1 .. Len(turns)
  PROVE  /\ SubSeq(turns, i, j) \in Seq(ScriptTurn)
         /\ Texts(SubSeq(turns, i, j)) = SubSeq(Texts(turns), i, j)
<1>1. i \in Int /\ j \in Int /\ Len(turns) \in Nat /\ i <= j + 1
  OBVIOUS
<1>2. PICK t : t = Texts(turns)
  OBVIOUS
<1>3. t \in Seq(Seq(STRING)) /\ Len(t) = Len(turns)
  BY <1>2, TextFacts
<1>4. \A k \in 1 .. Len(turns) : t[k] = turns[k].text /\ t[k] \in Seq(STRING)
  BY <1>2, <1>3 DEF Texts
<1>5. PICK u : u = SubSeq(turns, i, j)
  OBVIOUS
<1>6. /\ u \in Seq(ScriptTurn) /\ Len(u) = j - i + 1
      /\ \A k \in 1 .. j - i + 1 : u[k] = turns[i + k - 1]
  <2>1. \A k \in i .. j : turns[k] \in ScriptTurn
    OBVIOUS
  <2> QED
    BY <1>1, <1>5, <2>1, SubSeqProperties
<1>7. PICK v : v = SubSeq(t, i, j)
  OBVIOUS
<1>8. /\ v \in Seq(Seq(STRING)) /\ Len(v) = j - i + 1
      /\ \A k \in 1 .. j - i + 1 : v[k] = t[i + k - 1]
  <2>1. \A k \in i .. j : t[k] \in Seq(STRING)
    BY <1>4
  <2> QED
    BY <1>1, <1>7, <2>1, SubSeqProperties
<1>9. PICK w : w = Texts(u)
  OBVIOUS
<1>10. w \in Seq(Seq(STRING)) /\ Len(w) = j - i + 1 /\ \A k \in 1 .. j - i + 1 : w[k] = u[k].text
  BY <1>6, <1>9, TextFacts DEF Texts
<1>11. \A k \in 1 .. j - i + 1 : v[k] = w[k]
  <2> SUFFICES ASSUME NEW k \in 1 .. j - i + 1
               PROVE  v[k] = w[k]
    OBVIOUS
  <2>1. i + k - 1 \in 1 .. Len(turns)
    OBVIOUS
  <2> QED
    BY <1>4, <1>6, <1>8, <1>10, <2>1
<1>12. v = w
  BY <1>8, <1>10, <1>11, SeqEqual
<1> QED
  BY <1>2, <1>5, <1>6, <1>7, <1>9, <1>12

(* Turns begin where the ones before them end.                             *)
LEMMA FirstWordFacts ==
  ASSUME NEW turns \in Seq(ScriptTurn)
  PROVE  /\ \A i \in 1 .. Len(turns) + 1 : FirstWord(turns, i) = 1 + Offset(Texts(turns), i)
         /\ FirstWord(turns, 1) = 1 /\ FirstWord(turns, Len(turns) + 1) = 1 + Len(Text(turns))
         /\ \A i \in 1 .. Len(turns) + 1 : FirstWord(turns, i) \in Nat /\ 1 <= FirstWord(turns, i)
         /\ \A i \in 1 .. Len(turns) + 1 : \A j \in i .. Len(turns) + 1 :
              FirstWord(turns, i) <= FirstWord(turns, j)
<1>1. PICK t : t = Texts(turns)
  OBVIOUS
<1>2. t \in Seq(Seq(STRING)) /\ Len(t) = Len(turns) /\ Text(turns) = FlattenSeq(t)
  BY <1>1, TextFacts
<1>3. ASSUME NEW i \in 1 .. Len(turns) + 1
      PROVE  FirstWord(turns, i) = 1 + Offset(t, i)
  <2>1. 1 \in 1 .. Len(turns) + 1 /\ i - 1 \in 1 - 1 .. Len(turns)
    OBVIOUS
  <2>2. PICK u : u = SubSeq(turns, 1, i - 1)
    OBVIOUS
  <2>3. u \in Seq(ScriptTurn) /\ Texts(u) = SubSeq(t, 1, i - 1)
    BY <1>1, <2>1, <2>2, TextsOfRange
  <2>4. FirstWord(turns, i) = 1 + Len(Text(u))
    BY <2>2 DEF FirstWord
  <2>5. Text(u) = FlattenSeq(SubSeq(t, 1, i - 1))
    BY <2>3, TextFacts
  <2> QED
    BY <2>4, <2>5 DEF Offset
<1>4. /\ Offset(t, 1) = 0 /\ Offset(t, Len(turns) + 1) = Len(Text(turns))
      /\ \A i \in 1 .. Len(turns) + 1 : Offset(t, i) \in Nat
  BY <1>2, OffsetFacts
<1>5. \A i \in 1 .. Len(turns) + 1 : \A j \in i .. Len(turns) + 1 : Offset(t, i) <= Offset(t, j)
  BY <1>2, OffsetMonotone
<1>6. 1 \in 1 .. Len(turns) + 1 /\ Len(turns) + 1 \in 1 .. Len(turns) + 1
  OBVIOUS
<1>7. \A i \in 1 .. Len(turns) + 1 : \A j \in i .. Len(turns) + 1 :
        FirstWord(turns, i) <= FirstWord(turns, j)
  <2> SUFFICES ASSUME NEW i \in 1 .. Len(turns) + 1, NEW j \in i .. Len(turns) + 1
               PROVE  FirstWord(turns, i) <= FirstWord(turns, j)
    OBVIOUS
  <2>1. j \in 1 .. Len(turns) + 1
    OBVIOUS
  <2> QED
    BY <1>3, <1>4, <1>5, <2>1
<1> QED
  BY <1>1, <1>3, <1>4, <1>6, <1>7

(* The words of some turns in a row, by where they begin and end.          *)
LEMMA TextOfRange ==
  ASSUME NEW turns \in Seq(ScriptTurn), NEW i \in 1 .. Len(turns), NEW j \in i .. Len(turns)
  PROVE  Len(Text(SubSeq(turns, i, j))) = FirstWord(turns, j + 1) - FirstWord(turns, i)
<1>1. PICK t : t = Texts(turns)
  OBVIOUS
<1>2. t \in Seq(Seq(STRING)) /\ Len(t) = Len(turns)
  BY <1>1, TextFacts
<1>3. PICK u : u = SubSeq(turns, i, j)
  OBVIOUS
<1>4. PICK p : p = SubSeq(t, 1, i - 1)
  OBVIOUS
<1>5. PICK q : q = SubSeq(t, i, j)
  OBVIOUS
<1>6. u \in Seq(ScriptTurn) /\ Texts(u) = q
  <2>1. i \in 1 .. Len(turns) + 1 /\ j \in i - 1 .. Len(turns)
    OBVIOUS
  <2> QED
    BY <1>1, <1>3, <1>5, <2>1, TextsOfRange
<1>7. p \in Seq(Seq(STRING)) /\ q \in Seq(Seq(STRING)) /\ Text(u) = FlattenSeq(q)
  <2>1. i - 1 \in 0 .. Len(t)
    BY <1>2
  <2> QED
    BY <1>2, <1>4, <1>6, <2>1, PrefixFacts, TextFacts
<1>8. SubSeq(t, 1, j) = p \o q
  <2>1. /\ 1 \in 1 .. Len(t) + 1 /\ i - 1 \in 1 - 1 .. Len(t)
        /\ j \in i - 1 .. Len(t) /\ (i - 1) + 1 = i
    BY <1>2
  <2>2. SubSeq(t, 1, i - 1) \o SubSeq(t, (i - 1) + 1, j) = SubSeq(t, 1, j)
    BY <1>2, <2>1, ConcatAdjacentSubSeq
  <2> QED
    BY <1>4, <1>5, <2>1, <2>2
<1>9. FlattenSeq(SubSeq(t, 1, j)) = FlattenSeq(p) \o FlattenSeq(q)
  BY <1>7, <1>8, FlattenConcat
<1>10. PICK a \in Seq(STRING), b \in Seq(STRING) : a = FlattenSeq(p) /\ b = FlattenSeq(q)
  BY <1>7, FlattenPrefix
<1>11. Len(a \o b) = Len(a) + Len(b) /\ Len(a) \in Nat /\ Len(b) \in Nat
  BY ConcatProperties, LenProperties
<1>12. Offset(t, j + 1) = Len(a \o b) /\ Offset(t, i) = Len(a) /\ Len(Text(u)) = Len(b)
  <2>1. (j + 1) - 1 = j
    OBVIOUS
  <2> QED
    BY <1>4, <1>7, <1>9, <1>10, <2>1 DEF Offset
<1>13. FirstWord(turns, j + 1) = 1 + Offset(t, j + 1) /\ FirstWord(turns, i) = 1 + Offset(t, i)
  <2>1. j + 1 \in 1 .. Len(turns) + 1 /\ i \in 1 .. Len(turns) + 1
    OBVIOUS
  <2> QED
    BY <1>1, <2>1, FirstWordFacts
<1> QED
  BY <1>3, <1>11, <1>12, <1>13

(* How many characters some turns in a row have is what the segmenter      *)
(* counts.                                                                 *)
LEMMA CharactersAreWidth ==
  ASSUME TokenInv, NEW i \in 1 .. Len(script), NEW j \in i .. Len(script)
  PROVE  CharactersOf(SubSeq(script, i, j)) = Width(i, j) /\ Width(i, j) \in Int
<1>1. script \in Seq(ScriptTurn)
  BY DEF TokenInv, InputInv
<1>2. Len(Text(SubSeq(script, i, j))) = FirstWord(script, j + 1) - FirstWord(script, i)
  BY <1>1, TextOfRange
<1>3. FirstWord(script, j + 1) \in Nat /\ FirstWord(script, i) \in Nat
  <2>1. j + 1 \in 1 .. Len(script) + 1 /\ i \in 1 .. Len(script) + 1
    BY <1>1
  <2> QED
    BY <1>1, <2>1, FirstWordFacts
<1> QED
  BY <1>2, <1>3 DEF CharactersOf, Width

--------------------------------------------------------------------------
(***************************************************************************)
(* What a script says (SaidInv). Matches and tokens are inside the text;   *)
(* from extraction on each negation of the text is covered by a match or a *)
(* token.                                                                  *)
(***************************************************************************)

(* The stage that a request has reached, refused or not.                   *)
Reached == IF stage = "rejected" THEN refused ELSE stage

(* The stages from each point of the pipeline on.                          *)
Judged == {"judged", "packaged"}
Transcribed == {"transcribed"} \cup Judged
Mastered == {"mastered"} \cup Transcribed
Selected == {"selected"} \cup Mastered
Rendered == {"rendered"} \cup Selected
Segmented == {"prepared"} \cup Rendered
Checked == {"segmenting"} \cup Segmented
Bound == {"bound"} \cup Checked

(* A match is inside the text, and a token moreover inside its turn and    *)
(* anchor.                                                                 *)
IsSaid(m) == 1 <= m.first /\ m.last <= Len(Text(script)) /\ m.spoken \in Seq(STRING)

IsPlaced(t) ==
  /\ 1 <= t.said /\ t.saidTo <= Len(Text(script)) /\ t.spoken \in Seq(STRING)
  /\ t.turn \in 1 .. Len(script) /\ t.first <= t.anchor.last

(* A word that a match or a token has.                                     *)
IsCovered(w) ==
  \/ \E m \in found : m.first <= w /\ w <= m.last
  \/ \E k \in 1 .. Len(tokens) : tokens[k].said <= w /\ w <= tokens[k].saidTo

NegationsAreCovered ==
  \A w \in 1 .. Len(Text(script)) : Text(script)[w] \in Negations => IsCovered(w)

(* The stages before anything is found in the script.                      *)
BeforeExtraction == BeforeBinding \ {"merging"}

SaidInv ==
  /\ stage \in BeforeExtraction => unmerged = {} /\ found = {}
  /\ \A m \in unmerged \cup found : IsSaid(m)
  /\ \A k \in 1 .. Len(tokens) : IsPlaced(tokens[k])
  /\ stage \in {"merging", "binding"} \/ Reached \in Bound => NegationsAreCovered
  /\ Reached \in Bound => found = {}

(* The text of an anchor has a word for each of its places.                *)
LEMMA AnchorTextFacts ==
  ASSUME NEW a \in SourceAnchor
  PROVE  a.first \in Nat /\ a.last \in Nat /\ Len(AnchorText(a)) = a.last - a.first + 1
<1>1. a.first \in Nat /\ a.last \in Nat /\ a.first <= a.last + 1
  BY DEF SourceAnchor
<1>2. PICK s : s = SourceWords
  OBVIOUS
<1>3. PICK S : S = {s[i] : i \in a.first .. a.last}
  OBVIOUS
<1>4. PICK m \in Int, n \in Int : m = a.first /\ n = a.last
  BY <1>1
<1>5. \A i \in m .. n : s[i] \in S
  BY <1>3, <1>4
<1>6. Len(SubSeq(s, m, n)) = IF m <= n THEN n - m + 1 ELSE 0
  BY <1>5, SubSeqProperties
<1>7. AnchorText(a) = SubSeq(s, m, n)
  BY <1>2, <1>4 DEF AnchorText
<1> QED
  BY <1>1, <1>4, <1>6, <1>7

(* A place that is found in an anchor is inside it.                        *)
LEMMA PlaceFacts ==
  ASSUME TokenInv, NEW a \in SourceAnchor, NEW form, PlaceIn(a, form) # 0
  PROVE  /\ PlaceIn(a, form) \in Int /\ 1 <= PlaceIn(a, form)
         /\ a.first + PlaceIn(a, form) - 1 <= a.last
<1>1. PICK text : text = AnchorText(a)
  OBVIOUS
<1>2. PICK start : start = SearchFrom(tokens, a, form)
  OBVIOUS
<1>3. start \in Int /\ 1 <= start
  BY <1>2, SearchFromFacts DEF TokenInv
<1>4. FindSpan(form, text, start) # 0 /\ PlaceIn(a, form) = FindSpan(form, text, start)
  BY <1>1, <1>2 DEF PlaceIn
<1>5. a.first \in Nat /\ a.last \in Nat /\ Len(text) = a.last - a.first + 1
  BY <1>1, AnchorTextFacts
<1>6. PICK place : place = FindSpan(form, text, start)
  OBVIOUS
<1>7. place \in Int /\ start <= place /\ place <= Len(text)
  BY <1>3, <1>4, <1>5, <1>6, FindSpanFacts
<1> QED
  BY <1>3, <1>4, <1>5, <1>6, <1>7

(* Structural matches are inside the text, and cover each negation.        *)
LEMMA StructuralSaid ==
  ASSUME NEW text \in Seq(STRING)
  PROVE  /\ \A m \in StructuralMatches(text) :
              1 <= m.first /\ m.last <= Len(text) /\ m.spoken \in Seq(STRING)
         /\ \A w \in 1 .. Len(text) : text[w] \in Negations =>
              \E m \in StructuralMatches(text) : m.first <= w /\ w <= m.last
<1> DEFINE units == {i \in 1 .. Len(text) - 1 : text[i] \in Numbers /\ text[i + 1] \in Units}
           alone == {i \in 1 .. Len(text) : i \notin units /\ i - 1 \notin units}
           Unit(i) == Match(text, i, i + 1, "unit", Spoken(text[i]) \o Spoken(text[i + 1]))
           Negation(i) == Match(text, i, i, "negation", <<text[i]>>)
           Number(i) == Match(text, i, i, "number", Spoken(text[i]))
<1>1. StructuralMatches(text) = {Unit(i) : i \in units}
        \cup {Negation(i) : i \in {j \in alone : text[j] \in Negations}}
        \cup {Number(i) : i \in {j \in alone : text[j] \in Numbers}}
  BY DEF StructuralMatches
<1>2. \A i \in 1 .. Len(text) : text[i] \in STRING /\ Spoken(text[i]) \in Seq(STRING)
                               /\ <<text[i]>> \in Seq(STRING)
  <2> SUFFICES ASSUME NEW i \in 1 .. Len(text)
               PROVE  text[i] \in STRING /\ Spoken(text[i]) \in Seq(STRING)
                      /\ <<text[i]>> \in Seq(STRING)
    OBVIOUS
  <2>0. PICK S : S = STRING
    OBVIOUS
  <2>1. PICK x \in S : x = text[i]
    <3>1. text \in Seq(S)
      BY <2>0, Zenon
    <3> QED
      BY ONLY <3>1, i \in 1 .. Len(text)
  <2>2. x \in Numbers \cup Units => Speech[x] \in Seq(S)
    BY <2>0, CriticalTokensAssumption
  <2>3. <<x>> \in Seq(S)
    OBVIOUS
  <2>4. Spoken(x) \in Seq(S)
    BY <2>2, <2>3 DEF Spoken
  <2> QED
    BY <2>0, <2>1, <2>3, <2>4
<1>3. \A i \in units : i \in 1 .. Len(text) /\ i + 1 \in 1 .. Len(text)
  OBVIOUS
<1>4. \A i \in alone : i \in 1 .. Len(text)
  OBVIOUS
<1>5. ASSUME NEW i \in units
      PROVE  1 <= Unit(i).first /\ Unit(i).last <= Len(text) /\ Unit(i).spoken \in Seq(STRING)
  <2>1. i \in 1 .. Len(text) /\ i + 1 \in 1 .. Len(text)
    BY <1>3
  <2> HIDE DEF units, alone
  <2>2. PICK x \in Seq(STRING), y \in Seq(STRING) : x = Spoken(text[i]) /\ y = Spoken(text[i + 1])
    BY <1>2, <2>1
  <2>3. x \o y \in Seq(STRING)
    BY ConcatProperties
  <2>4. Unit(i).first = i /\ Unit(i).last = i + 1 /\ Unit(i).spoken = x \o y
    BY <2>2 DEF Match
  <2> HIDE DEF Unit
  <2> QED
    BY <2>1, <2>3, <2>4
<1>6. ASSUME NEW i \in alone
      PROVE  /\ 1 <= Negation(i).first /\ Negation(i).last <= Len(text)
             /\ Negation(i).spoken \in Seq(STRING)
             /\ 1 <= Number(i).first /\ Number(i).last <= Len(text)
             /\ Number(i).spoken \in Seq(STRING)
             /\ Negation(i).first = i /\ Negation(i).last = i
  <2>1. i \in 1 .. Len(text)
    BY <1>4
  <2> HIDE DEF units, alone
  <2>2. Spoken(text[i]) \in Seq(STRING) /\ <<text[i]>> \in Seq(STRING)
    BY <1>2, <2>1
  <2>3. /\ Negation(i).first = i /\ Negation(i).last = i /\ Negation(i).spoken = <<text[i]>>
        /\ Number(i).first = i /\ Number(i).last = i /\ Number(i).spoken = Spoken(text[i])
    BY DEF Match
  <2> HIDE DEF Negation, Number
  <2> QED
    BY <2>1, <2>2, <2>3
<1>7. ASSUME NEW w \in 1 .. Len(text), text[w] \in Negations
      PROVE  w \in alone
  <2>1. text[w] \notin Numbers /\ text[w] \notin Units
    BY <1>7, CriticalTokensAssumption
  <2>2. w \notin units
    BY <2>1
  <2>3. w - 1 \notin units
    BY <2>1
  <2> QED
    BY <2>2, <2>3
<1> HIDE DEF units, alone, Unit, Negation, Number
<1>8. \A m \in StructuralMatches(text) :
        1 <= m.first /\ m.last <= Len(text) /\ m.spoken \in Seq(STRING)
  <2> SUFFICES ASSUME NEW m \in StructuralMatches(text)
               PROVE  1 <= m.first /\ m.last <= Len(text) /\ m.spoken \in Seq(STRING)
    OBVIOUS
  <2>1. \/ \E i \in units : m = Unit(i)
        \/ \E i \in alone : m = Negation(i)
        \/ \E i \in alone : m = Number(i)
    BY <1>1
  <2> QED
    BY <1>5, <1>6, <2>1
<1>9. \A w \in 1 .. Len(text) : text[w] \in Negations =>
              \E m \in StructuralMatches(text) : m.first <= w /\ w <= m.last
  <2> SUFFICES ASSUME NEW w \in 1 .. Len(text), text[w] \in Negations
               PROVE  \E m \in StructuralMatches(text) : m.first <= w /\ w <= m.last
    OBVIOUS
  <2>1. w \in alone /\ Negation(w) \in StructuralMatches(text)
    BY <1>1, <1>7
  <2>2. Negation(w).first = w /\ Negation(w).last = w
    BY <1>6, <2>1
  <2> QED
    BY <2>1, <2>2
<1> QED
  BY <1>8, <1>9

(* A key of the lexicon resolves to entries of the lexicon.                *)
LEMMA ResolveFacts ==
  ASSUME NEW entries, entries \subseteq LexiconEntry, NEW e \in entries
  PROVE  Resolve(e.key, entries) # {} /\ Resolve(e.key, entries) \subseteq entries
<1> DEFINE of(s) == {x \in entries : x.scope = Scopes[s] /\ x.key = e.key}
           selected == CHOOSE s \in 1 .. 4 : of(s) # {} /\ \A t \in 1 .. s - 1 : of(t) = {}
           D == {s \in 1 .. 4 : of(s) # {}}
<1>1. Resolve(e.key, entries) = of(selected)
  BY DEF Resolve
<1>2. e.scope \in ToSet(Scopes)
  BY DEF LexiconEntry
<1>3. PICK s \in 1 .. 4 : e.scope = Scopes[s]
  BY <1>2 DEF ToSet, Scopes
<1>4. D \in SUBSET Int /\ D # {} /\ \A n \in D : 1 <= n
  BY <1>3
<1>5. PICK n \in D : \A m \in D : n <= m
  <2> HIDE DEF D
  <2> QED
    BY <1>4, 1 \in Int, LeastNumber
<1>6. n \in 1 .. 4 /\ of(n) # {} /\ \A t \in 1 .. n - 1 : of(t) = {}
  <2>1. \A t \in 1 .. n - 1 : t \in 1 .. 4 /\ t \notin D
    BY <1>5
  <2> QED
    BY <1>5, <2>1
<1> HIDE DEF of, D
<1>7. of(selected) # {}
  BY <1>6
<1>8. \A t : of(t) \subseteq entries
  BY DEF of
<1> QED
  BY <1>1, <1>7, <1>8

(* Matches of the lexicon are inside the text.                             *)
LEMMA LexiconSaid ==
  ASSUME NEW text \in Seq(STRING), NEW entries, entries \subseteq LexiconEntry
  PROVE  \A m \in LexiconMatches(text, entries) :
           1 <= m.first /\ m.last <= Len(text) /\ m.spoken \in Seq(STRING)
<1> SUFFICES ASSUME NEW m \in LexiconMatches(text, entries)
             PROVE  1 <= m.first /\ m.last <= Len(text) /\ m.spoken \in Seq(STRING)
  OBVIOUS
<1>1. PICK k \in Found(text, entries) :
        \E e : /\ e = CHOOSE x \in Resolve(k[1], entries) : TRUE
              /\ m = Match(text, k[2], k[2] + Len(k[1]) - 1, e.category, e.spoken)
  BY DEF LexiconMatches
<1>2. k \in {x.key : x \in entries} \X (1 .. Len(text)) /\ OccursAt(k[1], text, k[2])
  BY DEF Found
<1>3. k[2] \in 1 .. Len(text) /\ k[2] + Len(k[1]) - 1 <= Len(text)
  BY <1>2 DEF OccursAt
<1>4. PICK x \in entries : k[1] = x.key
  BY <1>2
<1>5. PICK e : /\ e = CHOOSE y \in Resolve(k[1], entries) : TRUE
               /\ m = Match(text, k[2], k[2] + Len(k[1]) - 1, e.category, e.spoken)
  BY <1>1
<1>6. e \in entries
  BY <1>4, <1>5, ResolveFacts
<1>7. e.spoken \in Seq(STRING)
  BY <1>6 DEF LexiconEntry
<1>8. m.first = k[2] /\ m.last = k[2] + Len(k[1]) - 1 /\ m.spoken = e.spoken
  BY <1>5 DEF Match
<1> QED
  BY <1>3, <1>7, <1>8

(* Where a step of preparation leads, by what it has reached.              *)
LEMMA ReachedFacts ==
  ASSUME NEW ok, NEW next, Advance(ok, next), stage # "rejected", next # "rejected"
  PROVE  \/ ok /\ stage' = next /\ Reached' = next
         \/ ~ok /\ stage' = "rejected" /\ Reached' = stage
BY DEF Advance, Reached

(* A step that leaves script, matches and tokens alone keeps what is known *)
(* of them.                                                                *)
LEMMA SameSaid ==
  ASSUME SaidInv, UNCHANGED <<script, matches, tokens>>,
         stage' \in BeforeExtraction => stage \in BeforeExtraction,
         stage' \in {"merging", "binding"} \/ Reached' \in Bound =>
           stage \in {"merging", "binding"} \/ Reached \in Bound,
         Reached' \in Bound => Reached \in Bound \/ found = {}
  PROVE  SaidInv'
<1>1. script' = script /\ unmerged' = unmerged /\ found' = found /\ tokens' = tokens
  BY DEF matches
<1>2. (\A m \in unmerged \cup found : IsSaid(m))'
  BY <1>1 DEF SaidInv, IsSaid
<1>3. (\A k \in 1 .. Len(tokens) : IsPlaced(tokens[k]))'
  BY <1>1 DEF SaidInv, IsPlaced
<1>4. NegationsAreCovered => NegationsAreCovered'
  BY <1>1 DEF NegationsAreCovered, IsCovered
<1> QED
  BY <1>1, <1>2, <1>3, <1>4 DEF SaidInv

(* A script may change as long as nothing has been found in it.            *)
LEMMA NewScript ==
  ASSUME TokenInv, SaidInv, stage \in BeforeExtraction, UNCHANGED <<matches, tokens>>,
         stage' \notin {"merging", "binding"}, Reached' \notin Bound
  PROVE  SaidInv'
<1>1. unmerged' = {} /\ found' = {} /\ tokens' = <<>>
  BY DEF SaidInv, TokenInv, BoundInv, matches, BeforeExtraction
<1> QED
  BY <1>1 DEF SaidInv

(* Extraction covers the negations of the script.                          *)
LEMMA ExtractTokensSaid == TokenInv /\ SaidInv /\ ExtractTokens => SaidInv'
<1> SUFFICES ASSUME TokenInv, SaidInv, ExtractTokens
             PROVE  SaidInv'
  OBVIOUS
<1>1. PICK text : text = Text(script)
  OBVIOUS
<1>2. text \in Seq(STRING) /\ lexicon \subseteq LexiconEntry
  BY <1>1, TextFacts DEF TokenInv, InputInv
<1>3. /\ found' = StructuralMatches(text)
      /\ unmerged' \in {LexiconMatches(text, lexicon), {}}
      /\ script' = script /\ tokens' = tokens
  BY <1>1 DEF ExtractTokens
<1>4. /\ stage' \in {"merging", "rejected"}
      /\ Reached' \notin Bound /\ stage' \notin BeforeExtraction
  <2>1. stage \in {"adapted", "repaired"}
    BY DEF ExtractTokens
  <2>2. PICK ok : Advance(ok, "merging")
    BY DEF ExtractTokens
  <2>3. \/ stage' = "merging" /\ Reached' = "merging"
        \/ stage' = "rejected" /\ Reached' = stage
    BY <2>1, <2>2, ReachedFacts
  <2> QED
    BY <2>1, <2>3 DEF Bound, Checked, Segmented, Rendered, Selected, Mastered, Transcribed,
                      Judged, BeforeExtraction, BeforeBinding
<1>5. \A m \in unmerged' \cup found' :
        1 <= m.first /\ m.last <= Len(text) /\ m.spoken \in Seq(STRING)
  BY <1>2, <1>3, StructuralSaid, LexiconSaid
<1>6. \A w \in 1 .. Len(text) : text[w] \in Negations =>
        \E m \in found' : m.first <= w /\ w <= m.last
  BY <1>2, <1>3, StructuralSaid
<1>7. tokens = <<>>
  BY <1>4 DEF ExtractTokens, TokenInv, BoundInv, BeforeBinding
<1>8. (\A m \in unmerged \cup found : IsSaid(m))'
  BY <1>1, <1>3, <1>5 DEF IsSaid
<1>9. NegationsAreCovered'
  BY <1>1, <1>3, <1>6 DEF NegationsAreCovered, IsCovered
<1>10. \A k \in 1 .. Len(tokens') : IsPlaced(tokens[k])'
  BY <1>3, <1>7
<1> QED
  BY <1>4, <1>8, <1>9, <1>10 DEF SaidInv

(* What a lexicon match takes the place of is within it.                   *)
LEMMA MergeMatchSaid == TokenInv /\ SaidInv /\ MergeMatch => SaidInv'
<1> SUFFICES ASSUME TokenInv, SaidInv, MergeMatch
             PROVE  SaidInv'
  OBVIOUS
<1>1. PICK m \in unmerged :
        /\ unmerged' = unmerged \ {m}
        /\ found' = IF IsMergeable(m, found) THEN Merged(m, found) ELSE found
        /\ Advance(IsMergeable(m, found), "merging")
  BY DEF MergeMatch
<1>2. stage = "merging" /\ script' = script /\ tokens' = tokens
  BY DEF MergeMatch
<1>3. /\ \/ IsMergeable(m, found) /\ stage' = "merging"
         \/ ~IsMergeable(m, found) /\ stage' = "rejected"
      /\ Reached' = "merging"
  BY <1>1, <1>2, ReachedFacts
<1>4. Reached' \notin Bound /\ stage' \notin BeforeExtraction /\ "merging" \notin BeforeExtraction
  BY <1>3 DEF Bound, Checked, Segmented, Rendered, Selected, Mastered, Transcribed,
              Judged, BeforeExtraction, BeforeBinding
<1>5. (\A k \in 1 .. Len(tokens) : IsPlaced(tokens[k]))'
  BY <1>2 DEF SaidInv, IsPlaced
<1>6. NegationsAreCovered
  BY <1>2 DEF SaidInv
<1>7. CASE ~IsMergeable(m, found)
  <2>1. found' = found /\ stage' = "rejected"
    BY <1>1, <1>3, <1>7
  <2>2. (\A n \in unmerged \cup found : IsSaid(n))'
    BY <1>1, <1>2, <2>1 DEF SaidInv, IsSaid
  <2> QED
    BY <1>4, <1>5, <2>1, <2>2 DEF SaidInv
<1>8. CASE IsMergeable(m, found)
  <2>1. PICK category :
          found' = (found \ Overlapped(m, found)) \cup {[m EXCEPT !.category = category]}
    BY <1>1, <1>8 DEF Merged
  <2>2. PICK c : c = [m EXCEPT !.category = category]
    OBVIOUS
  <2>3. c.first = m.first /\ c.last = m.last /\ c.spoken = m.spoken
    BY <2>2 DEF TokenInv, MatchInv, IsMatch
  <2>4. \A n \in unmerged' \cup found' : n \in unmerged \cup found \/ n = c
    BY <1>1, <2>1, <2>2
  <2>5. (\A n \in unmerged \cup found : IsSaid(n))'
    BY <1>2, <2>3, <2>4 DEF SaidInv, IsSaid
  <2>6. \A n \in found : \E x \in found' : x.first <= n.first /\ n.last <= x.last
    <3> SUFFICES ASSUME NEW n \in found
                 PROVE  \E x \in found' : x.first <= n.first /\ n.last <= x.last
      OBVIOUS
    <3>1. CASE n \in Overlapped(m, found)
      <4>1. m.first <= n.first /\ n.last <= m.last
        BY <1>8, <3>1 DEF IsMergeable, Within
      <4> QED
        BY <2>1, <2>2, <2>3, <4>1
    <3>2. CASE n \notin Overlapped(m, found)
      <4>1. n \in found' /\ n.first <= n.first /\ n.last <= n.last
        BY <2>1, <3>2 DEF TokenInv, MatchInv, IsMatch
      <4> QED
        BY <4>1
    <3> QED
      BY <3>1, <3>2
  <2>7. \A x \in found' : x.first \in Int /\ x.last \in Int
    BY <2>1, <2>2, <2>3 DEF TokenInv, MatchInv, IsMatch
  <2>8. NegationsAreCovered'
    <3> SUFFICES ASSUME NEW w \in 1 .. Len(Text(script)), Text(script)[w] \in Negations,
                        ~(\E k \in 1 .. Len(tokens) : tokens[k].said <= w /\ w <= tokens[k].saidTo)
                 PROVE  \E x \in found' : x.first <= w /\ w <= x.last
      BY <1>2 DEF NegationsAreCovered, IsCovered
    <3>1. PICK n \in found : n.first <= w /\ w <= n.last
      BY <1>6 DEF NegationsAreCovered, IsCovered
    <3>2. PICK x \in found' : x.first <= n.first /\ n.last <= x.last
      BY <2>6
    <3>3. n.first \in Int /\ n.last \in Int /\ w \in Int
      BY DEF TokenInv, MatchInv, IsMatch
    <3> QED
      BY <2>7, <3>1, <3>2, <3>3
  <2> QED
    BY <1>4, <1>5, <2>5, <2>8 DEF SaidInv
<1> QED
  BY <1>7, <1>8

(* A token takes the place of its match, in a turn and in an anchor.       *)
LEMMA BindTokenSaid == TokenInv /\ SaidInv /\ BindToken => SaidInv'
<1> SUFFICES ASSUME TokenInv, SaidInv, BindToken
             PROVE  SaidInv'
  OBVIOUS
<1>1. PICK m \in found, i \in 1 .. Len(script) :
        /\ found' = found \ {m}
        /\ \/ tokens' = <<>> /\ stage' = "rejected"
           \/ /\ stage' = "binding"
              /\ \E a \in SourceAnchor : /\ PlaceIn(a, m.form) # 0
                                         /\ tokens' = Append(tokens, BoundToken(m, i, a))
  BY BindTokenFacts
<1>2. stage = "binding" /\ script' = script /\ unmerged' = unmerged
  BY DEF BindToken
<1>3. Reached' = "binding" /\ stage' \in {"binding", "rejected"}
  <2>1. PICK ok : Advance(ok, "binding")
    BY DEF BindToken
  <2> QED
    BY <1>2, <2>1, ReachedFacts
<1>4. Reached' \notin Bound /\ stage' \notin BeforeExtraction
  BY <1>3 DEF Bound, Checked, Segmented, Rendered, Selected, Mastered, Transcribed,
              Judged, BeforeExtraction, BeforeBinding
<1>5. (\A n \in unmerged \cup found : IsSaid(n))'
  BY <1>1, <1>2 DEF SaidInv, IsSaid
<1>6. CASE tokens' = <<>> /\ stage' = "rejected"
  BY <1>4, <1>5, <1>6 DEF SaidInv
<1>7. ASSUME NEW a \in SourceAnchor, PlaceIn(a, m.form) # 0,
             tokens' = Append(tokens, BoundToken(m, i, a))
      PROVE  SaidInv'
  <2>1. PICK b : b = BoundToken(m, i, a)
    OBVIOUS
  <2>2. PICK place : place = PlaceIn(a, m.form)
    OBVIOUS
  <2>3. /\ b.first = a.first + place - 1 /\ b.anchor = a /\ b.turn = i
        /\ b.said = m.first /\ b.saidTo = m.last /\ b.spoken = m.spoken
    BY <2>1, <2>2 DEF BoundToken
  <2>4. b.first <= b.anchor.last
    BY <1>7, <2>2, <2>3, PlaceFacts
  <2>5. IsPlaced(b)
    BY <2>3, <2>4 DEF IsPlaced, IsSaid, SaidInv
  <2>6. /\ Len(tokens) \in Nat /\ Len(tokens') = Len(tokens) + 1
        /\ tokens'[Len(tokens) + 1] = b
        /\ \A k \in 1 .. Len(tokens) : tokens'[k] = tokens[k]
    <3>1. PICK S : tokens \in Seq(S)
      BY DEF TokenInv, BoundInv
    <3>2. PICK T : T = S \cup {b}
      OBVIOUS
    <3>3. tokens \in Seq(T) /\ b \in T
      BY <3>1, <3>2
    <3> QED
      BY <1>7, <2>1, <3>3
  <2>7. \A k \in 1 .. Len(tokens') : IsPlaced(tokens[k])'
    <3> SUFFICES ASSUME NEW k \in 1 .. Len(tokens')
                 PROVE  IsPlaced(tokens[k])'
      OBVIOUS
    <3>1. PICK t : t = tokens'[k]
      OBVIOUS
    <3>2. IsPlaced(t)
      BY <2>5, <2>6, <3>1 DEF SaidInv
    <3> QED
      BY <1>2, <3>1, <3>2 DEF IsPlaced
  <2>8. NegationsAreCovered'
    <3> SUFFICES ASSUME NEW w \in 1 .. Len(Text(script)), Text(script)[w] \in Negations,
                        \A n \in found' : ~(n.first <= w /\ w <= n.last)
                 PROVE  \E k \in 1 .. Len(tokens') :
                          tokens'[k].said <= w /\ w <= tokens'[k].saidTo
      BY <1>2 DEF NegationsAreCovered, IsCovered
    <3>1. IsCovered(w)
      BY <1>2 DEF SaidInv, NegationsAreCovered
    <3>2. CASE \E k \in 1 .. Len(tokens) : tokens[k].said <= w /\ w <= tokens[k].saidTo
      BY <2>6, <3>2
    <3>3. CASE \E n \in found : n.first <= w /\ w <= n.last
      <4>1. m.first <= w /\ w <= m.last
        BY <1>1, <3>3
      <4>2. b.said <= w /\ w <= b.saidTo /\ Len(tokens) + 1 \in 1 .. Len(tokens')
        BY <2>3, <2>6, <4>1
      <4> QED
        BY <2>6, <4>2
    <3> QED
      BY <3>1, <3>2, <3>3 DEF IsCovered
  <2> QED
    BY <1>4, <1>5, <2>7, <2>8 DEF SaidInv
<1> QED
  BY <1>1, <1>6, <1>7

(* The invariant of what is said holds initially, and every step keeps it. *)
LEMMA SaidInit == Init => SaidInv
<1> SUFFICES ASSUME Init
             PROVE  SaidInv
  OBVIOUS
<1>1. unmerged = {} /\ found = {} /\ tokens = <<>> /\ stage = "profile"
  BY DEF Init, PreparationInit
<1>2. Reached \notin Bound
  BY <1>1 DEF Reached, Bound, Checked, Segmented, Rendered, Selected, Mastered, Transcribed, Judged
<1> QED
  BY <1>1, <1>2 DEF SaidInv

LEMMA SaidStep == TokenInv /\ SaidInv /\ [Next]_vars => SaidInv'
<1> SUFFICES ASSUME TokenInv, SaidInv, [Next]_vars
             PROVE  SaidInv'
  OBVIOUS
<1> USE DEF BeforeExtraction, BeforeBinding, Bound, Checked, Segmented, Rendered, Selected,
            Mastered, Transcribed, Judged
<1>1. CASE ExtractTokens \/ MergeMatch \/ BindToken
  BY <1>1, ExtractTokensSaid, MergeMatchSaid, BindTokenSaid
<1>2. CASE AdaptSource \/ RepairTurn
  <2>1. stage \in {"adapting", "adapted"} /\ UNCHANGED <<matches, tokens>>
    BY <1>2 DEF AdaptSource, RepairTurn
  <2>2. stage' \in {"adapted", "repaired", "rejected"} /\ Reached' \notin Bound
    BY <1>2, <2>1 DEF AdaptSource, RepairTurn, Advance, Reached
  <2> QED
    BY <2>1, <2>2, NewScript
<1>3. CASE LoadProfile \/ ReadFrontmatter \/ EndScan \/ ResolveMetadata
  <2>1. UNCHANGED <<script, matches, tokens>>
    BY <1>3 DEF LoadProfile, ReadFrontmatter, EndScan, ResolveMetadata, prepared
  <2>2. stage \in {"profile", "frontmatter", "scanning", "metadata"}
    BY <1>3 DEF LoadProfile, ReadFrontmatter, EndScan, ResolveMetadata
  <2>3. /\ stage' \in {"frontmatter", "scanning", "metadata", "adapting", "rejected"}
        /\ Reached' \notin Bound
    BY <1>3, <2>2 DEF LoadProfile, ReadFrontmatter, EndScan, ResolveMetadata, Advance, Reached
  <2> QED
    BY <2>1, <2>2, <2>3, NewScript
<1>4. CASE EndMerge \/ EndBinding
  <2>1. UNCHANGED <<script, matches, tokens>>
    BY <1>4 DEF EndMerge, EndBinding, prepared
  <2>2. \/ stage = "merging" /\ stage' = "binding" /\ Reached' = "binding"
        \/ stage = "binding" /\ stage' = "bound" /\ found = {}
    BY <1>4 DEF EndMerge, EndBinding, Advance, Reached
  <2> QED
    BY <2>1, <2>2, SameSaid
<1>5. CASE \/ SegmentScript \/ AddTurn \/ EndSegments \/ DeliverTakes \/ JudgeTakes
           \/ MasterAudio \/ Transcribe \/ EvaluateMaster \/ GeneratePackage
  <2>1. UNCHANGED <<script, matches, tokens>>
    BY <1>5 DEF SegmentScript, AddTurn, EndSegments, DeliverTakes, JudgeTakes, MasterAudio,
                Transcribe, EvaluateMaster, GeneratePackage, prepared
  <2>2. stage \in Bound
    BY <1>5 DEF SegmentScript, AddTurn, EndSegments, DeliverTakes, JudgeTakes, MasterAudio,
                Transcribe, EvaluateMaster, GeneratePackage
  <2>3. Reached \in Bound
    BY <2>2 DEF Reached
  <2>4. stage' \in Bound \cup {"rejected"}
    BY <1>5, <2>2 DEF SegmentScript, AddTurn, EndSegments, DeliverTakes, JudgeTakes, MasterAudio,
                Transcribe, EvaluateMaster, GeneratePackage, Advance
  <2> QED
    BY <2>1, <2>3, <2>4, SameSaid
<1>6. CASE Scan \/ UNCHANGED vars
  <2>1. UNCHANGED <<script, matches, tokens, stage, refused>>
    BY <1>6 DEF Scan, vars, prepared
  <2>2. Reached' = Reached
    BY <2>1 DEF Reached
  <2> QED
    BY <2>1, <2>2, SameSaid
<1> QED
  BY <1>1, <1>2, <1>3, <1>4, <1>5, <1>6 DEF Next, Prepare, PreparationStep

--------------------------------------------------------------------------
(***************************************************************************)
(* Segments (SegmentInv, RefusalInv). The checks of segment_script make    *)
(* its loop total: each turn fits a segment of its own, so that no segment *)
(* exceeds the limit; a segment ends only where the next turn did not fit; *)
(* the cited anchors are disjoint, so that a token overlaps the one that   *)
(* it is within and no other.                                              *)
(***************************************************************************)

(* A segment follows the one before it, within the limit, and ends where   *)
(* the next turn did not fit.                                              *)
IsSegment(k) ==
  LET s == segments[k] IN
  /\ 1 <= s.first /\ s.first <= s.last /\ s.last <= Len(script)
  /\ k = 1 => s.first = 1
  /\ Width(s.first, s.last) <= request.limit
  /\ k < Len(segments) =>
       segments[k + 1].first = s.last + 1 /\ Width(s.first, s.last + 1) > request.limit

(* What segment_script has checked before its loop.                        *)
IsChecked ==
  /\ script # <<>>
  /\ \A c, d \in Citations : Before(c, d) => Cited(c).last < Cited(d).first
  /\ \A k \in 1 .. Len(tokens) : IsInOneAnchor(tokens[k])
  /\ \A i \in 1 .. Len(script) : Width(i, i) <= request.limit

SegmentInv ==
  /\ segments \in Seq([first : Nat, last : Nat])
  /\ Reached \notin Checked => segments = <<>>
  /\ Reached \in Checked => IsChecked
  /\ \A k \in 1 .. Len(segments) : IsSegment(k)
  /\ Reached \in Segmented => segments # <<>> /\ segments[Len(segments)].last = Len(script)

(* A checked script stays checked.                                         *)
LEMMA SameChecked ==
  ASSUME IsChecked, UNCHANGED <<request, script, tokens>>
  PROVE  IsChecked'
<1>1. (\A c, d \in Citations : Before(c, d) => Cited(c).last < Cited(d).first)'
  BY SMTT(30) DEF IsChecked, Citations, Cited, Before
<1>2. (\A k \in 1 .. Len(tokens) : IsInOneAnchor(tokens[k]))'
  BY DEF IsChecked, IsInOneAnchor, Citations, Cited
<1>3. (\A i \in 1 .. Len(script) : Width(i, i) <= request.limit)'
  BY DEF IsChecked, Width, FirstWord
<1> QED
  BY <1>1, <1>2, <1>3 DEF IsChecked

(* Segments are ranges of turns.                                           *)
LEMMA SegmentTypes ==
  ASSUME segments \in Seq([first : Nat, last : Nat])
  PROVE  /\ Len(segments) \in Nat
         /\ \A k \in 1 .. Len(segments) :
              /\ segments[k].first \in Nat /\ segments[k].last \in Nat
              /\ segments[k] = [first |-> segments[k].first, last |-> segments[k].last]
         /\ segments # <<>> =>
              Len(segments) \in 1 .. Len(segments) /\ Last(segments) = segments[Len(segments)]
<1>1. \A s \in [first : Nat, last : Nat] :
        s.first \in Nat /\ s.last \in Nat /\ s = [first |-> s.first, last |-> s.last]
  OBVIOUS
<1>2. \A k \in 1 .. Len(segments) : segments[k] \in [first : Nat, last : Nat]
  BY ElementOfSeq
<1>3. Len(segments) \in Nat
  OBVIOUS
<1>4. segments # <<>> => Len(segments) # 0
  BY EmptySeq
<1> QED
  BY <1>1, <1>2, <1>3, <1>4 DEF Last

(* A step that leaves the segments alone keeps what is known of them.      *)
LEMMA SameSegments ==
  ASSUME SegmentInv, UNCHANGED <<request, script, tokens, segments>>,
         Reached' \in Checked <=> Reached \in Checked,
         Reached' \in Segmented => Reached \in Segmented
  PROVE  SegmentInv'
<1>2. (\A k \in 1 .. Len(segments) : IsSegment(k))'
  BY DEF SegmentInv, IsSegment, Width, FirstWord
<1> QED
  BY <1>2, SameChecked DEF SegmentInv

(* Widths are numbers.                                                     *)
LEMMA WidthFacts ==
  ASSUME TokenInv, NEW i \in 1 .. Len(script), NEW j \in i .. Len(script)
  PROVE  Width(i, j) \in Int
BY CharactersAreWidth

(* The checks before the loop.                                             *)
LEMMA SegmentScriptStep == TokenInv /\ SegmentInv /\ SegmentScript => SegmentInv'
<1> SUFFICES ASSUME TokenInv, SegmentInv, SegmentScript
             PROVE  SegmentInv'
  OBVIOUS
<1> USE DEF Checked, Segmented, Rendered, Selected, Mastered, Transcribed, Judged
<1>1. stage = "bound" /\ UNCHANGED <<request, script, tokens, segments>>
  BY DEF SegmentScript, prepared
<1>2. PICK ok : /\ Advance(ok, "segmenting")
                /\ ok = (/\ script # <<>> /\ AnchorsAreOrdered
                         /\ \A t \in ToSet(tokens) : IsInOneAnchor(t)
                         /\ \A i \in 1 .. Len(script) :
                               script[i].speaker \in request.ableSpeakers
                                 /\ Width(i, i) <= request.limit)
  BY DEF SegmentScript
<1>3. segments = <<>>
  BY <1>1 DEF SegmentInv, Reached
<1>4. segments' = <<>>
  BY <1>1, <1>3
<1>5. /\ \/ ok /\ Reached' = "segmenting"
         \/ ~ok /\ Reached' = "bound"
  BY <1>1, <1>2, ReachedFacts
<1>6. ASSUME ok
      PROVE  IsChecked'
  <2>1. /\ script # <<>> /\ AnchorsAreOrdered
        /\ \A t \in ToSet(tokens) : IsInOneAnchor(t)
        /\ \A i \in 1 .. Len(script) : Width(i, i) <= request.limit
    BY <1>2, <1>6
  <2>2. \A c, d \in Citations : Before(c, d) => Cited(c).last < Cited(d).first
    BY <2>1 DEF AnchorsAreOrdered
  <2>3. \A k \in 1 .. Len(tokens) : IsInOneAnchor(tokens[k])
    <3>1. \A k \in 1 .. Len(tokens) : tokens[k] \in ToSet(tokens)
      BY DEF ToSet, TokenInv, BoundInv
    <3> QED
      BY <2>1, <3>1
  <2> QED
    BY <1>1, <2>1, <2>2, <2>3, SameChecked DEF IsChecked
<1> QED
  BY <1>4, <1>5, <1>6 DEF SegmentInv

(* A segment grows while it is within the limit, and ends where the next   *)
(* turn would exceed it.                                                   *)
LEMMA AddTurnStep == TokenInv /\ SegmentInv /\ AddTurn => SegmentInv'
<1> SUFFICES ASSUME TokenInv, SegmentInv, AddTurn
             PROVE  SegmentInv'
  OBVIOUS
<1>1. /\ stage = "segmenting" /\ stage' = stage /\ refused' = refused
      /\ UNCHANGED <<request, script, tokens>>
  BY DEF AddTurn, scan
<1>2. Reached = "segmenting" /\ Reached' = "segmenting"
  BY <1>1 DEF Reached
<1>3. Reached \in Checked /\ Reached' \in Checked /\ Reached' \notin Segmented
  BY <1>2 DEF Checked, Segmented, Rendered, Selected, Mastered, Transcribed, Judged
<1>4. IsChecked
  BY <1>3 DEF SegmentInv
<1>5. IsChecked'
  BY <1>1, <1>4, SameChecked
<1>6. PICK n : n = NextTurn
  OBVIOUS
<1>7. PICK len : len = Len(segments)
  OBVIOUS
<1>8. len \in Nat /\ Len(script) \in Nat /\ request.limit \in Nat
  BY <1>7, RequestsAssumption DEF SegmentInv, TokenInv, InputInv
<1>9. \A k \in 1 .. len :
        /\ segments[k].first \in Nat /\ segments[k].last \in Nat
        /\ segments[k] = [first |-> segments[k].first, last |-> segments[k].last]
  BY <1>7, SegmentTypes DEF SegmentInv
<1>10. \A i, j : Width(i, j)' = Width(i, j)
  BY <1>1 DEF Width, FirstWord
<1>11. n \in Nat /\ 1 <= n /\ n <= Len(script)
  <2>1. n <= Len(script)
    BY <1>6 DEF AddTurn
  <2>2. segments # <<>> => len \in 1 .. len /\ n = segments[len].last + 1
    BY <1>6, <1>7, SegmentTypes DEF NextTurn, SegmentInv
  <2>3. segments = <<>> => n = 1
    BY <1>6 DEF NextTurn
  <2> QED
    <3>1. CASE segments = <<>>
      BY <2>1, <2>3, <3>1
    <3>2. CASE segments # <<>>
      <4>1. segments[len].last \in Nat /\ n = segments[len].last + 1
        BY <1>9, <2>2, <3>2
      <4> QED
        BY <2>1, <4>1
    <3> QED
      BY <3>1, <3>2
<1>12. \A k \in 1 .. len : IsSegment(k)
  BY <1>7 DEF SegmentInv
<1>13. CASE segments # <<>> /\ Width(Last(segments).first, n) <= request.limit
  <2>1. /\ len \in 1 .. len /\ n = segments[len].last + 1 /\ Last(segments) = segments[len]
    BY <1>6, <1>7, <1>13, SegmentTypes DEF NextTurn, SegmentInv
  <2>2. segments' = [segments EXCEPT ![len] = [segments[len] EXCEPT !.last = n]]
    BY <1>6, <1>7, <1>13, <2>1 DEF AddTurn, ReplaceAt
  <2>3. PICK s : s = [segments[len] EXCEPT !.last = n]
    OBVIOUS
  <2>4. s.first = segments[len].first /\ s.last = n /\ s \in [first : Nat, last : Nat]
    <3>1. segments[len] = [first |-> segments[len].first, last |-> segments[len].last]
      BY <1>9, <2>1
    <3>2. s = [first |-> segments[len].first, last |-> n]
      BY ONLY <2>3, <3>1
    <3> QED
      BY <1>9, <1>11, <2>1, <3>2
  <2>5. /\ segments' \in Seq([first : Nat, last : Nat]) /\ Len(segments') = len
        /\ segments'[len] = s /\ \A k \in 1 .. len - 1 : segments'[k] = segments[k]
    <3>1. segments' = [segments EXCEPT ![len] = s]
      BY <2>2, <2>3
    <3> QED
      BY <1>7, <1>8, <2>1, <2>4, <3>1 DEF SegmentInv
  <2>6. ASSUME NEW k \in 1 .. len
        PROVE  IsSegment(k)'
    <3>1. PICK t : t = segments'[k]
      OBVIOUS
    <3>2. CASE k = len
      <4>1. IsSegment(len)
        BY <1>12, <2>1
      <4>2. segments'[len] = s /\ s.first = segments[len].first
        BY <2>4, <2>5
      <4>3. /\ 1 <= s.first /\ s.first <= s.last /\ s.last <= Len(script)
            /\ (len = 1 => s.first = 1)
            /\ Width(s.first, s.last) <= request.limit
        <5>1. PICK f \in Nat, l \in Nat : f = segments[len].first /\ l = segments[len].last
          BY <1>9, <2>1
        <5>2. 1 <= f /\ f <= l /\ (len = 1 => f = 1)
          BY <4>1, <5>1 DEF IsSegment
        <5>3. s.first = f /\ s.last = n /\ n = l + 1 /\ Width(f, n) <= request.limit
          BY <1>13, <2>1, <2>4, <5>1
        <5> QED
          BY <1>11, <5>2, <5>3
      <4> QED
        BY <1>1, <1>8, <1>10, <2>5, <3>2, <4>2, <4>3 DEF IsSegment
    <3>3. CASE k # len
      <4>1. k \in 1 .. len - 1 /\ IsSegment(k) /\ k < len /\ segments'[k] = segments[k]
        BY <1>8, <1>12, <2>5, <3>3
      <4>2. segments'[k + 1].first = segments[k + 1].first
        <5>1. CASE k + 1 = len
          BY <2>4, <2>5, <5>1
        <5>2. CASE k + 1 # len
          <6>1. k + 1 \in 1 .. len - 1
            BY <1>8, <4>1, <5>2
          <6> QED
            BY <2>5, <6>1
        <5> QED
          BY <5>1, <5>2
      <4> QED
        BY <1>1, <1>7, <1>10, <2>5, <4>1, <4>2 DEF IsSegment
    <3> QED
      BY <3>2, <3>3
  <2> QED
    BY <1>3, <1>5, <2>5, <2>6 DEF SegmentInv
<1>14. CASE ~(segments # <<>> /\ Width(Last(segments).first, n) <= request.limit)
  <2>1. PICK s : s = [first |-> n, last |-> n]
    OBVIOUS
  <2>2. segments' = Append(segments, s)
    BY <1>6, <1>14, <2>1 DEF AddTurn
  <2>3. s.first = n /\ s.last = n /\ s \in [first : Nat, last : Nat]
    BY <1>11, <2>1
  <2>4. /\ segments' \in Seq([first : Nat, last : Nat]) /\ Len(segments') = len + 1
        /\ segments'[len + 1] = s /\ \A k \in 1 .. len : segments'[k] = segments[k]
    BY <1>7, <2>2, <2>3 DEF SegmentInv
  <2>5. len > 0 => /\ n = segments[len].last + 1
                   /\ Width(segments[len].first, segments[len].last + 1) > request.limit
    <3> SUFFICES ASSUME len > 0
                 PROVE  /\ n = segments[len].last + 1
                        /\ Width(segments[len].first, segments[len].last + 1) > request.limit
      OBVIOUS
    <3>1. segments # <<>> /\ Last(segments) = segments[len] /\ len \in 1 .. len
      BY <1>7, <1>8, SegmentTypes DEF SegmentInv
    <3>2. n = segments[len].last + 1
      BY <1>6, <3>1 DEF NextTurn
    <3>3. ~(Width(segments[len].first, n) <= request.limit)
      BY <1>14, <3>1
    <3>4. IsSegment(len)
      BY <1>12, <3>1
    <3>5. segments[len].first \in 1 .. Len(script) /\ n \in segments[len].first .. Len(script)
      <4>1. PICK f \in Nat, l \in Nat : f = segments[len].first /\ l = segments[len].last
        BY <1>9, <3>1
      <4>2. 1 <= f /\ f <= l /\ l <= Len(script)
        BY <3>4, <4>1 DEF IsSegment
      <4> QED
        BY <1>8, <1>11, <3>2, <4>1, <4>2
    <3>6. Width(segments[len].first, n) \in Int
      BY <3>5, WidthFacts
    <3> QED
      BY <1>8, <3>2, <3>3, <3>6
  <2>6. ASSUME NEW k \in 1 .. len + 1
        PROVE  IsSegment(k)'
    <3>1. CASE k = len + 1
      <4>1. Width(n, n) <= request.limit
        BY <1>4, <1>8, <1>11 DEF IsChecked
      <4>2. k = 1 => n = 1
        BY <1>6, <1>7, <1>8, <3>1 DEF NextTurn, SegmentInv
      <4> QED
        BY <1>1, <1>8, <1>10, <1>11, <2>3, <2>4, <3>1, <4>1, <4>2 DEF IsSegment
    <3>2. CASE k # len + 1
      <4>1. k \in 1 .. len /\ IsSegment(k) /\ segments'[k] = segments[k]
        <5>1. k \in 1 .. len
          BY <1>8, <3>2
        <5> QED
          BY <1>12, <2>4, <5>1
      <4>2. CASE k = len
        <5>1. segments'[k + 1].first = segments[k].last + 1
          BY <1>8, <2>3, <2>4, <2>5, <4>1, <4>2
        <5> QED
          BY <1>1, <1>8, <1>10, <2>4, <2>5, <4>1, <4>2, <5>1 DEF IsSegment
      <4>3. CASE k # len
        <5>1. k < Len(segments) /\ k + 1 \in 1 .. len /\ segments'[k + 1] = segments[k + 1]
          BY <1>7, <1>8, <2>4, <4>1, <4>3, SMTT(30)
        <5> QED
          BY <1>1, <1>10, <4>1, <5>1 DEF IsSegment
      <4> QED
        BY <4>2, <4>3
    <3> QED
      BY <3>1, <3>2
  <2> QED
    BY <1>3, <1>5, <2>4, <2>6 DEF SegmentInv
<1> QED
  BY <1>6, <1>13, <1>14

(* The loop ends when the last segment has the last turn.                  *)
LEMMA EndSegmentsStep == TokenInv /\ SegmentInv /\ EndSegments => SegmentInv'
<1> SUFFICES ASSUME TokenInv, SegmentInv, EndSegments
             PROVE  SegmentInv'
  OBVIOUS
<1>1. stage = "segmenting" /\ UNCHANGED <<request, script, tokens, segments>>
  BY DEF EndSegments, prepared
<1>2. Reached = "segmenting" /\ Reached' = "prepared"
  BY <1>1 DEF EndSegments, Advance, Reached
<1>3. Reached \in Checked /\ Reached' \in Checked /\ Reached' \in Segmented
  BY <1>2 DEF Checked, Segmented, Rendered, Selected, Mastered, Transcribed, Judged
<1>4. IsChecked
  BY <1>3 DEF SegmentInv
<1>5. IsChecked'
  BY <1>1, <1>4, SameChecked
<1>6. (\A k \in 1 .. Len(segments) : IsSegment(k))'
  BY <1>1 DEF SegmentInv, IsSegment, Width, FirstWord
<1>7. segments # <<>> /\ segments[Len(segments)].last = Len(script)
  <2>1. NextTurn > Len(script) /\ Len(script) \in Nat /\ Len(script) >= 1
    BY <1>4 DEF EndSegments, IsChecked, TokenInv, InputInv
  <2>2. segments # <<>>
    BY <2>1 DEF NextTurn
  <2>3. Len(segments) \in 1 .. Len(segments) /\ segments[Len(segments)].last \in Nat
    BY <2>2, SegmentTypes DEF SegmentInv
  <2>4. segments[Len(segments)].last + 1 > Len(script)
    BY <2>1, <2>2 DEF NextTurn, Last
  <2>5. segments[Len(segments)].last <= Len(script)
    BY <2>3 DEF SegmentInv, IsSegment
  <2> QED
    BY <2>1, <2>2, <2>3, <2>4, <2>5
<1> QED
  BY <1>1, <1>3, <1>5, <1>6, <1>7 DEF SegmentInv

(* The invariant of the segments holds initially, and every step keeps it. *)
LEMMA SegmentInit == Init => SegmentInv
<1> SUFFICES ASSUME Init
             PROVE  SegmentInv
  OBVIOUS
<1>1. segments = <<>> /\ stage = "profile"
  BY DEF Init, PreparationInit
<1>2. Reached \notin Checked /\ Reached \notin Segmented
  BY <1>1 DEF Reached, Checked, Segmented, Rendered, Selected, Mastered, Transcribed, Judged
<1>3. segments \in Seq([first : Nat, last : Nat]) /\ Len(segments) = 0
  BY <1>1, EmptySeq
<1> QED
  BY <1>1, <1>2, <1>3 DEF SegmentInv

LEMMA SegmentStep == TokenInv /\ SaidInv /\ SegmentInv /\ [Next]_vars => SegmentInv'
<1> SUFFICES ASSUME TokenInv, SaidInv, SegmentInv, [Next]_vars
             PROVE  SegmentInv'
  OBVIOUS
<1> USE DEF Checked, Segmented, Rendered, Selected, Mastered, Transcribed, Judged
<1>1. CASE SegmentScript \/ AddTurn \/ EndSegments
  BY <1>1, SegmentScriptStep, AddTurnStep, EndSegmentsStep
<1>2. CASE \/ LoadProfile \/ ReadFrontmatter \/ EndScan \/ ResolveMetadata \/ AdaptSource
           \/ RepairTurn \/ ExtractTokens \/ MergeMatch \/ EndMerge \/ BindToken \/ EndBinding
  <2>1. /\ stage \in {"profile", "frontmatter", "scanning", "metadata", "adapting", "adapted",
                      "repaired", "merging", "binding"}
        /\ segments' = segments
    BY <1>2 DEF LoadProfile, ReadFrontmatter, EndScan, ResolveMetadata, AdaptSource, RepairTurn,
                ExtractTokens, MergeMatch, EndMerge, BindToken, EndBinding, prepared
  <2>2. segments = <<>>
    BY <2>1 DEF SegmentInv, Reached
  <2>3. Reached' \notin Checked
    <3>1. CASE RepairTurn
      BY <3>1 DEF RepairTurn, Reached
    <3>2. CASE ~RepairTurn
      <4>1. \E ok, next : /\ Advance(ok, next)
                          /\ next \in {"frontmatter", "scanning", "metadata", "adapting",
                                       "adapted", "merging", "binding", "bound"}
        BY <1>2, <3>2 DEF LoadProfile, ReadFrontmatter, EndScan, ResolveMetadata, AdaptSource,
                ExtractTokens, MergeMatch, EndMerge, BindToken, EndBinding
      <4> QED
        BY <2>1, <4>1, ReachedFacts
    <3> QED
      BY <3>1, <3>2
  <2>4. segments' = <<>> /\ segments' \in Seq([first : Nat, last : Nat]) /\ Len(segments') = 0
    BY <2>1, <2>2, EmptySeq
  <2> QED
    BY <2>3, <2>4 DEF SegmentInv
<1>3. CASE \/ DeliverTakes \/ JudgeTakes \/ MasterAudio \/ Transcribe \/ EvaluateMaster
           \/ GeneratePackage
  <2>1. UNCHANGED <<request, script, tokens, segments>>
    BY <1>3 DEF DeliverTakes, JudgeTakes, MasterAudio, Transcribe, EvaluateMaster,
                GeneratePackage, prepared
  <2>2. stage \in Segmented
    BY <1>3 DEF DeliverTakes, JudgeTakes, MasterAudio, Transcribe, EvaluateMaster,
                GeneratePackage
  <2>3. Reached \in Segmented /\ Reached' \in Segmented
    BY <1>3, <2>2 DEF DeliverTakes, JudgeTakes, MasterAudio, Transcribe, EvaluateMaster,
                GeneratePackage, Advance, Reached
  <2> QED
    BY <2>1, <2>3, SameSegments
<1>4. CASE Scan \/ UNCHANGED vars
  <2>1. UNCHANGED <<request, script, tokens, segments, stage, refused>>
    BY <1>4 DEF Scan, vars, prepared
  <2>2. Reached' = Reached
    BY <2>1 DEF Reached
  <2> QED
    BY <2>1, <2>2, SameSegments
<1> QED
  BY <1>1, <1>2, <1>3, <1>4 DEF Next, Prepare, PreparationStep

(* Segments follow one another, and a turn is in one of them.              *)
LEMMA SegmentsFollow ==
  ASSUME SegmentInv, NEW i \in 1 .. Len(segments), NEW j \in i + 1 .. Len(segments)
  PROVE  segments[i].last < segments[j].first
<1> DEFINE T == {k \in Int : k <= Len(segments) => segments[i].last < segments[k].first}
<1>1. /\ Len(segments) \in Nat
      /\ \A k \in 1 .. Len(segments) : segments[k].first \in Nat /\ segments[k].last \in Nat
  BY SegmentTypes DEF SegmentInv
<1>2. \A k \in 1 .. Len(segments) : segments[k].first <= segments[k].last
  BY DEF SegmentInv, IsSegment
<1>3. \A k \in 1 .. Len(segments) : k < Len(segments) =>
        segments[k + 1].first = segments[k].last + 1
  BY DEF SegmentInv, IsSegment
<1>4. i + 1 \in T
  BY <1>1, <1>3
<1>5. ASSUME NEW k \in Int, i + 1 <= k, k \in T
      PROVE  k + 1 \in T
  <2> SUFFICES ASSUME k + 1 <= Len(segments)
               PROVE  segments[i].last < segments[k + 1].first
    BY <1>5
  <2>1. k \in 1 .. Len(segments) /\ k < Len(segments) /\ segments[i].last < segments[k].first
    BY <1>1, <1>5
  <2> HIDE DEF T
  <2> QED
    BY <1>1, <1>2, <1>3, <2>1, SMTT(30)
<1> HIDE DEF T
<1>6. i + 1 \in Int /\ \A k \in Int : i + 1 <= k /\ k \in T => k + 1 \in T
  BY <1>5
<1>7. \A k \in Int : i + 1 <= k => k \in T
  BY ONLY <1>4, <1>6, Induct
<1> QED
  BY <1>7 DEF T

(* Each turn is in one segment.                                            *)
LEMMA SegmentOfTurn ==
  ASSUME SegmentInv, Reached \in Segmented, NEW i \in 1 .. Len(script)
  PROVE  \E k \in 1 .. Len(segments) :
           /\ segments[k].first <= i /\ i <= segments[k].last
           /\ \A j \in 1 .. Len(segments) :
                segments[j].first <= i /\ i <= segments[j].last => j = k
<1> DEFINE D == {k \in 1 .. Len(segments) : i <= segments[k].last}
<1>1. /\ Len(segments) \in 1 .. Len(segments) /\ segments[Len(segments)].last = Len(script)
      /\ \A k \in 1 .. Len(segments) : segments[k].first \in Nat /\ segments[k].last \in Nat
  BY SegmentTypes DEF SegmentInv
<1>2. \A k \in 1 .. Len(segments) :
        /\ k = 1 => segments[k].first = 1
        /\ k < Len(segments) => segments[k + 1].first = segments[k].last + 1
  BY DEF SegmentInv, IsSegment
<1>3. D \in SUBSET Int /\ D # {} /\ \A k \in D : 1 <= k
  BY <1>1
<1>4. PICK k \in D : \A m \in D : k <= m
  <2> HIDE DEF D
  <2> QED
    BY <1>3, 1 \in Int, LeastNumber
<1>5. k \in 1 .. Len(segments) /\ i <= segments[k].last
  BY <1>4
<1>6. segments[k].first <= i
  <2>1. CASE k = 1
    BY <1>2, <1>5, <2>1
  <2>2. CASE k # 1
    <3>1. /\ k - 1 \in 1 .. Len(segments) /\ k - 1 \notin D
          /\ k - 1 < Len(segments) /\ (k - 1) + 1 = k
      BY <1>4, <1>5, <2>2
    <3>2. ~(i <= segments[k - 1].last) /\ segments[k].first = segments[k - 1].last + 1
      BY <1>2, <3>1
    <3>3. segments[k - 1].last \in Nat
      BY <1>1, <3>1
    <3> QED
      BY <3>2, <3>3
  <2> QED
    BY <2>1, <2>2
<1>7. ASSUME NEW j \in 1 .. Len(segments), segments[j].first <= i, i <= segments[j].last
      PROVE  j = k
  <2>1. CASE j < k
    <3>1. k \in j + 1 .. Len(segments)
      BY <1>5, <2>1
    <3>2. segments[j].last < segments[k].first
      BY <3>1, SegmentsFollow
    <3> QED
      BY <1>1, <1>5, <1>6, <1>7, <3>2
  <2>2. CASE k < j
    <3>1. j \in k + 1 .. Len(segments)
      BY <1>5, <2>2
    <3>2. segments[k].last < segments[j].first
      BY <1>5, <3>1, SegmentsFollow
    <3> QED
      BY <1>1, <1>5, <1>6, <1>7, <3>2
  <2> QED
    BY <1>5, <2>1, <2>2
<1> QED
  BY <1>5, <1>6, <1>7

(* Citations are ordered, and have the anchors that turns cite.            *)
LEMMA CitationFacts ==
  ASSUME TokenInv
  PROVE  /\ \A c \in Citations :
              /\ c[1] \in 1 .. Len(script) /\ Cited(c) \in SourceAnchor
              /\ Cited(c).first \in Nat /\ Cited(c).last \in Nat
         /\ \A c, d \in Citations : c = d \/ Before(c, d) \/ Before(d, c)
         /\ \A i \in 1 .. Len(script) : \A a \in ToSet(script[i].source) :
              \E c \in Citations : c[1] = i /\ Cited(c) = a
<1>1. \A t \in ScriptTurn : t.source \in Seq(SourceAnchor)
  BY DEF ScriptTurn
<1>2. \A i \in 1 .. Len(script) : script[i].source \in Seq(SourceAnchor)
  <2>1. \A i \in 1 .. Len(script) : script[i] \in ScriptTurn
    BY ElementOfSeq DEF TokenInv, InputInv
  <2> QED
    BY <1>1, <2>1
<1>3. \A c \in Citations : \E i \in 1 .. Len(script), n \in 1 .. Len(script[c[1]].source) :
        c = <<i, n>> /\ c[1] = i /\ c[2] = n
  BY DEF Citations
<1>4. \A a \in SourceAnchor : a.first \in Nat /\ a.last \in Nat
  BY DEF SourceAnchor
<1>5. ASSUME NEW c \in Citations
      PROVE  c[1] \in 1 .. Len(script) /\ Cited(c) \in SourceAnchor
  <2>1. c[1] \in 1 .. Len(script) /\ c[2] \in 1 .. Len(script[c[1]].source)
    BY <1>3
  <2>2. PICK s : s = script[c[1]].source
    OBVIOUS
  <2>3. s \in Seq(SourceAnchor) /\ c[2] \in 1 .. Len(s)
    BY <1>2, <2>1, <2>2
  <2>4. s[c[2]] \in SourceAnchor
    BY <2>3, ElementOfSeq
  <2> QED
    BY <2>1, <2>2, <2>4 DEF Cited
<1>6. ASSUME NEW c \in Citations, NEW d \in Citations
      PROVE  c = d \/ Before(c, d) \/ Before(d, c)
  <2>1. PICK i \in Nat, n \in Nat : c = <<i, n>> /\ c[1] = i /\ c[2] = n
    BY <1>3
  <2>2. PICK j \in Nat, m \in Nat : d = <<j, m>> /\ d[1] = j /\ d[2] = m
    BY <1>3
  <2> QED
    BY <2>1, <2>2 DEF Before
<1>7. ASSUME NEW i \in 1 .. Len(script), NEW a \in ToSet(script[i].source)
      PROVE  \E c \in Citations : c[1] = i /\ Cited(c) = a
  <2>1. PICK n \in 1 .. Len(script[i].source) : a = script[i].source[n]
    <3>1. PICK s : s = script[i].source
      OBVIOUS
    <3>2. s \in Seq(SourceAnchor) /\ a \in ToSet(s)
      BY <1>2, <3>1
    <3>3. \E n \in 1 .. Len(s) : a = s[n]
      BY <3>2 DEF ToSet
    <3> QED
      BY <3>1, <3>3
  <2>2. <<i, n>> \in Citations
    BY <2>1 DEF Citations
  <2>3. Cited(<<i, n>>) = a /\ <<i, n>>[1] = i
    BY <2>1 DEF Cited
  <2> QED
    BY <2>2, <2>3
<1> QED
  BY <1>4, <1>5, <1>6, <1>7

(* A token overlaps one of the anchors that the script cites, that one     *)
(* which it is in.                                                         *)
LEMMA TokenCitation ==
  ASSUME TokenInv, SegmentInv, Reached \in Checked, NEW t \in 1 .. Len(tokens)
  PROVE  \E c \in Citations :
           /\ Within(tokens[t], Cited(c))
           /\ \A d \in Citations : Overlap(tokens[t], Cited(d)) <=> d = c
<1>1. IsInOneAnchor(tokens[t])
  BY DEF SegmentInv, IsChecked
<1>2. PICK c \in Citations : \A d \in Citations : Within(tokens[t], Cited(d)) <=> d = c
  BY <1>1 DEF IsInOneAnchor
<1>3. Within(tokens[t], Cited(c))
  BY <1>2
<1>4. tokens[t].first \in Int /\ tokens[t].last \in Int /\ tokens[t].first <= tokens[t].last
  BY DEF TokenInv, BoundInv, IsBound
<1>5. \A d \in Citations : Cited(d).first \in Nat /\ Cited(d).last \in Nat
  BY CitationFacts
<1>6. Overlap(tokens[t], Cited(c))
  BY <1>3, <1>4, <1>5 DEF Within, Overlap
<1>7. ASSUME NEW d \in Citations, d # c
      PROVE  ~Overlap(tokens[t], Cited(d))
  <2>1. Before(c, d) \/ Before(d, c)
    BY <1>7, CitationFacts
  <2>2. Cited(c).last < Cited(d).first \/ Cited(d).last < Cited(c).first
    BY <2>1 DEF SegmentInv, IsChecked
  <2> QED
    BY <1>3, <1>4, <1>5, <2>2 DEF Within, Overlap
<1> QED
  BY <1>3, <1>6, <1>7

(* Each token overlaps one cited anchor, and belongs to the segment that   *)
(* cites it.                                                               *)
LEMMA TokensInFacts ==
  ASSUME TokenInv, SegmentInv, Reached \in Segmented, NEW t \in 1 .. Len(tokens)
  PROVE  \E c \in Citations, k \in 1 .. Len(segments) :
           /\ Within(tokens[t], Cited(c))
           /\ \A d \in Citations : Overlap(tokens[t], Cited(d)) <=> d = c
           /\ segments[k].first <= c[1] /\ c[1] <= segments[k].last
           /\ \A j \in 1 .. Len(segments) : t \in TokensIn(j) <=> j = k
<1>1. Reached \in Checked
  BY DEF Checked
<1>2. PICK c \in Citations :
           /\ Within(tokens[t], Cited(c))
           /\ \A d \in Citations : Overlap(tokens[t], Cited(d)) <=> d = c
  BY <1>1, TokenCitation
<1>3. c[1] \in 1 .. Len(script)
  BY CitationFacts
<1>4. PICK k \in 1 .. Len(segments) :
           /\ segments[k].first <= c[1] /\ c[1] <= segments[k].last
           /\ \A j \in 1 .. Len(segments) :
                segments[j].first <= c[1] /\ c[1] <= segments[j].last => j = k
  BY <1>3, SegmentOfTurn
<1>5. \A j : t \in TokensIn(j) <=>
               \E d \in Citations : /\ segments[j].first <= d[1] /\ d[1] <= segments[j].last
                                    /\ Overlap(tokens[t], Cited(d))
  BY DEF TokensIn, AnchorsIn
<1>6. \A j : t \in TokensIn(j) <=> segments[j].first <= c[1] /\ c[1] <= segments[j].last
  BY <1>2, <1>5
<1> QED
  BY <1>2, <1>4, <1>6

(* Segments divide the script when they are complete.                      *)
LEMMA SegmentsPartition ==
  ASSUME TokenInv, SaidInv, SegmentInv, stage = "rejected" => refused # "segmenting"
  PROVE  SegmentsPartitionTurns
<1> SUFFICES ASSUME segments # <<>>, stage # "segmenting"
             PROVE  SegmentsPartitionTurns
  BY DEF SegmentsPartitionTurns
<1>1. Reached \in Segmented
  <2>1. Reached \in Checked
    BY DEF SegmentInv
  <2>2. Reached # "segmenting"
    BY DEF Reached
  <2> QED
    BY <2>1, <2>2 DEF Checked
<1>2. /\ Len(segments) \in 1 .. Len(segments) /\ Last(segments) = segments[Len(segments)]
      /\ \A k \in 1 .. Len(segments) : segments[k].first \in Nat /\ segments[k].last \in Nat
  BY SegmentTypes DEF SegmentInv
<1>3. Len(script) \in Nat /\ request.limit \in Nat
  BY RequestsAssumption DEF TokenInv, InputInv
<1>4. segments[1].first = 1 /\ Last(segments).last = Len(script)
  <2>1. IsSegment(1)
    BY <1>2 DEF SegmentInv
  <2> QED
    BY <1>1, <1>2, <2>1 DEF SegmentInv, IsSegment
<1>5. ASSUME NEW k \in 1 .. Len(segments)
      PROVE  LET s == segments[k] IN
             /\ s.first <= s.last
             /\ CharactersOf(SubSeq(script, s.first, s.last)) <= request.limit
             /\ k < Len(segments) =>
                  /\ segments[k + 1].first = s.last + 1
                  /\ CharactersOf(SubSeq(script, s.first, s.last + 1)) > request.limit
  <2>1. PICK f \in Nat, l \in Nat : f = segments[k].first /\ l = segments[k].last
    BY <1>2
  <2>2. /\ 1 <= f /\ f <= l /\ l <= Len(script) /\ Width(f, l) <= request.limit
        /\ k < Len(segments) =>
             segments[k + 1].first = l + 1 /\ Width(f, l + 1) > request.limit
    BY <2>1 DEF SegmentInv, IsSegment
  <2>3. f \in 1 .. Len(script) /\ l \in f .. Len(script)
    BY <1>3, <2>2
  <2>4. CharactersOf(SubSeq(script, f, l)) = Width(f, l)
    BY <2>3, CharactersAreWidth
  <2>5. ASSUME k < Len(segments)
        PROVE  CharactersOf(SubSeq(script, f, l + 1)) = Width(f, l + 1)
    <3>1. k + 1 \in 1 .. Len(segments)
      BY <2>5
    <3>2. PICK g \in Nat, h \in Nat : g = segments[k + 1].first /\ h = segments[k + 1].last
      BY <1>2, <3>1
    <3>3. g <= h /\ h <= Len(script) /\ g = l + 1
      BY <2>2, <2>5, <3>1, <3>2 DEF SegmentInv, IsSegment
    <3>4. l + 1 \in f .. Len(script)
      BY <1>3, <2>2, <3>3
    <3> QED
      BY <2>3, <3>4, CharactersAreWidth
  <2> QED
    BY <2>1, <2>2, <2>4, <2>5
<1>6. ASSUME NEW t \in 1 .. Len(tokens)
      PROVE  \E k \in 1 .. Len(segments) :
               /\ \A j \in 1 .. Len(segments) : t \in TokensIn(j) <=> j = k
               /\ tokens[t].anchor \in ToSet(script[tokens[t].turn].source) =>
                    tokens[t].turn \in segments[k].first .. segments[k].last
  <2>1. PICK c \in Citations, k \in 1 .. Len(segments) :
          /\ Within(tokens[t], Cited(c))
          /\ \A d \in Citations : Overlap(tokens[t], Cited(d)) <=> d = c
          /\ segments[k].first <= c[1] /\ c[1] <= segments[k].last
          /\ \A j \in 1 .. Len(segments) : t \in TokensIn(j) <=> j = k
    BY <1>1, TokensInFacts
  <2>2. ASSUME tokens[t].anchor \in ToSet(script[tokens[t].turn].source)
        PROVE  tokens[t].turn \in segments[k].first .. segments[k].last
    <3>1. tokens[t].turn \in 1 .. Len(script) /\ tokens[t].first <= tokens[t].anchor.last
      BY DEF SaidInv, IsPlaced
    <3>2. PICK d \in Citations : d[1] = tokens[t].turn /\ Cited(d) = tokens[t].anchor
      BY <2>2, <3>1, CitationFacts
    <3>3. /\ tokens[t].first \in Int /\ tokens[t].last \in Int
          /\ tokens[t].first <= tokens[t].last /\ tokens[t].anchor.first <= tokens[t].first
          /\ Cited(d).first \in Nat
      BY <3>2, CitationFacts DEF TokenInv, BoundInv, IsBound
    <3>4. Overlap(tokens[t], Cited(d))
      BY <3>1, <3>2, <3>3 DEF Overlap
    <3>5. d = c
      BY <2>1, <3>4
    <3> QED
      BY <1>2, <2>1, <3>1, <3>2, <3>5
  <2> QED
    BY <2>1, <2>2
<1> QED
  BY <1>4, <1>5, <1>6 DEF SegmentsPartitionTurns

(* The steps of segmentation refuse nothing.                               *)
RefusalInv ==
  /\ refused # "none" => stage = "rejected"
  /\ refused \notin {"segmenting", "rejected"}

(* Every step keeps the invariant of refusals.                             *)
LEMMA RefusalStep == RefusalInv /\ [Next]_vars => RefusalInv'
<1> SUFFICES ASSUME RefusalInv, [Next]_vars
             PROVE  RefusalInv'
  OBVIOUS
<1>1. CASE \/ LoadProfile \/ ReadFrontmatter \/ EndScan \/ ResolveMetadata \/ AdaptSource
           \/ ExtractTokens \/ MergeMatch \/ EndMerge \/ BindToken \/ EndBinding
           \/ SegmentScript \/ JudgeTakes \/ MasterAudio \/ EvaluateMaster \/ GeneratePackage
  BY <1>1 DEF LoadProfile, ReadFrontmatter, EndScan, ResolveMetadata, AdaptSource,
     ExtractTokens, MergeMatch, EndMerge, BindToken, EndBinding, SegmentScript, JudgeTakes,
     MasterAudio, EvaluateMaster, GeneratePackage, Advance, RefusalInv
<1>2. CASE RepairTurn \/ AddTurn \/ EndSegments \/ DeliverTakes \/ Transcribe
  BY <1>2 DEF RepairTurn, AddTurn, EndSegments, DeliverTakes, Transcribe, Advance, RefusalInv
<1>3. CASE Scan \/ UNCHANGED vars
  BY <1>3 DEF Scan, vars, RefusalInv
<1> QED
  BY <1>1, <1>2, <1>3 DEF Next, Prepare, PreparationStep

ScriptInv == TokenInv /\ SaidInv /\ SegmentInv /\ RefusalInv

(* All that is known of a script holds initially, and every step keeps it. *)
LEMMA ScriptInit == Init => ScriptInv
<1> SUFFICES ASSUME Init
             PROVE  ScriptInv
  OBVIOUS
<1>1. RefusalInv
  BY DEF Init, PreparationInit, RefusalInv
<1> QED
  BY <1>1, TokenInit, SaidInit, SegmentInit DEF ScriptInv

LEMMA ScriptStep == ScriptInv /\ [Next]_vars => ScriptInv'
BY TokenStep, SaidStep, SegmentStep, RefusalStep DEF ScriptInv

(* Segments divide the script: each turn is in one segment, in order; no   *)
(* segment exceeds the renderer's limit, and none ends while the next turn *)
(* fits; each token is in one segment, its own turn's if that turn cites   *)
(* the token's anchor.  (segment_script, _make_segment, _validate_tokens.) *)
THEOREM SegmentsPartitionTurnsHolds == Spec => []SegmentsPartitionTurns
<1>1. Init => ScriptInv
  BY ScriptInit
<1>2. ScriptInv /\ [Next]_vars => ScriptInv'
  BY ScriptStep
<1>3. ScriptInv => SegmentsPartitionTurns
  BY SegmentsPartition DEF ScriptInv, RefusalInv
<1> QED
  BY <1>1, <1>2, <1>3, PTL DEF Spec
=============================================================================
