---------------------------- MODULE SourceBlocks ----------------------------
(***************************************************************************)
(* snapshot_source (content/source.py): the scan that divides a Markdown   *)
(* document into the blocks that scripts are anchored to.                  *)
(*                                                                         *)
(* A line is what the scan can tell of it: how far it is indented, how     *)
(* many cells its pipes delimit (none without a pipe), its words, and its  *)
(* mark:                                                                   *)
(*   item      "- a"     ordered  "2. a"        bare       "-"             *)
(*   rule      "---"     delimiter "--- | ---"  backticks  "```"           *)
(*   tildes    "~~~"     info     "```py", which opens a fence of          *)
(*                                backticks and closes none                *)
(*   blank, heading, quote; and text, which is any other.                  *)
(* One step consumes a line, or ends the block that the line is not in.    *)
(***************************************************************************)
EXTENDS SequencesExt

CONSTANT Nothing

VARIABLES
  lines,   \* the body of the document
  at,      \* the line that the scan has reached
  open,    \* the block it is in, if any
  blocks   \* the blocks it has found

scan == <<at, open, blocks>>

Lists == {"item", "ordered", "bare"}
Fences == {"backticks", "tildes", "info"}
Plain == {"text", "rule", "delimiter"} \cup Fences
Line ==
  {l \in [mark : {"blank", "heading", "quote"} \cup Lists \cup Plain,
          indent : Nat, cells : Nat, words : Seq(STRING)] :
     /\ l.mark \in {"blank", "bare", "rule", "backticks", "tildes"} => l.cells = 0
     /\ l.mark = "delimiter" => l.cells > 0}
Block == [kind : {"list", "code", "heading", "blockquote", "table", "paragraph"},
          first : Nat, fence : {"none", "backticks", "tildes"}, column : Nat,
          paragraph : BOOLEAN]

ASSUME SourceAssumption == Nothing \notin Block

Reading == at <= Len(lines)

Indent(i) == lines[i].indent
Cells(i) == lines[i].cells

(* A mark counts up to an indentation of three.                            *)
Kind(i) ==
  IF lines[i].mark # "blank" /\ Indent(i) > 3 THEN "text" ELSE lines[i].mark

ContentColumn(i) == Indent(i) + (IF Kind(i) = "ordered" THEN 3 ELSE 2)
HasParagraph(i) == Kind(i) \in {"item", "ordered"}
Interrupts(i) == Kind(i) = "item"
IsFence(i) == Kind(i) \in Fences
Marker(i) == IF Kind(i) = "tildes" THEN "tildes" ELSE "backticks"
Closes(i, fence) == Kind(i) = fence

(* Any line with a pipe may be the header of a table, if what delimits it  *)
(* has as many cells; a rule has one, and neither need begin its line.     *)
IsTableStart(i) ==
  /\ i < Len(lines) /\ Cells(i) > 0
  /\ CASE lines[i + 1].mark = "delimiter" -> Cells(i + 1) = Cells(i)
       [] lines[i + 1].mark = "rule" -> Cells(i) = 1
       [] OTHER -> FALSE
IsParagraphLine(i) ==
  /\ Kind(i) \in {"text", "delimiter"}
  /\ ~IsTableStart(i)
ContinuesItem(i, column) == Kind(i) # "blank" /\ Indent(i) >= column

BlockKind(i) ==
  CASE IsFence(i) -> "code"
    [] ~IsFence(i) /\ IsTableStart(i) -> "table"
    [] ~IsTableStart(i) /\ Kind(i) = "heading" -> "heading"
    [] ~IsTableStart(i) /\ Kind(i) = "quote" -> "blockquote"
    [] ~IsTableStart(i) /\ Kind(i) \in Lists -> "list"
    [] OTHER -> "paragraph"

StaysInListAlways(b) == Kind(at) = "blank"

(* Blank lines stay in a list only before more of it.                      *)
StaysInList(b) ==
  /\ Kind(at) = "blank"
  /\ \E j \in at + 1 .. Len(lines) :
        /\ \A k \in at .. j - 1 : Kind(k) = "blank"
        /\ Kind(j) \in Lists \/ ContinuesItem(j, b.column)

ListContinues(b) ==
  \/ b.fence # "none"
  \/ Kind(at) \in Lists
  \/ ContinuesItem(at, b.column)
  \/ StaysInList(b)
  \/ b.paragraph /\ IsParagraphLine(at)

Continues(b) ==
  /\ Reading
  /\ CASE b.kind = "code" -> ~Closes(at, b.fence)
       [] b.kind = "table" -> Cells(at) > 0
       [] b.kind = "blockquote" -> Kind(at) = "quote"
       [] b.kind = "paragraph" -> \/ Kind(at) \in Lists /\ ~Interrupts(at)
                                  \/ IsParagraphLine(at)
       [] b.kind = "list" -> ListContinues(b)
       [] OTHER -> FALSE

(* A closing fence, or the underline that makes a paragraph a heading.     *)
IsLastLine(b) ==
  /\ Reading /\ ~Continues(b)
  /\ \/ b.kind = "code"
     \/ b.kind = "paragraph" /\ Kind(at) = "rule"

EndAs(b, kind, last) ==
  /\ blocks' = Append(blocks, [kind |-> kind, first |-> b.first, last |-> last])
  /\ open' = Nothing

ScanInit == at = 1 /\ open = Nothing /\ blocks = <<>>

SkipBlank ==
  /\ open = Nothing /\ Reading /\ Kind(at) = "blank"
  /\ at' = at + 1
  /\ UNCHANGED <<lines, open, blocks>>

OpenBlock ==
  /\ open = Nothing /\ Reading /\ Kind(at) # "blank"
  /\ open' = [kind |-> BlockKind(at), first |-> at,
              fence |-> IF BlockKind(at) = "code" THEN Marker(at) ELSE "none",
              column |-> ContentColumn(at), paragraph |-> HasParagraph(at)]
  /\ at' = at + (IF BlockKind(at) = "table" THEN 2 ELSE 1)
  /\ UNCHANGED <<lines, blocks>>

ContinueBlock ==
  /\ open # Nothing /\ open.kind # "list" /\ Continues(open)
  /\ at' = at + 1
  /\ UNCHANGED <<lines, open, blocks>>

(* What the next lines of a list may be depends on its latest item and on  *)
(* the fence it has opened.                                                *)
ContinueList ==
  /\ open # Nothing /\ open.kind = "list" /\ Continues(open)
  /\ open' =
       CASE open.fence # "none" ->
              [open EXCEPT !.fence = IF Closes(at, @) THEN "none" ELSE @,
                           !.paragraph = FALSE]
         [] open.fence = "none" /\ Kind(at) \in Lists ->
              [open EXCEPT !.column = ContentColumn(at), !.paragraph = HasParagraph(at)]
         [] /\ open.fence = "none" /\ Kind(at) \notin Lists
            /\ ContinuesItem(at, open.column) ->
              [open EXCEPT !.fence = IF IsFence(at) THEN Marker(at) ELSE "none",
                           !.paragraph = /\ IsParagraphLine(at)
                                         /\ Indent(at) < open.column + 4]
         [] OTHER -> open
  /\ at' = at + 1
  /\ UNCHANGED <<lines, blocks>>

EndWithLine ==
  /\ open # Nothing /\ IsLastLine(open)
  /\ EndAs(open, IF open.kind = "paragraph" THEN "heading" ELSE open.kind, at)
  /\ at' = at + 1
  /\ UNCHANGED lines

EndBlock ==
  /\ open # Nothing /\ ~Continues(open) /\ ~IsLastLine(open)
  /\ EndAs(open, open.kind, at - 1)
  /\ UNCHANGED <<lines, at>>

ScanStep ==
  SkipBlank \/ OpenBlock \/ ContinueBlock \/ ContinueList \/ EndWithLine \/ EndBlock

Scanned == ~Reading /\ open = Nothing

--------------------------------------------------------------------------

(* Anchors are ranges of words, counted through the document.              *)
SourceWords == FlattenSeq([i \in 1 .. Len(lines) |-> lines[i].words])
WordsUpTo(i) == FoldLeft(LAMBDA n, l : n + Len(l.words), 0, SubSeq(lines, 1, i))
LineOf(w) == CHOOSE i \in 1 .. Len(lines) : WordsUpTo(i - 1) < w /\ w <= WordsUpTo(i)

IsAnchored(a) ==
  /\ a.block \in 1 .. Len(blocks)
  /\ WordsUpTo(blocks[a.block].first - 1) < a.first
  /\ a.last <= WordsUpTo(blocks[a.block].last)

AnchorText(a) == SubSeq(SourceWords, a.first, a.last)

--------------------------------------------------------------------------

Covers(b, i) == b.first <= i /\ i <= b.last

(* A fence that a line from first on opens is still open before line i.    *)
UnderFence(first, i) ==
  \E j \in first .. i - 1 :
    IsFence(j) /\ \A k \in j + 1 .. i - 1 : ~Closes(k, Marker(j))

EndsUnderFence(b) == b.last = Len(lines) /\ UnderFence(b.first, b.last)

(* The latest list item before line i reaches as far as i is indented.     *)
UnderItem(first, i) ==
  \E j \in first .. i - 1 :
    /\ Kind(j) \in Lists /\ ContentColumn(j) <= Indent(i)
    /\ \A k \in j + 1 .. i - 1 : Kind(k) \in Lists => UnderFence(first, k)

(* Why a line that begins a block of its own elsewhere is in block b.      *)
IsInPlace(b, i) ==
  \/ Kind(i) = "heading" /\ b.kind = "heading" /\ b.first = i /\ b.last = i
  \/ Kind(i) = "quote" /\ b.kind = "blockquote"
  \/ Kind(i) = "item" /\ b.kind = "list"
  \/ b.kind = "table" /\ Cells(i) > 0
  \/ b.kind \in {"code", "list"} /\ UnderFence(b.first, i)
  \/ b.kind = "list" /\ UnderItem(b.first, i)

(* Blocks tile the document: each line that is not blank is in exactly one *)
(* block, blocks follow one another, and none begins with a blank line or  *)
(* ends with one, unless a fence is open there to the end of the document. *)
(* A heading is a block by itself, quotes are with quotes and items with   *)
(* their list, unless a table takes the line for its pipe, a fence hides   *)
(* it, or it is indented into the latest item of a list.  (The scan loop,  *)
(* its lookahead over blank lines, lazy continuation, fences in lists.)    *)
BlocksTileTheSource ==
  Scanned =>
    /\ \A i \in 1 .. Len(lines) : Kind(i) # "blank" =>
          \E k \in 1 .. Len(blocks) : Covers(blocks[k], i)
    /\ \A k \in 1 .. Len(blocks) :
          LET b == blocks[k] IN
          /\ b.first <= b.last /\ b.last <= Len(lines)
          /\ k > 1 => blocks[k - 1].last < b.first
          /\ Kind(b.first) # "blank"
          /\ Kind(b.last) # "blank" \/ EndsUnderFence(b)
          /\ \A i \in b.first .. b.last :
                Kind(i) \in {"heading", "quote", "item"} => IsInPlace(b, i)
=============================================================================
