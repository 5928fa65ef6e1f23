---------------------------- MODULE Segmentation ----------------------------
(***************************************************************************)
(* The reading units of a document                                         *)
(* (extensions/document-flow-review-segmentation.ts): its lines are        *)
(* grouped into Markdown blocks, and the blocks into units of about three  *)
(* to six sentences.                                                       *)
(*                                                                         *)
(* A line is its shape and the number of sentences that end in it; a block *)
(* or a unit is the lines it stands on and its weight.  Code spans and     *)
(* links are no sentences: what counts of a line is what remains without   *)
(* them, which may be nothing.                                             *)
(***************************************************************************)
EXTENDS Integers, Sequences, SequencesExt, FiniteSetsExt

\* What stands on a line after its indent.  "fence", "longFence", "opening" and "tildes" are ```,
\* ````, ```text and ~~~; "starRule" is * * *, which also reads as a list item.
Shapes == {"blank", "text", "heading", "rule", "starRule", "fence", "longFence", "opening",
           "tildes", "item", "quote", "delimiter"}

Line == {line \in [
  shape : Shapes,
  indent : 0..4,   \* spaces; 4 stands for more, too, and for a tab
  bar : BOOLEAN,   \* there is a bar
  left : BOOLEAN,  \* something remains without code spans and links
  ends : Nat] :    \* and so many sentences end in it
    /\ line.ends > 0 => line.left
    /\ line.shape = "delimiter" => line.bar}

MinUnitWeight == 3
MaxUnitWeight == 6
MaxBlockWeight == 10

Lower(m, n) == IF m < n THEN m ELSE n
Higher(m, n) == IF m > n THEN m ELSE n
Quotient(n, k) == (n + k - 1) \div k   \* rounded up

-----------------------------------------------------------------------------
(* Lines *)

Is(d, i, shapes) == i \in DOMAIN d /\ d[i].shape \in shapes

isBlank(d, i) == Is(d, i, {"blank"})
HasText(d, i) == Is(d, i, Shapes \ {"blank"})
IsIndented(d, i) == HasText(d, i) /\ d[i].indent > 0
isIndentedCode(d, i) == IsIndented(d, i) /\ d[i].indent = 4

\* What these shapes mean after four spaces is text; a fence, and a table, may have any indent.
Means(d, i, shapes) == Is(d, i, shapes) /\ ~isIndentedCode(d, i)

isHeading(d, i) == Means(d, i, {"heading"})
isListStart(d, i) == Means(d, i, {"item", "starRule"})
listIndent(d, i) == d[i].indent
isBlockquote(d, i) == Means(d, i, {"quote"})
isThematicBreak(d, i) == Means(d, i, {"rule", "starRule"})
fenceMarker(d, i) == Is(d, i, {"fence", "longFence", "opening", "tildes"})
isFenceClose(d, i, marker) ==
  Is(d, i, IF marker \in {"longFence", "tildes"} THEN {marker} ELSE {"fence", "longFence"})
HasBar(d, i) == HasText(d, i) /\ d[i].bar
IsTable(d, i) == HasBar(d, i) /\ Is(d, i + 1, {"delimiter"})

isSpecialBlockStart(d, i) ==
  \/ isHeading(d, i) \/ fenceMarker(d, i) \/ isListStart(d, i) \/ isBlockquote(d, i)
  \/ isThematicBreak(d, i) \/ isIndentedCode(d, i) \/ IsTable(d, i)

\* The first line from i on that is not blank, or the one after the last.
nextNonBlank(d, i) == Min({j \in i..Len(d) : ~isBlank(d, j)} \cup {Len(d) + 1})

-----------------------------------------------------------------------------
(* Blocks *)

\* What kind of block starts on a line: the first that fits.
KindAt(d, i) ==
  IF fenceMarker(d, i) THEN "fenced"
  ELSE IF isHeading(d, i) THEN "heading"
  ELSE IF isThematicBreak(d, i) THEN "thematic"
  ELSE IF IsTable(d, i) THEN "table"
  ELSE IF isListStart(d, i) THEN "list"
  ELSE IF isBlockquote(d, i) THEN "quote"
  ELSE IF isIndentedCode(d, i) THEN "indented"
  ELSE "prose"

InFence(d, i, k) == ~\E j \in (i + 1)..(k - 1) : isFenceClose(d, j, d[i].shape)

InTable(d, i, k) == k = i + 1 \/ HasBar(d, k)

\* Deeper items and indented lines, and the blank lines before them.
InList(d, i, k) ==
  LET next == nextNonBlank(d, k)
      deeper == isListStart(d, next) /\ listIndent(d, next) > listIndent(d, i)
  IN IF isBlank(d, k) THEN deeper \/ IsIndented(d, next)
     ELSE IF isListStart(d, k) THEN deeper
     ELSE IsIndented(d, k)

InQuote(d, i, k) == isBlockquote(d, nextNonBlank(d, k))

InIndented(d, i, k) == isIndentedCode(d, nextNonBlank(d, k))

InProse(d, i, k) == ~isBlank(d, k) /\ ~isSpecialBlockStart(d, k)

\* Whether a block that starts on line i and has all lines up to k also has line k.
Continues(d, i, k) ==
  LET kind == KindAt(d, i) IN
  \/ kind = "fenced" /\ InFence(d, i, k)
  \/ kind = "table" /\ InTable(d, i, k)
  \/ kind = "list" /\ InList(d, i, k)
  \/ kind = "quote" /\ InQuote(d, i, k)
  \/ kind = "indented" /\ InIndented(d, i, k)
  \/ kind = "prose" /\ InProse(d, i, k)

LastLine(d, i) == Min({k \in (i + 1)..Len(d) : ~Continues(d, i, k)} \cup {Len(d) + 1}) - 1

\* Text that is nothing but code spans and links has no sentence, any other at least one.
sentenceCount(d, first, last) ==
  IF \A i \in first..last : ~d[i].left THEN 0
  ELSE Higher(1, FoldLeft(LAMBDA n, line : n + line.ends, 0, SubSeq(d, first, last)))

blockWeight(d, kind, first, last) ==
  LET filled == Cardinality({k \in first..last : ~isBlank(d, k)})
      items == Cardinality({k \in first..last : isListStart(d, k)})
  IN CASE kind = "heading" -> 0
       [] kind = "thematic" -> 1
       [] kind \in {"prose", "quote"} -> Lower(MaxBlockWeight, sentenceCount(d, first, last))
       [] kind = "list" ->
            Lower(MaxBlockWeight, Higher(Higher(1, sentenceCount(d, first, last)), Quotient(items, 2)))
       [] kind \in {"fenced", "indented"} -> Lower(MaxBlockWeight, Quotient(filled, 4))
       [] kind = "table" -> Lower(MaxBlockWeight, Quotient(Higher(1, filled - 2), 2))

makeBlock(d, first) ==
  LET last == LastLine(d, first) IN
  [kind |-> KindAt(d, first), first |-> first, last |-> last,
   weight |-> blockWeight(d, KindAt(d, first), first, last)]

parseBlocks(d) ==
  LET from[i \in 1..(Len(d) + 1)] ==
        IF i > Len(d) THEN <<>>
        ELSE IF isBlank(d, i) THEN from[i + 1]
        ELSE <<makeBlock(d, i)>> \o from[LastLine(d, i) + 1]
  IN from[1]

-----------------------------------------------------------------------------
(* Units *)

Weight(blocks) == FoldLeft(LAMBDA n, b : n + b.weight, 0, blocks)

\* Chunks that are full, and the one being filled.
flush(c) == IF c.current = <<>> THEN c ELSE [full |-> Append(c.full, c.current), current |-> <<>>]

Put(c, block) == [c EXCEPT !.current = Append(@, block)]

FlushIf(condition, c) == IF condition THEN flush(c) ELSE c

\* Wrong: a heading stays with what precedes it.
PutAny(c, block) ==
  LET weight == Weight(c.current)
      room == FlushIf(weight >= MinUnitWeight /\ weight + block.weight > MaxUnitWeight, c)
      filled == Put(room, block)
  IN FlushIf(Weight(filled.current) >= MaxUnitWeight, filled)

Chunked(c, block) ==
  LET weight == Weight(c.current)
      room == FlushIf(weight >= MinUnitWeight /\ weight + block.weight > MaxUnitWeight, c)
      filled == Put(room, block)
  IN IF block.kind = "heading" THEN Put(FlushIf(weight >= MinUnitWeight, c), block)
     ELSE FlushIf(Weight(filled.current) >= MaxUnitWeight, filled)

\* A last chunk that is too light joins the one before it.
chunkBlocks(blocks) ==
  LET chunks == flush(FoldLeft(Chunked, [full |-> <<>>, current |-> <<>>], blocks)).full
      n == Len(chunks)
  IN IF n > 1 /\ Weight(chunks[n]) < MinUnitWeight
     THEN Append(SubSeq(chunks, 1, n - 2), chunks[n - 1] \o chunks[n])
     ELSE chunks

segmentReadingUnits(d) ==
  LET chunks == chunkBlocks(parseBlocks(d)) IN
  [u \in DOMAIN chunks |->
    [first |-> chunks[u][1].first, last |-> chunks[u][Len(chunks[u])].last,
     weight |-> Weight(chunks[u]), closing |-> chunks[u][Len(chunks[u])].kind]]

-----------------------------------------------------------------------------
(* Properties of the units of a document *)

Filled(d) == {i \in DOMAIN d : ~isBlank(d, i)}

\* Units stand in the order of the document, none overlaps another, and each line with text
\* is in one of them.
InOrder(d, units) ==
  /\ \A u \in DOMAIN units : units[u].first <= units[u].last /\ units[u].first \in Filled(d)
  /\ \A u \in 1..(Len(units) - 1) : units[u].last < units[u + 1].first
  /\ \A i \in Filled(d) : \E u \in DOMAIN units : i \in units[u].first..units[u].last

\* The heaviest unit: one just below the minimum with a heaviest block, and a light last chunk.
HeaviestUnit == 2 * (MinUnitWeight - 1) + MaxBlockWeight

\* Only a document that is one unit has a light unit, and no unit but the last ends with a
\* heading, which would be read without what it announces.
WellSized(units) ==
  /\ Len(units) > 1 => \A u \in DOMAIN units : units[u].weight \in MinUnitWeight..HeaviestUnit
  /\ \A u \in 1..(Len(units) - 1) : units[u].closing # "heading"
=============================================================================
