-------------------------- MODULE MCDocumentReview --------------------------
EXTENDS DocumentReview

LineOf(shape, indent) ==
  [shape |-> shape, indent |-> indent, bar |-> shape = "delimiter",
   left |-> shape # "blank", ends |-> IF shape = "blank" THEN 0 ELSE 1]
Barred(line) == [line EXCEPT !.bar = TRUE]
Text(n) == [LineOf("text", 0) EXCEPT !.ends = n]
Links == [LineOf("text", 0) EXCEPT !.left = FALSE, !.ends = 0]

\* Lines that go on over several lines, and what ends or interrupts them.
Lasting ==
  {LineOf(s, 0) : s \in {"blank", "text", "fence", "opening", "item", "quote", "delimiter"}}
  \cup {LineOf(s, 2) : s \in {"fence", "item"}} \cup {LineOf("text", 4), Barred(LineOf("text", 0)), Links}

\* Every shape, shapes that change their meaning after spaces, and bars.
Lines ==
  Lasting \cup {LineOf(s, 0) : s \in Shapes}
  \cup {LineOf("text", 2), LineOf("item", 4), LineOf("fence", 4), LineOf("heading", 4), Barred(LineOf("item", 0))}

\* Paragraphs that weigh nothing, little and much.
Paragraphs == {Text(2), Text(11), Links, LineOf("heading", 0)}

Separated(s) == [i \in 1..(2 * Len(s)) |-> IF i % 2 = 0 THEN LineOf("blank", 0) ELSE s[(i + 1) \div 2]]

MCDocuments ==
  UNION {[1..n -> Lines] : n \in 0..3}
  \cup [1..4 -> Lasting]
  \cup {Separated(s) : s \in UNION {[1..n -> Paragraphs] : n \in 5..6}}
=============================================================================
