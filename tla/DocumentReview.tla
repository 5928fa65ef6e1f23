--------------------------- MODULE DocumentReview ---------------------------
(***************************************************************************)
(* The document-flow review (extensions/document-flow-review*.ts): an      *)
(* isolated reader session is shown one reading unit after another, notes  *)
(* its friction with each before it sees the next, and writes the review   *)
(* after the last.                                                         *)
(*                                                                         *)
(* The reader is external: in a prompt it calls the reading tool with any  *)
(* arguments, speaks, and stops when it likes.  The document is forgotten  *)
(* once its units are counted: the protocol looks at nothing else.         *)
(***************************************************************************)
EXTENDS Segmentation

CONSTANTS
  Documents,              \* documents: sequences of lines
  Continuations,          \* MAX_CONTINUATION_ATTEMPTS
  NoDocument              \* no document

ASSUME ReviewAssumption ==
  /\ Documents \subseteq Seq(Line) /\ NoDocument \notin Documents
  /\ Continuations \in Nat

VARIABLES
  document,
  units,        \* how many units the document has
  currentUnit,  \* the unit last revealed, 0 before the first
  finished,     \* EOF was returned
  friction,     \* protocol.friction: the units it was recorded for
  stage,        \* where runDocumentFlowReview is
  attempts,
  finalReview,  \* there is one
  files,        \* what was written to the artifact directory
  cancelled,    \* its signal is aborted
  shown         \* the session has the report, or the human the error; the widget is gone

protocol == <<currentUnit, finished, friction>>
reviewVars == <<document, units, protocol, stage, attempts, finalReview, files, cancelled, shown>>

\* The awaits of the run in their order, then what it returned.
Prompting == {"begun", "continued", "concluding"}
Stages == {"reading file", "preparing", "deciding", "review", "metadata"} \cup Prompting
Outcomes == {"returned", "failed"}

-----------------------------------------------------------------------------
(* The reading tool *)

Revealed == currentUnit

\* Wrong: a call after EOF is taken like any other.
AcceptedAgain(afterUnit, noted) ==
  ~cancelled /\ afterUnit = Revealed /\ (Revealed = 0 => ~noted)

\* In the order of units, and friction only once a unit was revealed.  The calls of one message
\* are accepted one after another, those too that were written before a unit was read.
Accepted(afterUnit, noted) ==
  ~cancelled /\ ~finished /\ afterUnit = Revealed /\ (Revealed = 0 => ~noted)

Records == IF currentUnit > 0 THEN Append(friction, currentUnit) ELSE friction

\* A call that is not accepted throws and changes nothing.
NextReadingUnit(afterUnit, noted) ==
  /\ stage \in Prompting
  /\ Accepted(afterUnit, noted)
  /\ friction' = Records
  /\ IF currentUnit = units
     THEN finished' = TRUE /\ UNCHANGED currentUnit
     ELSE currentUnit' = currentUnit + 1 /\ UNCHANGED finished
  /\ UNCHANGED <<document, units, stage, attempts, finalReview, files, cancelled, shown>>

IsReview == ~cancelled /\ finished

\* A message of the reader with text.
Speaks ==
  /\ stage \in Prompting /\ IsReview
  /\ finalReview' = TRUE
  /\ UNCHANGED <<document, units, protocol, stage, attempts, files, cancelled, shown>>

-----------------------------------------------------------------------------
(* runDocumentFlowReview *)

Fail == stage' = "failed" /\ UNCHANGED attempts

\* What fails before the session exists leaves no error file.
Segments ==
  /\ stage = "reading file"
  /\ units' = Len(segmentReadingUnits(document))
  /\ document' = NoDocument
  /\ IF units' = 0 THEN Fail ELSE stage' = "preparing" /\ UNCHANGED attempts
  /\ UNCHANGED <<protocol, finalReview, files, cancelled, shown>>

\* No model, a document too large for it, no session.
CannotPrepare ==
  /\ stage \in {"reading file", "preparing"}
  /\ Fail
  /\ UNCHANGED <<document, units, protocol, finalReview, files, cancelled, shown>>

promptReader(next) == IF cancelled THEN stage' = "failed" ELSE stage' = next

\* A failure from here on is written to the artifact directory.
Thrown == files' = IF stage' = "failed" THEN files \cup {"error"} ELSE files

Begins ==
  /\ stage = "preparing"
  /\ promptReader("begun")
  /\ Thrown
  /\ UNCHANGED <<document, units, protocol, attempts, finalReview, cancelled, shown>>

\* A prompt that was aborted may also end normally.
PromptEnds ==
  /\ stage \in Prompting
  /\ stage' = IF cancelled THEN "failed" ELSE "deciding"
  /\ Thrown
  /\ UNCHANGED <<document, units, protocol, attempts, finalReview, cancelled, shown>>

PromptFails ==
  /\ stage \in Prompting
  /\ stage' = "failed"
  /\ Thrown
  /\ UNCHANGED <<document, units, protocol, attempts, finalReview, cancelled, shown>>

MayContinue == attempts < Continuations

\* A reader that stopped before EOF is continued, then given up.
Continue ==
  /\ stage = "deciding" /\ ~finished
  /\ IF MayContinue THEN promptReader("continued") /\ attempts' = Lower(attempts + 1, Continuations) ELSE Fail
  /\ Thrown
  /\ UNCHANGED <<document, units, protocol, finalReview, cancelled, shown>>

\* After EOF without a review, the reader is asked for it once.
Conclude ==
  /\ stage = "deciding" /\ finished /\ ~finalReview
  /\ IF attempts <= Continuations THEN promptReader("concluding") /\ attempts' = Continuations + 1
     ELSE Fail
  /\ Thrown
  /\ UNCHANGED <<document, units, protocol, finalReview, cancelled, shown>>

Saves ==
  /\ stage = "deciding" /\ finished /\ finalReview
  /\ promptReader("review")
  /\ Thrown
  /\ UNCHANGED <<document, units, protocol, attempts, finalReview, cancelled, shown>>

\* The writes are given the signal; the last look at it is after both.
WriteReview ==
  /\ stage = "review"
  /\ \E written \in BOOLEAN :
       /\ stage' = IF written THEN "metadata" ELSE "failed"
       /\ files' = files \cup (IF written THEN {"review"} ELSE {"error"})
  /\ UNCHANGED <<document, units, protocol, attempts, finalReview, cancelled, shown>>

\* Wrong: an abort during the writes is not looked for.
KeptWhenWritten == "returned"

Kept == IF cancelled THEN "failed" ELSE "returned"

WriteMetadata ==
  /\ stage = "metadata"
  /\ \/ stage' = Kept /\ files' = files \cup {"metadata"} \cup (IF cancelled THEN {"error"} ELSE {})
     \/ stage' = "failed" /\ files' = files \cup {"error"}
  /\ UNCHANGED <<document, units, protocol, attempts, finalReview, cancelled, shown>>

-----------------------------------------------------------------------------
(* Its callers *)

\* A tool call can be cancelled; the command passes no signal and never is.  An abort that
\* comes before the document is read fails the reading.
Abort ==
  /\ ~cancelled /\ stage \notin Outcomes \cup {"reading file"}
  /\ cancelled' = TRUE
  /\ UNCHANGED <<document, units, protocol, stage, attempts, finalReview, files, shown>>

\* The report goes to the session, the error to the model or the human.
Shows ==
  /\ stage \in Outcomes /\ ~shown
  /\ shown' = TRUE
  /\ UNCHANGED <<document, units, protocol, stage, attempts, finalReview, files, cancelled>>

-----------------------------------------------------------------------------
ReviewInit ==
  /\ document \in Documents
  /\ units = 0 /\ currentUnit = 0 /\ finished = FALSE /\ friction = <<>>
  /\ stage = "reading file" /\ attempts = 0
  /\ finalReview = FALSE
  /\ files = {}
  /\ cancelled = FALSE /\ shown = FALSE

Runs ==
  \/ Begins \/ PromptEnds \/ Continue \/ Conclude \/ Saves
  \/ WriteReview \/ WriteMetadata \/ Shows

ReviewNext ==
  \/ Segments \/ Runs \/ CannotPrepare \/ PromptFails \/ Speaks \/ Abort
  \/ \E afterUnit \in 0..units, noted \in BOOLEAN : NextReadingUnit(afterUnit, noted)

ReviewSpec == ReviewInit /\ [][ReviewNext]_reviewVars

-----------------------------------------------------------------------------
(* Properties *)

\* Every variable keeps its type.
ReviewTypeOK ==
  /\ document \in Documents \cup {NoDocument}
  /\ units \in Nat /\ currentUnit \in 0..units
  /\ finished \in BOOLEAN /\ finalReview \in BOOLEAN /\ cancelled \in BOOLEAN /\ shown \in BOOLEAN
  /\ friction \in Seq(1..units)
  /\ stage \in Stages \cup Outcomes
  /\ attempts \in 0..(Continuations + 1)
  /\ files \subseteq {"review", "metadata", "error"}

\* The units of every document follow its text without gap or overlap, none of several is too
\* light or too heavy, and none but the last ends with a heading.
UnitsSound ==
  document # NoDocument =>
    LET read == segmentReadingUnits(document) IN InOrder(document, read) /\ WellSized(read)

\* Friction is recorded once for each unit, in order, before the next unit is revealed, and
\* for all of them at EOF.
FrictionInOrder ==
  /\ friction = [i \in 1..(IF finished THEN units ELSE Higher(0, currentUnit - 1)) |-> i]
  /\ finished => currentUnit = units

\* A report is returned only for a document read to its end by a run that was not cancelled;
\* both files of it are there and no error, and cancelled runs are not prompted again.
ReportEarned ==
  [][/\ stage # "returned" /\ stage' = "returned" =>
          ~cancelled /\ finished /\ finalReview /\ files' = {"review", "metadata"}
     /\ cancelled /\ stage' \in Prompting => stage' = stage]_reviewVars
=============================================================================
