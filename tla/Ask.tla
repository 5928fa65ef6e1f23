-------------------------------- MODULE Ask --------------------------------
(***************************************************************************)
(* The ask tool (extensions/ask.ts): the questions of one call, asked one  *)
(* after the other in a picker of Pi's own (tui) or in the standard        *)
(* dialogs of another frontend, with free-form answers, the way back to    *)
(* earlier questions, discussion forks and the abort of the call.          *)
(*                                                                         *)
(* A label is a sequence of words, numbers in parentheses among them, so   *)
(* that a numbered label and an option's own label can be the same text.   *)
(* Option lists have no descriptions.                                      *)
(***************************************************************************)
EXTENDS Integers, Sequences, FiniteSets

CONSTANTS
  Options,     \* the option lists of questions: sequences of labels
  Questions,   \* how many questions are asked
  Recommended, \* the index of the recommended option, from 1
  Texts,       \* what a human writes
  NoText,      \* an editor that was dismissed, an answer without text
  MaxVisible   \* rows of the picker

Labels == UNION {{options[i] : i \in DOMAIN options} : options \in Options}
Words == [text : STRING, number : Nat]
Word(text) == [text |-> text, number |-> 0]
Number(n) == [text |-> "", number |-> n]

ASSUME AskAssumption ==
  /\ {Questions, Recommended, MaxVisible} \subseteq Nat \ {0}
  /\ NoText \notin Texts
  /\ Options \subseteq Seq(Labels) \ {<<>>} /\ Labels \subseteq Seq(Words)

VARIABLES
  questions,  \* the parameters of the call
  tui,        \* the mode of the frontend
  index,      \* the question that is asked, from 1
  results,    \* the answers, also of questions the human went back from
  selected,   \* of the question: marked options,
  custom,     \*   free-form text,
  draft,      \*   and the text of a discussion that has not started
  dialog,     \* the dialog that is open
  row,        \* the row the picker's cursor is on, from 1
  aborted,
  given       \* history: what the human has picked or written, by question

local == <<selected, custom, draft>>
askVars == <<questions, tui, index, results, local, dialog, row, aborted, given>>

Indices == 1..Questions
Question == [options : Options, multi : BOOLEAN, allowOther : BOOLEAN]
Result == [selected : SUBSET Labels, custom : Texts \cup {NoText}]

Ended == {"answered", "cancelled"}
Dialogs == {"picker", "editPick", "edit", "other", "discuss", "forking"}

question == questions[index]
HasPrevious == index <= Len(results)

-----------------------------------------------------------------------------
(* What is offered *)

Choice(kind) == [kind |-> kind, label |-> <<>>, recommended |-> FALSE]

Option(i) == [kind |-> "option", label |-> question.options[i], recommended |-> i = Recommended]

If(condition, s) == IF condition THEN s ELSE <<>>

\* Wrong: a selection can be finished before anything is in it.
DoneAlways == question.multi

DoneOffered == question.multi /\ (selected # {} \/ custom # NoText)

PickerChoices ==
  If(HasPrevious, <<Choice("keep")>>)
  \o [i \in DOMAIN question.options |-> Option(i)]
  \o If(DoneOffered, <<Choice("done")>>)
  \o If(question.allowOther, <<Choice("other")>>)
  \o <<Choice("fork")>>
  \o If(index > 1, <<Choice("back")>>)

IsCurrent(label) ==
  ~question.multi /\ HasPrevious /\ results[index].custom = NoText /\ label \in results[index].selected

\* The row of a choice: an option shows its mark, and whether it is recommended or current.
Display(choice) ==
  IF choice.kind # "option" THEN <<Word(choice.kind)>>
  ELSE If(question.multi, <<Word(IF choice.label \in selected THEN "[x]" ELSE "[ ]")>>) \o choice.label
       \o If(choice.recommended, <<Word("(Recommended)")>>)
       \o If(IsCurrent(choice.label), <<Word("(Current)")>>)

EditEntry == Choice("edit")

\* The standard dialogs have no edit key: an entry before the fork option stands for it.
Entries ==
  LET fork == CHOOSE i \in DOMAIN PickerChoices : PickerChoices[i].kind = "fork"
  IN SubSeq(PickerChoices, 1, fork - 1) \o <<EditEntry>> \o SubSeq(PickerChoices, fork, Len(PickerChoices))

Editable == SelectSeq(PickerChoices, LAMBDA choice : choice.kind = "option")

uniqueLabels(rows) ==
  [i \in DOMAIN rows |->
    LET count == Cardinality({j \in 1..i : rows[j] = rows[i]})
    IN IF count = 1 THEN rows[i] ELSE Append(rows[i], Number(count))]

\* The entry a dialog's answer stands for when the human picks the i-th row.
selectLabeled(entries, i) ==
  LET labels == uniqueLabels([j \in DOMAIN entries |-> Display(entries[j])])
  IN entries[CHOOSE j \in DOMAIN labels : /\ labels[j] = labels[i]
                                          /\ \A k \in 1..(j - 1) : labels[k] # labels[i]]

-----------------------------------------------------------------------------
(* The picker's list *)

AtLeast0(n) == IF n > 0 THEN n ELSE 0
Lesser(m, n) == IF m < n THEN m ELSE n

\* Wrong: the last page is not kept full.
WindowUnbounded == AtLeast0(row - 1 - Lesser(Len(PickerChoices), MaxVisible) \div 2)

\* Rows before the first that is rendered; the cursor is kept in the middle.
Window ==
  LET visible == Lesser(Len(PickerChoices), MaxVisible)
  IN AtLeast0(Lesser(row - 1 - visible \div 2, Len(PickerChoices) - visible))

Rendered == (Window + 1)..Lesser(Window + MaxVisible, Len(PickerChoices))

Up ==
  /\ dialog = "picker" /\ tui
  /\ row' = IF row = 1 THEN Len(PickerChoices) ELSE row - 1
  /\ UNCHANGED <<questions, tui, index, results, local, dialog, aborted, given>>

Down ==
  /\ dialog = "picker" /\ tui
  /\ row' = IF row = Len(PickerChoices) THEN 1 ELSE row + 1
  /\ UNCHANGED <<questions, tui, index, results, local, dialog, aborted, given>>

-----------------------------------------------------------------------------
(* The questions *)

\* Wrong: a picker opens whether or not the call was aborted.
PickerRegardless == "picker"

\* Every turn of a question's loop starts here.
selectAskChoice == IF aborted THEN "cancelled" ELSE "picker"

\* A question is asked with what was answered to it before.
Asked(i, answers) ==
  /\ index' = i
  /\ selected' = IF questions[i].multi /\ i <= Len(answers) THEN answers[i].selected ELSE {}
  /\ custom' = IF questions[i].multi /\ i <= Len(answers) THEN answers[i].custom ELSE NoText
  /\ draft' = NoText
  /\ dialog' = selectAskChoice

\* The loop goes on: a new picker, with its cursor on the first row.
GoesOn == dialog' = selectAskChoice /\ row' = 1 /\ UNCHANGED <<index, results>>

defaultSelection ==
  {question.options[Lesser(Recommended, Len(question.options))]}

finalizedResult(result) ==
  IF result.selected # {} \/ result.custom # NoText THEN result
  ELSE [result EXCEPT !.selected = defaultSelection]

Answers(result) ==
  LET answers == IF HasPrevious THEN [results EXCEPT ![index] = finalizedResult(result)]
                 ELSE Append(results, finalizedResult(result)) IN
  /\ results' = answers
  /\ row' = 1
  /\ IF index < Questions THEN Asked(index + 1, answers)
     ELSE dialog' = "answered" /\ UNCHANGED <<index, local>>

\* Escape at a later question, or the entry for it.
GoesBack ==
  /\ Asked(index - 1, results)
  /\ row' = 1
  /\ UNCHANGED results

Cancels == dialog' = "cancelled" /\ UNCHANGED <<index, results, local, row>>

\* The cancel key, or the abort of the call that closes the dialog.
Dismissed == IF aborted \/ index = 1 THEN Cancels ELSE GoesBack

Noted(i, what) == given' = [given EXCEPT ![i] = @ \cup {what}]

\* What the human is shown is what counts as given.
Picked(choice) ==
  IF choice.kind = "option" THEN Noted(index, choice.label) ELSE UNCHANGED given

Keep(choice) == choice.kind = "keep" /\ Answers(results[index])

Toggle(choice) ==
  /\ choice.kind = "option" /\ question.multi
  /\ selected' = IF choice.label \in selected THEN selected \ {choice.label}
                 ELSE selected \cup {choice.label}
  /\ GoesOn
  /\ UNCHANGED <<custom, draft>>

Choose(choice) ==
  choice.kind = "option" /\ ~question.multi /\ Answers([selected |-> {choice.label}, custom |-> NoText])

Finish(choice) == choice.kind = "done" /\ Answers([selected |-> selected, custom |-> custom])

Opens(choice) ==
  /\ choice.kind \in {"other", "fork", "edit"}
  /\ dialog' = CASE choice.kind = "other" -> "other" [] choice.kind = "fork" -> "discuss" [] OTHER -> "editPick"
  /\ UNCHANGED <<index, results, local, row>>

Back(choice) == choice.kind = "back" /\ GoesBack

Chosen(choice) ==
  Keep(choice) \/ Toggle(choice) \/ Choose(choice) \/ Finish(choice) \/ Opens(choice) \/ Back(choice)

\* Enter in the picker.
Confirm ==
  /\ dialog = "picker" /\ tui
  /\ Chosen(PickerChoices[row]) /\ Picked(PickerChoices[row])
  /\ UNCHANGED <<questions, tui, aborted>>

\* The answer of a standard dialog.
Select ==
  /\ dialog = "picker" /\ ~tui
  /\ \E i \in DOMAIN Entries : Chosen(selectLabeled(Entries, i)) /\ Picked(Entries[i])
  /\ UNCHANGED <<questions, tui, aborted>>

\* The edit key, on an option or on the free-form entry.
EditKey ==
  /\ dialog = "picker" /\ tui /\ PickerChoices[row].kind \in {"option", "other"}
  /\ dialog' = "edit"
  /\ UNCHANGED <<questions, tui, index, results, local, row, aborted, given>>

\* The dialog that picks the option to edit; dismissed, the first one opens again.
SelectEdit ==
  /\ dialog = "editPick"
  /\ \/ \E i \in DOMAIN Editable : row' = i /\ dialog' = "edit"
     \/ dialog' = selectAskChoice /\ UNCHANGED row
  /\ UNCHANGED <<questions, tui, index, results, local, aborted, given>>

Escape ==
  /\ dialog = "picker"
  /\ Dismissed
  /\ UNCHANGED <<questions, tui, aborted, given>>

\* Of a selection, the option that was edited is replaced by what is written.
Remaining ==
  IF ~question.multi THEN {}
  ELSE IF dialog # "edit" THEN selected
  ELSE LET edited == IF tui THEN PickerChoices[row] ELSE selectLabeled(Editable, row)
       IN selected \ {edited.label}

\* The editor of an answer closes, with a text or dismissed.
EditorCloses(text) ==
  /\ dialog \in {"edit", "other"}
  /\ IF text = NoText
     THEN GoesOn /\ UNCHANGED <<local, given>>
     ELSE Answers([selected |-> Remaining, custom |-> text]) /\ Noted(index, text)
  /\ UNCHANGED <<questions, tui, aborted>>

\* The editor of a discussion: dismissed, it keeps the draft it had; blank, it launches nothing.
DiscussionCloses(text) ==
  /\ dialog = "discuss"
  /\ draft' = IF text = NoText THEN draft ELSE text
  /\ \/ dialog' = "forking" /\ text # NoText /\ UNCHANGED <<index, results, row>>
     \/ GoesOn
  /\ UNCHANGED <<questions, tui, selected, custom, aborted, given>>

\* forkHere starts the fork or fails; a call that was aborted starts none.
ForkEnds(started) ==
  /\ dialog = "forking" /\ started => ~aborted
  /\ draft' = IF started THEN NoText ELSE draft
  /\ GoesOn
  /\ UNCHANGED <<questions, tui, selected, custom, aborted, given>>

\* The abort closes the pickers; an editor stays until the human closes it.
Aborts ==
  /\ ~aborted /\ dialog \notin Ended
  /\ aborted' = TRUE
  /\ dialog' = IF dialog \in {"picker", "editPick"} THEN "cancelled" ELSE dialog
  /\ UNCHANGED <<questions, tui, index, results, local, row, given>>

-----------------------------------------------------------------------------
AskInit ==
  /\ questions \in [Indices -> Question]
  /\ tui \in BOOLEAN
  /\ index = 1
  /\ results = <<>>
  /\ selected = {} /\ custom = NoText /\ draft = NoText
  /\ dialog = "picker" /\ row = 1
  /\ aborted = FALSE
  /\ given = [i \in Indices |-> {}]

AskNext ==
  \/ Up \/ Down \/ Confirm \/ Select \/ EditKey \/ SelectEdit \/ Escape \/ Aborts
  \/ \E text \in Texts \cup {NoText} : EditorCloses(text) \/ DiscussionCloses(text)
  \/ \E started \in BOOLEAN : ForkEnds(started)

AskSpec == AskInit /\ [][AskNext]_askVars

-----------------------------------------------------------------------------
(* Properties *)

\* Every variable keeps its type.
AskTypeOK ==
  /\ questions \in [Indices -> Question] /\ tui \in BOOLEAN
  /\ index \in Indices
  /\ Len(results) <= Questions /\ \A i \in DOMAIN results : results[i] \in Result
  /\ selected \subseteq Labels /\ {custom, draft} \subseteq Texts \cup {NoText}
  /\ dialog \in Dialogs \cup Ended
  /\ dialog = "picker" => row \in DOMAIN PickerChoices
  /\ aborted \in BOOLEAN
  /\ given \in [Indices -> SUBSET (Labels \cup Texts)]

\* No answer is invented: whatever the way back and forth, the answer to a question consists
\* of options the human picked for it and of text written for it, and is never the default.
AnswersGiven ==
  \A i \in DOMAIN results :
    /\ results[i].selected \cup ({results[i].custom} \ {NoText}) \subseteq given[i]
    /\ results[i] # [selected |-> {}, custom |-> NoText]

\* An aborted call asks nothing more: an editor may still be open, but no picker follows.
AbortedAsksNothing == aborted => dialog \notin {"picker", "editPick"}

\* The cursor's row is among those rendered, and no row is left empty while there are more.
CursorRendered ==
  dialog = "picker" => row \in Rendered /\ Cardinality(Rendered) = Lesser(MaxVisible, Len(PickerChoices))
=============================================================================
