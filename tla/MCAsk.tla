------------------------------- MODULE MCAsk -------------------------------
EXTENDS Ask

CONSTANT t1

LabelA == <<Word("a")>>

\* The same label may be given twice.
MCOptions == {<<LabelA, <<Word("b")>>>>, <<LabelA, LabelA>>}

\* A label that reads like the second of two equal ones.
MCCounted == {<<LabelA, LabelA, Append(LabelA, Number(2))>>}
=============================================================================
