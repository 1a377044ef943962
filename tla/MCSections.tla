------------------------------ MODULE MCSections -------------------------------
(* Small instances of Sections for TLC.                                    *)
EXTENDS Sections, TLC

CONSTANTS a, b, Notes, NOTES, Tasks, Sub, Other, p

CallsTwo   == {a, b}
HeadingTexts == {Notes, NOTES, Tasks, Sub, Other}
AllTexts   == HeadingTexts \cup {p} \cup (CallsTwo \X (1..2))
Lower      == [t \in AllTexts |-> IF t = NOTES THEN Notes ELSE t]
NamesThree == {NOTES, Tasks, Sub}

(* Notes with two sub-headings to the end, one with a paragraph: a section *)
(* created behind them is within Notes.                                    *)
TheDoc == << [id |-> 1, level |-> 0, text |-> p],
             [id |-> 2, level |-> 2, text |-> Notes],
             [id |-> 3, level |-> 3, text |-> Sub],
             [id |-> 4, level |-> 0, text |-> p],
             [id |-> 5, level |-> 3, text |-> Other] >>

Sizes01 == {0, 1}
SymTwo  == Permutations(CallsTwo)

=============================================================================
