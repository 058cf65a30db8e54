---------------------------- MODULE MCPrintQueue ----------------------------
(***************************************************************************)
(* PrintQueue with one or two orders of one or two documents.              *)
(***************************************************************************)
EXTENDS PrintQueue, TLC

CONSTANTS o1, o2, d1, d2, d3

\* One order of one document, or of two; an order of two beside an order of one; and one
\* file ordered twice.
OneInOne == o1 :> <<d1>>
BothInOne == o1 :> <<d1, d2>>
ThreeInOne == o1 :> <<d1, d2, d3>>
SameFile == o1 :> <<d1>> @@ o2 :> <<d1>>

\* A device that never says what it used, or says twice the sheet that was predicted.
Silent == {Unsaid}
SilentOrDouble == {Unsaid, 2}
=============================================================================
