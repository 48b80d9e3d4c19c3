------------------------- MODULE MCConfluenceContent -------------------------
(***************************************************************************)
(* An instance of ConfluenceContent: groups and spaces of up to five       *)
(* entries at pages of two, and batches of up to three files of which two  *)
(* share a name.                                                           *)
(***************************************************************************)
EXTENDS ConfluenceContent

FourUsers == <<"u1", "u2", "u3", "u4">>
FourPages == <<"p1", "p2", "p3", "p4">>
Places == [p1 |-> 3, p2 |-> 1, p3 |-> 2, p4 |-> 5, p5 |-> 4]
Contents == [c \in {"c1", "c2"} |-> IF c = "c1" THEN "ENG" ELSE "OPS"]
FileNames == [f \in {"a/x", "b/x", "a/y"} |-> IF f = "a/y" THEN "y" ELSE "x"]
SomeBatches == {<<"a/x">>, <<"a/x", "a/y">>, <<"a/x", "a/y", "b/x">>}
SomeTexts == {t \in UNION {[1..n -> {"k", "l"}] : n \in 0..3} : TRUE}
=============================================================================
