---- MODULE MCJsonLines ----
(* Every text of up to six characters: a letter, one of two bytes, a space
   and a newline, against a limit of two bytes. *)
EXTENDS JsonLines

TextChar == {"x", "ee", " ", "nl"}
TextWidth == [c \in TextChar |-> IF c = "ee" THEN 2 ELSE 1]
TextInput == BoundedSeq(TextChar, 6)
====
