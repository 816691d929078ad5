------------------------------ MODULE MCSlugify -------------------------------
(***************************************************************************)
(* Small instances of Slugify for TLC: every text of up to four            *)
(* characters, some of which deunicode makes several of.                   *)
(***************************************************************************)
EXTENDS Slugify

MCLetters == {"a", "2"}
MCAscii == {"a", "A", "2", "-", " ", "["}
MCLower == [c \in MCAscii |-> IF c = "A" THEN "a" ELSE c]
MCNumbers == {<<"2">>, <<"2", "2">>}

\* What deunicode makes of a character: itself, two letters, what stands for
\* an unknown character, nothing.
Pieces == {<<c>> : c \in MCAscii} \cup {<<"A", "a">>, <<"[", "a", "[">>, <<>>}

MCTexts == {p \o q \o r \o s : p, q, r, s \in Pieces}
=============================================================================
