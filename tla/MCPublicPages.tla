---------------------------- MODULE MCPublicPages -----------------------------
(***************************************************************************)
(* Small instances of PublicPages for TLC.                                 *)
(***************************************************************************)
EXTENDS PublicPages, TLC

CONSTANTS p1, p2, p3, p4, r1

MCTexts == {"", "A", "B", "C", "D", "E", "Rust", "Web", "body"}

MCSlugify ==
    [t \in MCTexts |->
        CASE t = "A" -> <<"a">> [] t = "B" -> <<"b">>
          [] t = "C" -> <<"c">> [] t = "D" -> <<"d">>
          [] t = "E" -> <<"e">>
          [] t = "Rust" -> <<"rust">> [] t = "Web" -> <<"web">>
          [] t = "body" -> <<"body">>
          [] OTHER -> NoSlug]

FormOf(title, csv, status) ==
    [title |-> title, slug |-> "", tags |-> csv, body |-> "body",
     status |-> status]

\* Four posts whose tags overlap, a new one, and a draft of one with other
\* tags.
A == FormOf("A", <<"Rust", "Web">>, "published")
B == FormOf("B", <<"Rust">>, "published")
C == FormOf("C", <<>>, "published")
D == FormOf("D", <<"Web">>, "published")
E == FormOf("E", <<>>, "published")
BDraft == FormOf("B", <<"Web">>, "draft")
MCForms == {A, B, C, D, E, BDraft}
MCSeed == p1 :> A @@ p2 :> B @@ p3 :> C @@ p4 :> D

\* Of the five-bit integers: no page, the pages that are there, the first
\* whose offset is negative, one whose offset is 0 again, the last.
MCTypedPages == {0, 2, 5, 9, 15}

MCBorn == [p \in PostIds |->
             CASE p = p1 -> 1 [] p = p2 -> 2 [] p = p3 -> 3
               [] p = p4 -> 4 [] OTHER -> 5]
=============================================================================
