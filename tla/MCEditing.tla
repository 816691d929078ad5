------------------------------ MODULE MCEditing -------------------------------
(***************************************************************************)
(* Small instances of Editing for TLC.                                     *)
(***************************************************************************)
EXTENDS Editing, TLC

CONSTANTS p1, p2, r1, r2, r3

MCTexts == {"", "Hello", "New", "hello", "hello-2", "hello-2-2", "new", "Rust", "rust", "Web", "body"}

MCSlugify ==
    [t \in MCTexts |->
        CASE t \in {"Hello", "hello"} -> <<"hello">>
          [] t = "hello-2" -> <<"hello", 2>>
          [] t = "hello-2-2" -> <<"hello", 2, 2>>
          [] t \in {"New", "new"} -> <<"new">>
          [] t \in {"Rust", "rust"} -> <<"rust">>
          [] t = "Web" -> <<"web">>
          [] t = "body" -> <<"body">>
          [] OTHER -> NoSlug]

MCSlugText ==
    [s \in Slugs |->
        CASE s = <<"hello">> -> "hello"
          [] s = <<"hello", 2>> -> "hello-2"
          [] s = <<"hello", 2, 2>> -> "hello-2-2"]

\* Capitals before small letters.
MCByName ==
    LET order == <<"", "Hello", "New", "Rust", "Web", "body", "hello", "hello-2",
                   "hello-2-2", "new", "rust">>
    IN [n \in MCTexts |-> CHOOSE i \in DOMAIN order : order[i] = n]

\* The forms that show a post, with one of its fields edited or none.
Shown == [title : {"New"}, slug : {"hello"}, tags : {<<"Rust", "Web">>, <<"Web", "rust">>},
          body : {"body"}, status : Statuses]
         \cup [title : {"New"}, slug : {"hello-2"}, tags : {<<"Web", "rust">>},
               body : {"body"}, status : Statuses]

\* Forms written on the empty page.
FormOf(title, slug, csv, status) ==
    [title |-> title, slug |-> slug, tags |-> csv, body |-> "body",
     status |-> status]

SameTitle == FormOf("New", "hello", <<"Web", "rust">>, "published")
Titleless == FormOf("", "hello", <<>>, "draft")

MCTyped == {SameTitle, Titleless}

\* An edit form whose title was emptied: it is rejected and corrected.
Emptied == FormOf("", "hello", <<"Rust", "Web">>, "published")

MCForms == Shown \cup MCTyped \cup {Emptied}

MCSeed == [p \in {p1} |-> FormOf("New", "hello", <<"Rust", "Web">>, "published")]

Symmetry == Permutations({r1, r2, r3})
=============================================================================
