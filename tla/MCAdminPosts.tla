---------------------------- MODULE MCAdminPosts ----------------------------
(***************************************************************************)
(* Small instances of AdminPosts for TLC.                                  *)
(***************************************************************************)
EXTENDS AdminPosts, TLC

CONSTANTS p1, p2, r1, r2, r3

MCTexts == {"", "Hello", "hello 2", "New", "Rust", "rust", "Web", "!!!", "body"}

MCSlugify ==
    [t \in MCTexts |->
        CASE t = "Hello" -> <<"hello">>
          [] t = "hello 2" -> <<"hello", 2>>
          [] t = "New" -> <<"new">>
          [] t \in {"Rust", "rust"} -> <<"rust">>
          [] t = "Web" -> <<"web">>
          [] t = "body" -> <<"body">>
          [] OTHER -> NoSlug]

FormOf(title, slug, csv, body, status) ==
    [title |-> title, slug |-> slug, tags |-> csv, body |-> body,
     status |-> status]

\* Saves whose slugs meet (hello, hello-2) and whose tags meet in both orders.
Hello == FormOf("Hello", "", <<"Rust", "Web">>, "body", "published")
HelloTwo == FormOf("hello 2", "", <<"Web", "", "rust">>, "body", "published")
Override == FormOf("New", "Hello", <<"rust", "Rust">>, "body", "draft")
Untagged == FormOf("New", "", <<>>, "body", "draft")

\* Saves that are answered 422.
NoTitle == FormOf("", "Hello", <<>>, "body", "draft")
NoSlugTitle == FormOf("!!!", "", <<>>, "body", "published")
BadTag == FormOf("New", "", <<"Rust", "!!!">>, "body", "published")

AllForms == {Hello, HelloTwo, Override, Untagged, NoTitle, NoSlugTitle, BadTag}
CrossedForms == {Hello, HelloTwo}
DateForms == {Override, Untagged, HelloTwo}

OneSeed == [p \in {p1} |-> Hello]
DraftSeed == [p \in {p1} |-> Override]
TwoSeeds == [p \in {p1, p2} |-> IF p = p1 THEN Hello ELSE HelloTwo]

AllOps == {"create", "update", "publish", "unpublish", "delete"}

Symmetry == Permutations({r1, r2, r3})
=============================================================================
