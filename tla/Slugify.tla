------------------------------- MODULE Slugify -------------------------------
(***************************************************************************)
(* slugify and validate_slug, character by character: the loop that copies *)
(* letters and digits and puts one hyphen where others were, the loop that *)
(* takes hyphens off the end, and the validation, which reports an error   *)
(* of its own that the loops are meant to leave impossible.                *)
(*                                                                         *)
(* A slug is computed twice in the life of a post: from its title, or from *)
(* what was typed for it, and again from the slug it was saved with when   *)
(* its edit form, which shows that slug, is saved.  If the two differed,   *)
(* every edit would move the post to another address.                      *)
(*                                                                         *)
(* A text is what deunicode made of it.  deunicode, a library, gives ASCII *)
(* and gives ASCII back as it is.                                          *)
(***************************************************************************)
EXTENDS Naturals, Sequences

CONSTANTS
    Letters,   \* the lower-case ASCII letters and the digits
    Hyphen,    \* "-"
    Ascii,     \* the ASCII characters
    Lower,     \* Lower[c]: c in lower case
    Numbers,   \* the numbers from 2 on, as sequences of digits
    Pending,   \* "no result", "nothing saved"
    Texts      \* what slugify may be called with first

ASSUME CharsAssumption ==
    /\ Letters \subseteq Ascii /\ Hyphen \in Ascii \ Letters
    /\ Lower \in [Ascii -> Ascii]
    /\ \A c \in Letters \cup {Hyphen} : Lower[c] = c
    /\ Numbers \subseteq Seq(Letters) \ {<<>>}
    /\ Texts \subseteq Seq(Ascii)
    /\ Pending \notin Seq(Ascii)

VARIABLES
    pc,               \* the loop that is running, or the result
    text,             \* ascii
    read,             \* how many of its characters were read
    slug,             \* slug
    last_was_hyphen,  \* last_was_hyphen
    stored            \* the slug the post was saved with

vars == <<pc, text, read, slug, last_was_hyphen, stored>>

Call(s) ==
    /\ pc' = "scan" /\ text' = s /\ read' = 0
    /\ slug' = <<>> /\ last_was_hyphen' = FALSE

Init ==
    /\ text \in Texts
    /\ pc = "scan" /\ read = 0 /\ slug = <<>> /\ last_was_hyphen = FALSE
    /\ stored = Pending

Ch == Lower[text[read + 1]]

\* Faulty variant: the character is copied as it was typed
PushAsTyped ==
    /\ Ch \in Letters
    /\ slug' = Append(slug, text[read + 1])
    /\ last_was_hyphen' = FALSE

Push ==
    /\ Ch \in Letters
    /\ slug' = Append(slug, Ch)
    /\ last_was_hyphen' = FALSE

\* Faulty variant: last_was_hyphen is not looked at
SeparateAgain ==
    /\ Ch \notin Letters /\ slug # <<>>
    /\ slug' = Append(slug, Hyphen)
    /\ last_was_hyphen' = TRUE

\* Faulty variant: a separator in front of the first word counts
SeparateAtStart ==
    /\ Ch \notin Letters /\ ~last_was_hyphen
    /\ slug' = Append(slug, Hyphen)
    /\ last_was_hyphen' = TRUE

Separate ==
    /\ Ch \notin Letters /\ ~last_was_hyphen /\ slug # <<>>
    /\ slug' = Append(slug, Hyphen)
    /\ last_was_hyphen' = TRUE

Skip ==
    /\ Ch \notin Letters /\ (last_was_hyphen \/ slug = <<>>)
    /\ UNCHANGED <<slug, last_was_hyphen>>

\* One turn of the for loop.
Scan ==
    /\ pc = "scan" /\ read < Len(text)
    /\ Push \/ Separate \/ Skip
    /\ read' = read + 1
    /\ UNCHANGED <<pc, text, stored>>

EndScan ==
    /\ pc = "scan" /\ read = Len(text)
    /\ pc' = "trim"
    /\ UNCHANGED <<text, read, slug, last_was_hyphen, stored>>

\* Faulty variant: a number at the end is taken off as well
EndsWithHyphenOrDigit ==
    /\ slug # <<>>
    /\ \/ slug[Len(slug)] = Hyphen
       \/ \E d \in Numbers : slug[Len(slug)] = d[Len(d)]

EndsWithHyphen == slug # <<>> /\ slug[Len(slug)] = Hyphen

\* One turn of the while loop.
Pop ==
    /\ pc = "trim" /\ EndsWithHyphen
    /\ slug' = SubSeq(slug, 1, Len(slug) - 1)
    /\ UNCHANGED <<pc, text, read, last_was_hyphen, stored>>

\* What validate_slug accepts, of a slug that is not empty.
WellFormed(s) ==
    /\ s[1] # Hyphen /\ s[Len(s)] # Hyphen
    /\ \A k \in DOMAIN s : s[k] \in Letters \cup {Hyphen}
    /\ \A k \in DOMAIN s : k > 1 => s[k] # Hyphen \/ s[k - 1] # Hyphen

\* validate_slug.
Validate ==
    /\ pc = "trim" /\ ~EndsWithHyphen
    /\ pc' = IF slug = <<>> THEN "empty"
             ELSE IF WellFormed(slug) THEN "ok" ELSE "invalid_format"
    /\ UNCHANGED <<text, read, slug, last_was_hyphen, stored>>

\* resolve saves the slug, or one with a number behind it that is free; the
\* edit form of the post is saved as it was shown.
EditSaved ==
    /\ pc = "ok" /\ stored = Pending
    /\ stored' \in {slug} \cup {slug \o <<Hyphen>> \o d : d \in Numbers}
    /\ Call(stored')

Step == Scan \/ EndScan \/ Pop \/ Validate

Next == Step \/ EditSaved

\* The loops run to their end.
Spec == Init /\ [][Next]_vars /\ WF_vars(Step)

----------------------------------------------------------------------------
(* Properties.                                                             *)

\* Types of the variables.
SlugTypeOK ==
    /\ pc \in {"scan", "trim", "ok", "empty", "invalid_format"}
    /\ text \in Seq(Ascii) /\ read \in 0 .. Len(text)
    /\ slug \in Seq(Letters \cup {Hyphen}) /\ Len(slug) <= read
    /\ last_was_hyphen \in BOOLEAN
    /\ stored \in Seq(Ascii) \cup {Pending}

\* slugify never reports SlugError::InvalidFormat: for every text its loops
\* establish what validate_slug demands, and so for a slug with a number.
NeverInvalidFormat == pc # "invalid_format"

\* The slug of a saved post is its own slug: saving its edit form keeps its
\* address, also when the address has a number behind it.
SavedSlugStays ==
    stored # Pending /\ pc \notin {"scan", "trim"} => pc = "ok" /\ slug = stored

\* slugify keeps its promise and comes to an end.
Promise ==
    INSTANCE SlugPromise WITH
        answer <- IF pc \in {"ok", "empty"} THEN slug ELSE Pending

ImplementsPromise == Promise!PromiseSpec
=============================================================================
