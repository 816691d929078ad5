----------------------------- MODULE SlugPromise -----------------------------
(***************************************************************************)
(* What slugify promises, in one step: the words of the text, a word being *)
(* a longest run of letters and digits, in lower case and with one hyphen  *)
(* between one word and the next.  A text without a word has no slug.      *)
(***************************************************************************)
EXTENDS Naturals, Sequences, FiniteSets

CONSTANTS
    Letters,   \* the lower-case ASCII letters and the digits
    Hyphen,    \* "-"
    Lower,     \* Lower[c]: the ASCII character c in lower case
    Numbers,   \* decimal numbers, as sequences of digits
    Pending,   \* "not answered yet"
    Texts      \* what slugify may be called with first, in ASCII

VARIABLES
    text,    \* the text of the present call
    answer,  \* its result, <<>> for SlugError::Empty
    stored   \* the slug the post was saved with, Pending before

promiseVars == <<text, answer, stored>>

IsLetter(s, k) == Lower[s[k]] \in Letters

\* The places of s that leave a character: letters, and what follows a word
\* when another word comes.
Leaves(s, k) ==
    \/ IsLetter(s, k)
    \/ /\ k > 1 /\ IsLetter(s, k - 1)
       /\ \E j \in DOMAIN s : j > k /\ IsLetter(s, j)

Kept(s) == {k \in DOMAIN s : Leaves(s, k)}

Character(s, k) == IF IsLetter(s, k) THEN Lower[s[k]] ELSE Hyphen

\* The n-th character comes from the place with n - 1 such places before it.
Place(s, n) == CHOOSE k \in Kept(s) : Cardinality({j \in Kept(s) : j < k}) = n - 1

Words(s) == [n \in 1 .. Cardinality(Kept(s)) |-> Character(s, Place(s, n))]

PromiseInit == text \in Texts /\ answer = Pending /\ stored = Pending

Answer ==
    /\ answer = Pending /\ answer' = Words(text)
    /\ UNCHANGED <<text, stored>>

\* The slug, or one with a number behind it, becomes the post's; its edit
\* form calls slugify with it.
EditSaved ==
    /\ answer \notin {Pending, <<>>} /\ stored = Pending
    /\ stored' \in {answer} \cup {answer \o <<Hyphen>> \o d : d \in Numbers}
    /\ text' = stored'
    /\ answer' = Pending

\* What slugify answers, if it answers ...
PromiseSafety == PromiseInit /\ [][Answer \/ EditSaved]_promiseVars

\* ... and that it does.
PromiseSpec == PromiseSafety /\ WF_promiseVars(Answer)
=============================================================================
