---------------------------- MODULE Slugify_proofs ----------------------------
(***************************************************************************)
(* For texts of any length over any characters: slugify never fails its    *)
(* own validation, and a slug, with or without a number behind it, is its  *)
(* own slug.  And the slug is the words of the text: the loops keep the    *)
(* promise of SlugPromise, step by step.                                   *)
(*                                                                         *)
(* Tidy is the invariant of the loops: what has been copied is well formed *)
(* but for a hyphen at its end, which last_was_hyphen tells of.  Copying   *)
(* says what the loops do with a slug that was saved: they copy it as it   *)
(* is, because a hyphen in it always comes after a letter.  Spelling says  *)
(* which characters of the text the copy consists of, and in which order.  *)
(***************************************************************************)
EXTENDS Slugify, SequenceTheorems, FiniteSetTheorems, TLAPS

\* No hyphen first and no two in a row.
Tidy(s) ==
    /\ s \in Seq(Letters \cup {Hyphen})
    /\ s # <<>> => s[1] # Hyphen
    /\ \A k \in DOMAIN s : k > 1 => s[k] # Hyphen \/ s[k - 1] # Hyphen

\* A slug that validate_slug accepts.
Good(s) == Tidy(s) /\ s # <<>> /\ s[Len(s)] # Hyphen

HyphenKnown == pc = "scan" => (last_was_hyphen <=> EndsWithHyphen)

StoredGood == stored # Pending => Good(stored) /\ text = stored

Copying ==
    stored # Pending =>
        /\ pc # "empty"
        /\ Len(slug) = read
        /\ \A k \in 1 .. read : slug[k] = stored[k]
        /\ pc # "scan" => read = Len(text)

Results ==
    /\ pc = "ok" => Good(slug)
    /\ pc # "invalid_format"

IInv ==
    /\ SlugTypeOK /\ Tidy(slug)
    /\ HyphenKnown /\ StoredGood /\ Copying /\ Results

----------------------------------------------------------------------------
(* Sequences.                                                              *)

LEMMA GoodIsWellFormed ==
    ASSUME NEW s, Good(s)
    PROVE  WellFormed(s)
BY DEF Good, Tidy, WellFormed

\* One more letter, or a hyphen after a letter, keeps a slug tidy.
LEMMA TidyAppend ==
    ASSUME NEW s, Tidy(s), NEW c \in Letters \cup {Hyphen},
           c = Hyphen => s # <<>> /\ s[Len(s)] # Hyphen
    PROVE  /\ Tidy(Append(s, c))
           /\ Append(s, c) # <<>>
           /\ Len(Append(s, c)) = Len(s) + 1
           /\ Append(s, c)[Len(s) + 1] = c
           /\ \A k \in 1 .. Len(s) : Append(s, c)[k] = s[k]
<1> DEFINE t == Append(s, c)  n == Len(s)
<1>1. s \in Seq(Letters \cup {Hyphen}) /\ n \in Nat
  BY DEF Tidy
<1>2. /\ t \in Seq(Letters \cup {Hyphen}) /\ Len(t) = n + 1 /\ t # <<>>
      /\ t[n + 1] = c /\ \A k \in 1 .. n : t[k] = s[k]
  BY <1>1
<1>3. DOMAIN t = 1 .. n + 1 /\ DOMAIN s = 1 .. n
  BY <1>1, <1>2
<1>4. t[1] # Hyphen
  <2>1. CASE n = 0
    <3>1. s = <<>>
      BY <2>1, <1>1
    <3> QED
      BY <2>1, <3>1, <1>2
  <2>2. CASE n > 0
    BY <2>2, <1>1, <1>2 DEF Tidy
  <2> QED
    BY <2>1, <2>2, <1>1
<1>5. \A k \in DOMAIN t : k > 1 => t[k] # Hyphen \/ t[k - 1] # Hyphen
  <2> SUFFICES ASSUME NEW k \in 1 .. n + 1, k > 1
               PROVE  t[k] # Hyphen \/ t[k - 1] # Hyphen
    BY <1>3
  <2>1. CASE k = n + 1
    <3>1. t[k] = c /\ k - 1 = n /\ n \in 1 .. n
      BY <2>1, <1>1, <1>2
    <3>2. t[k - 1] = s[n]
      BY <3>1, <1>2
    <3> QED
      BY <3>1, <3>2
  <2>2. CASE k # n + 1
    <3>1. k \in 1 .. n /\ k - 1 \in 1 .. n
      BY <2>2, <1>1
    <3>2. t[k] = s[k] /\ t[k - 1] = s[k - 1]
      BY <3>1, <1>2
    <3> QED
      BY <3>1, <3>2, <1>3 DEF Tidy
  <2> QED
    BY <2>1, <2>2
<1> QED
  BY <1>2, <1>4, <1>5 DEF Tidy

LEMMA TidyPop ==
    ASSUME NEW s, Tidy(s), s # <<>>
    PROVE  LET t == SubSeq(s, 1, Len(s) - 1) IN
           Tidy(t) /\ Len(t) = Len(s) - 1
<1> DEFINE n == Len(s)  t == SubSeq(s, 1, n - 1)
<1>1. s \in Seq(Letters \cup {Hyphen}) /\ n \in Nat /\ n > 0
  BY DEF Tidy
<1>2. /\ t \in Seq(Letters \cup {Hyphen}) /\ Len(t) = n - 1
      /\ \A k \in 1 .. n - 1 : t[k] = s[k]
  <2>1. 1 \in Int /\ n - 1 \in Int
    BY <1>1
  <2>2. \A k \in 1 .. n - 1 : s[k] \in Letters \cup {Hyphen}
    BY <1>1
  <2>3. /\ t \in Seq(Letters \cup {Hyphen})
        /\ Len(t) = IF 1 <= n - 1 THEN (n - 1) - 1 + 1 ELSE 0
        /\ \A k \in 1 .. (n - 1) - 1 + 1 : t[k] = s[1 + k - 1]
    BY <2>1, <2>2, SubSeqProperties
  <2> HIDE DEF t, n
  <2>4. Len(t) = n - 1
    BY <2>3, <1>1
  <2>5. ASSUME NEW k \in 1 .. n - 1
        PROVE  t[k] = s[k]
    <3>1. k \in 1 .. (n - 1) - 1 + 1 /\ 1 + k - 1 = k
      BY <1>1
    <3>2. t[k] = s[1 + k - 1]
      BY <3>1, <2>3
    <3> QED
      BY <3>1, <3>2
  <2> QED
    BY <2>3, <2>4, <2>5
<1>3. DOMAIN t = 1 .. n - 1 /\ DOMAIN s = 1 .. n
  BY <1>1, <1>2
<1>4. t # <<>> => t[1] # Hyphen
  <2> SUFFICES ASSUME t # <<>> PROVE t[1] # Hyphen
    OBVIOUS
  <2>1. 1 \in 1 .. n - 1
    BY <1>1, <1>2
  <2> QED
    BY <2>1, <1>2 DEF Tidy
<1>5. \A k \in DOMAIN t : k > 1 => t[k] # Hyphen \/ t[k - 1] # Hyphen
  <2> SUFFICES ASSUME NEW k \in 1 .. n - 1, k > 1
               PROVE  t[k] # Hyphen \/ t[k - 1] # Hyphen
    BY <1>3
  <2>1. k - 1 \in 1 .. n - 1 /\ k \in 1 .. n
    BY <1>1
  <2> QED
    BY <2>1, <1>2, <1>3 DEF Tidy
<1> QED
  BY <1>2, <1>4, <1>5 DEF Tidy

\* A number behind a slug: resolve's candidates are slugs.
LEMMA GoodNumber ==
    ASSUME NEW s, Good(s), NEW d \in Numbers
    PROVE  Good(s \o <<Hyphen>> \o d)
<1> DEFINE t == s \o <<Hyphen>> \o d  n == Len(s)  m == Len(d)
<1>1. s \in Seq(Letters \cup {Hyphen}) /\ n \in Nat /\ n > 0
  BY DEF Good, Tidy
<1>2. d \in Seq(Letters) /\ m \in Nat /\ m > 0
  BY CharsAssumption
<1>3. d \in Seq(Letters \cup {Hyphen})
  BY <1>2
<1>4. /\ t \in Seq(Letters \cup {Hyphen}) /\ Len(t) = n + 1 + m
      /\ \A k \in 1 .. n : t[k] = s[k]
      /\ t[n + 1] = Hyphen
      /\ \A k \in 1 .. m : t[n + 1 + k] = d[k]
  BY <1>1, <1>3
<1>5. DOMAIN t = 1 .. n + 1 + m /\ DOMAIN s = 1 .. n
  BY <1>1, <1>2, <1>4
<1>6. \A k \in 1 .. m : t[n + 1 + k] # Hyphen
  BY <1>2, <1>4, CharsAssumption
<1>7. t[n] # Hyphen /\ t[1] # Hyphen
  BY <1>1, <1>4 DEF Good, Tidy
<1>8. \A k \in DOMAIN t : k > 1 => t[k] # Hyphen \/ t[k - 1] # Hyphen
  <2> SUFFICES ASSUME NEW k \in 1 .. n + 1 + m, k > 1
               PROVE  t[k] # Hyphen \/ t[k - 1] # Hyphen
    BY <1>5
  <2> HIDE DEF t, n, m
  <2>1. CASE k <= n
    <3>1. k \in 1 .. n /\ k - 1 \in 1 .. n
      BY <2>1, <1>1
    <3>2. t[k] = s[k] /\ t[k - 1] = s[k - 1]
      BY <3>1, <1>4
    <3> QED
      BY <3>1, <3>2, <1>5 DEF Good, Tidy
  <2>2. CASE k = n + 1
    <3>1. k - 1 = n
      BY <2>2, <1>1
    <3> QED
      BY <3>1, <1>7
  <2>3. CASE k > n + 1
    <3>1. PICK i \in 1 .. m : k = n + 1 + i
      <4>1. k - n - 1 \in 1 .. m /\ k = n + 1 + (k - n - 1)
        BY <2>3, <1>1, <1>2
      <4> QED
        BY <4>1
    <3> QED
      BY <3>1, <1>6
  <2> QED
    BY <2>1, <2>2, <2>3, <1>1
<1>9. t # <<>> /\ t[Len(t)] # Hyphen
  <2>1. m \in 1 .. m /\ Len(t) = n + 1 + m
    BY <1>2, <1>4
  <2>2. t[n + 1 + m] # Hyphen
    BY <2>1, <1>6
  <2>3. t # <<>>
    BY <1>1, <1>2, <1>4
  <2> QED
    BY <2>1, <2>2, <2>3
<1> QED
  BY <1>4, <1>7, <1>8, <1>9 DEF Good, Tidy

----------------------------------------------------------------------------
(* The steps.                                                              *)

LEMMA InitInv == Init => IInv
<1> SUFFICES ASSUME Init PROVE IInv
  OBVIOUS
<1>1. text \in Seq(Ascii) /\ Len(text) \in Nat
  BY CharsAssumption DEF Init
<1>2. Tidy(<<>>) /\ <<>> \in Seq(Letters \cup {Hyphen}) /\ Len(<<>>) = 0
  BY DEF Tidy
<1>3. SlugTypeOK
  <2>1. read \in 0 .. Len(text)
    BY <1>1 DEF Init
  <2>2. slug \in Seq(Letters \cup {Hyphen}) /\ Len(slug) <= read
    BY <1>2 DEF Init
  <2> QED
    BY <1>1, <2>1, <2>2 DEF Init, SlugTypeOK
<1> QED
  BY <1>2, <1>3
     DEF Init, IInv, HyphenKnown, EndsWithHyphen, StoredGood, Copying, Results

\* The character the loop reads, of a text that is a saved slug.
LEMMA ReadStored ==
    ASSUME IInv, pc = "scan", read < Len(text), stored # Pending
    PROVE  /\ Ch = stored[read + 1]
           /\ Ch \in Letters \cup {Hyphen}
           /\ Ch = Hyphen => slug # <<>> /\ slug[Len(slug)] # Hyphen
<1>1. /\ stored \in Seq(Letters \cup {Hyphen}) /\ text = stored
      /\ stored[1] # Hyphen
      /\ \A k \in DOMAIN stored : k > 1 => stored[k] # Hyphen \/ stored[k - 1] # Hyphen
  BY DEF IInv, StoredGood, Good, Tidy
<1>2. read \in Nat /\ read + 1 \in 1 .. Len(stored) /\ DOMAIN stored = 1 .. Len(stored)
  BY <1>1 DEF IInv, SlugTypeOK
<1>3. Ch = stored[read + 1] /\ Ch \in Letters \cup {Hyphen}
  BY <1>1, <1>2, CharsAssumption DEF Ch
<1>4. /\ Len(slug) = read /\ \A k \in 1 .. read : slug[k] = stored[k]
      /\ slug \in Seq(Letters \cup {Hyphen})
  BY DEF IInv, Copying, SlugTypeOK
<1>5. ASSUME Ch = Hyphen
      PROVE  slug # <<>> /\ slug[Len(slug)] # Hyphen
  <2>1. read # 0
    <3> SUFFICES ASSUME read = 0 PROVE FALSE
      OBVIOUS
    <3>1. read + 1 = 1
      OBVIOUS
    <3>2. stored[1] = Hyphen
      BY <3>1, <1>3, <1>5
    <3> QED
      BY <3>2, <1>1
  <2>2. read \in 1 .. read /\ read + 1 > 1 /\ (read + 1) - 1 = read
    BY <2>1, <1>2
  <2>3. stored[read] # Hyphen
    BY <2>2, <1>1, <1>2, <1>3, <1>5
  <2>4. slug[read] = stored[read]
    BY <2>2, <1>4
  <2> QED
    BY <2>1, <2>3, <2>4, <1>4
<1> QED
  BY <1>3, <1>5

LEMMA ScanInv ==
    ASSUME IInv, Scan
    PROVE  IInv'
<1>1. /\ pc = "scan" /\ read < Len(text) /\ read' = read + 1
      /\ UNCHANGED <<pc, text, stored>>
  BY DEF Scan
<1>2. /\ text \in Seq(Ascii) /\ read \in Nat /\ Len(text) \in Nat
      /\ slug \in Seq(Letters \cup {Hyphen}) /\ Len(slug) \in Nat
      /\ Len(slug) <= read /\ Tidy(slug)
  BY DEF IInv, SlugTypeOK
<1>3. read' \in 0 .. Len(text)
  BY <1>1, <1>2
<1>4. last_was_hyphen <=> EndsWithHyphen
  BY <1>1 DEF IInv, HyphenKnown
<1>5. StoredGood' /\ Results'
  BY <1>1 DEF IInv, StoredGood, Results
<1>6. ASSUME NEW c \in Letters \cup {Hyphen}, slug' = Append(slug, c),
             c = Hyphen => slug # <<>> /\ slug[Len(slug)] # Hyphen,
             last_was_hyphen' = (c = Hyphen),
             stored # Pending => c = stored[read + 1]
      PROVE  IInv'
  <2>1. /\ Tidy(slug') /\ slug' # <<>> /\ Len(slug') = Len(slug) + 1
        /\ slug'[Len(slug) + 1] = c
        /\ \A k \in 1 .. Len(slug) : slug'[k] = slug[k]
    BY <1>2, <1>6, TidyAppend
  <2>2. slug' \in Seq(Letters \cup {Hyphen})
    BY <2>1 DEF Tidy
  <2>3. Len(slug') <= read'
    BY <2>1, <1>1, <1>2
  <2>4. SlugTypeOK'
    BY <1>1, <1>3, <1>6, <2>2, <2>3 DEF IInv, SlugTypeOK
  <2>5. HyphenKnown'
    BY <2>1, <1>6 DEF HyphenKnown, EndsWithHyphen
  <2>6. Copying'
    <3> SUFFICES ASSUME stored # Pending
                 PROVE  Len(slug') = read' /\ \A k \in 1 .. read' : slug'[k] = stored[k]
      BY <1>1 DEF Copying
    <3>1. Len(slug) = read /\ \A k \in 1 .. read : slug[k] = stored[k]
      BY DEF IInv, Copying
    <3>2. slug'[read + 1] = stored[read + 1]
      BY <3>1, <2>1, <1>6
    <3>3. \A k \in 1 .. read : slug'[k] = stored[k]
      BY <3>1, <2>1
    <3> QED
      BY <3>1, <3>2, <3>3, <2>1, <1>1, <1>2
  <2> QED
    BY <2>1, <2>4, <2>5, <2>6, <1>5 DEF IInv
<1>7. CASE Push
  <2>1. Ch \in Letters /\ slug' = Append(slug, Ch) /\ last_was_hyphen' = FALSE
    BY <1>7 DEF Push
  <2>2. stored # Pending => Ch = stored[read + 1]
    BY <1>1, ReadStored
  <2> QED
    BY <2>1, <2>2, <1>6, CharsAssumption
<1>8. CASE Separate
  <2>1. /\ Ch \notin Letters /\ ~last_was_hyphen /\ slug # <<>>
        /\ slug' = Append(slug, Hyphen) /\ last_was_hyphen' = TRUE
    BY <1>8 DEF Separate
  <2>2. slug[Len(slug)] # Hyphen
    BY <2>1, <1>4 DEF EndsWithHyphen
  <2>3. stored # Pending => Hyphen = stored[read + 1]
    BY <1>1, <2>1, ReadStored
  <2> QED
    BY <2>1, <2>2, <2>3, <1>6
<1>9. CASE Skip
  <2>1. /\ Ch \notin Letters /\ (last_was_hyphen \/ slug = <<>>)
        /\ UNCHANGED <<slug, last_was_hyphen>>
    BY <1>9 DEF Skip
  <2>2. stored = Pending
    BY <2>1, <1>1, <1>4, ReadStored DEF EndsWithHyphen
  <2>3. SlugTypeOK'
    BY <2>1, <1>1, <1>2, <1>3 DEF IInv, SlugTypeOK
  <2>4. HyphenKnown'
    BY <2>1, <1>1 DEF IInv, HyphenKnown, EndsWithHyphen
  <2>5. Copying'
    BY <2>2, <1>1 DEF Copying
  <2> QED
    BY <2>1, <2>3, <2>4, <2>5, <1>2, <1>5 DEF IInv
<1> QED
  BY <1>7, <1>8, <1>9 DEF Scan

LEMMA EndScanInv ==
    ASSUME IInv, EndScan
    PROVE  IInv'
BY DEF EndScan, IInv, SlugTypeOK, HyphenKnown, StoredGood, Copying, Results,
       Good, Tidy

LEMMA PopInv ==
    ASSUME IInv, Pop
    PROVE  IInv'
<1>1. /\ pc = "trim" /\ slug # <<>> /\ slug[Len(slug)] = Hyphen
      /\ slug' = SubSeq(slug, 1, Len(slug) - 1)
      /\ UNCHANGED <<pc, text, read, last_was_hyphen, stored>>
  BY DEF Pop, EndsWithHyphen
<1>2. Tidy(slug') /\ Len(slug') = Len(slug) - 1
  BY <1>1, TidyPop DEF IInv
<1>3. Len(slug) \in Nat /\ Len(slug) <= read /\ read \in Nat
  BY DEF IInv, SlugTypeOK
<1>4. Len(slug') <= read
  BY <1>2, <1>3
<1>5. SlugTypeOK'
  BY <1>1, <1>2, <1>4 DEF IInv, SlugTypeOK, Tidy
<1>6. stored = Pending
  <2> SUFFICES ASSUME stored # Pending PROVE FALSE
    OBVIOUS
  <2>1. /\ Len(slug) = read /\ read = Len(stored)
        /\ \A k \in 1 .. read : slug[k] = stored[k]
    BY <1>1 DEF IInv, Copying, StoredGood
  <2>2. /\ slug \in Seq(Letters \cup {Hyphen})
        /\ stored[Len(stored)] # Hyphen
    BY DEF IInv, StoredGood, Good, Tidy
  <2>3. read \in 1 .. read
    BY <2>1, <2>2, <1>1, <1>3
  <2> QED
    BY <2>1, <2>2, <2>3, <1>1
<1> QED
  BY <1>1, <1>2, <1>5, <1>6
     DEF IInv, HyphenKnown, StoredGood, Copying, Results

LEMMA ValidateInv ==
    ASSUME IInv, Validate
    PROVE  IInv'
<1>1. /\ pc = "trim" /\ ~EndsWithHyphen
      /\ pc' = IF slug = <<>> THEN "empty"
               ELSE IF WellFormed(slug) THEN "ok" ELSE "invalid_format"
      /\ UNCHANGED <<text, read, slug, last_was_hyphen, stored>>
  BY DEF Validate
<1>2. slug # <<>> => Good(slug)
  BY <1>1 DEF IInv, Good, EndsWithHyphen
<1>3. pc' = IF slug = <<>> THEN "empty" ELSE "ok"
  BY <1>1, <1>2, GoodIsWellFormed
<1>4. stored # Pending => slug # <<>>
  <2> SUFFICES ASSUME stored # Pending, slug = <<>> PROVE FALSE
    OBVIOUS
  <2>1. Len(slug) = read /\ read = Len(stored)
    BY <1>1 DEF IInv, Copying, StoredGood
  <2>2. stored \in Seq(Letters \cup {Hyphen}) /\ stored # <<>>
    BY DEF IInv, StoredGood, Good, Tidy
  <2> QED
    BY <2>1, <2>2
<1>5. SlugTypeOK'
  BY <1>1, <1>3 DEF IInv, SlugTypeOK
<1>6. HyphenKnown' /\ StoredGood' /\ Results'
  BY <1>1, <1>2, <1>3 DEF IInv, HyphenKnown, StoredGood, Results
<1>7. Copying'
  BY <1>1, <1>3, <1>4 DEF IInv, Copying
<1> QED
  BY <1>1, <1>5, <1>6, <1>7 DEF IInv

LEMMA EditSavedInv ==
    ASSUME IInv, EditSaved
    PROVE  IInv'
<1>1. /\ pc = "ok" /\ stored = Pending
      /\ pc' = "scan" /\ text' = stored' /\ read' = 0
      /\ slug' = <<>> /\ last_was_hyphen' = FALSE
  BY DEF EditSaved, Call
<1>2. Good(slug)
  BY <1>1 DEF IInv, Results
<1>3. Good(stored')
  BY <1>2, GoodNumber DEF EditSaved
<1>4. stored' \in Seq(Letters \cup {Hyphen})
  BY <1>3 DEF Good, Tidy
<1>5. stored' \in Seq(Ascii) /\ Len(stored') \in Nat
  BY <1>4, CharsAssumption
<1>6. Tidy(<<>>) /\ <<>> \in Seq(Letters \cup {Hyphen}) /\ Len(<<>>) = 0
  BY DEF Tidy
<1>7. SlugTypeOK'
  <2>1. read' \in 0 .. Len(text')
    BY <1>1, <1>5
  <2>2. slug' \in Seq(Letters \cup {Hyphen}) /\ Len(slug') <= read'
    BY <1>1, <1>6
  <2> QED
    BY <1>1, <1>5, <2>1, <2>2 DEF SlugTypeOK
<1> QED
  BY <1>1, <1>3, <1>6, <1>7
     DEF IInv, HyphenKnown, EndsWithHyphen, StoredGood, Copying, Results

LEMMA NextInv == IInv /\ [Next]_vars => IInv'
<1> SUFFICES ASSUME IInv, [Next]_vars PROVE IInv'
  OBVIOUS
<1>1. CASE UNCHANGED vars
  BY <1>1 DEF vars, IInv, SlugTypeOK, HyphenKnown, EndsWithHyphen, StoredGood,
              Copying, Results
<1>2. CASE Next
  BY <1>2, ScanInv, EndScanInv, PopInv, ValidateInv, EditSavedInv DEF Next, Step
<1> QED
  BY <1>1, <1>2

LEMMA Invariant == Spec => []IInv
BY InitInv, NextInv, PTL DEF Spec

----------------------------------------------------------------------------
(* The words of a text.  The first loop copies one character for each of   *)
(* the places it marks: letters, and what follows a letter.  The second    *)
(* takes the last one off if no word follows it.  What is left are the     *)
(* places that Words keeps, in their order.                                *)

Letter(s, k) == Lower[s[k]] \in Letters
Char(s, k) == IF Letter(s, k) THEN Lower[s[k]] ELSE Hyphen

Marked(s, n) == {k \in 1 .. n : Letter(s, k) \/ (k > 1 /\ Letter(s, k - 1))}

\* How many places of K come before k.
Rank(K, k) == Cardinality({j \in K : j < k})

\* t has the characters of s at the places K.
Spells(t, K, s) ==
    /\ Len(t) = Cardinality(K)
    /\ \A n \in 1 .. Len(t) : \E k \in K : Rank(K, k) = n - 1 /\ t[n] = Char(s, k)

Places(K) == K \subseteq Nat /\ IsFiniteSet(K)

LEMMA RankGrows ==
    ASSUME NEW K, Places(K), NEW j \in K, NEW k \in K, j < k
    PROVE  /\ Rank(K, j) \in Nat /\ Rank(K, k) \in Nat
           /\ Rank(K, j) < Rank(K, k) /\ Rank(K, k) < Cardinality(K)
<1> DEFINE before(i) == {h \in K : h < i}
<1>1. K \subseteq Nat /\ IsFiniteSet(K)
  BY DEF Places
<1>2. /\ IsFiniteSet(before(j)) /\ IsFiniteSet(before(k))
      /\ Cardinality(before(j)) \in Nat /\ Cardinality(before(k)) \in Nat
      /\ Cardinality(K) \in Nat
  BY <1>1, FS_Subset, FS_CardinalityType
<1>3. /\ before(j) \cup {j} \subseteq before(k) /\ j \notin before(j)
      /\ before(k) \cup {k} \subseteq K /\ k \notin before(k)
  <2>1. j \in Nat /\ k \in Nat
    BY <1>1
  <2>2. \A h \in before(j) : h \in K /\ h < k /\ h # j
    BY <1>1, <2>1
  <2>3. \A h \in before(k) : h \in K /\ h # k
    BY <1>1, <2>1
  <2> QED
    BY <2>2, <2>3
<1> HIDE DEF before
<1>4. /\ IsFiniteSet(before(j) \cup {j}) /\ IsFiniteSet(before(k) \cup {k})
      /\ Cardinality(before(j) \cup {j}) = Cardinality(before(j)) + 1
      /\ Cardinality(before(k) \cup {k}) = Cardinality(before(k)) + 1
  BY <1>2, <1>3, FS_AddElement
<1>5. /\ Cardinality(before(j) \cup {j}) <= Cardinality(before(k))
      /\ Cardinality(before(k) \cup {k}) <= Cardinality(K)
  BY <1>1, <1>2, <1>3, FS_Subset
<1> QED
  BY <1>2, <1>4, <1>5 DEF Rank, before

LEMMA RankInjective ==
    ASSUME NEW K, Places(K), NEW j \in K, NEW k \in K, Rank(K, j) = Rank(K, k)
    PROVE  j = k
<1>1. j \in Nat /\ k \in Nat
  BY DEF Places
<1>2. CASE j < k
  BY <1>2, RankGrows
<1>3. CASE k < j
  BY <1>3, RankGrows
<1> QED
  BY <1>1, <1>2, <1>3

\* One more place, behind the others.
LEMMA RankAdd ==
    ASSUME NEW K, Places(K), NEW x \in Nat \ K, \A k \in K : k < x
    PROVE  /\ Places(K \cup {x})
           /\ Cardinality(K) \in Nat /\ Cardinality(K \cup {x}) = Cardinality(K) + 1
           /\ Rank(K \cup {x}, x) = Cardinality(K)
           /\ \A k \in K : Rank(K \cup {x}, k) = Rank(K, k)
<1>1. K \subseteq Nat /\ IsFiniteSet(K)
  BY DEF Places
<1>2. /\ IsFiniteSet(K \cup {x}) /\ Cardinality(K \cup {x}) = Cardinality(K) + 1
      /\ Cardinality(K) \in Nat
  BY <1>1, FS_AddElement, FS_CardinalityType
<1>3. {j \in K \cup {x} : j < x} = K
  <2>1. ~(x < x)
    OBVIOUS
  <2> QED
    BY <2>1
<1>4. ASSUME NEW k \in K
      PROVE  {j \in K \cup {x} : j < k} = {j \in K : j < k}
  <2>1. k \in Nat /\ k < x
    BY <1>1
  <2>2. ~(x < k)
    BY <2>1
  <2> QED
    BY <2>2
<1> QED
  BY <1>1, <1>2, <1>3, <1>4 DEF Rank, Places

LEMMA SpellsMore ==
    ASSUME NEW K, Places(K), NEW x \in Nat \ K, \A k \in K : k < x,
           NEW S, NEW t \in Seq(S), NEW s, NEW c \in S, c = Char(s, x), Spells(t, K, s)
    PROVE  Spells(Append(t, c), K \cup {x}, s)
<1> DEFINE u == Append(t, c)  L == K \cup {x}
<1>1. /\ Cardinality(K) \in Nat /\ Cardinality(L) = Cardinality(K) + 1
      /\ Rank(L, x) = Cardinality(K)
      /\ \A k \in K : Rank(L, k) = Rank(K, k)
  BY RankAdd
<1>2. /\ Len(t) = Cardinality(K)
      /\ \A n \in 1 .. Len(t) : \E k \in K : Rank(K, k) = n - 1 /\ t[n] = Char(s, k)
  BY DEF Spells
<1>3. /\ Len(u) = Len(t) + 1 /\ u[Len(t) + 1] = c
      /\ \A n \in 1 .. Len(t) : u[n] = t[n]
  OBVIOUS
<1> HIDE DEF u
<1>4. ASSUME NEW n \in 1 .. Len(u)
      PROVE  \E k \in L : Rank(L, k) = n - 1 /\ u[n] = Char(s, k)
  <2>1. CASE n \in 1 .. Len(t)
    BY <2>1, <1>1, <1>2, <1>3
  <2>2. CASE n = Len(t) + 1
    BY <2>2, <1>1, <1>2, <1>3
  <2>3. Len(t) \in Nat /\ Len(u) = Len(t) + 1
    BY <1>3
  <2>4. n \in 1 .. Len(t) \/ n = Len(t) + 1
    BY <2>3
  <2> QED
    BY <2>1, <2>2, <2>4
<1>5. Len(u) = Cardinality(L)
  BY <1>1, <1>2, <1>3
<1> HIDE DEF L
<1>6. Spells(u, L, s)
  BY <1>4, <1>5 DEF Spells
<1> QED
  BY <1>6 DEF u, L

LEMMA SpellsLess ==
    ASSUME NEW K, Places(K), NEW x \in Nat \ K, \A k \in K : k < x,
           NEW t, NEW u, NEW s, Spells(t, K \cup {x}, s),
           Len(u) = Len(t) - 1, \A n \in 1 .. Len(u) : u[n] = t[n]
    PROVE  Spells(u, K, s)
<1> DEFINE L == K \cup {x}
<1>1. /\ Cardinality(K) \in Nat /\ Cardinality(L) = Cardinality(K) + 1
      /\ Rank(L, x) = Cardinality(K)
      /\ \A k \in K : Rank(L, k) = Rank(K, k)
  BY RankAdd
<1>2. /\ Len(t) = Cardinality(L)
      /\ \A n \in 1 .. Len(t) : \E k \in L : Rank(L, k) = n - 1 /\ t[n] = Char(s, k)
  BY DEF Spells
<1>3. ASSUME NEW n \in 1 .. Len(u)
      PROVE  \E k \in K : Rank(K, k) = n - 1 /\ u[n] = Char(s, k)
  <2>1. n \in 1 .. Len(t) /\ n - 1 # Cardinality(K)
    BY <1>1, <1>2
  <2>2. PICK k \in L : Rank(L, k) = n - 1 /\ t[n] = Char(s, k)
    BY <1>2, <2>1
  <2>3. k \in K
    BY <1>1, <2>1, <2>2
  <2> QED
    BY <1>1, <2>2, <2>3
<1>4. Len(u) = Cardinality(K)
  BY <1>1, <1>2
<1> QED
  BY <1>3, <1>4 DEF Spells

\* The last character comes from the last place.
LEMMA SpellsLast ==
    ASSUME NEW K, Places(K), NEW S, NEW t \in Seq(S), NEW s, Spells(t, K, s), t # <<>>
    PROVE  \E x \in K : (\A k \in K : k <= x) /\ t[Len(t)] = Char(s, x)
<1>1. Len(t) \in 1 .. Len(t)
  OBVIOUS
<1>2. PICK x \in K : Rank(K, x) = Len(t) - 1 /\ t[Len(t)] = Char(s, x)
  BY <1>1 DEF Spells
<1>3. ASSUME NEW k \in K, ~(k <= x)
      PROVE  FALSE
  <2>1. x < k
    BY <1>3 DEF Places
  <2> QED
    BY <1>1, <1>2, <2>1, RankGrows DEF Spells
<1> QED
  BY <1>2, <1>3

\* The places that are marked are finitely many; one more character marks
\* its own place or none.
LEMMA MarkedPlaces ==
    ASSUME NEW s, NEW n \in Nat
    PROVE  /\ Places(Marked(s, n)) /\ \A k \in Marked(s, n) : k \in 1 .. n
           /\ Letter(s, n + 1) \/ (n > 0 /\ Letter(s, n))
                 => Marked(s, n + 1) = Marked(s, n) \cup {n + 1}
           /\ ~(Letter(s, n + 1) \/ (n > 0 /\ Letter(s, n)))
                 => Marked(s, n + 1) = Marked(s, n)
<1>1. Places(Marked(s, n))
  <2>1. IsFiniteSet(1 .. n) /\ Marked(s, n) \subseteq 1 .. n
    BY FS_Interval DEF Marked
  <2> QED
    BY <2>1, FS_Subset DEF Places
<1>2. \A k : k \in 1 .. n + 1 <=> k \in 1 .. n \/ k = n + 1
  OBVIOUS
<1>3. n + 1 \notin 1 .. n /\ (n + 1) - 1 = n /\ (n + 1 > 1 <=> n > 0)
  OBVIOUS
<1>4. \A k : k \in Marked(s, n + 1) <=>
               k \in Marked(s, n)
               \/ (k = n + 1 /\ (Letter(s, n + 1) \/ (n > 0 /\ Letter(s, n))))
  <2> SUFFICES ASSUME NEW k
               PROVE  k \in Marked(s, n + 1) <=>
                         k \in Marked(s, n)
                         \/ (k = n + 1 /\ (Letter(s, n + 1) \/ (n > 0 /\ Letter(s, n))))
    OBVIOUS
  <2>1. CASE k = n + 1
    BY <2>1, <1>2, <1>3 DEF Marked
  <2>2. CASE k # n + 1
    BY <2>2, <1>2 DEF Marked
  <2> QED
    BY <2>1, <2>2
<1>5. \A k \in Marked(s, n) : k \in 1 .. n
  BY DEF Marked
<1> QED
  BY <1>1, <1>4, <1>5

\* The places that Words keeps are those the loop marks, but for a last one
\* that no word follows; the last place that is kept has a letter.
LEMMA KeptPlaces ==
    ASSUME NEW s \in Seq(Ascii)
    PROVE  LET K == Promise!Kept(s)
               M == Marked(s, Len(s))
           IN /\ Places(K) /\ Places(M)
              /\ \A x \in K : (\A k \in K : k <= x) => Letter(s, x)
              /\ \/ M = K
                 \/ \E m \in Nat \ K : /\ M = K \cup {m}
                                       /\ \A k \in K : k < m
                                       /\ ~Letter(s, m)
<1> DEFINE K == Promise!Kept(s)
           N == Len(s)
           M == Marked(s, N)
<1>1. N \in Nat /\ DOMAIN s = 1 .. N
  OBVIOUS
<1>2. \A k : k \in K <=>
               /\ k \in 1 .. N
               /\ \/ Letter(s, k)
                  \/ /\ k > 1 /\ Letter(s, k - 1)
                     /\ \E j \in 1 .. N : j > k /\ Letter(s, j)
  BY <1>1 DEF Promise!Kept, Promise!Leaves, Promise!IsLetter, Letter
<1>3. \A k : k \in M <=>
               k \in 1 .. N /\ (Letter(s, k) \/ (k > 1 /\ Letter(s, k - 1)))
  BY DEF Marked
<1>4. Places(M)
  BY <1>1, MarkedPlaces
<1>5. K \subseteq M
  BY <1>2, <1>3
<1>6. Places(K)
  BY <1>4, <1>5, FS_Subset DEF Places
<1> HIDE DEF K, M, N
<1>7. ASSUME NEW x \in K, \A k \in K : k <= x
      PROVE  Letter(s, x)
  <2> SUFFICES ASSUME ~Letter(s, x) PROVE FALSE
    OBVIOUS
  <2>1. PICK j \in 1 .. N : j > x /\ Letter(s, j)
    BY <1>2
  <2>2. j \in K
    BY <1>2, <2>1
  <2>3. j <= x /\ x \in 1 .. N
    BY <1>2, <1>7, <2>2
  <2> QED
    BY <2>1, <2>3, <1>1
<1>8. ASSUME NEW m \in M, m \notin K
      PROVE  /\ m \in 1 .. N /\ ~Letter(s, m)
             /\ \A k \in M : k # m => k < m
  <2>1. /\ m \in 1 .. N /\ ~Letter(s, m) /\ m > 1 /\ Letter(s, m - 1)
        /\ \A j \in 1 .. N : j > m => ~Letter(s, j)
    BY <1>2, <1>3, <1>8
  <2>2. ASSUME NEW k \in M, k > m
        PROVE  FALSE
    <3>1. k \in 1 .. N /\ ~Letter(s, k) /\ k > 1 /\ Letter(s, k - 1)
      BY <1>3, <2>1, <2>2
    <3>2. k - 1 \in 1 .. N /\ (k - 1 = m \/ k - 1 > m)
      BY <1>1, <2>1, <2>2, <3>1
    <3> QED
      BY <2>1, <3>1, <3>2
  <2>3. ASSUME NEW k \in M, k # m
        PROVE  k < m
    <3>1. k \in 1 .. N /\ ~(k > m)
      BY <1>3, <2>2
    <3> QED
      BY <1>1, <2>1, <2>3, <3>1
  <2> QED
    BY <2>1, <2>3
<1>9. CASE M # K
  <2>1. PICK m \in M : m \notin K
    BY <1>5, <1>9
  <2>2. /\ m \in 1 .. N /\ ~Letter(s, m)
        /\ \A k \in M : k # m => k < m
    BY <1>8, <2>1
  <2>3. \A k \in M : k \notin K => k = m
    <3> SUFFICES ASSUME NEW k \in M, k \notin K, k # m PROVE FALSE
      OBVIOUS
    <3>1. k < m /\ m < k /\ k \in 1 .. N
      BY <1>8, <2>1, <2>2
    <3> QED
      BY <1>1, <2>2, <3>1
  <2>4. M = K \cup {m}
    BY <1>5, <2>1, <2>3
  <2>5. \A k \in K : k < m
    BY <1>5, <2>1, <2>2
  <2>6. m \in Nat
    BY <1>1, <2>2
  <2> QED
    BY <1>4, <1>6, <1>7, <2>1, <2>2, <2>4, <2>5, <2>6 DEF K, M, N
<1> QED
  BY <1>4, <1>6, <1>7, <1>9 DEF K, M, N

\* The cardinality that Words counts with is the one of the sets above.
LEMMA SameCardinality ==
    ASSUME NEW S
    PROVE  Promise!Cardinality(S) = Cardinality(S)
BY DEF Promise!Cardinality, Cardinality

\* A slug that spells the places that Words keeps is Words.
LEMMA SpellsWords ==
    ASSUME NEW s \in Seq(Ascii), NEW S, NEW t \in Seq(S), Spells(t, Promise!Kept(s), s)
    PROVE  t = Promise!Words(s)
<1> DEFINE K == Promise!Kept(s)
<1>1. Places(K)
  BY KeptPlaces
<1>2. Len(t) = Cardinality(K) /\ DOMAIN t = 1 .. Len(t)
  BY DEF Spells
<1>3. Promise!Words(s) =
        [n \in 1 .. Cardinality(K) |-> Promise!Character(s, Promise!Place(s, n))]
  BY SameCardinality DEF Promise!Words
<1>4. ASSUME NEW n \in 1 .. Cardinality(K)
      PROVE  t[n] = Promise!Character(s, Promise!Place(s, n))
  <2> HIDE DEF K
  <2>1. PICK k \in K : Rank(K, k) = n - 1 /\ t[n] = Char(s, k)
    BY <1>2, <1>4 DEF Spells, K
  <2>2. \A j \in K : Rank(K, j) = n - 1 => j = k
    BY <1>1, <2>1, RankInjective
  <2>3. Promise!Place(s, n) = CHOOSE j \in K : Rank(K, j) = n - 1
    BY SameCardinality DEF Promise!Place, Rank, K
  <2>4. Promise!Place(s, n) = k
    BY <2>1, <2>2, <2>3
  <2>5. Promise!Character(s, k) = Char(s, k)
    BY DEF Promise!Character, Promise!IsLetter, Char, Letter
  <2> QED
    BY <2>1, <2>4, <2>5
<1> HIDE DEF K
<1>5. t = [n \in 1 .. Cardinality(K) |-> t[n]]
  BY <1>2
<1> QED
  BY <1>3, <1>4, <1>5

----------------------------------------------------------------------------
(* The loops spell the words of the text.                                  *)

\* While the first loop runs, a hyphen is due where a letter was read last.
Spelling ==
    /\ pc = "scan" =>
          /\ Spells(slug, Marked(text, read), text)
          /\ (slug # <<>> /\ ~last_was_hyphen) <=> (read > 0 /\ Letter(text, read))
    /\ pc = "trim" => \/ Spells(slug, Marked(text, Len(text)), text)
                      \/ Spells(slug, Promise!Kept(text), text)
    /\ pc \in {"ok", "empty"} => slug = Promise!Words(text)

LEMMA SpellsNothing ==
    ASSUME NEW s
    PROVE  Spells(<<>>, Marked(s, 0), s)
<1>1. Marked(s, 0) = {}
  BY DEF Marked
<1>2. Cardinality({}) = 0 /\ Len(<<>>) = 0
  BY FS_EmptySet
<1> QED
  BY <1>1, <1>2 DEF Spells

\* The end of a text that is spelled with a hyphen at its end, or with none.
LEMMA SpelledEnd ==
    ASSUME IInv, Spells(slug, Promise!Kept(text), text), slug # <<>>
    PROVE  slug[Len(slug)] # Hyphen
<1> DEFINE K == Promise!Kept(text)
<1>1. text \in Seq(Ascii) /\ slug \in Seq(Letters \cup {Hyphen})
  BY DEF IInv, SlugTypeOK
<1>2. Places(K) /\ \A x \in K : (\A k \in K : k <= x) => Letter(text, x)
  BY <1>1, KeptPlaces
<1>3. PICK x \in K : (\A k \in K : k <= x) /\ slug[Len(slug)] = Char(text, x)
  BY <1>1, <1>2, SpellsLast
<1>4. Char(text, x) \in Letters
  BY <1>2, <1>3 DEF Char, Letter
<1> QED
  BY <1>3, <1>4, CharsAssumption

LEMMA InitSpelling == Init => Spelling
BY SpellsNothing DEF Init, Spelling

LEMMA ScanSpelling ==
    ASSUME IInv, Spelling, Scan
    PROVE  Spelling'
<1> DEFINE M == Marked(text, read)
<1>1. /\ pc = "scan" /\ read < Len(text) /\ read' = read + 1
      /\ UNCHANGED <<pc, text, stored>>
  BY DEF Scan
<1>2. /\ text \in Seq(Ascii) /\ read \in Nat
      /\ slug \in Seq(Letters \cup {Hyphen})
  BY DEF IInv, SlugTypeOK
<1>3. /\ Spells(slug, M, text)
      /\ (slug # <<>> /\ ~last_was_hyphen) <=> (read > 0 /\ Letter(text, read))
  BY <1>1 DEF Spelling
<1>4. Ch \in Letters <=> Letter(text, read + 1)
  BY DEF Ch, Letter
<1>5. /\ Places(M) /\ \A k \in M : k \in 1 .. read
      /\ Letter(text, read + 1) \/ (read > 0 /\ Letter(text, read))
            => Marked(text, read + 1) = M \cup {read + 1}
      /\ ~(Letter(text, read + 1) \/ (read > 0 /\ Letter(text, read)))
            => Marked(text, read + 1) = M
  BY <1>2, MarkedPlaces
<1>6. read + 1 \in Nat \ M /\ \A k \in M : k < read + 1
  BY <1>2, <1>5
<1> HIDE DEF M
<1>7. SUFFICES
        /\ Spells(slug', Marked(text, read + 1), text)
        /\ (slug' # <<>> /\ ~last_was_hyphen') <=> Letter(text, read + 1)
  <2>1. read + 1 > 0
    BY <1>2
  <2> QED
    BY <1>1, <2>1, <1>7 DEF Spelling
<1>8. CASE Push
  <2>1. /\ Ch \in Letters /\ slug' = Append(slug, Ch) /\ last_was_hyphen' = FALSE
    BY <1>8 DEF Push
  <2>2. Ch = Char(text, read + 1) /\ Ch \in Letters \cup {Hyphen}
    BY <2>1 DEF Ch, Char, Letter
  <2>3. Spells(slug', M \cup {read + 1}, text)
    BY <2>1, <2>2, <1>2, <1>3, <1>5, <1>6, SpellsMore
  <2>4. slug' # <<>>
    BY <2>1, <1>2
  <2> QED
    BY <2>1, <2>3, <2>4, <1>4, <1>5
<1>9. CASE Separate
  <2>1. /\ Ch \notin Letters /\ ~last_was_hyphen /\ slug # <<>>
        /\ slug' = Append(slug, Hyphen) /\ last_was_hyphen' = TRUE
    BY <1>9 DEF Separate
  <2>2. Hyphen = Char(text, read + 1) /\ Hyphen \in Letters \cup {Hyphen}
    BY <2>1, <1>4 DEF Char
  <2>3. Spells(slug', M \cup {read + 1}, text)
    BY <2>1, <2>2, <1>2, <1>3, <1>5, <1>6, SpellsMore
  <2> QED
    BY <2>1, <2>3, <1>3, <1>4, <1>5
<1>10. CASE Skip
  <2>1. /\ Ch \notin Letters /\ (last_was_hyphen \/ slug = <<>>)
        /\ UNCHANGED <<slug, last_was_hyphen>>
    BY <1>10 DEF Skip
  <2> QED
    BY <2>1, <1>3, <1>4, <1>5
<1> QED
  BY <1>8, <1>9, <1>10 DEF Scan

LEMMA PopSpelling ==
    ASSUME IInv, Spelling, Pop
    PROVE  Spelling'
<1> DEFINE K == Promise!Kept(text)
           M == Marked(text, Len(text))
<1>1. /\ pc = "trim" /\ slug # <<>> /\ slug[Len(slug)] = Hyphen
      /\ slug' = SubSeq(slug, 1, Len(slug) - 1)
      /\ UNCHANGED <<pc, text>>
  BY DEF Pop, EndsWithHyphen
<1>2. /\ text \in Seq(Ascii) /\ slug \in Seq(Letters \cup {Hyphen})
      /\ Len(slug) \in Nat /\ Len(slug) > 0
  BY <1>1 DEF IInv, SlugTypeOK
<1>3. ~Spells(slug, K, text)
  BY <1>1, SpelledEnd
<1>4. Spells(slug, M, text)
  BY <1>1, <1>3 DEF Spelling
<1>5. PICK m \in Nat \ K : /\ M = K \cup {m} /\ \A k \in K : k < m
                           /\ Places(K)
  BY <1>2, <1>3, <1>4, KeptPlaces
<1>6. Len(slug') = Len(slug) - 1 /\ \A n \in 1 .. Len(slug') : slug'[n] = slug[n]
  <2>1. Len(slug') = Len(slug) - 1
    BY <1>1, TidyPop DEF IInv
  <2> QED
    BY <2>1, <1>1, <1>2
<1>7. Spells(slug', K, text)
  <2> HIDE DEF K, M
  <2> QED
    BY <1>4, <1>5, <1>6, SpellsLess
<1> QED
  BY <1>1, <1>7 DEF Spelling

LEMMA ValidateSpelling ==
    ASSUME IInv, Spelling, Validate
    PROVE  Spelling'
<1> DEFINE K == Promise!Kept(text)
           M == Marked(text, Len(text))
<1>1. /\ pc = "trim" /\ ~EndsWithHyphen
      /\ pc' \in {"empty", "ok", "invalid_format"}
      /\ UNCHANGED <<text, slug>>
  BY DEF Validate
<1>2. text \in Seq(Ascii) /\ slug \in Seq(Letters \cup {Hyphen})
  BY DEF IInv, SlugTypeOK
<1>3. Spells(slug, K, text)
  <2> SUFFICES ASSUME Spells(slug, M, text), M # K PROVE FALSE
    BY <1>1 DEF Spelling
  <2>1. PICK m \in Nat \ K : /\ M = K \cup {m} /\ \A k \in K : k < m
                             /\ ~Letter(text, m) /\ Places(M) /\ Places(K)
    BY <1>2, KeptPlaces
  <2>2. slug # <<>>
    <3>1. Cardinality(M) = Cardinality(K) + 1 /\ Cardinality(K) \in Nat
      <4> HIDE DEF K, M
      <4> QED
        BY <2>1, RankAdd
    <3> QED
      BY <3>1, <1>2 DEF Spells
  <2>3. PICK x \in M : (\A k \in M : k <= x) /\ slug[Len(slug)] = Char(text, x)
    <3> HIDE DEF K, M
    <3> QED
      BY <1>2, <2>1, <2>2, SpellsLast
  <2>4. x = m
    <3> HIDE DEF K, M
    <3>1. m <= x /\ (x \in K => x < m) /\ x \in Nat
      BY <2>1, <2>3 DEF Places
    <3> QED
      BY <2>1, <2>3, <3>1
  <2> QED
    BY <1>1, <2>1, <2>2, <2>3, <2>4 DEF Char, EndsWithHyphen
<1>4. slug = Promise!Words(text)
  BY <1>2, <1>3, SpellsWords
<1> QED
  BY <1>1, <1>4 DEF Spelling

LEMMA NextSpelling ==
    ASSUME IInv, Spelling, [Next]_vars
    PROVE  Spelling'
<1>1. CASE Scan
  BY <1>1, ScanSpelling
<1>2. CASE EndScan
  BY <1>2 DEF EndScan, Spelling
<1>3. CASE Pop
  BY <1>3, PopSpelling
<1>4. CASE Validate
  BY <1>4, ValidateSpelling
<1>5. CASE EditSaved
  BY <1>5, SpellsNothing DEF EditSaved, Call, Spelling
<1>6. CASE UNCHANGED vars
  BY <1>6 DEF vars, Spelling
<1> QED
  BY <1>1, <1>2, <1>3, <1>4, <1>5, <1>6 DEF Next, Step

----------------------------------------------------------------------------

LEMMA SpellingHolds == Spec => []Spelling
BY InitSpelling, NextSpelling, Invariant, PTL DEF Spec

\* A step answers with the words of the text, saves an edit, or is not seen.
LEMMA StepKeepsPromise ==
    ASSUME IInv, Spelling, Spelling', [Next]_vars
    PROVE  [Promise!Answer \/ Promise!EditSaved]_Promise!promiseVars
<1> USE DEF Promise!promiseVars
<1>1. slug # Pending
  <2>1. slug \in Seq(Ascii)
    BY CharsAssumption DEF IInv, SlugTypeOK
  <2> QED
    BY <2>1, CharsAssumption
<1>2. CASE Scan \/ EndScan \/ Pop \/ UNCHANGED vars
  BY <1>2 DEF Scan, EndScan, Pop, vars
<1>3. CASE Validate
  <2>1. /\ pc = "trim" /\ pc' \in {"ok", "empty", "invalid_format"}
        /\ UNCHANGED <<text, slug, stored>>
    BY <1>3 DEF Validate
  <2>2. CASE pc' \in {"ok", "empty"}
    <3>1. slug' = Promise!Words(text)
      BY <2>1, <2>2 DEF Spelling
    <3> QED
      BY <2>1, <2>2, <3>1 DEF Promise!Answer
  <2>3. CASE pc' = "invalid_format"
    BY <2>1, <2>3
  <2> QED
    BY <2>1, <2>2, <2>3
<1>4. CASE EditSaved
  <2>1. /\ pc = "ok" /\ stored = Pending /\ pc' = "scan" /\ text' = stored'
        /\ stored' \in {slug} \cup {slug \o <<Hyphen>> \o d : d \in Numbers}
    BY <1>4 DEF EditSaved, Call
  <2>2. slug # <<>>
    BY <2>1 DEF IInv, Results, Good
  <2> QED
    BY <2>1, <2>2, <1>1 DEF Promise!EditSaved
<1> QED
  BY <1>2, <1>3, <1>4 DEF Next, Step

\* Whatever the text, the loops answer with its words, in lower case and with
\* one hyphen between two of them, or with none if it has none.
THEOREM SlugifyKeepsPromise == Spec => Promise!PromiseSafety
<1>1. Init => Promise!PromiseInit
  BY DEF Init, Promise!PromiseInit
<1> QED
  BY <1>1, StepKeepsPromise, Invariant, SpellingHolds, PTL
     DEF Spec, Promise!PromiseSafety

\* Types, for texts of any length.
THEOREM SlugTypesCorrect == Spec => []SlugTypeOK
<1>1. IInv => SlugTypeOK
  BY DEF IInv
<1> QED
  BY <1>1, Invariant, PTL

\* The error of validate_slug that slugify passes on never occurs.
THEOREM FormatNeverInvalid == Spec => []NeverInvalidFormat
<1>1. IInv => NeverInvalidFormat
  BY DEF IInv, Results, NeverInvalidFormat
<1> QED
  BY <1>1, Invariant, PTL

\* Whatever the title and whatever the number behind the slug: the edit form
\* of a post gives the post the slug it has.
THEOREM EditKeepsSlug == Spec => []SavedSlugStays
<1>1. IInv => SavedSlugStays
  <2> SUFFICES ASSUME IInv, stored # Pending, pc \notin {"scan", "trim"}
               PROVE  pc = "ok" /\ slug = stored
    BY DEF SavedSlugStays
  <2>1. pc = "ok"
    BY DEF IInv, SlugTypeOK, Copying, Results
  <2>2. /\ Len(slug) = Len(stored)
        /\ \A k \in 1 .. Len(slug) : slug[k] = stored[k]
    BY <2>1 DEF IInv, Copying, StoredGood
  <2>3. slug \in Seq(Letters \cup {Hyphen}) /\ stored \in Seq(Letters \cup {Hyphen})
    BY DEF IInv, SlugTypeOK, StoredGood, Good, Tidy
  <2> QED
    BY <2>1, <2>2, <2>3
<1> QED
  BY <1>1, Invariant, PTL
=============================================================================
