------------------------------ MODULE PageText ------------------------------
(***************************************************************************)
(* The text of a web page (webfetch/content.go) and its links (links.go).  *)
(*                                                                         *)
(* A text is a sequence of lines with words in them; of the words only     *)
(* their number of characters is kept, and what html.UnescapeString makes  *)
(* of them.  That is done anew each time a text is normalized, and a text  *)
(* on its way to a result is normalized more than once: an entity that is  *)
(* itself escaped becomes one, and then what it stands for, which may be   *)
(* white space.  A link is its address.                                    *)
(***************************************************************************)
EXTENDS Integers, Sequences, SequencesExt

CONSTANTS
  Line,      \* lines with words in them
  BlankLine, \* a line without
  Unescaped, \* what a line becomes when it is normalized
  Chars,     \* the number of its characters
  MaxChars,  \* how many of them a result may have
  Link,      \* addresses
  GoodLink,  \* the public ones, whose hosts resolve
  MaxCandidates, MaxLinks

\* Text t is a contiguous part of text m.
IsBlock(t, m) ==
  \E i \in 0 .. Len(m) - Len(t) : SubSeq(m, i + 1, i + Len(t)) = t

\* A mutant: a line of white space is kept.
KeepBlank(raw) == [i \in DOMAIN raw |-> Unescaped[raw[i]]]

\* normalizeText, after each line: what is not blank once it is unescaped.
Normalized(raw) ==
  LET result[i \in 0 .. Len(raw)] ==
        IF i = 0 THEN <<>>
        ELSE IF Unescaped[raw[i]] = BlankLine THEN result[i - 1]
        ELSE Append(result[i - 1], Unescaped[raw[i]])
  IN result

NormalizeText(raw) == Normalized(raw)[Len(raw)]

\* A text after it has been normalized k times.
Decoded(t, k) == IF k = 1 THEN NormalizeText(t) ELSE NormalizeText(NormalizeText(t))

\* What a text is to be in the end: one that has each of some texts, its
\* lines together, and no other line.
Complete(m, texts) ==
  /\ \A t \in texts : IsBlock(t, m)
  /\ \A line \in Range(m) : \E t \in texts : line \in Range(t)

\* The characters of the first i lines of t, their ends included.
Sizes(t) ==
  LET size[i \in 0 .. Len(t)] == IF i = 0 THEN 0 ELSE size[i - 1] + Chars[t[i]] + 1
  IN size

Size(t) == Sizes(t)[Len(t)]

\* Truncate: the lines of which something is left, and whether anything is
\* missing.
Truncate(t) ==
  [text |-> SubSeq(t, 1, Cardinality({i \in DOMAIN t : Sizes(t)[i - 1] < MaxChars})),
   cut |-> Size(t) - 1 > MaxChars]

-----------------------------------------------------------------------------
(***************************************************************************)
(* suffixPrefixOverlap, the algorithm of Knuth, Morris and Pratt: how many *)
(* lines at the end of one text are those at the start of the other.       *)
(***************************************************************************)

\* Where the search goes on when the line after the first n of right has to
\* be x; prefix is the table of right, as far as it is known.
FallBack(right, prefix, x) ==
  LET f[n \in 0 .. Len(prefix)] ==
        IF n > 0 /\ (n = Len(right) \/ right[n + 1] # x) THEN f[prefix[n]] ELSE n
  IN f

\* One line further.
Matched(right, prefix, n, x) ==
  LET m == FallBack(right, prefix, x)[n]
  IN IF right[m + 1] = x THEN m + 1 ELSE m

\* For the first i lines of right.
PrefixTable(right) ==
  LET prefix[i \in 0 .. Len(right)] ==
        IF i = 0 THEN <<>>
        ELSE Append(prefix[i - 1],
                    IF i = 1 THEN 0
                    ELSE Matched(right, prefix[i - 1], prefix[i - 1][i - 1], right[i]))
  IN prefix

SuffixPrefixOverlap(left, right) ==
  LET prefix == PrefixTable(right)[Len(right)]
      matched[i \in 0 .. Len(left)] ==
        IF i = 0 THEN 0 ELSE Matched(right, prefix, matched[i - 1], left[i])
  IN matched[Len(left)]

\* What it is to compute.
LongestOverlap(left, right) ==
  LET fits == {n \in 0 .. Len(right) :
                 n <= Len(left) /\
                 SubSeq(left, Len(left) - n + 1, Len(left)) = SubSeq(right, 1, n)}
  IN CHOOSE n \in fits : \A m \in fits : m <= n

-----------------------------------------------------------------------------
(***************************************************************************)
(* mergeText                                                               *)
(***************************************************************************)

\* One short line in common may be a coincidence, and stays twice.
Join(merged, next) ==
  LET n == SuffixPrefixOverlap(merged, next)
      overlap == IF n = 1 /\ Chars[next[1]] < 80 THEN 0 ELSE n
  IN merged \o SubSeq(next, overlap + 1, Len(next))

Merge(merged, next) ==
  IF next = <<>> THEN merged
  ELSE IF merged = <<>> \/ IsBlock(merged, next) THEN next
  ELSE IF IsBlock(next, merged) THEN merged
  ELSE Join(merged, next)

MergeText(texts) ==
  LET merged[i \in 0 .. Len(texts)] ==
        IF i = 0 THEN <<>> ELSE Merge(merged[i - 1], NormalizeText(texts[i]))
  IN merged[Len(texts)]

-----------------------------------------------------------------------------
(***************************************************************************)
(* extractCandidates: a document is what is found in it, a text and where  *)
(* it was, in the order of the search; nodeText has normalized the texts   *)
(* once.                                                                   *)
(***************************************************************************)

CandidatePriority ==
  [http_main |-> 0, http_hydration_json |-> 1, http_noscript |-> 2, http_body |-> 3]

\* By source, the longer first, and otherwise as found.
Precedes(document, i, j) ==
  LET left == CandidatePriority[document[i].source]
      right == CandidatePriority[document[j].source]
      m == Size(document[i].text)
      n == Size(document[j].text)
  IN left < right \/ (left = right /\ (m > n \/ (m = n /\ i < j)))

Rank(document, i) ==
  Cardinality({j \in DOMAIN document : j = i \/ Precedes(document, j, i)})

\* The texts in that order.
ExtractCandidates(document) ==
  [r \in DOMAIN document |->
     document[CHOOSE i \in DOMAIN document : Rank(document, i) = r].text]

-----------------------------------------------------------------------------
(***************************************************************************)
(* validateLinks, whose time is up after the first inTime candidates: the  *)
(* links it keeps and whether it has left candidates out.                  *)
(***************************************************************************)
Validate(s, candidate, inTime) ==
  IF s.truncated THEN s
  ELSE IF s.looked >= MaxCandidates \/ Len(s.links) >= MaxLinks \/ s.looked >= inTime
  THEN [s EXCEPT !.truncated = TRUE]
  ELSE [s EXCEPT !.looked = @ + 1,
                 !.links = IF candidate \in GoodLink \ Range(@)
                           THEN Append(@, candidate) ELSE @]

ValidateLinks(candidates, inTime) ==
  LET validated[i \in 0 .. Len(candidates)] ==
        IF i = 0 THEN [links |-> <<>>, looked |-> 0, truncated |-> FALSE]
        ELSE Validate(validated[i - 1], candidates[i], inTime)
  IN validated[Len(candidates)]

\* What a caller may rely on: good links, each once, not too many, and none
\* missing unless it is said.
IsHonest(candidates, v) ==
  /\ Len(v.links) <= MaxLinks
  /\ Range(v.links) \subseteq GoodLink \cap Range(candidates)
  /\ \A i, j \in DOMAIN v.links : v.links[i] = v.links[j] => i = j
  /\ ~ v.truncated => GoodLink \cap Range(candidates) \subseteq Range(v.links)
=============================================================================
