----------------------------- MODULE MCService ------------------------------
(* Answers of two different pieces with two deltas, pages of texts of two  *)
(* lines, and a browser with one connection.  A line may be long, or an    *)
(* escaped entity that becomes one and then white space.  The algorithms   *)
(* are compared with what they compute on larger inputs.                   *)
EXTENDS Service, TLC

CONSTANTS p, q, thinking, short, long, amp, nbsp, blank, good, better, bad, t1

MCPiece == {p, q}
MCItem == {thinking}
MCLine == {short, long, amp, nbsp}
MCUnescaped ==
  [l \in MCLine |-> CASE l = amp -> nbsp [] l = nbsp -> blank [] OTHER -> l]
MCChars ==
  [l \in MCLine \cup {blank} |->
     CASE l = long -> 80 [] l = amp -> 10 [] l = blank -> 0 [] OTHER -> 6]
MCLink == {good, better, bad}
MCGoodLink == {good, better}
MCTunnel == {t1}

MCTexts == BoundedSeq({short, long}, 4)

ASSUME OverlapIsLongest ==
  \A left \in MCTexts, right \in MCTexts \ {<<>>} :
    SuffixPrefixOverlap(left, right) = LongestOverlap(left, right)

MCDocuments(source, lines, n) ==
  BoundedSeq([source : source, text : BoundedSeq(lines, 2) \ {<<>>}], n)

ASSUME CandidatesAreMerged ==
  \A d \in MCDocuments({"http_main", "http_body"}, {short, long}, 3)
            \cup MCDocuments({"http_main"}, {short, nbsp, amp}, 2) :
    Complete(MergeText(ExtractCandidates(d)), {NormalizeText(d[i].text) : i \in DOMAIN d})

ASSUME LinksAreHonest ==
  \A candidates \in BoundedSeq(MCLink, 4), inTime \in 0 .. 4 :
    IsHonest(candidates, ValidateLinks(candidates, inTime))
=============================================================================
