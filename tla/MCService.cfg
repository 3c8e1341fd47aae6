CONSTANTS
  p = p
  q = q
  thinking = thinking
  short = short
  long = long
  amp = amp
  nbsp = nbsp
  blank = blank
  good = good
  better = better
  bad = bad
  t1 = t1
  Piece <- MCPiece
  Item <- MCItem
  MaxText = 2
  MaxDeltas = 2
  Line <- MCLine
  BlankLine = blank
  Unescaped <- MCUnescaped
  Chars <- MCChars
  MaxChars = 100
  Link <- MCLink
  GoodLink <- MCGoodLink
  MaxCandidates = 3
  MaxLinks = 1
  Tunnel <- MCTunnel
  MaxLines = 2
  MaxTexts = 1
SPECIFICATION Spec
CHECK_DEADLOCK FALSE
INVARIANT TypeOK
INVARIANT ConnectionsAreClosedOnce
INVARIANT AnswerIsWhole
INVARIANT ResultIsComplete
PROPERTY NothingIsLeft
