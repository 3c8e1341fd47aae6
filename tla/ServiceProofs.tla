--------------------------- MODULE ServiceProofs ----------------------------
(***************************************************************************)
(* Proofs about the service: its connections, from the start to the end,   *)
(* and the answers of the OpenRouter model.                                *)
(***************************************************************************)
EXTENDS Service, SequenceTheorems, TLAPS

(***************************************************************************)
(* The connections of the service (Lifecycle)                              *)
(***************************************************************************)

\* The stages after the one that opens a connection.
PastRedis == {"taskplan", "runtime", "tiers", "cors", "serving"}
PastPostgres == PastRedis \cup {"schema", "redis"}
PastMcp ==
  PastPostgres \cup {"mcpTools", "sandbox", "sessionConfig", "postgres"}

(***************************************************************************)
(* Until the start fails, initialize holds what its past stages opened and *)
(* nothing is closed.  That "mcp" comes first is what makes the condition  *)
(* of Undo right: without it nothing is held.                              *)
(***************************************************************************)
HeldInOrder ==
  stage \in Starting \cup {"serving"} =>
    /\ "mcp" \in held <=> stage \in PastMcp
    /\ "postgres" \in held <=> stage \in PastPostgres
    /\ "redis" \in held <=> stage \in PastRedis
    /\ \A c \in Connection : closed[c] = 0

\* What is open is held, up to the moment it is closed.
Balanced ==
  stage \in Starting \cup {"serving", "undoing", "stopping"} =>
    \A c \in Connection :
      opened[c] = closed[c] + IF c \in held THEN 1 ELSE 0

StartInv == StartTypeOK /\ HeldInOrder /\ Balanced /\ ConnectionsAreClosedOnce

-----------------------------------------------------------------------------
\* The stages by name, and the one that follows each of them.
LEMMA Stages ==
  /\ Starting = {"env", "cozeloop", "instruction", "model", "knowledge",
       "tongji", "catalog", "tavily", "webfetch", "chromium", "mcp",
       "mcpTools", "sandbox", "sessionConfig", "postgres", "schema", "redis",
       "taskplan", "runtime", "tiers", "cors"}
  /\ \A s \in Starting : After[s] \in (Starting \ {"env"}) \cup {"serving"}
BY DEF Starting, After

\* A stage that opens nothing leads to one with the same connections.
LEMMA SamePast ==
  ASSUME NEW s \in Starting \ Connection
  PROVE  /\ After[s] \in PastMcp <=> s \in PastMcp
         /\ After[s] \in PastPostgres <=> s \in PastPostgres
         /\ After[s] \in PastRedis <=> s \in PastRedis
BY Stages DEF After, Connection, PastMcp, PastPostgres, PastRedis

\* A stage that opens a connection leads to the ones that are past it.
LEMMA OpenedPast ==
  /\ After["mcp"] \in PastMcp \ PastPostgres
  /\ After["postgres"] \in PastPostgres \ PastRedis
  /\ After["redis"] \in PastRedis
  /\ "mcp" \notin PastMcp
  /\ "postgres" \in PastMcp \ PastPostgres
  /\ "redis" \in PastPostgres \ PastRedis
  /\ PastRedis \subseteq PastPostgres
  /\ PastPostgres \subseteq PastMcp
BY DEF After, PastMcp, PastPostgres, PastRedis

-----------------------------------------------------------------------------
LEMMA StartInitInv == StartInit => StartInv
<1> SUFFICES ASSUME StartInit PROVE StartInv
  OBVIOUS
<1>1. StartTypeOK
  BY Stages DEF StartInit, StartTypeOK
<1>2. HeldInOrder
  BY DEF StartInit, HeldInOrder, Connection, PastMcp, PastPostgres, PastRedis
<1>3. Balanced
  BY DEF StartInit, Balanced
<1>4. ConnectionsAreClosedOnce
  BY DEF StartInit, ConnectionsAreClosedOnce
<1> QED
  BY <1>1, <1>2, <1>3, <1>4 DEF StartInv

\* The start goes on without a connection more.
LEMMA GoesOn ==
  ASSUME StartInv, stage \in Starting \ Connection, stage' = After[stage],
         UNCHANGED <<held, opened, closed>>, browser' \in BOOLEAN
  PROVE  StartInv'
<1> USE DEF StartInv
<1>1. stage' \in Starting \cup {"serving"}
  BY Stages
<1>2. StartTypeOK'
  BY <1>1 DEF StartTypeOK
<1>3. HeldInOrder'
  BY <1>1, SamePast DEF HeldInOrder
<1>4. Balanced'
  BY <1>1 DEF Balanced
<1>5. ConnectionsAreClosedOnce'
  <2>1. stage' \notin {"panicked", "stopped"}
    BY <1>1, Stages
  <2>2. CASE stage' = "serving"
    <3>1. held = Connection
      BY <1>3, <2>2, <1>1 DEF HeldInOrder, Connection, StartTypeOK, PastMcp,
         PastPostgres, PastRedis
    <3>2. \A c \in Connection : opened[c] = 1 /\ closed[c] = 0
      BY <3>1 DEF HeldInOrder, Balanced, StartTypeOK
    <3> QED
      BY <3>2, <2>1 DEF ConnectionsAreClosedOnce, StartTypeOK
  <2>3. CASE stage' # "serving"
    BY <2>1, <2>3 DEF ConnectionsAreClosedOnce
  <2> QED
    BY <2>2, <2>3
<1> QED
  BY <1>2, <1>3, <1>4, <1>5

LEMMA OpenStep == ASSUME StartInv, NEW c \in Connection, Open(c) PROVE StartInv'
<1> USE DEF StartInv, Open
<1>1. /\ stage \in Starting
      /\ stage' \in (Starting \cup {"serving"}) \ {"serving"}
  BY Stages DEF Connection, After
<1>2. c \notin held
  BY <1>1, OpenedPast DEF HeldInOrder, Connection
<1>3. StartTypeOK'
  BY <1>1 DEF StartTypeOK
<1>4. HeldInOrder'
  BY <1>1, OpenedPast DEF HeldInOrder, Connection
<1>5. Balanced'
  BY <1>1, <1>2 DEF Balanced, StartTypeOK
<1>6. ConnectionsAreClosedOnce'
  <2>1. \A d \in Connection : closed'[d] <= opened'[d]
    BY <1>3, <1>5, <1>1 DEF Balanced, StartTypeOK
  <2> QED
    BY <2>1, <1>1, Stages DEF ConnectionsAreClosedOnce
<1> QED
  BY <1>3, <1>4, <1>5, <1>6

\* After an error whatever is open is held, and closeResources follows when
\* there is anything to close.
LEMMA UndoStep ==
  ASSUME StartInv, stage \in Starting, Undo, UNCHANGED <<held, browser>>,
         opened' \in [Connection -> Nat], closed' \in [Connection -> Nat],
         \A c \in Connection : opened'[c] - closed'[c] = opened[c] - closed[c]
  PROVE  StartInv'
<1> USE DEF StartInv, Undo
<1>1. stage' \in {"undoing", "panicked"}
  OBVIOUS
<1>2. StartTypeOK'
  BY <1>1 DEF StartTypeOK, Ending
<1>3. HeldInOrder'
  BY <1>1, Stages DEF HeldInOrder
<1>4. \A c \in Connection :
        opened'[c] = closed'[c] + IF c \in held THEN 1 ELSE 0
  BY <1>2 DEF Balanced, StartTypeOK
<1>5. Balanced'
  BY <1>4 DEF Balanced
<1>6. ConnectionsAreClosedOnce'
  <2>1. \A c \in Connection : closed'[c] <= opened'[c]
    BY <1>4, <1>2 DEF StartTypeOK
  <2>2. CASE "mcp" \in held
    BY <2>1, <2>2 DEF ConnectionsAreClosedOnce
  <2>3. CASE "mcp" \notin held
    <3>1. held = {}
      BY <2>3, OpenedPast DEF HeldInOrder, Connection, StartTypeOK
    <3>2. \A c \in Connection : closed'[c] = opened'[c]
      BY <3>1, <1>4, <1>2 DEF StartTypeOK
    <3>3. closed' = opened'
      BY <3>2
    <3> QED
      BY <2>1, <3>3, <1>1 DEF ConnectionsAreClosedOnce
  <2> QED
    BY <2>2, <2>3
<1> QED
  BY <1>2, <1>3, <1>5, <1>6

LEMMA OpenFailsStep == ASSUME StartInv, NEW c \in Connection, OpenFails(c) PROVE StartInv'
<1>1. stage \in Starting
  BY Stages DEF OpenFails, Connection
<1>2. \A d \in Connection : opened'[d] - closed'[d] = opened[d] - closed[d]
  BY DEF OpenFails
<1> QED
  BY <1>1, <1>2, UndoStep DEF OpenFails, StartInv, StartTypeOK

LEMMA ProbeFailsStep == ASSUME StartInv, NEW c \in Connection, ProbeFails(c) PROVE StartInv'
<1> USE DEF ProbeFails, StartInv
<1>1. stage \in Starting
  BY Stages DEF Connection
<1>2. opened' \in [Connection -> Nat] /\ closed' \in [Connection -> Nat]
  BY DEF StartTypeOK
<1>3. \A d \in Connection : opened'[d] - closed'[d] = opened[d] - closed[d]
  BY DEF StartTypeOK
<1> QED
  BY <1>1, <1>2, <1>3, UndoStep

LEMMA InitializeFailsStep == ASSUME StartInv, InitializeFails PROVE StartInv'
<1>1. stage \in Starting
  BY DEF InitializeFails, Initialize
<1>2. \A d \in Connection : opened'[d] - closed'[d] = opened[d] - closed[d]
  BY DEF InitializeFails
<1> QED
  BY <1>1, <1>2, UndoStep DEF InitializeFails, StartInv, StartTypeOK

\* main's own failures: before there is a connection, or after all three.
LEMMA MainFailsStep == ASSUME StartInv, EnvironmentFails \/ CorsFails PROVE StartInv'
<1> USE DEF StartInv
<1>1. CASE EnvironmentFails
  <2> USE <1>1 DEF EnvironmentFails
  <2>1. held = {}
    BY Stages DEF HeldInOrder, Connection, StartTypeOK, PastMcp, PastPostgres,
       PastRedis
  <2>2. \A c \in Connection : closed[c] = opened[c]
    BY <2>1, Stages DEF Balanced, StartTypeOK
  <2>3. closed = opened
    BY <2>2 DEF StartTypeOK
  <2> QED
    BY <2>2, <2>3, Stages DEF StartTypeOK, HeldInOrder, Balanced,
       ConnectionsAreClosedOnce, Ending
<1>2. CASE CorsFails
  BY <1>2, Stages DEF CorsFails, StartTypeOK, HeldInOrder, Balanced,
     ConnectionsAreClosedOnce, Ending
<1> QED
  BY <1>1, <1>2

LEMMA ShutdownStep == ASSUME StartInv, Shutdown PROVE StartInv'
BY Stages DEF StartInv, Shutdown, StartTypeOK, HeldInOrder, Balanced,
   ConnectionsAreClosedOnce, Ending

LEMMA CloseStep == ASSUME StartInv, CloseResources PROVE StartInv'
<1> USE DEF StartInv, CloseResources
<1>1. stage' \in {"panicked", "stopped"}
  OBVIOUS
<1>2. StartTypeOK'
  BY <1>1 DEF StartTypeOK, Ending
<1>3. \A c \in Connection : closed'[c] = opened'[c]
  BY DEF Balanced, StartTypeOK
<1>4. closed' = opened'
  BY <1>3, <1>2 DEF StartTypeOK
<1>5. HeldInOrder' /\ Balanced'
  BY <1>1, Stages DEF HeldInOrder, Balanced
<1>6. ConnectionsAreClosedOnce'
  BY <1>1, <1>3, <1>4, <1>2 DEF ConnectionsAreClosedOnce, StartTypeOK
<1> QED
  BY <1>2, <1>5, <1>6

LEMMA StartStepInv == StartInv /\ [StartNext]_start => StartInv'
<1> SUFFICES ASSUME StartInv, [StartNext]_start PROVE StartInv'
  OBVIOUS
<1>1. CASE Pass
  BY <1>1, GoesOn DEF Pass, StartInv, StartTypeOK
<1>2. CASE \E ok \in BOOLEAN : VerifyChromium(ok)
  <2>1. stage \in Starting \ Connection
    BY <1>2, Stages DEF VerifyChromium, Connection
  <2> QED
    BY <1>2, <2>1, GoesOn DEF VerifyChromium
<1>3. CASE \E c \in Connection : Open(c) \/ OpenFails(c) \/ ProbeFails(c)
  BY <1>3, OpenStep, OpenFailsStep, ProbeFailsStep
<1>4. CASE InitializeFails \/ EnvironmentFails \/ CorsFails
  BY <1>4, InitializeFailsStep, MainFailsStep
<1>5. CASE Shutdown \/ CloseResources
  BY <1>5, ShutdownStep, CloseStep
<1>6. CASE UNCHANGED start
  BY <1>6 DEF start, StartInv, StartTypeOK, HeldInOrder, Balanced,
     ConnectionsAreClosedOnce
<1> QED
  BY <1>1, <1>2, <1>3, <1>4, <1>5, <1>6 DEF StartNext, Step

-----------------------------------------------------------------------------
\* What the service does to its connections is what the start and the end do.
LEMMA StepIsStart == [Next]_vars => [StartNext]_start
<1>1. CASE Run
  BY <1>1 DEF Run, StartNext
<1>2. CASE LookForBrowser
  <2>1. (status = "ok") \in BOOLEAN
    OBVIOUS
  <2> QED
    BY <1>2, <2>1 DEF LookForBrowser, StartNext
<1>3. CASE AnswerRequest \/ FetchRequest \/ UNCHANGED vars
  BY <1>3 DEF AnswerRequest, FetchRequest, vars
<1> QED
  BY <1>1, <1>2, <1>3 DEF Next

\* The service, with the requests it serves, implements the specification
\* of its start and its end.
THEOREM ServiceStarts == Spec => StartSpec
<1>1. Init => StartInit
  BY DEF Init
<1> QED
  BY <1>1, StepIsStart, PTL DEF Spec, StartSpec

\* The variables of the start and the end keep their types.
THEOREM StartTypeCorrect == Spec => []StartTypeOK
<1>1. StartInv => StartTypeOK
  BY DEF StartInv
<1> QED
  BY ServiceStarts, StartInitInv, StartStepInv, <1>1, PTL DEF StartSpec

\* At whatever stage the start fails, and at the end of a service that
\* served, each connection that was opened has been closed, and only once,
\* whatever requests there were.
THEOREM Closing == Spec => []ConnectionsAreClosedOnce
<1>1. StartInv => ConnectionsAreClosedOnce
  BY DEF StartInv
<1> QED
  BY ServiceStarts, StartInitInv, StartStepInv, <1>1, PTL DEF StartSpec

-----------------------------------------------------------------------------
(***************************************************************************)
(* An answer of the model (ResponseStream)                                 *)
(***************************************************************************)

\* The message in the pipe, and all that has been sent: received, in the
\* pipe, or about to be put there.
InPipe == IF pipe = <<>> THEN Blank ELSE Head(pipe)
SentText == received.text \o (InPipe.text \o outbox.text)
SentReasoning(i) ==
  received.reasoning[i] \o (InPipe.reasoning[i] \o outbox.reasoning[i])

\* What the reasoning of an item may be in the end.
WholeReasoning(i, s) ==
  \E k \in Kinds : s \in {Pieces(k, final.reasoning[i][k]),
                          Pieces(k, streamed.reasoning[i][k])}

\* Who is still there, and what that says of the others.
Places ==
  /\ consumer \in {"idle", "calling"} => reader = "none"
  /\ bridge \in {"closing", "ended"} \/ dropped => consumer = "closed"
  /\ ended => reader = "ended"
  /\ outcome = "whole" => reader = "ended"

\* What the goroutine is sending, and the final response it has got.
Sending ==
  /\ reader \in {"none", "reading", "closing", "ended"} => outbox = Blank
  /\ reader = "sending" => ~ outbox.error
  /\ reader = "failing" => outbox = Failure
  /\ InPipe.error => InPipe = Failure
  /\ reader \in {"none", "reading", "failing"} => final = NoResponse
  /\ final # NoResponse => final.valid

\* The reasoning shown of an item is all that came in one representation,
\* and nothing only when nothing has come.
Shown ==
  reader # "ended" =>
    \A i \in Item :
      /\ progress[i].kind # "none" =>
           progress[i].text =
             Pieces(progress[i].kind, streamed.reasoning[i][progress[i].kind])
      /\ progress[i].kind = "none" =>
           /\ progress[i].text = <<>>
           /\ \A k \in Kinds : streamed.reasoning[i][k] = 0

\* As long as someone receives, what was sent is what was streamed, and the
\* whole response once that has come; a goroutine that closes without it has
\* told so.
Sent ==
  ~ dropped =>
    /\ final = NoResponse /\ reader \notin {"closing", "ended"} =>
         /\ SentText = text
         /\ \A i \in Item : SentReasoning(i) = progress[i].text
    /\ final # NoResponse =>
         /\ SentText = final.text
         /\ \A i \in Item : WholeReasoning(i, SentReasoning(i))
    /\ final = NoResponse /\ reader \in {"closing", "ended"} =>
         outcome = "error" \/ InPipe.error

AnswerInv == AnswerTypeOK /\ Places /\ Sending /\ Shown /\ Sent /\ AnswerIsWhole

-----------------------------------------------------------------------------
(***************************************************************************)
(* Sequences and messages                                                  *)
(***************************************************************************)

\* A prefix and the rest are the whole.
LEMMA RestOfPrefix ==
  ASSUME NEW S, NEW p \in Seq(S), NEW s \in Seq(S), IsPrefix(p, s)
  PROVE  p \o Without(p, s) = s /\ Without(p, s) \in Seq(S)
<1>1. /\ Len(p) \in Nat /\ Len(s) \in Nat
      /\ 1 \in 1 .. Len(s) + 1
      /\ Len(p) \in 1 - 1 .. Len(s)
      /\ Len(s) \in Len(p) .. Len(s)
  BY LenProperties DEF IsPrefix
<1>2. p = SubSeq(s, 1, Len(p))
  BY SubSeqFull DEF IsPrefix
<1>3. SubSeq(s, 1, Len(p)) \o SubSeq(s, Len(p) + 1, Len(s)) = SubSeq(s, 1, Len(s))
  BY <1>1, ConcatAdjacentSubSeq
<1>4. SubSeq(s, Len(p) + 1, Len(s)) \in Seq(S)
  BY <1>1, SubSeqProperties
<1> QED
  BY <1>2, <1>3, <1>4, SubSeqFull DEF Without

LEMMA PiecesProperties ==
  ASSUME NEW k \in Kinds, NEW n \in Nat
  PROVE  /\ Pieces(k, n) \in Seq(Kinds)
         /\ Pieces(k, 0) = <<>>
         /\ Append(Pieces(k, n), k) = Pieces(k, n + 1)
         /\ Pieces(k, n) \o <<k>> = Pieces(k, n + 1)
<1>1. /\ Pieces(k, n) \in Seq(Kinds)
      /\ Pieces(k, n + 1) \in Seq(Kinds)
      /\ Len(Pieces(k, n)) = n
      /\ Len(Pieces(k, n + 1)) = n + 1
  BY IsASeq DEF Pieces
<1>2. Pieces(k, 0) = <<>>
  BY DEF Pieces
<1>3. Append(Pieces(k, n), k) = Pieces(k, n + 1)
  BY <1>1, AppendProperties, SeqEqual DEF Pieces
<1>4. Pieces(k, n) \o <<k>> = Append(Pieces(k, n), k)
  BY <1>1, AppendIsConcat
<1> QED
  BY <1>1, <1>2, <1>3, <1>4

\* What a message says goes through the pipe unchanged and in its place.
LEMMA Through ==
  ASSUME NEW S, NEW r \in Seq(S), NEW p \in Seq(S), NEW o \in Seq(S)
  PROVE  /\ r \o (p \o <<>>) \in Seq(S)
         /\ r \o (p \o o) = (r \o (p \o <<>>)) \o o
         /\ r \o (<<>> \o o) = r \o (o \o <<>>)
         /\ (r \o p) \o (<<>> \o o) = r \o (p \o o)
<1>1. p \o <<>> = p /\ <<>> \o o = o /\ o \o <<>> = o
  BY ConcatEmptySeq
<1>2. (r \o p) \o o = r \o (p \o o)
  BY ConcatAssociative
<1>3. r \o p \in Seq(S)
  BY ConcatProperties
<1> QED
  BY <1>1, <1>2, <1>3

LEMMA BlankType == Blank \in Message /\ Failure \in Message
<1>1. <<>> \in Seq(Piece) /\ <<>> \in Seq(Kinds)
  OBVIOUS
<1>2. Blank \in Message
  BY <1>1 DEF Blank, Message
<1>3. Failure \in Message
  BY <1>1 DEF Failure, Blank, Message
<1> QED
  BY <1>2, <1>3

LEMMA MessageType ==
  ASSUME NEW m \in Message
  PROVE  /\ m.text \in Seq(Piece)
         /\ m.error \in BOOLEAN
         /\ \A i \in Item : m.reasoning[i] \in Seq(Kinds)
BY DEF Message

LEMMA ResponseType ==
  ASSUME MaxText \in Nat
  PROVE  /\ NoResponse \in Response
         /\ \A r \in Response :
              /\ r.valid \in BOOLEAN
              /\ r.text \in Seq(Piece)
              /\ r.reasoning \in [Item -> [Kinds -> Nat]]
<1>1. <<>> \in BoundedSeq(Piece, MaxText)
  <2>1. <<>> \in [1 .. 0 -> Piece]
    OBVIOUS
  <2> QED
    BY <2>1 DEF BoundedSeq, SeqOf
<1>2. NoResponse \in Response
  BY <1>1 DEF NoResponse, Response, None
<1>3. \A t \in BoundedSeq(Piece, MaxText) : t \in Seq(Piece)
  BY DEF BoundedSeq, SeqOf
<1>4. \A r \in Response :
        /\ r.valid \in BOOLEAN
        /\ r.text \in Seq(Piece)
        /\ r.reasoning \in [Item -> [Kinds -> Nat]]
  BY <1>3 DEF Response
<1> QED
  BY <1>2, <1>4

LEMMA PipeType == AnswerTypeOK => InPipe \in Message /\ (pipe # <<>> => pipe = <<InPipe>>)
<1> SUFFICES ASSUME AnswerTypeOK
             PROVE InPipe \in Message /\ (pipe # <<>> => pipe = <<InPipe>>)
  OBVIOUS
<1>1. CASE pipe = <<>>
  BY <1>1, BlankType DEF InPipe
<1>2. CASE pipe # <<>>
  <2>1. pipe \in Seq(Message) /\ Len(pipe) <= 1
    BY DEF AnswerTypeOK
  <2>2. Len(pipe) = 1
    <3>1. Len(pipe) \in Nat /\ Len(pipe) <= 1
      BY <2>1, LenProperties
    <3>2. Len(pipe) # 0
      BY <1>2, <2>1, EmptySeq
    <3> QED
      BY <3>1, <3>2
  <2>3. pipe[1] \in Message
    <3>1. 1 \in 1 .. Len(pipe)
      BY <2>2
    <3> QED
      BY <2>1, <3>1, ElementOfSeq
  <2>4. InPipe = pipe[1]
    BY <1>2 DEF InPipe
  <2>5. pipe = <<pipe[1]>>
    BY <2>1, <2>2, SeqEqual
  <2> QED
    BY <2>3, <2>4, <2>5
<1> QED
  BY <1>1, <1>2

\* The channel as a whole: everything in it has its type.
LEMMA SentType ==
  ASSUME AnswerTypeOK
  PROVE  /\ SentText \in Seq(Piece)
         /\ \A i \in Item : SentReasoning(i) \in Seq(Kinds)
BY PipeType, MessageType, ConcatProperties
   DEF SentText, SentReasoning, AnswerTypeOK

-----------------------------------------------------------------------------
(***************************************************************************)
(* The type invariant                                                      *)
(***************************************************************************)

LEMMA TypeInit == MaxText \in Nat /\ AnswerInit => AnswerTypeOK
<1> SUFFICES ASSUME MaxText \in Nat, AnswerInit PROVE AnswerTypeOK
  OBVIOUS
<1>1. Unshown \in [Item -> [kind : Kinds \cup {"none"}, text : Seq(Kinds)]]
  BY DEF Unshown
<1>2. [text |-> <<>>, reasoning |-> None]
        \in [text : Seq(Piece), reasoning : [Item -> [Kinds -> Nat]]]
  BY DEF None
<1>3. /\ text \in Seq(Piece)
      /\ pipe \in Seq(Message) /\ Len(pipe) <= 1
  BY DEF AnswerInit
<1>4. final \in Response /\ received \in Message /\ outbox \in Message
  BY BlankType, ResponseType DEF AnswerInit
<1> QED
  BY <1>1, <1>2, <1>3, <1>4 DEF AnswerInit, AnswerTypeOK

LEMMA TextDeltaType ==
  ASSUME AnswerTypeOK, NEW p \in Piece, TextDelta(p) PROVE AnswerTypeOK'
<1>1. [Blank EXCEPT !.text = <<p>>] \in Message
  <2>1. <<p>> \in Seq(Piece) /\ <<>> \in Seq(Kinds)
    OBVIOUS
  <2> QED
    BY <2>1 DEF Message, Blank
<1>2. Append(text, p) \in Seq(Piece)
  BY DEF AnswerTypeOK
<1>3. streamed' \in [text : Seq(Piece), reasoning : [Item -> [Kinds -> Nat]]]
  BY AppendProperties DEF AnswerTypeOK, TextDelta
<1> QED
  BY <1>1, <1>2, <1>3 DEF AnswerTypeOK, TextDelta, Sends

LEMMA ReasoningDeltaType ==
  ASSUME AnswerTypeOK, NEW i \in Item, NEW k \in Kinds, ReasoningDelta(i, k)
  PROVE  AnswerTypeOK'
<1>1. [Blank EXCEPT !.reasoning[i] = <<k>>] \in Message
  <2>1. <<k>> \in Seq(Kinds) /\ <<>> \in Seq(Piece) /\ <<>> \in Seq(Kinds)
    OBVIOUS
  <2>2. [Blank.reasoning EXCEPT ![i] = <<k>>] \in [Item -> Seq(Kinds)]
    BY <2>1 DEF Blank
  <2> QED
    BY <2>1, <2>2 DEF Message, Blank
<1>2. streamed' \in [text : Seq(Piece), reasoning : [Item -> [Kinds -> Nat]]]
  <2>1. streamed.reasoning[i][k] + 1 \in Nat
    BY DEF AnswerTypeOK
  <2>2. [streamed.reasoning EXCEPT ![i][k] = @ + 1] \in [Item -> [Kinds -> Nat]]
    BY <2>1 DEF AnswerTypeOK
  <2> QED
    BY <2>2 DEF AnswerTypeOK, ReasoningDelta
<1>3. CASE progress[i].kind \in {"none", k}
  <2>1. Append(progress[i].text, k) \in Seq(Kinds)
    BY AppendProperties DEF AnswerTypeOK
  <2>2. progress' \in [Item -> [kind : Kinds \cup {"none"}, text : Seq(Kinds)]]
    <3>1. [kind |-> k, text |-> Append(progress[i].text, k)]
            \in [kind : Kinds \cup {"none"}, text : Seq(Kinds)]
      BY <2>1
    <3>2. progress' = [progress EXCEPT ![i] =
                        [kind |-> k, text |-> Append(progress[i].text, k)]]
      BY <1>3 DEF ReasoningDelta, AnswerTypeOK
    <3> QED
      BY <3>1, <3>2 DEF AnswerTypeOK
  <2> QED
    BY <1>1, <1>2, <1>3, <2>2 DEF AnswerTypeOK, ReasoningDelta, Sends
<1>4. CASE progress[i].kind \notin {"none", k}
  BY <1>2, <1>4 DEF AnswerTypeOK, ReasoningDelta
<1> QED
  BY <1>3, <1>4

LEMMA VisibleType ==
  ASSUME NEW r \in [Kinds -> Nat], NEW preferred
  PROVE  \E k \in Kinds : VisibleReasoning(r, preferred) = Pieces(k, r[k])
BY DEF VisibleReasoning, Kinds

\* The rest of the reasoning of an item, after what has been shown of it, is
\* all of a representation of the response; or nothing is left to show.
LEMMA RestOfReasoningType ==
  ASSUME AnswerTypeOK, MaxText \in Nat, NEW r \in Response, NEW i \in Item
  PROVE  /\ RestOfReasoning(r, i) \in Seq(Kinds)
         /\ \/ \E k \in Kinds : progress[i].text \o RestOfReasoning(r, i)
                                  = Pieces(k, r.reasoning[i][k])
            \/ /\ RestOfReasoning(r, i) = <<>>
               /\ progress[i].text # <<>>
<1> DEFINE shown == progress[i]
           preferred == IF shown.kind = "none" THEN "summary" ELSE shown.kind
           visible == VisibleReasoning(r.reasoning[i], preferred)
<1>1. r.reasoning[i] \in [Kinds -> Nat]
  BY ResponseType
<1>2. PICK k \in Kinds : visible = Pieces(k, r.reasoning[i][k])
  BY <1>1, VisibleType
<1>3. visible \in Seq(Kinds)
  BY <1>1, <1>2, PiecesProperties
<1>4. shown.text \in Seq(Kinds)
  BY DEF AnswerTypeOK
<1>5. CASE IsPrefix(shown.text, visible)
  <2>1. RestOfReasoning(r, i) = Without(shown.text, visible)
    BY <1>5 DEF RestOfReasoning
  <2> HIDE DEF shown, visible
  <2>2. /\ shown.text \o Without(shown.text, visible) = visible
        /\ Without(shown.text, visible) \in Seq(Kinds)
    BY <1>3, <1>4, <1>5, RestOfPrefix
  <2> QED
    BY <1>2, <2>1, <2>2 DEF shown
<1>6. CASE ~ IsPrefix(shown.text, visible)
  <2>1. RestOfReasoning(r, i) = <<>>
    BY <1>6 DEF RestOfReasoning
  <2>2. shown.text # <<>>
    <3> HIDE DEF shown, visible
    <3>1. SUFFICES ASSUME shown.text = <<>> PROVE FALSE
      OBVIOUS
    <3>2. Len(shown.text) = 0 /\ Len(visible) \in Nat
      BY <3>1, <1>3, LenProperties
    <3>3. SubSeq(shown.text, 1, 0) = <<>> /\ SubSeq(visible, 1, 0) = <<>>
      BY SubSeqEmpty
    <3> QED
      BY <1>6, <3>2, <3>3 DEF IsPrefix
  <2> QED
    BY <2>1, <2>2
<1> QED
  BY <1>5, <1>6

LEMMA CompletedType ==
  ASSUME AnswerTypeOK, MaxText \in Nat, NEW r \in Response, Completed(r) PROVE AnswerTypeOK'
<1>1. CASE r.valid /\ IsPrefix(text, r.text)
  <2>1. Without(text, r.text) \in Seq(Piece)
    BY <1>1, ResponseType, RestOfPrefix DEF AnswerTypeOK
  <2>2. Rest(r) \in Message
    BY <2>1, RestOfReasoningType DEF Rest, Message
  <2> QED
    BY <1>1, <2>2 DEF AnswerTypeOK, Completed, Sends
<1>2. CASE ~ (r.valid /\ IsPrefix(text, r.text))
  BY <1>2, BlankType DEF AnswerTypeOK, Completed, Fails
<1> QED
  BY <1>1, <1>2

LEMMA SendType == ASSUME AnswerTypeOK, Send PROVE AnswerTypeOK'
<1>1. <<outbox>> \in Seq(Message) /\ Len(<<outbox>>) = 1
  BY DEF AnswerTypeOK
<1>2. pipe' \in Seq(Message) /\ Len(pipe') <= 1
  BY <1>1 DEF AnswerTypeOK, Send
<1> QED
  BY <1>2, BlankType DEF AnswerTypeOK, Send

LEMMA ReceiveType == ASSUME AnswerTypeOK, Receive PROVE AnswerTypeOK'
<1>1. pipe' \in Seq(Message) /\ Len(pipe') <= 1
  <2>1. <<>> \in Seq(Message) /\ Len(<<>>) <= 1
    OBVIOUS
  <2>2. pipe' = <<>> \/ pipe' = pipe
    BY DEF Receive
  <2> QED
    BY <2>1, <2>2 DEF AnswerTypeOK
<1>2. received' \in Message
  <2>1. CASE pipe # <<>> /\ ~ Head(pipe).error
    <3>1. Head(pipe) \in Message
      BY <2>1, PipeType DEF InPipe
    <3>2. Joined(received, Head(pipe)) \in Message
      BY <3>1, MessageType, ConcatProperties DEF Joined, Message, AnswerTypeOK
    <3> QED
      BY <2>1, <3>2 DEF Receive
  <2>2. CASE ~ (pipe # <<>> /\ ~ Head(pipe).error)
    BY <2>2 DEF Receive, AnswerTypeOK
  <2> QED
    BY <2>1, <2>2
<1> QED
  BY <1>1, <1>2 DEF AnswerTypeOK, Receive

LEMMA TypeStep == MaxText \in Nat /\ AnswerTypeOK /\ [AnswerNext]_answer => AnswerTypeOK'
<1> SUFFICES ASSUME MaxText \in Nat, AnswerTypeOK, [AnswerNext]_answer PROVE AnswerTypeOK'
  OBVIOUS
<1>1. CASE \E p \in Piece : TextDelta(p)
  BY <1>1, TextDeltaType
<1>2. CASE \E i \in Item, k \in Kinds : ReasoningDelta(i, k)
  BY <1>2, ReasoningDeltaType
<1>3. CASE \E r \in Response : Completed(r)
  BY <1>3, CompletedType
<1>4. CASE ReadFails
  BY <1>4, BlankType DEF ReadFails, Fails, AnswerTypeOK
<1>5. CASE Send
  BY <1>5, SendType
<1>6. CASE CloseReader
  <2>1. Unshown \in [Item -> [kind : Kinds \cup {"none"}, text : Seq(Kinds)]]
    BY DEF Unshown
  <2> QED
    BY <1>6, <2>1 DEF CloseReader, AnswerTypeOK
<1>7. CASE Stream \/ RequestFails \/ Connect \/ ConnectFails \/ Close
  BY <1>7 DEF Stream, RequestFails, Connect, ConnectFails, Close, AnswerTypeOK,
     goroutines
<1>8. CASE Receive
  BY <1>8, ReceiveType
<1>9. CASE CloseUpstream \/ CloseSource
  BY <1>9 DEF CloseUpstream, CloseSource, AnswerTypeOK
<1>10. CASE UNCHANGED answer
  BY <1>10 DEF answer, goroutines, AnswerTypeOK
<1> QED
  BY <1>1, <1>2, <1>3, <1>4, <1>5, <1>6, <1>7, <1>8, <1>9, <1>10
     DEF AnswerNext, ReaderStep, ConsumerStep, BridgeStep

-----------------------------------------------------------------------------
(***************************************************************************)
(* The answer                                                              *)
(***************************************************************************)

\* What is sent next comes after all that was sent.
LEMMA SendsNext ==
  ASSUME AnswerTypeOK, outbox = Blank, NEW m \in Message, outbox' = m,
         UNCHANGED <<received, pipe>>
  PROVE  /\ SentText' = SentText \o m.text
         /\ \A i \in Item : SentReasoning(i)' = SentReasoning(i) \o m.reasoning[i]
<1>1. InPipe' = InPipe /\ InPipe \in Message
  BY PipeType DEF InPipe
<1>2. outbox.text = <<>> /\ \A i \in Item : outbox.reasoning[i] = <<>>
  BY DEF Blank
<1>3. received \in Message
  BY DEF AnswerTypeOK
<1>4. SentText' = SentText \o m.text
  <2> DEFINE r == received.text
             p == InPipe.text
             o == m.text
  <2>1. SentText = r \o (p \o <<>>) /\ SentText' = r \o (p \o o)
    BY <1>1, <1>2 DEF SentText
  <2>2. r \in Seq(Piece) /\ p \in Seq(Piece) /\ o \in Seq(Piece)
    BY <1>1, <1>3, MessageType
  <2> HIDE DEF r, p, o
  <2>3. r \o (p \o o) = (r \o (p \o <<>>)) \o o
    <3>1. \A a, b, c \in Seq(Piece) : a \o (b \o c) = (a \o (b \o <<>>)) \o c
      BY Through
    <3> QED
      BY <2>2, <3>1
  <2> QED
    BY <2>1, <2>3 DEF o
<1>5. ASSUME NEW i \in Item
      PROVE  SentReasoning(i)' = SentReasoning(i) \o m.reasoning[i]
  <2> DEFINE r == received.reasoning[i]
             p == InPipe.reasoning[i]
             o == m.reasoning[i]
  <2>1. SentReasoning(i) = r \o (p \o <<>>) /\ SentReasoning(i)' = r \o (p \o o)
    BY <1>1, <1>2 DEF SentReasoning
  <2>2. r \in Seq(Kinds) /\ p \in Seq(Kinds) /\ o \in Seq(Kinds)
    BY <1>1, <1>3, MessageType
  <2> HIDE DEF r, p, o
  <2>3. r \o (p \o o) = (r \o (p \o <<>>)) \o o
    <3>1. \A a, b, c \in Seq(Kinds) : a \o (b \o c) = (a \o (b \o <<>>)) \o c
      BY Through
    <3> QED
      BY <2>2, <3>1, Zenon
  <2> QED
    BY <2>1, <2>3 DEF o
<1> QED
  BY <1>4, <1>5

\* While the goroutine reads on, all that was streamed and shown is sent.
LEMMA ReadingSent ==
  ASSUME AnswerInv, reader = "reading", ~ dropped
  PROVE  /\ SentText = text
         /\ \A i \in Item : SentReasoning(i) = progress[i].text
BY DEF AnswerInv, Sending, Sent

LEMMA AnswerKept ==
  ASSUME AnswerInv, reader # "ended", UNCHANGED outcome
  PROVE  AnswerIsWhole'
BY DEF AnswerInv, Places, AnswerIsWhole

LEMMA TextDeltaStep ==
  ASSUME AnswerInv, NEW p \in Piece, TextDelta(p), AnswerTypeOK' PROVE AnswerInv'
<1> USE DEF AnswerInv
<1> DEFINE m == [Blank EXCEPT !.text = <<p>>]
<1>1. /\ outbox = Blank /\ outbox' = m /\ reader = "reading"
      /\ reader' = "sending" /\ final = NoResponse
      /\ UNCHANGED <<consumer, outcome, received, pipe, progress, ended, dropped,
                     bridge, final>>
  BY DEF TextDelta, Sends, Sending
<1>2. m.text = <<p>> /\ m.reasoning = Blank.reasoning /\ m.error = FALSE
  BY DEF Blank
<1>3. m \in Message
  BY <1>1 DEF AnswerTypeOK
<1>4. InPipe' = InPipe
  BY <1>1 DEF InPipe
<1>5. Places' /\ Sending'
  BY <1>1, <1>2, <1>4 DEF Places, Sending
<1>6. Shown'
  <2>1. streamed'.reasoning = streamed.reasoning
    BY DEF TextDelta, AnswerTypeOK
  <2> QED
    BY <1>1, <2>1 DEF Shown
<1>7. Sent'
  <2> SUFFICES ASSUME ~ dropped
               PROVE  /\ SentText' = text'
                      /\ \A i \in Item : SentReasoning(i)' = progress'[i].text
    BY <1>1 DEF Sent
  <2>1. SentText' = text'
    <3>1. SentText' = text \o <<p>>
      BY <1>1, <1>2, <1>3, SendsNext, ReadingSent
    <3>2. text' = text \o <<p>>
      BY AppendIsConcat DEF TextDelta, AnswerTypeOK
    <3> QED
      BY <3>1, <3>2
  <2>2. ASSUME NEW i \in Item PROVE SentReasoning(i)' = progress'[i].text
    <3>1. SentReasoning(i)' = progress[i].text \o <<>>
      BY <1>1, <1>2, <1>3, SendsNext, ReadingSent DEF Blank
    <3>2. progress[i].text \in Seq(Kinds)
      BY DEF AnswerTypeOK
    <3> QED
      BY <1>1, <3>1, <3>2, ConcatEmptySeq
  <2> QED
    BY <2>1, <2>2
<1> QED
  BY <1>1, <1>5, <1>6, <1>7, AnswerKept

LEMMA ReasoningDeltaStep ==
  ASSUME AnswerInv, NEW i \in Item, NEW k \in Kinds, ReasoningDelta(i, k), AnswerTypeOK'
  PROVE  AnswerInv'
<1> USE DEF AnswerInv
<1>1. /\ outbox = Blank /\ reader = "reading" /\ final = NoResponse
      /\ UNCHANGED <<consumer, outcome, received, pipe, text, ended, dropped,
                     bridge, final>>
  BY DEF ReasoningDelta, Sending
<1>2. InPipe' = InPipe
  BY <1>1 DEF InPipe
<1>3. /\ streamed'.reasoning[i][k] = streamed.reasoning[i][k] + 1
      /\ \A j \in Item, l \in Kinds :
           j # i \/ l # k => streamed'.reasoning[j][l] = streamed.reasoning[j][l]
  BY DEF ReasoningDelta, AnswerTypeOK
<1>4. CASE progress[i].kind \in {"none", k}
  <2> DEFINE m == [Blank EXCEPT !.reasoning[i] = <<k>>]
  <2>1. /\ outbox' = m /\ reader' = "sending"
        /\ progress' = [progress EXCEPT ![i] =
                         [kind |-> k, text |-> Append(@.text, k)]]
    BY <1>4 DEF ReasoningDelta, Sends
  <2>2. /\ m.text = <<>> /\ m.error = FALSE /\ m.reasoning[i] = <<k>>
        /\ \A j \in Item : j # i => m.reasoning[j] = <<>>
    BY DEF Blank
  <2>3. m \in Message
    BY <2>1 DEF AnswerTypeOK
  <2> HIDE DEF m
  <2>4. Places' /\ Sending'
    BY <1>1, <1>2, <2>1, <2>2 DEF Places, Sending
  <2>5. progress[i].text = Pieces(k, streamed.reasoning[i][k])
    <3>1. CASE progress[i].kind = k
      BY <1>1, <3>1 DEF Shown, Kinds
    <3>2. CASE progress[i].kind = "none"
      BY <1>1, <3>2, PiecesProperties DEF Shown
    <3> QED
      BY <1>4, <3>1, <3>2
  <2>6. progress[i].text \in Seq(Kinds) /\ streamed.reasoning[i][k] \in Nat
    BY DEF AnswerTypeOK
  <2>7. /\ progress'[i].kind = k
        /\ progress'[i].text = Pieces(k, streamed'.reasoning[i][k])
        /\ progress'[i].text = progress[i].text \o <<k>>
    <3>1. progress'[i] = [kind |-> k, text |-> Append(progress[i].text, k)]
      BY <2>1 DEF AnswerTypeOK
    <3>2. Append(progress[i].text, k) = progress[i].text \o <<k>>
      BY <2>6, AppendIsConcat
    <3>3. Append(Pieces(k, streamed.reasoning[i][k]), k)
            = Pieces(k, streamed.reasoning[i][k] + 1)
      BY <2>6, PiecesProperties
    <3>4. progress'[i].kind = k /\ progress'[i].text = Append(progress[i].text, k)
      BY <3>1
    <3>5. Append(progress[i].text, k) = Pieces(k, streamed'.reasoning[i][k])
      BY <3>3, <2>5, <1>3
    <3> QED
      BY <3>2, <3>4, <3>5
  <2>8. \A j \in Item : j # i => progress'[j] = progress[j]
    BY <2>1 DEF AnswerTypeOK
  <2>9. Shown'
    <3>1. k # "none"
      BY DEF Kinds
    <3>2. ASSUME NEW j \in Item, j # i
          PROVE  \A l \in Kinds :
                   streamed'.reasoning[j][l] = streamed.reasoning[j][l]
      BY <1>3, <3>2
    <3>3. \A j \in Item : progress[j].kind \in Kinds \cup {"none"}
      BY DEF AnswerTypeOK
    <3>4. ASSUME NEW j \in Item, j # i
          PROVE  /\ progress'[j].kind # "none" =>
                      progress'[j].text = Pieces(progress'[j].kind,
                        streamed'.reasoning[j][progress'[j].kind])
                 /\ progress'[j].kind = "none" =>
                      /\ progress'[j].text = <<>>
                      /\ \A l \in Kinds : streamed'.reasoning[j][l] = 0
      <4>1. progress'[j] = progress[j]
        BY <2>8, <3>4
      <4>2. CASE progress[j].kind = "none"
        BY <1>1, <3>2, <3>4, <4>1, <4>2 DEF Shown
      <4>3. CASE progress[j].kind # "none"
        <5>1. progress[j].kind \in Kinds
          BY <3>3, <4>3
        <5>2. streamed'.reasoning[j][progress[j].kind]
                = streamed.reasoning[j][progress[j].kind]
          BY <3>2, <3>4, <5>1
        <5>3. progress[j].text = Pieces(progress[j].kind,
                                   streamed.reasoning[j][progress[j].kind])
          BY <1>1, <4>3 DEF Shown
        <5> QED
          BY <4>1, <4>3, <5>2, <5>3
      <4> QED
        BY <4>2, <4>3
    <3> QED
      BY <2>7, <3>1, <3>4 DEF Shown
  <2>10. Sent'
    <3> SUFFICES ASSUME ~ dropped
                 PROVE  /\ SentText' = text'
                        /\ \A j \in Item : SentReasoning(j)' = progress'[j].text
      BY <1>1, <2>1 DEF Sent
    <3>1. SentText' = text'
      <4>1. SentText' = text \o <<>>
        BY <1>1, <2>1, <2>2, <2>3, SendsNext, ReadingSent
      <4>2. text \in Seq(Piece)
        BY DEF AnswerTypeOK
      <4> QED
        BY <1>1, <4>1, <4>2, ConcatEmptySeq
    <3>2. ASSUME NEW j \in Item PROVE SentReasoning(j)' = progress'[j].text
      <4>1. SentReasoning(j)' = progress[j].text \o m.reasoning[j]
        BY <1>1, <2>1, <2>3, SendsNext, ReadingSent
      <4>2. progress[j].text \in Seq(Kinds)
        BY DEF AnswerTypeOK
      <4>3. CASE j = i
        BY <4>1, <4>3, <2>2, <2>7
      <4>4. CASE j # i
        BY <4>1, <4>2, <4>4, <2>2, <2>8, ConcatEmptySeq
      <4> QED
        BY <4>3, <4>4
    <3> QED
      BY <3>1, <3>2
  <2> QED
    BY <1>1, <2>4, <2>9, <2>10, AnswerKept
<1>5. CASE progress[i].kind \notin {"none", k}
  <2>1. UNCHANGED <<progress, outbox, reader>>
    BY <1>5 DEF ReasoningDelta
  <2>2. Places' /\ Sending'
    BY <1>1, <1>2, <2>1 DEF Places, Sending
  <2>3. Shown'
    <3>1. \A j \in Item : progress[j].kind \in Kinds \cup {"none"}
      BY DEF AnswerTypeOK
    <3> QED
      BY <1>1, <1>3, <1>5, <2>1, <3>1 DEF Shown
  <2>4. SentText' = SentText /\ \A j \in Item : SentReasoning(j)' = SentReasoning(j)
    BY <1>1, <1>2, <2>1 DEF SentText, SentReasoning
  <2>5. Sent'
    BY <1>1, <1>2, <2>1, <2>4 DEF Sent
  <2> QED
    BY <1>1, <2>2, <2>3, <2>5, AnswerKept
<1> QED
  BY <1>4, <1>5

\* An error adds nothing.
LEMMA FailsStep ==
  ASSUME AnswerInv, AnswerTypeOK', reader = "reading", Fails,
         UNCHANGED <<consumer, outcome, received, pipe, text, progress, ended,
                     dropped, bridge, streamed, final>>
  PROVE  AnswerInv'
<1> USE DEF AnswerInv
<1>1. outbox = Blank /\ outbox' = Failure /\ reader' = "failing"
  BY DEF Fails, Sending
<1>2. InPipe' = InPipe
  BY DEF InPipe
<1>3. Failure.text = <<>> /\ \A i \in Item : Failure.reasoning[i] = <<>>
  BY DEF Failure, Blank
<1>4. Places' /\ Sending'
  BY <1>1, <1>2 DEF Places, Sending
<1>5. Shown'
  BY <1>1 DEF Shown
<1>6. SentText' = SentText /\ \A i \in Item : SentReasoning(i)' = SentReasoning(i)
  BY <1>1, <1>2, <1>3, Zenon DEF SentText, SentReasoning, Blank
<1>7. Sent'
  BY <1>1, <1>6 DEF Sent, Sending
<1> QED
  BY <1>1, <1>4, <1>5, <1>7, AnswerKept

\* The last message makes what was sent the whole response.
LEMMA CompletedStep ==
  ASSUME AnswerInv, MaxText \in Nat, NEW r \in Response, Completed(r), AnswerTypeOK'
  PROVE  AnswerInv'
<1> USE DEF AnswerInv
<1>1. /\ outbox = Blank /\ reader = "reading" /\ final = NoResponse
      /\ UNCHANGED <<consumer, outcome, received, pipe, text, progress, ended,
                     dropped, bridge, streamed>>
  BY DEF Completed, Sending
<1>2. InPipe' = InPipe
  BY <1>1 DEF InPipe
<1>3. CASE r.valid /\ IsPrefix(text, r.text)
  <2>1. outbox' = Rest(r) /\ reader' = "sending" /\ final' = r
    BY <1>3 DEF Completed, Sends
  <2>2. /\ Rest(r) \in Message
        /\ Rest(r).error = FALSE
        /\ Rest(r).text = Without(text, r.text)
        /\ \A i \in Item : Rest(r).reasoning[i] = RestOfReasoning(r, i)
    BY <2>1 DEF Rest, AnswerTypeOK
  <2>3. final' # NoResponse /\ final'.valid
    BY <1>3, <2>1 DEF NoResponse
  <2>4. Places' /\ Sending'
    BY <1>1, <1>2, <2>1, <2>2, <2>3 DEF Places, Sending
  <2>5. Shown'
    BY <1>1, <2>1 DEF Shown
  <2>6. Sent'
    <3> SUFFICES ASSUME ~ dropped
                 PROVE  /\ SentText' = final'.text
                        /\ \A i \in Item : WholeReasoning(i, SentReasoning(i))'
      BY <1>1, <2>3 DEF Sent
    <3>1. SentText' = final'.text
      <4>1. text \in Seq(Piece) /\ r.text \in Seq(Piece)
        BY ResponseType DEF AnswerTypeOK
      <4>2. text \o Without(text, r.text) = r.text
        BY <1>3, <4>1, RestOfPrefix
      <4>3. SentText' = text \o Without(text, r.text)
        BY <1>1, <2>1, <2>2, SendsNext, ReadingSent
      <4> QED
        BY <2>1, <4>2, <4>3
    <3>2. ASSUME NEW i \in Item PROVE WholeReasoning(i, SentReasoning(i))'
      <4>1. SentReasoning(i)' = progress[i].text \o RestOfReasoning(r, i)
        BY <1>1, <2>1, <2>2, SendsNext, ReadingSent
      <4>2. CASE \E k \in Kinds : progress[i].text \o RestOfReasoning(r, i)
                                  = Pieces(k, r.reasoning[i][k])
        BY <2>1, <4>1, <4>2 DEF WholeReasoning
      <4>3. CASE RestOfReasoning(r, i) = <<>> /\ progress[i].text # <<>>
        <5>1. progress[i].text \in Seq(Kinds)
              /\ progress[i].kind \in Kinds \cup {"none"}
          BY DEF AnswerTypeOK
        <5>2. SentReasoning(i)' = progress[i].text
          BY <4>1, <4>3, <5>1, ConcatEmptySeq
        <5>3. progress[i].kind \in Kinds
          BY <1>1, <4>3, <5>1 DEF Shown
        <5>4. progress[i].text =
                Pieces(progress[i].kind, streamed.reasoning[i][progress[i].kind])
          BY <1>1, <5>3 DEF Shown, Kinds
        <5> QED
          BY <1>1, <5>2, <5>3, <5>4 DEF WholeReasoning
      <4> QED
        BY <4>2, <4>3, RestOfReasoningType
    <3> QED
      BY <3>1, <3>2
  <2> QED
    BY <1>1, <2>4, <2>5, <2>6, AnswerKept
<1>4. CASE ~ (r.valid /\ IsPrefix(text, r.text))
  <2>1. Fails /\ final' = final
    BY <1>4 DEF Completed
  <2> QED
    BY <1>1, <2>1, FailsStep
<1> QED
  BY <1>3, <1>4

LEMMA SendStep == ASSUME AnswerInv, Send, AnswerTypeOK' PROVE AnswerInv'
<1> USE DEF AnswerInv
<1>1. /\ reader \in {"sending", "failing"}
      /\ outbox' = Blank
      /\ UNCHANGED <<consumer, outcome, received, text, progress, ended, dropped,
                     bridge, streamed, final>>
  BY DEF Send
<1>2. reader' \in {"reading", "closing"}
  BY DEF Send
<1>3. InPipe \in Message /\ outbox \in Message
  BY PipeType DEF AnswerTypeOK
<1>4. outbox.error => outbox = Failure
  BY <1>1 DEF Sending
<1>5. InPipe' = IF dropped THEN InPipe ELSE outbox
  BY DEF Send, InPipe
<1>6. reader' = "reading" => final = NoResponse
  BY DEF Send
<1>7. Places' /\ Sending'
  BY <1>1, <1>2, <1>4, <1>5, <1>6 DEF Places, Sending
<1>8. Shown'
  BY <1>1, <1>2 DEF Shown
<1>9. Sent'
  <2> SUFFICES ASSUME ~ dropped PROVE Sent'
    BY <1>1 DEF Sent
  <2>1. InPipe = Blank /\ InPipe' = outbox
    BY <1>5 DEF Send, InPipe
  <2>2. SentText' = SentText
    <3>1. /\ received.text \in Seq(Piece) /\ outbox.text \in Seq(Piece)
      BY <1>3, MessageType DEF AnswerTypeOK
    <3>2. <<>> \o outbox.text = outbox.text /\ outbox.text \o <<>> = outbox.text
      BY <3>1, ConcatEmptySeq
    <3>3. SentText = received.text \o (<<>> \o outbox.text)
      BY <2>1 DEF SentText, Blank
    <3>4. SentText' = received.text \o (outbox.text \o <<>>)
      BY <1>1, <2>1 DEF SentText, Blank
    <3> QED
      BY <3>2, <3>3, <3>4, Zenon
  <2>3. ASSUME NEW i \in Item PROVE SentReasoning(i)' = SentReasoning(i)
    <3>1. outbox.reasoning[i] \in Seq(Kinds)
      BY <1>3, MessageType
    <3>2. /\ <<>> \o outbox.reasoning[i] = outbox.reasoning[i]
          /\ outbox.reasoning[i] \o <<>> = outbox.reasoning[i]
      BY <3>1, ConcatEmptySeq
    <3>3. SentReasoning(i) = received.reasoning[i] \o (<<>> \o outbox.reasoning[i])
      BY <2>1 DEF SentReasoning, Blank
    <3>4. SentReasoning(i)' = received.reasoning[i] \o (outbox.reasoning[i] \o <<>>)
      BY <1>1, <2>1 DEF SentReasoning, Blank
    <3> QED
      BY <3>2, <3>3, <3>4, Zenon
  <2>4. CASE final # NoResponse
    <3>1. \A i \in Item : WholeReasoning(i, SentReasoning(i))'
      BY <1>1, <2>3, <2>4 DEF Sent, WholeReasoning
    <3> QED
      BY <1>1, <2>2, <2>4, <3>1 DEF Sent
  <2>5. CASE final = NoResponse /\ reader = "sending"
    <3>1. reader' = "reading"
      BY <2>5 DEF Send
    <3> QED
      BY <1>1, <2>2, <2>3, <2>5, <3>1 DEF Sent
  <2>6. CASE final = NoResponse /\ reader = "failing"
    <3>1. reader' = "closing" /\ InPipe'.error
      BY <2>1, <2>6 DEF Send, Sending, Failure, Blank
    <3> QED
      BY <1>1, <2>6, <3>1 DEF Sent
  <2> QED
    BY <1>1, <2>4, <2>5, <2>6
<1> QED
  BY <1>1, <1>7, <1>8, <1>9, AnswerKept

LEMMA CloseReaderStep == ASSUME AnswerInv, CloseReader, AnswerTypeOK' PROVE AnswerInv'
<1> USE DEF AnswerInv
<1>1. /\ reader = "closing" /\ reader' = "ended"
      /\ UNCHANGED <<consumer, outcome, received, outbox, pipe, dropped, bridge,
                     streamed, final>>
  BY DEF CloseReader
<1>2. InPipe' = InPipe
  BY <1>1 DEF InPipe
<1>3. Places' /\ Sending' /\ Shown'
  BY <1>1, <1>2 DEF Places, Sending, Shown
<1>4. SentText' = SentText /\ \A i \in Item : SentReasoning(i)' = SentReasoning(i)
  BY <1>1, <1>2 DEF SentText, SentReasoning
<1>5. \A i \in Item : WholeReasoning(i, SentReasoning(i))'
                        <=> WholeReasoning(i, SentReasoning(i))
  BY <1>1, <1>4 DEF WholeReasoning
<1>6. Sent'
  BY <1>1, <1>2, <1>4, <1>5 DEF Sent
<1> QED
  BY <1>1, <1>3, <1>6, AnswerKept

\* The consumer gets what was sent, in order; and the end only after all of
\* it.
LEMMA ReceiveStep == ASSUME AnswerInv, Receive, AnswerTypeOK' PROVE AnswerInv'
<1> USE DEF AnswerInv
<1>1. /\ consumer = "reading" /\ outcome = "none" /\ ~ dropped
      /\ UNCHANGED <<consumer, reader, text, progress, outbox, ended, dropped,
                     bridge, streamed, final>>
  BY DEF Receive, Places
<1>2. Shown'
  BY <1>1 DEF Shown
<1>3. CASE pipe # <<>> /\ pipe' = <<>>
  <2>1. InPipe = Head(pipe) /\ InPipe' = Blank /\ InPipe \in Message
    BY <1>3, PipeType DEF InPipe
  <2>2. Sending'
    BY <1>1, <2>1 DEF Sending, Blank
  <2>3. CASE InPipe.error
    <3>1. outcome' = "error" /\ received' = received
      BY <1>3, <2>1, <2>3 DEF Receive
    <3>2. InPipe = Failure /\ Failure.text = Blank.text
            /\ Failure.reasoning = Blank.reasoning
      BY <2>3 DEF Sending, Failure, Blank
    <3>3. /\ SentText' = SentText
          /\ \A i \in Item : SentReasoning(i)' = SentReasoning(i)
      BY <1>1, <2>1, <3>1, <3>2 DEF SentText, SentReasoning
    <3>4. \A i \in Item : WholeReasoning(i, SentReasoning(i))'
                            <=> WholeReasoning(i, SentReasoning(i))
      BY <1>1, <3>3 DEF WholeReasoning
    <3>5. Sent'
      BY <1>1, <3>1, <3>3, <3>4 DEF Sent
    <3>6. Places' /\ AnswerIsWhole'
      BY <1>1, <3>1 DEF Places, AnswerIsWhole
    <3> QED
      BY <1>2, <2>2, <3>5, <3>6
  <2>4. CASE ~ InPipe.error
    <3>1. outcome' = outcome /\ received' = Joined(received, InPipe)
      BY <1>3, <2>1, <2>4 DEF Receive
    <3>2. /\ received'.text = received.text \o InPipe.text
          /\ \A i \in Item :
               received'.reasoning[i] = received.reasoning[i] \o InPipe.reasoning[i]
      BY <3>1 DEF Joined
    <3>3. SentText' = SentText
      <4> DEFINE r == received.text
                 p == InPipe.text
                 o == outbox.text
      <4>1. SentText = r \o (p \o o) /\ SentText' = (r \o p) \o (<<>> \o o)
        BY <1>1, <2>1, <3>2 DEF SentText, Blank
      <4>2. r \in Seq(Piece) /\ p \in Seq(Piece) /\ o \in Seq(Piece)
        BY <2>1, MessageType DEF AnswerTypeOK
      <4> HIDE DEF r, p, o
      <4>3. \A a, b, c \in Seq(Piece) : (a \o b) \o (<<>> \o c) = a \o (b \o c)
        BY Through
      <4> QED
        BY <4>1, <4>2, <4>3, Zenon
    <3>4. ASSUME NEW i \in Item PROVE SentReasoning(i)' = SentReasoning(i)
      <4> DEFINE r == received.reasoning[i]
                 p == InPipe.reasoning[i]
                 o == outbox.reasoning[i]
      <4>1. /\ SentReasoning(i) = r \o (p \o o)
            /\ SentReasoning(i)' = (r \o p) \o (<<>> \o o)
        BY <1>1, <2>1, <3>2 DEF SentReasoning, Blank
      <4>2. r \in Seq(Kinds) /\ p \in Seq(Kinds) /\ o \in Seq(Kinds)
        BY <2>1, MessageType DEF AnswerTypeOK
      <4> HIDE DEF r, p, o
      <4>3. \A a, b, c \in Seq(Kinds) : (a \o b) \o (<<>> \o c) = a \o (b \o c)
        BY Through
      <4> QED
        BY <4>1, <4>2, <4>3, Zenon
    <3>5. \A i \in Item : WholeReasoning(i, SentReasoning(i))'
                            <=> WholeReasoning(i, SentReasoning(i))
      BY <1>1, <3>4 DEF WholeReasoning
    <3>6. Sent'
      BY <1>1, <2>4, <3>1, <3>3, <3>4, <3>5 DEF Sent
    <3>7. Places' /\ AnswerIsWhole'
      BY <1>1, <3>1 DEF Places, AnswerIsWhole
    <3> QED
      BY <1>2, <2>2, <3>6, <3>7
  <2> QED
    BY <2>3, <2>4
<1>4. CASE /\ pipe = <<>> /\ ended
           /\ outcome' = "whole"
           /\ UNCHANGED <<pipe, received>>
  <2>1. reader = "ended" /\ InPipe = Blank /\ InPipe' = Blank /\ outbox = Blank
    BY <1>4 DEF Places, Sending, InPipe
  <2>2. final # NoResponse
    BY <1>1, <2>1 DEF Sent, Blank
  <2>3. final.valid /\ SentText = final.text
          /\ \A i \in Item : WholeReasoning(i, SentReasoning(i))
    BY <1>1, <2>2 DEF Sent, Sending
  <2>4. received \in Message
    BY DEF AnswerTypeOK
  <2>5. received.text = SentText
    BY <2>1, <2>4, MessageType, ConcatEmptySeq DEF SentText, Blank
  <2>6. ASSUME NEW i \in Item PROVE received.reasoning[i] = SentReasoning(i)
    <3>1. SentReasoning(i) = received.reasoning[i] \o (<<>> \o <<>>)
      BY <2>1 DEF SentReasoning, Blank
    <3>2. received.reasoning[i] \in Seq(Kinds)
      BY <2>4, MessageType
    <3> QED
      BY <3>1, <3>2, ConcatEmptySeq
  <2>7. AnswerIsWhole'
    BY <1>1, <1>4, <2>3, <2>5, <2>6 DEF AnswerIsWhole, WholeReasoning
  <2>8. /\ SentText' = SentText
        /\ \A i \in Item : SentReasoning(i)' = SentReasoning(i)
    BY <1>1, <1>4, <2>1 DEF SentText, SentReasoning
  <2>9. \A i \in Item : WholeReasoning(i, SentReasoning(i))'
    BY <1>1, <2>3, <2>8 DEF WholeReasoning
  <2>10. Sent'
    BY <1>1, <2>2, <2>3, <2>8, <2>9 DEF Sent
  <2>11. Places' /\ Sending'
    BY <1>1, <1>4, <2>1 DEF Places, Sending
  <2> QED
    BY <1>2, <2>7, <2>10, <2>11
<1> QED
  BY <1>3, <1>4 DEF Receive

\* The other steps leave what is sent alone, and the consumer only goes.
LEMMA QuietStep ==
  ASSUME AnswerInv, AnswerTypeOK',
         UNCHANGED <<received, text, progress, outbox, pipe, ended, streamed,
                     final>>,
         Places', reader' = reader \/ (reader = "none" /\ reader' = "reading"),
         outcome' = outcome \/ outcome' = "error",
         dropped => dropped'
  PROVE  AnswerInv'
<1> USE DEF AnswerInv
<1>1. InPipe' = InPipe
  BY DEF InPipe
<1>2. Sending' /\ Shown'
  BY <1>1 DEF Sending, Shown
<1>3. SentText' = SentText /\ \A i \in Item : SentReasoning(i)' = SentReasoning(i)
  BY <1>1 DEF SentText, SentReasoning
<1>4. \A i \in Item : WholeReasoning(i, SentReasoning(i))'
                        <=> WholeReasoning(i, SentReasoning(i))
  BY <1>3 DEF WholeReasoning
<1>5. Sent'
  BY <1>1, <1>3, <1>4 DEF Sent, AnswerTypeOK
<1>6. AnswerIsWhole'
  BY DEF AnswerIsWhole
<1> QED
  BY <1>2, <1>5, <1>6

LEMMA AnswerInitInv == MaxText \in Nat /\ AnswerInit => AnswerInv
<1> SUFFICES ASSUME MaxText \in Nat, AnswerInit PROVE AnswerInv
  OBVIOUS
<1>1. AnswerTypeOK
  BY TypeInit
<1>2. Places /\ AnswerIsWhole
  BY DEF AnswerInit, Places, AnswerIsWhole
<1>3. InPipe = Blank /\ ~ Blank.error
  BY DEF AnswerInit, InPipe, Blank
<1>4. Sending
  BY <1>3 DEF AnswerInit, Sending
<1>5. Shown
  BY DEF AnswerInit, Shown, Unshown, None
<1>6. /\ SentText = <<>>
      /\ \A i \in Item : SentReasoning(i) = <<>>
  <2>1. <<>> \o (<<>> \o <<>>) = <<>>
    BY ConcatEmptySeq
  <2> QED
    BY <1>3, <2>1 DEF AnswerInit, SentText, SentReasoning, Blank
<1>7. Sent
  BY <1>6 DEF AnswerInit, Sent, Unshown
<1> QED
  BY <1>1, <1>2, <1>4, <1>5, <1>7 DEF AnswerInv

LEMMA AnswerStepInv == MaxText \in Nat /\ AnswerInv /\ [AnswerNext]_answer => AnswerInv'
<1> SUFFICES ASSUME MaxText \in Nat, AnswerInv, [AnswerNext]_answer PROVE AnswerInv'
  OBVIOUS
<1>1. AnswerTypeOK'
  BY TypeStep DEF AnswerInv
<1>2. CASE \E p \in Piece : TextDelta(p)
  BY <1>1, <1>2, TextDeltaStep
<1>3. CASE \E i \in Item, k \in Kinds : ReasoningDelta(i, k)
  BY <1>1, <1>3, ReasoningDeltaStep
<1>4. CASE \E r \in Response : Completed(r)
  BY <1>1, <1>4, CompletedStep
<1>5. CASE ReadFails
  BY <1>1, <1>5, FailsStep DEF ReadFails
<1>6. CASE Send
  BY <1>1, <1>6, SendStep
<1>7. CASE CloseReader
  BY <1>1, <1>7, CloseReaderStep
<1>8. CASE Receive
  BY <1>1, <1>8, ReceiveStep
<1>9. CASE Stream \/ RequestFails \/ Connect \/ ConnectFails \/ Close
  <2>1. Places'
    BY <1>9 DEF AnswerInv, Places, Stream, RequestFails, Connect, ConnectFails, Close,
       goroutines
  <2>2. /\ UNCHANGED <<received, text, progress, outbox, pipe, ended, streamed,
                       final>>
        /\ reader' = reader \/ (reader = "none" /\ reader' = "reading")
        /\ outcome' = outcome \/ outcome' = "error"
        /\ dropped => dropped'
    BY <1>9 DEF AnswerInv, Places, Stream, RequestFails, Connect, ConnectFails, Close,
       goroutines
  <2> QED
    BY <1>1, <2>1, <2>2, QuietStep
<1>10. CASE CloseUpstream \/ CloseSource
  <2>1. Places'
    BY <1>10 DEF AnswerInv, Places, CloseUpstream, CloseSource
  <2>2. /\ UNCHANGED <<received, text, progress, outbox, pipe, ended, streamed,
                       final>>
        /\ reader' = reader \/ (reader = "none" /\ reader' = "reading")
        /\ outcome' = outcome \/ outcome' = "error"
        /\ dropped => dropped'
    BY <1>10 DEF CloseUpstream, CloseSource
  <2> QED
    BY <1>1, <2>1, <2>2, QuietStep
<1>11. CASE UNCHANGED answer
  <2>1. Places'
    BY <1>11 DEF AnswerInv, Places, answer, goroutines
  <2>2. /\ UNCHANGED <<received, text, progress, outbox, pipe, ended, streamed,
                       final>>
        /\ reader' = reader \/ (reader = "none" /\ reader' = "reading")
        /\ outcome' = outcome \/ outcome' = "error"
        /\ dropped => dropped'
    BY <1>11 DEF answer, goroutines
  <2> QED
    BY <1>1, <2>1, <2>2, QuietStep
<1> QED
  BY <1>2, <1>3, <1>4, <1>5, <1>6, <1>7, <1>8, <1>9, <1>10, <1>11
     DEF AnswerNext, ReaderStep, ConsumerStep, BridgeStep

\* What the service does to an answer is what the stream does, fairness
\* included: it implements the specification of the stream.
THEOREM ServiceAnswers == Spec => AnswerSpec
<1>1. Init => AnswerInit
  BY DEF Init
<1>2. [Next]_vars => [AnswerNext]_answer
  <2>1. CASE Run
    BY <2>1 DEF Run
  <2>2. CASE LookForBrowser
    BY <2>2 DEF LookForBrowser
  <2>3. CASE AnswerRequest
    BY <2>3 DEF AnswerRequest
  <2>4. CASE FetchRequest
    BY <2>4 DEF FetchRequest
  <2>5. CASE UNCHANGED vars
    BY <2>5 DEF vars
  <2> QED
    BY <2>1, <2>2, <2>3, <2>4, <2>5 DEF Next
<1> QED
  BY <1>1, <1>2, PTL DEF Spec, Fairness, AnswerSpec

\* The variables of a stream keep their types.
THEOREM AnswerTypeCorrect == Spec => []AnswerTypeOK
<1>1. AnswerInit => AnswerTypeOK
  BY TypeInit, StreamSizes
<1>2. AnswerTypeOK /\ [AnswerNext]_answer => AnswerTypeOK'
  BY TypeStep, StreamSizes
<1> QED
  BY ServiceAnswers, <1>1, <1>2, PTL DEF AnswerSpec

\* Whatever the provider streams before it completes the response, and
\* however the goroutines and the consumer are scheduled, a consumer that is
\* told the end has received the response: its text exactly, and of each
\* item's reasoning one representation.
THEOREM Answering == Spec => []AnswerIsWhole
<1>1. AnswerInit => AnswerInv
  BY AnswerInitInv, StreamSizes
<1>2. AnswerInv /\ [AnswerNext]_answer => AnswerInv'
  BY AnswerStepInv, StreamSizes
<1>3. AnswerInv => AnswerIsWhole
  BY DEF AnswerInv
<1> QED
  BY ServiceAnswers, <1>1, <1>2, <1>3, PTL DEF AnswerSpec
=============================================================================
