--------------------------- MODULE ResponseStream ---------------------------
(***************************************************************************)
(* One streamed call of the OpenRouter model (openroutermodel): the events *)
(* of the provider are read by a goroutine (readEvents), which sends       *)
(* messages through a pipe of one place; the consumer receives them        *)
(* through a second goroutine (closeAwareStream), which exists only to     *)
(* learn that the consumer closes.                                         *)
(*                                                                         *)
(* schema.Pipe of Eino is external: Send blocks while the pipe is full and *)
(* answers TRUE once the receiving side is closed; Recv gets what is left  *)
(* in the pipe, and then the end.  The provider is external too: it sends  *)
(* what it likes, and may stall for ever or break off.                     *)
(*                                                                         *)
(* Of a piece of reasoning only its representation is kept, so that a text *)
(* of reasoning is a sequence of kinds.                                    *)
(***************************************************************************)
EXTENDS Integers, Sequences, SequencesExt, Functions

CONSTANTS
  Piece,      \* pieces of text
  Item,       \* output items with reasoning
  MaxText,    \* bound: pieces of a completed text, or of one of reasoning
  MaxDeltas   \* bound: deltas of a stream

VARIABLES
  consumer,  \* who called Stream: "idle", "calling", "reading", "closed"
  outcome,   \* what its last Recv said
  received,  \* what its messages add up to
  reader,    \* the goroutine of readEvents
  text,      \* the text it has sent on
  progress,  \* the reasoning it has sent on
  outbox,    \* the message it is sending
  pipe,      \* messages sent and not yet received
  ended,     \* the pipe's writer is closed
  dropped,   \* the pipe's reader is closed
  body,      \* the response's body: "none", "open", "closed"
  bridge,    \* the goroutine of closeAwareStream
  streamed,  \* what the provider has sent as deltas
  final      \* the completed response it has sent

goroutines ==
  <<reader, text, progress, outbox, pipe, ended, dropped, body, bridge>>
answer == <<consumer, outcome, received, goroutines, streamed, final>>

Kinds == {"content", "summary"}

\* n pieces of reasoning of kind k.
Pieces(k, n) == [j \in 1 .. n |-> k]

\* A completed response, with the pieces its items have in each kind.  It is
\* valid when its status, its items and its calls are, and when there is
\* text or a call in it (message).
Response ==
  [valid : BOOLEAN, text : BoundedSeq(Piece, MaxText),
   reasoning : [Item -> [Kinds -> 0 .. MaxText]]]
None == [i \in Item |-> [k \in Kinds |-> 0]]
NoResponse == [valid |-> FALSE, text |-> <<>>, reasoning |-> None]

Message ==
  [text : Seq(Piece), reasoning : [Item -> Seq(Kinds)], error : BOOLEAN]
Blank == [text |-> <<>>, reasoning |-> [i \in Item |-> <<>>], error |-> FALSE]
Failure == [Blank EXCEPT !.error = TRUE]

Unshown == [i \in Item |-> [kind |-> "none", text |-> <<>>]]

AnswerTypeOK ==
  /\ consumer \in {"idle", "calling", "reading", "closed"}
  /\ outcome \in {"none", "whole", "error"}
  /\ received \in Message
  /\ reader \in {"none", "reading", "sending", "failing", "closing", "ended"}
  /\ text \in Seq(Piece)
  /\ progress \in [Item -> [kind : Kinds \cup {"none"}, text : Seq(Kinds)]]
  /\ outbox \in Message
  /\ pipe \in Seq(Message) /\ Len(pipe) <= 1
  /\ ended \in BOOLEAN /\ dropped \in BOOLEAN
  /\ body \in {"none", "open", "closed"}
  /\ bridge \in {"none", "offering", "closing", "ended"}
  /\ streamed \in [text : Seq(Piece), reasoning : [Item -> [Kinds -> Nat]]]
  /\ final \in Response

AnswerInit ==
  /\ consumer = "idle" /\ outcome = "none" /\ received = Blank
  /\ reader = "none" /\ bridge = "none"
  /\ text = <<>>
  /\ progress = Unshown
  /\ outbox = Blank /\ pipe = <<>> /\ ended = FALSE /\ dropped = FALSE
  /\ body = "none"
  /\ streamed = [text |-> <<>>, reasoning |-> None]
  /\ final = NoResponse

-----------------------------------------------------------------------------
(***************************************************************************)
(* Stream                                                                  *)
(***************************************************************************)

\* request: the history and the options are encoded ...
Stream ==
  /\ consumer = "idle"
  /\ consumer' = "calling"
  /\ UNCHANGED <<outcome, received, goroutines, streamed, final>>

\* ... or cannot be: a tool without a name, two tools of one wire name, a
\* call without an id, an option the adapter does not have.
RequestFails ==
  /\ consumer = "idle"
  /\ consumer' = "closed"
  /\ outcome' = "error"
  /\ UNCHANGED <<received, goroutines, streamed, final>>

\* send: the provider answers with a stream, and the goroutines start.
Connect ==
  /\ consumer = "calling"
  /\ consumer' = "reading"
  /\ body' = "open"
  /\ reader' = "reading"
  /\ bridge' = "offering"
  /\ UNCHANGED <<outcome, received, text, progress, outbox, pipe, ended,
                 dropped, streamed, final>>

\* There is no answer, or one that is no stream, whose body send closes.
ConnectFails ==
  /\ consumer = "calling"
  /\ consumer' = "closed"
  /\ outcome' = "error"
  /\ body' \in {"none", "closed"}
  /\ UNCHANGED <<received, reader, text, progress, outbox, pipe, ended,
                 dropped, bridge, streamed, final>>

-----------------------------------------------------------------------------
(***************************************************************************)
(* readEvents.  The decoder may still hold events when the body is closed. *)
(***************************************************************************)

\* The goroutine sends m; afterwards it goes on reading, or closes.
Sends(m) ==
  /\ outbox' = m
  /\ reader' = "sending"

Fails ==
  /\ outbox' = Failure
  /\ reader' = "failing"

\* The deltas so far, counted for the bound.
Deltas ==
  FoldFunction(LAMBDA x, n : n + x["content"] + x["summary"],
               Len(streamed.text), streamed.reasoning)

TextDelta(p) ==
  /\ reader = "reading"
  /\ Deltas < MaxDeltas
  /\ streamed' = [streamed EXCEPT !.text = Append(@, p)]
  /\ text' = Append(text, p)
  /\ Sends([Blank EXCEPT !.text = <<p>>])
  /\ UNCHANGED <<consumer, outcome, received, progress, pipe, ended, dropped,
                 body, bridge, final>>

\* Reasoning of an item is only shown in the representation that came first.
ReasoningDelta(i, k) ==
  /\ reader = "reading"
  /\ Deltas < MaxDeltas
  /\ streamed' = [streamed EXCEPT !.reasoning[i][k] = @ + 1]
  /\ IF progress[i].kind \in {"none", k}
     THEN /\ progress' = [progress EXCEPT ![i] =
                            [kind |-> k, text |-> Append(@.text, k)]]
          /\ Sends([Blank EXCEPT !.reasoning[i] = <<k>>])
     ELSE UNCHANGED <<progress, outbox, reader>>
  /\ UNCHANGED <<consumer, outcome, received, text, pipe, ended, dropped,
                 body, bridge, final>>

\* The preferred representation, or the other one when it is missing; the
\* summary before the content.
VisibleReasoning(r, preferred) ==
  IF r["summary"] = 0 \/ (preferred = "content" /\ r["content"] > 0)
  THEN Pieces("content", r["content"])
  ELSE Pieces("summary", r["summary"])

Without(prefix, s) == SubSeq(s, Len(prefix) + 1, Len(s))

\* What of the reasoning of item i has not been shown.
RestOfReasoning(r, i) ==
  LET shown == progress[i]
      visible == VisibleReasoning(r.reasoning[i],
                   IF shown.kind = "none" THEN "summary" ELSE shown.kind)
  IN IF IsPrefix(shown.text, visible) THEN Without(shown.text, visible) ELSE <<>>

\* A mutant: the completed text is sent whole.
RestAgain(r) ==
  [text |-> r.text, reasoning |-> [i \in Item |-> RestOfReasoning(r, i)],
   error |-> FALSE]

\* The last message: what no delta has brought.
Rest(r) ==
  [text |-> Without(text, r.text),
   reasoning |-> [i \in Item |-> RestOfReasoning(r, i)], error |-> FALSE]

\* A response whose text does not go on from what was streamed is refused.
Completed(r) ==
  /\ reader = "reading"
  /\ IF r.valid /\ IsPrefix(text, r.text)
     THEN final' = r /\ Sends(Rest(r))
     ELSE final' = final /\ Fails
  /\ UNCHANGED <<consumer, outcome, received, text, progress, pipe, ended,
                 dropped, body, bridge, streamed>>

\* The provider reports a failure, an event cannot be decoded, the stream
\* ends without response.completed, the time of the call is up, or its body
\* is closed.
ReadFails ==
  /\ reader = "reading"
  /\ Fails
  /\ UNCHANGED <<consumer, outcome, received, text, progress, pipe, ended,
                 dropped, body, bridge, streamed, final>>

\* After a delta the goroutine reads on.  It closes after the last message
\* and after an error, and when nobody receives any more.
Send ==
  /\ reader \in {"sending", "failing"}
  /\ dropped \/ pipe = <<>>
  /\ pipe' = IF dropped THEN pipe ELSE <<outbox>>
  /\ reader' = IF reader = "failing" \/ final # NoResponse \/ dropped
               THEN "closing" ELSE "reading"
  /\ outbox' = Blank
  /\ UNCHANGED <<consumer, outcome, received, text, progress, ended, dropped,
                 body, bridge, streamed, final>>

\* closeUpstream, which happens once, and writer.Close.
CloseReader ==
  /\ reader = "closing"
  /\ reader' = "ended"
  /\ body' = "closed"
  /\ ended' = TRUE
  /\ text' = <<>>
  /\ progress' = Unshown
  /\ UNCHANGED <<consumer, outcome, received, outbox, pipe, dropped, bridge,
                 streamed, final>>

-----------------------------------------------------------------------------
(***************************************************************************)
(* The consumer and closeAwareStream                                       *)
(***************************************************************************)

Joined(a, b) ==
  [text |-> a.text \o b.text,
   reasoning |-> [i \in Item |-> a.reasoning[i] \o b.reasoning[i]],
   error |-> FALSE]

\* Recv takes what the bridge offers, and that makes it receive from the
\* pipe: a message, an error, or the end.
Receive ==
  /\ consumer = "reading" /\ outcome = "none"
  /\ bridge = "offering"
  /\ \/ /\ pipe # <<>>
        /\ pipe' = <<>>
        /\ IF Head(pipe).error
           THEN outcome' = "error" /\ UNCHANGED received
           ELSE received' = Joined(received, Head(pipe)) /\ UNCHANGED outcome
     \/ /\ pipe = <<>> /\ ended
        /\ outcome' = "whole"
        /\ UNCHANGED <<pipe, received>>
  /\ UNCHANGED <<consumer, reader, text, progress, outbox, ended, dropped,
                 body, bridge, streamed, final>>

\* The consumer closes: after the last message, after an error, or because
\* it is not interested any more.
Close ==
  /\ consumer = "reading"
  /\ consumer' = "closed"
  /\ UNCHANGED <<outcome, received, goroutines, streamed, final>>

\* The bridge notices, and closes upstream ...
CloseUpstream ==
  /\ bridge = "offering"
  /\ consumer = "closed"
  /\ bridge' = "closing"
  /\ body' = "closed"
  /\ UNCHANGED <<consumer, outcome, received, reader, text, progress, outbox,
                 pipe, ended, dropped, streamed, final>>

\* ... and then the pipe, which ends a Send that waits.
CloseSource ==
  /\ bridge = "closing"
  /\ bridge' = "ended"
  /\ dropped' = TRUE
  /\ UNCHANGED <<consumer, outcome, received, reader, text, progress, outbox,
                 pipe, ended, body, streamed, final>>

-----------------------------------------------------------------------------
ReaderStep ==
  \/ \E p \in Piece : TextDelta(p)
  \/ \E i \in Item, k \in Kinds : ReasoningDelta(i, k)
  \/ \E r \in Response : Completed(r)
  \/ ReadFails \/ Send \/ CloseReader

ConsumerStep ==
  Stream \/ RequestFails \/ Connect \/ ConnectFails \/ Receive \/ Close
BridgeStep == CloseUpstream \/ CloseSource

AnswerNext == ReaderStep \/ ConsumerStep \/ BridgeStep

\* A read of a closed body fails, the goroutines are scheduled, and a
\* consumer that reads goes on reading and closes in the end.
ReadClosed == body = "closed" /\ ReadFails
CloseRead == outcome # "none" /\ Close

AnswerFairness ==
  /\ WF_answer(ReadClosed) /\ WF_answer(Send) /\ WF_answer(CloseReader)
  /\ WF_answer(CloseUpstream) /\ WF_answer(CloseSource)
  /\ WF_answer(Receive) /\ WF_answer(CloseRead)

AnswerSpec == AnswerInit /\ [][AnswerNext]_answer /\ AnswerFairness

-----------------------------------------------------------------------------
(***************************************************************************)
(* Properties                                                              *)
(***************************************************************************)

\* A consumer that is told the end has the completed response: its text
\* without repetition or loss, and the reasoning of each item in one of its
\* representations, whatever of it was streamed before, and whenever the
\* provider broke off.
AnswerIsWhole ==
  outcome = "whole" =>
    /\ final.valid
    /\ received.text = final.text
    /\ \A i \in Item :
         \E k \in Kinds :
           received.reasoning[i] \in {Pieces(k, final.reasoning[i][k]),
                                     Pieces(k, streamed.reasoning[i][k])}

\* A consumer that closes early, or in the middle of a Send, is enough to
\* end both goroutines and to close the body, even when the provider
\* stalls; and a goroutine that has ended does not leave the consumer
\* waiting.
StreamEnds ==
  /\ consumer = "closed" ~>
       reader \in {"none", "ended"} /\ bridge \in {"none", "ended"} /\ body # "open"
  /\ reader = "ended" ~> consumer = "closed"
=============================================================================
