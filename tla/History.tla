------------------------------ MODULE History -------------------------------
(***************************************************************************)
(* What a model is shown of a session: the newest messages of its log      *)
(* (ListMessages of the stores), rid of what another model left behind     *)
(* (sanitizeHistoryForModel), of broken tool chains (completeToolHistory)  *)
(* and put together with the turn's reminder and request                   *)
(* (ContextAssembler.AssembleForTurn).                                     *)
(*                                                                         *)
(* A model of OpenRouter is stateless: it is sent everything.  A model of  *)
(* Ark keeps, for a while, the chain of what it was sent and answered      *)
(* under the id of its response.  The Ark SDK, which is external, cuts the *)
(* input after the last message with an id that is still alive and names   *)
(* that id instead; messages that are not in the chain must not be cut.    *)
(*                                                                         *)
(* Turns of a session exclude each other (ChatTurn).  Texts are left out   *)
(* except for whether a reply is blank.                                    *)
(***************************************************************************)
EXTENDS Integers, Sequences

CONSTANTS
  Model,        \* models a turn may ask for
  Stateless,    \* those that declare StatelessResponses
  NoModel,
  CallId, NoCall,
  Limit,        \* historyLimit
  TTL,          \* life of a response chain
  MaxMessages,  \* bound: messages of the log
  MaxTime       \* bound: the clock

ASSUME ModelsDiffer == Stateless \subseteq Model /\ NoModel \notin Model
ASSUME NoCallDiffers == NoCall \notin CallId
ASSUME Sizes ==
  /\ Limit \in Nat \ {0}
  /\ TTL \in Nat \ {0}
  /\ MaxMessages \in Nat
  /\ MaxTime \in Nat

VARIABLES
  now,      \* the clock
  log,      \* the session's messages
  chains,   \* the chains Ark keeps; a response id is an index of it
  phase,    \* where the turn is
  model,    \* its model
  run,      \* the sequence of its user message; it identifies the turn
  history,  \* the messages it has read
  input,    \* the agent's messages, which the next call is given
  asked,    \* calls of its last reply that are not answered yet
  seen      \* what the call in progress shows the model

turn == <<phase, model, run, history, input, asked, seen>>
vars == <<now, log, chains, turn>>

Message ==
  [seq : Nat, role : {"user", "assistant", "tool"}, model : Model,
   calls : SUBSET CallId, answers : CallId \cup {NoCall}, blank : BOOLEAN,
   response : Nat, expires : Nat]

\* What the agent holds of a message, or the reminder of the turn.
Item ==
  [seq : Nat, reminder : BOOLEAN, response : Nat, expires : Nat]

Chain == [model : Model, messages : SUBSET Nat, reminders : SUBSET Nat]

TypeOK ==
  /\ now \in 1 .. MaxTime + 1
  /\ log \in Seq(Message)
  /\ chains \in Seq(Chain)
  /\ phase \in {"idle", "started", "rejected", "model", "called", "tools",
               "ended"}
  /\ model \in Model \cup {NoModel}
  /\ run \in Nat
  /\ history \in Seq(Message)
  /\ input \in Seq(Item)
  /\ asked \subseteq CallId
  /\ phase = "tools" <=> asked # {}
  /\ seen \in [chain : Nat, messages : SUBSET Nat, reminders : SUBSET Nat]

Unseen == [chain |-> 0, messages |-> {}, reminders |-> {}]

Init ==
  /\ now = 1
  /\ log = <<>>
  /\ chains = <<>>
  /\ phase = "idle"
  /\ model = NoModel
  /\ run = 0
  /\ history = <<>>
  /\ input = <<>>
  /\ asked = {}
  /\ seen = Unseen

-----------------------------------------------------------------------------
(***************************************************************************)
(* Reading and cleaning the history                                        *)
(***************************************************************************)

\* The newest messages, oldest first.
ListMessages(limit) ==
  SubSeq(log, IF Len(log) > limit THEN Len(log) - limit + 1 ELSE 1, Len(log))

\* A mutant: every message keeps its response.
SanitizeNothing(h, m) == h

\* Everything up to the last message of another model loses its response.
SanitizeHistoryForModel(h, m) ==
  [i \in DOMAIN h |->
     IF \E j \in i .. Len(h) : h[j].model # m
     THEN [h[i] EXCEPT !.response = 0, !.expires = 0]
     ELSE h[i]]

\* The messages taken so far, rid of a chain that is still open.
Closed(s) == IF s.pending = {} THEN s.result ELSE SubSeq(s.result, 1, s.start)

\* One message of the loop of completeToolHistory: a chain that is open is
\* taken back when a message that is not a result follows, and a result
\* that nothing asks for is skipped.
CompleteStep(s, m) ==
  LET kept == IF m.role = "tool" THEN s.result ELSE Closed(s)
      open == IF m.role = "tool" THEN s.pending ELSE {}
  IN IF m.role = "tool" /\ m.answers \notin open
     THEN s
     ELSE [result |-> Append(kept, m),
           start |-> IF m.role = "assistant" THEN Len(kept) ELSE s.start,
           pending |-> (open \cup m.calls) \ {m.answers}]

\* The loop after each number of messages.
Completing(h) ==
  LET s[i \in 0 .. Len(h)] ==
        IF i = 0 THEN [result |-> <<>>, start |-> 0, pending |-> {}]
        ELSE CompleteStep(s[i - 1], h[i])
  IN s

\* A mutant: an open chain at the end of the history is kept.
CompleteToolHistoryOpen(h) == Completing(h)[Len(h)].result

CompleteToolHistory(h) == Closed(Completing(h)[Len(h)])

-----------------------------------------------------------------------------
(***************************************************************************)
(* AssembleForTurn                                                         *)
(***************************************************************************)

Live(x) == x.response # 0 /\ x.expires >= now

\* A mutant: the reminder always comes before the history.
NeverActive(h) == FALSE

HasActiveArkResponseCache(h) ==
  \E i \in DOMAIN h : h[i].role = "assistant" /\ Live(h[i])

Reminder == [seq |-> 0, reminder |-> TRUE, response |-> 0, expires |-> 0]

\* A message, with the response that restoreArkResponseCache gives it back.
ItemOf(m) ==
  LET kept == model \notin Stateless /\ m.role = "assistant" /\ m.expires > 0
  IN [seq |-> m.seq, reminder |-> FALSE,
      response |-> IF kept THEN m.response ELSE 0,
      expires |-> IF kept THEN m.expires ELSE 0]

Items(h) == [i \in DOMAIN h |-> ItemOf(h[i])]

\* The history a turn with this model replays.
Replayed == IF model \in Stateless THEN CompleteToolHistory(history) ELSE history

\* AssembleForTurn refuses a blank message and a sequence out of order.
Accepted(h) ==
  \A i \in DOMAIN h : ~ h[i].blank /\ (i > 1 => h[i - 1].seq < h[i].seq)

Assembled ==
  LET h == Items(Replayed)
      request == ItemOf(log[run])
  IN IF model \in Stateless \/ HasActiveArkResponseCache(Replayed)
     THEN h \o <<Reminder, request>>
     ELSE <<Reminder>> \o h \o <<request>>

-----------------------------------------------------------------------------
(***************************************************************************)
(* The turn                                                                *)
(***************************************************************************)

Record(role, calls, answers, blank, response, expires) ==
  log' = Append(log, [seq |-> Len(log) + 1, role |-> role, model |-> model',
                      calls |-> calls, answers |-> answers, blank |-> blank,
                      response |-> response, expires |-> expires])

Room == Len(log) < MaxMessages

\* The history is read for the model, and then the user's message stored.
StartTurn(m) ==
  /\ phase = "idle"
  /\ Room
  /\ model' = m
  /\ history' = SanitizeHistoryForModel(ListMessages(Limit), m)
  /\ Record("user", {}, NoCall, FALSE, 0, 0)
  /\ run' = Len(log) + 1
  /\ phase' = "started"
  /\ UNCHANGED <<now, chains, input, asked, seen>>

\* buildInputMessagesWithHistory.
Assemble ==
  /\ phase = "started"
  /\ Accepted(Replayed)
  /\ input' = Assembled
  /\ phase' = "model"
  /\ UNCHANGED <<now, log, chains, model, run, history, asked, seen>>

\* ErrInvalidTurnInput.
Reject ==
  /\ phase = "started"
  /\ ~ Accepted(Replayed)
  /\ phase' = "rejected"
  /\ UNCHANGED <<now, log, chains, model, run, history, input, asked, seen>>

\* The Ark SDK goes on from the last message whose response is alive; a
\* model of OpenRouter is sent everything.
IsCut(cut) ==
  IF model \in Stateless
  THEN cut = 0
  ELSE /\ cut # 0 => Live(input[cut])
       /\ \A i \in cut + 1 .. Len(input) : ~ Live(input[i])

\* The input after that message is sent, and its response named.
CallModel ==
  /\ phase = "model"
  /\ \E cut \in 0 .. Len(input) :
       LET chain == IF cut = 0 THEN 0 ELSE input[cut].response
           sent == {input[i] : i \in cut + 1 .. Len(input)}
       IN /\ IsCut(cut)
          /\ seen' =
               [chain |-> chain,
                messages |-> {x.seq : x \in {y \in sent : ~ y.reminder}} \cup
                             IF chain = 0 THEN {} ELSE chains[chain].messages,
                reminders |-> (IF \E x \in sent : x.reminder THEN {run} ELSE {})
                              \cup IF chain = 0 THEN {} ELSE chains[chain].reminders]
  /\ phase' = "called"
  /\ UNCHANGED <<now, log, chains, model, run, history, input, asked>>

\* The model replies and the reply is stored.  Ark adds it to its chain;
\* its id may come without a time to live.  A reply that is blank has
\* blank reasoning and nothing else, which the OpenRouter adapter refuses
\* and ValidateMessage does not.
ModelReplies(calls, blank, chained, ttl) ==
  /\ phase = "called"
  /\ Room
  /\ blank => calls = {} /\ model \notin Stateless
  /\ chained => model \notin Stateless
  /\ UNCHANGED <<now, model, run, history, seen>>
  /\ LET response == IF chained THEN Len(chains) + 1 ELSE 0
         expires == IF chained /\ ttl THEN now + TTL ELSE 0
     IN /\ Record("assistant", calls, NoCall, blank, response, expires)
        /\ chains' = IF chained
                     THEN Append(chains,
                            [model |-> model,
                             messages |-> seen.messages \cup {Len(log) + 1},
                             reminders |-> seen.reminders])
                     ELSE chains
        /\ input' = Append(input, [seq |-> Len(log) + 1, reminder |-> FALSE,
                                   response |-> response, expires |-> expires])
  /\ asked' = calls
  /\ phase' = IF calls = {} THEN "ended" ELSE "tools"

\* A mutant: a call that is answered stays open.
ToolResultAgain(c) ==
  /\ phase = "tools"
  /\ Room
  /\ c \in asked
  /\ UNCHANGED <<now, chains, model, run, history, asked, seen>>
  /\ Record("tool", {}, c, FALSE, 0, 0)
  /\ input' = Append(input, [seq |-> Len(log) + 1, reminder |-> FALSE,
                             response |-> 0, expires |-> 0])
  /\ phase' = IF asked = {c} THEN "model" ELSE "tools"

\* The result of a call is stored, and the model called again after the last.
ToolResult(c) ==
  /\ phase = "tools"
  /\ Room
  /\ c \in asked
  /\ UNCHANGED <<now, chains, model, run, history, seen>>
  /\ Record("tool", {}, c, FALSE, 0, 0)
  /\ input' = Append(input, [seq |-> Len(log) + 1, reminder |-> FALSE,
                             response |-> 0, expires |-> 0])
  /\ asked' = asked \ {c}
  /\ phase' = IF asked = {c} THEN "model" ELSE "tools"

\* The turn ends, and what it held is gone with it: after its last reply,
\* or before, with a failure, a client that goes or a crash.
EndTurn ==
  /\ phase # "idle"
  /\ phase' = "idle"
  /\ model' = NoModel
  /\ run' = 0
  /\ history' = <<>>
  /\ input' = <<>>
  /\ asked' = {}
  /\ seen' = Unseen
  /\ UNCHANGED <<now, log, chains>>

Tick ==
  /\ now <= MaxTime
  /\ now' = now + 1
  /\ UNCHANGED <<log, chains, turn>>

Next ==
  \/ \E m \in Model : StartTurn(m)
  \/ Assemble \/ Reject \/ CallModel \/ EndTurn \/ Tick
  \/ \E calls \in SUBSET CallId, blank, chained, ttl \in BOOLEAN :
       ModelReplies(calls, blank, chained, ttl)
  \/ \E c \in CallId : ToolResult(c)

Spec == Init /\ [][Next]_vars

-----------------------------------------------------------------------------
(***************************************************************************)
(* Properties                                                              *)
(***************************************************************************)

\* Whatever a model is called with, it sees every message of the history
\* its turn replays, every message of the turn so far, and the turn's
\* reminder: what the SDK cuts is in the chain it names instead, even when
\* a chain expires, a turn is left half way or the history has a limit.
EverythingIsSeen ==
  phase = "called" =>
    /\ \A i \in DOMAIN Replayed : Replayed[i].seq \in seen.messages
    /\ \A i \in run .. Len(log) : i \in seen.messages
    /\ run \in seen.reminders

\* A model is never asked to go on from the response of another model,
\* although turns of one session may ask for different models.
ChainIsOwn ==
  phase = "called" /\ seen.chain # 0 => chains[seen.chain].model = model

\* The message that asks for, or is, the tool chain of message i of h: the
\* last message before it that is not a result.
Asker(h, i) ==
  LET before == {j \in 1 .. i : h[j].role # "tool"}
  IN IF before = {} THEN 0 ELSE CHOOSE j \in before : \A k \in before : k <= j

\* All the calls of message j are answered before the next one that is not
\* a result.
IsWhole(h, j) ==
  \A c \in h[j].calls :
    \E k \in DOMAIN h : Asker(h, k) = j /\ h[k].role = "tool" /\ h[k].answers = c

\* Message i belongs to a whole chain, or to none.
IsKept(h, i) ==
  LET j == Asker(h, i)
  IN /\ j # 0
     /\ IsWhole(h, j)
     /\ h[i].role = "tool" => h[i].answers \in h[j].calls

\* completeToolHistory keeps exactly the messages that are in no broken
\* tool chain, in their order: nothing is lost with a chain that is
\* interrupted, cut by the limit of the history or followed by a new turn.
OnlyBrokenChainsAreDropped ==
  LET h == ListMessages(Limit)
      kept == CompleteToolHistory(h)
  IN /\ \A i \in DOMAIN h :
          IsKept(h, i) <=> \E k \in DOMAIN kept : kept[k] = h[i]
     /\ \A k \in DOMAIN kept : k > 1 => kept[k - 1].seq < kept[k].seq

\* Refuted: "Message is a canonical message that can be a later model's
\* input" (session.go:68).  ValidateMessage lets a reply through that has
\* nothing but blank reasoning, and AssembleForTurn refuses it.
StoredMessagesAreAccepted == phase # "rejected"

\* A message as Conversation knows it.
SpokenAs(m) ==
  [role |-> m.role, calls |-> IF m.role = "tool" THEN {m.answers} ELSE m.calls]

Spoken == [i \in DOMAIN log |-> SpokenAs(log[i])]

Talk == INSTANCE Conversation WITH
  said <- Spoken, open <- TRUE,
  Message <- [role : {"user", "assistant", "tool"}, calls : SUBSET CallId]

\* Turns that end half way and models that are replaced leave a conversation
\* behind, the same as the requests of ChatTurn.
KeepsConversation == Talk!Spec
=============================================================================
