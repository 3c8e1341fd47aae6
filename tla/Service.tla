------------------------------ MODULE Service -------------------------------
(***************************************************************************)
(* The service from its start to its end, and one request of a client in   *)
(* between: an answer of the OpenRouter model or a page for url_fetch.     *)
(*                                                                         *)
(* The start looks for a browser with the very code that later renders     *)
(* pages; what it finds decides how pages are fetched.  Requests come      *)
(* while the service serves, and those in progress go on while the hooks   *)
(* close the connections.  Requests share no state but the browser, so one *)
(* at a time is enough.                                                    *)
(***************************************************************************)
EXTENDS Lifecycle, ResponseStream, PageFetch

ASSUME StreamSizes == MaxText \in Nat /\ MaxDeltas \in Nat
ASSUME LinesDiffer ==
  /\ BlankLine \notin Line
  /\ Unescaped \in [Line -> Line \cup {BlankLine}]
  /\ \A line \in Line : Chars[line] \in Nat \ {0}
ASSUME LinkSizes ==
  /\ GoodLink \subseteq Link
  /\ MaxCandidates \in Nat
  /\ MaxLinks \in Nat
ASSUME FetchSizes == MaxLines \in Nat /\ MaxTexts \in Nat /\ MaxChars \in Nat \ {0}

vars == <<start, answer, fetch>>

TypeOK == StartTypeOK /\ AnswerTypeOK /\ FetchTypeOK

Init == StartInit /\ AnswerInit /\ FetchInit

-----------------------------------------------------------------------------
Accepting == stage = "serving" /\ consumer = "idle" /\ at = "idle"

\* Everything of the start and the end but the look for a browser.
Run ==
  /\ Step
  /\ UNCHANGED <<answer, fetch>>

\* verifyChromium: a look that fails leaves the service without a browser.
LookForBrowser ==
  /\ stage = "chromium"
  /\ \/ Preflight /\ UNCHANGED start
     \/ EndPreflight /\ VerifyChromium(status = "ok")
  /\ UNCHANGED answer

AnswerRequest ==
  /\ consumer = "idle" => Accepting
  /\ AnswerNext
  /\ UNCHANGED <<start, fetch>>

FetchRequest ==
  /\ \/ Accepting /\ Extract
     \/ at # "idle" /\ (FetchProceeds(browser) \/ Meanwhile)
  /\ UNCHANGED <<start, answer>>

Next == Run \/ LookForBrowser \/ AnswerRequest \/ FetchRequest

Proceed ==
  /\ FetchProceeds(browser)
  /\ UNCHANGED <<start, answer>>

Drains(t) ==
  /\ TunnelDrains(t)
  /\ UNCHANGED <<start, answer>>

\* The goroutines of an answer are scheduled, a fetch has a timeout at each
\* of its steps, and the connections of a closed proxy are closed.
Fairness ==
  /\ AnswerFairness
  /\ WF_vars(Proceed)
  /\ \A t \in Tunnel : WF_vars(Drains(t))

Spec == Init /\ [][Next]_vars /\ Fairness

-----------------------------------------------------------------------------
\* A request leaves nothing behind, however it ends: neither goroutines nor
\* a body of an answer that is closed, early or at its end, and neither the
\* proxy of a browser nor its connections after a fetch, also when the
\* caller has gone or the browser was late.
NothingIsLeft ==
  /\ StreamEnds
  /\ at \notin {"idle", "done"} ~>
       proxy # "open" /\ \A t \in Tunnel : tunnel[t] \in {"none", "closed"}
=============================================================================
