----------------------------- MODULE PageFetch ------------------------------
(***************************************************************************)
(* One call of url_fetch: webfetch.Extract gets a page over HTTP, has a    *)
(* browser render it as well, and merges what both have found.             *)
(*                                                                         *)
(* The browser runs behind a proxy of its own (startProxy), which is a     *)
(* server in this process: its tunnels are goroutines, and it is closed    *)
(* when Render returns, or before, when the caller goes or the time of the *)
(* browser is up.  The same browser is tried once at the start of the      *)
(* service (Preflight).                                                    *)
(*                                                                         *)
(* The network, the page and the browser are external: any of their steps  *)
(* may fail.  Which addresses are public is not looked at.                 *)
(***************************************************************************)
EXTENDS PageText

CONSTANTS
  Tunnel,    \* connections of the browser through its proxy
  MaxLines,  \* bound: lines of a text
  MaxTexts   \* bound: texts found in a document

VARIABLES
  at,         \* where the call is
  purpose,    \* what the browser runs for
  static,     \* the text the page has without a browser
  read,       \* the texts that were read, of either kind
  rendered,   \* the browser's text, before it is normalized
  status,     \* what the browser, and in the end the call, has come to
  content,    \* the text the call returns
  excerpt,    \* what the model is shown of it
  cancelled,  \* the caller's context is over
  late,       \* the browser's time is up
  blocked,    \* a request of the page was not allowed
  proxy,      \* the browser's proxy
  tunnel      \* its connections

fetch == <<at, purpose, static, read, rendered, status, content, excerpt,
          cancelled, late, blocked, proxy, tunnel>>

Texts == BoundedSeq(Line, MaxLines)
Excerpts == [text : Seq(Line), cut : BOOLEAN]
Errors == {"url_not_allowed", "web_unavailable", "timeout", "fetch_failed"}

FetchTypeOK ==
  /\ at \in {"idle", "checking", "getting", "address", "launching",
            "navigating", "extracting", "accepting", "closing", "merging",
            "ending", "done"}
  /\ purpose \in {"none", "preflight", "fallback", "supplement"}
  /\ static \in Seq(Line)
  /\ read \subseteq Seq(Line)
  /\ rendered \in Seq(Line)
  /\ status \in {"ok", "cancelled"} \cup Errors
  /\ content \in Seq(Line)
  /\ excerpt \in Excerpts
  /\ {cancelled, late, blocked} \subseteq BOOLEAN
  /\ proxy \in {"none", "open", "closed"}
  /\ tunnel \in [Tunnel -> {"none", "dialing", "open", "closed"}]

FetchInit ==
  /\ at = "idle" /\ purpose = "none" /\ status = "ok"
  /\ static = <<>> /\ read = {} /\ rendered = <<>> /\ content = <<>>
  /\ excerpt = [text |-> <<>>, cut |-> FALSE]
  /\ cancelled = FALSE /\ late = FALSE /\ blocked = FALSE
  /\ proxy = "none"
  /\ tunnel = [t \in Tunnel |-> "none"]

environment == <<cancelled, late, blocked, proxy, tunnel>>

-----------------------------------------------------------------------------
(***************************************************************************)
(* Extract                                                                 *)
(***************************************************************************)

\* Extract returns a text or an error; its deferred function is next.
Return(s, t) ==
  /\ at' = "ending"
  /\ status' = s
  /\ content' = t

Fail(s) == Return(s, <<>>)

\* The browser is started: Render checks the address first.
Render(why) ==
  /\ at' = "address"
  /\ purpose' = why
  /\ UNCHANGED <<status, content>>

Extract ==
  /\ at = "idle"
  /\ at' = "checking"
  /\ UNCHANGED <<purpose, static, read, rendered, status, content, excerpt, environment>>

Check ==
  /\ at = "checking"
  /\ at' = "getting"
  /\ UNCHANGED <<purpose, static, read, rendered, status, content, excerpt, environment>>

CheckFails ==
  /\ at = "checking"
  /\ \E s \in {"url_not_allowed", "web_unavailable"} : Fail(s)
  /\ UNCHANGED <<purpose, static, read, rendered, excerpt, environment>>

\* There is no answer, or it is not 2xx: the browser may do better, unless
\* a redirection was not allowed.
GetFails(hasBrowser) ==
  /\ at = "getting"
  /\ UNCHANGED <<static, read, rendered, excerpt, environment>>
  /\ \/ Fail("url_not_allowed") /\ UNCHANGED purpose
     \/ hasBrowser /\ ~ cancelled /\ Render("fallback")
     \/ /\ ~ hasBrowser \/ cancelled
        /\ \E s \in Errors : Fail(s)
        /\ UNCHANGED purpose

\* The body breaks off, is too long, of another type or cannot be decoded.
PageIsUnreadable ==
  /\ at = "getting"
  /\ Fail("fetch_failed")
  /\ UNCHANGED <<purpose, static, read, rendered, excerpt, environment>>

\* A plain text is normalized.
PageIsPlain(t) ==
  /\ at = "getting"
  /\ read' = {t}
  /\ IF NormalizeText(t) = <<>> THEN Fail("fetch_failed")
                                ELSE Return("ok", NormalizeText(t))
  /\ UNCHANGED <<purpose, static, rendered, excerpt, environment>>

\* The candidates of the document are merged (mergeCandidates), and in that
\* normalized once more.
PageIsHtml(document, hasBrowser) ==
  /\ at = "getting"
  /\ static' = MergeText(ExtractCandidates(document))
  /\ read' = {document[i].text : i \in DOMAIN document}
  /\ IF hasBrowser THEN Render("supplement")
     ELSE /\ IF static' = <<>> THEN Fail("fetch_failed") ELSE Return("ok", static')
          /\ UNCHANGED purpose
  /\ UNCHANGED <<rendered, excerpt, environment>>

-----------------------------------------------------------------------------
(***************************************************************************)
(* Render and Preflight                                                    *)
(***************************************************************************)
Rendering(next) ==
  /\ at' = next
  /\ UNCHANGED <<purpose, static, read, rendered, status, content, excerpt, environment>>

\* Render is over with an error; what it has opened has to be closed.
RenderFails(s) ==
  /\ at' = "closing"
  /\ status' = s
  /\ UNCHANGED <<purpose, static, read, rendered, content, excerpt, environment>>

AddressAllowed == at = "address" /\ Rendering("launching")

AddressRefused ==
  /\ at = "address"
  /\ \E s \in {"url_not_allowed", "web_unavailable"} : RenderFails(s)

\* The start of the service looks whether there is a browser.
Preflight ==
  /\ at = "idle"
  /\ at' = "launching"
  /\ purpose' = "preflight"
  /\ UNCHANGED <<static, read, rendered, status, content, excerpt, environment>>

\* allocator: no executable, or no port.
NoAllocator ==
  /\ at = "launching"
  /\ RenderFails("web_unavailable")

Launch ==
  /\ at = "launching"
  /\ at' = "navigating"
  /\ proxy' = "open"
  /\ UNCHANGED <<purpose, static, read, rendered, status, content, excerpt,
                 cancelled, late, blocked, tunnel>>

Navigate == at = "navigating" /\ Rendering("extracting")

\* renderDocument extracts, and then a request that was not allowed takes
\* the page with it.
ExtractPage(raw) ==
  /\ at = "extracting"
  /\ purpose = "preflight" => raw = <<>>
  /\ IF blocked
     THEN at' = "closing" /\ status' = "url_not_allowed" /\ UNCHANGED rendered
     ELSE at' = "accepting" /\ rendered' = raw /\ UNCHANGED status
  /\ UNCHANGED <<purpose, static, read, content, excerpt, environment>>

\* The browser does not start, the navigation fails or is not answered 2xx,
\* or the document cannot be read.
BrowserFails ==
  /\ at \in {"navigating", "extracting"}
  /\ RenderFails(IF blocked THEN "url_not_allowed"
                 ELSE IF late THEN "timeout" ELSE "web_unavailable")

\* The address the browser has ended at is checked.
Accept == at = "accepting" /\ Rendering("closing")

AcceptFails ==
  /\ at = "accepting"
  /\ purpose # "preflight"
  /\ \E s \in {"url_not_allowed", "web_unavailable"} : RenderFails(s)

\* A mutant: the deferred functions are missing.
LeaveBrowser ==
  /\ at = "closing"
  /\ at' = "merging"
  /\ late' = FALSE /\ blocked' = FALSE
  /\ UNCHANGED <<purpose, static, read, rendered, status, content, excerpt,
                 cancelled, proxy, tunnel>>

\* The deferred functions of Render: the tab, the allocator with its proxy,
\* if there is one, and the context with its timeout.
CloseBrowser ==
  /\ at = "closing"
  /\ at' = "merging"
  /\ late' = FALSE /\ blocked' = FALSE
  /\ proxy' = IF proxy = "open" THEN "closed" ELSE proxy
  /\ UNCHANGED <<purpose, static, read, rendered, status, content, excerpt,
                 cancelled, tunnel>>

\* A page of the browser counts when there is something in it.
Usable == status = "ok" /\ rendered # <<>>

\* Both texts, the one without the browser and what render has made of its
\* page, are normalized again and merged.
Both == MergeText(<<static, NormalizeText(rendered)>>)

\* A mutant: without the browser's page there is none.
MergeOnlyRendered ==
  /\ at = "merging" /\ purpose # "preflight"
  /\ IF ~ Usable
     THEN /\ Fail(IF status = "ok" THEN "fetch_failed" ELSE status)
          /\ UNCHANGED read
     ELSE /\ Return("ok", Both)
          /\ read' = read \cup {rendered}
  /\ rendered' = <<>> /\ purpose' = "none"
  /\ UNCHANGED <<static, excerpt, environment>>

\* Instead of a page without an answer there is the browser's alone; the
\* text of an HTTP answer is merged with it, and stays without it.
MergePages ==
  /\ at = "merging" /\ purpose # "preflight"
  /\ \/ /\ Usable /\ purpose = "fallback"
        /\ Return("ok", NormalizeText(rendered))
        /\ read' = read \cup {rendered}
     \/ /\ Usable /\ purpose = "supplement"
        /\ IF Both = <<>> THEN Fail("fetch_failed") ELSE Return("ok", Both)
        /\ read' = read \cup {rendered}
     \/ /\ ~ Usable
        /\ IF static # <<>> /\ ~ cancelled THEN Return("ok", static)
           ELSE Fail(IF status = "ok" THEN "fetch_failed" ELSE status)
        /\ UNCHANGED read
  /\ rendered' = <<>> /\ purpose' = "none"
  /\ UNCHANGED <<static, excerpt, environment>>

\* The service knows whether it has a browser.
EndPreflight ==
  /\ at = "merging" /\ purpose = "preflight"
  /\ at' = "idle"
  /\ purpose' = "none"
  /\ status' = "ok"
  /\ proxy' = "none"
  /\ UNCHANGED <<static, read, rendered, content, excerpt, cancelled, late,
                 blocked, tunnel>>

\* Extract's deferred function drops the result of a caller that is gone,
\* and the tool an empty one; of any other it shows what max_chars allows.
\* (The address the tool checks once more has passed the same check before.)
Finish ==
  /\ at = "ending"
  /\ at' = "done"
  /\ status' = IF cancelled THEN "cancelled"
               ELSE IF status = "ok" /\ content = <<>> THEN "fetch_failed"
               ELSE status
  /\ content' = IF cancelled THEN <<>> ELSE content
  /\ excerpt' = IF status' = "ok" THEN Truncate(content) ELSE excerpt
  /\ UNCHANGED <<purpose, static, read, rendered, environment>>

-----------------------------------------------------------------------------
(***************************************************************************)
(* What happens meanwhile                                                  *)
(***************************************************************************)
page == <<at, purpose, static, read, rendered, status, content, excerpt>>

\* The caller goes; nobody can cancel the start.
Cancel ==
  /\ at \notin {"idle", "done"} /\ purpose # "preflight"
  /\ ~ cancelled
  /\ cancelled' = TRUE
  /\ UNCHANGED <<page, late, blocked, proxy, tunnel>>

BrowserTimeout ==
  /\ at \in {"launching", "navigating", "extracting", "accepting"}
  /\ ~ late
  /\ late' = TRUE
  /\ UNCHANGED <<page, cancelled, blocked, proxy, tunnel>>

\* handlePaused fails a request of the page.
Block ==
  /\ at \in {"navigating", "extracting"} /\ purpose # "preflight"
  /\ ~ blocked
  /\ blocked' = TRUE
  /\ UNCHANGED <<page, cancelled, late, proxy, tunnel>>

\* The proxy follows its context (AfterFunc).
ProxyFollows ==
  /\ proxy = "open"
  /\ cancelled \/ late
  /\ proxy' = "closed"
  /\ UNCHANGED <<page, cancelled, late, blocked, tunnel>>

\* connect: the proxy takes a connection of the page, dials, and copies.
TunnelStarts(t) ==
  /\ proxy = "open" /\ purpose # "preflight"
  /\ tunnel[t] = "none"
  /\ tunnel' = [tunnel EXCEPT ![t] = "dialing"]
  /\ UNCHANGED <<page, cancelled, late, blocked, proxy>>

\* The upstream answers, though the proxy may have been closed meanwhile.
TunnelOpens(t) ==
  /\ tunnel[t] = "dialing"
  /\ tunnel' = [tunnel EXCEPT ![t] = "open"]
  /\ UNCHANGED <<page, cancelled, late, blocked, proxy>>

\* A side closes, the deadline passes, or the context of the proxy is over.
TunnelEnds(t) ==
  /\ tunnel[t] \in {"dialing", "open"}
  /\ tunnel' = [tunnel EXCEPT ![t] = "closed"]
  /\ UNCHANGED <<page, cancelled, late, blocked, proxy>>

-----------------------------------------------------------------------------
Documents ==
  BoundedSeq([source : DOMAIN CandidatePriority, text : Texts \ {<<>>}], MaxTexts)

\* What the goroutine of the call does next.  (Where a page is needed it is
\* said once more, which spares TLC the texts everywhere else.)
FetchProceeds(hasBrowser) ==
  \/ Check \/ CheckFails \/ GetFails(hasBrowser) \/ PageIsUnreadable
  \/ at = "getting" /\ \E t \in Texts : PageIsPlain(t)
  \/ at = "getting" /\ \E d \in Documents : PageIsHtml(d, hasBrowser)
  \/ AddressAllowed \/ AddressRefused \/ NoAllocator \/ Launch \/ Navigate
  \/ at = "extracting" /\ \E raw \in Texts : ExtractPage(raw)
  \/ BrowserFails \/ Accept \/ AcceptFails \/ CloseBrowser \/ MergePages
  \/ Finish

Meanwhile ==
  \/ Cancel \/ BrowserTimeout \/ Block \/ ProxyFollows
  \/ \E t \in Tunnel : TunnelStarts(t) \/ TunnelOpens(t) \/ TunnelEnds(t)

\* Every step of a call has a timeout, and a tunnel whose context is over is
\* closed.
TunnelDrains(t) == proxy # "open" /\ TunnelEnds(t)

-----------------------------------------------------------------------------
(***************************************************************************)
(* Properties                                                              *)
(***************************************************************************)

\* The text of a result has every text that was read, with its lines
\* together and in their order, and no line of another origin: merging the
\* overlapping texts of a page loses none of them.  All have been unescaped
\* the same number of times, once or twice, however the page was read.  What
\* the model is shown is the beginning of that text, and all of it unless it
\* is told otherwise.  And an HTTP text is not lost with a browser that
\* fails, is late or meets a request that is not allowed, if there is still
\* something in it when it is unescaped once more.
ResultIsComplete ==
  at = "done" =>
    /\ status = "ok" =>
         /\ content # <<>>
         /\ \E k \in 1 .. 2 : Complete(content, {Decoded(t, k) : t \in read})
         /\ excerpt.text # <<>> /\ IsPrefix(excerpt.text, content)
         /\ ~ excerpt.cut => excerpt.text = content
    /\ NormalizeText(static) # <<>> => status \in {"ok", "cancelled"}

\* Render closes what it has opened before it returns, however it ends:
\* from then on nothing listens for the browser and no connection is taken
\* any more.  Those there are can only come to their ends, which they do
\* (NothingIsLeft of Service).
NothingOpensLate ==
  [][(at \in {"merging", "ending", "done"}) =>
      (proxy' # "open" /\ \A t \in Tunnel : tunnel[t] = "none" => tunnel'[t] = "none")]_fetch
=============================================================================
