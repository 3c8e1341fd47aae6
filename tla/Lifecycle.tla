----------------------------- MODULE Lifecycle ------------------------------
(***************************************************************************)
(* The start of the service (main, initializeClient, initialize) and its   *)
(* end (the shutdown hooks): which connections are opened, and which are   *)
(* closed when a stage of the start fails or the service is stopped.       *)
(*                                                                         *)
(* The start is one goroutine.  main gives it a context that is never      *)
(* cancelled.  Where a stage only makes values (prompts, clients that      *)
(* connect later, runtimes), all that is kept of it is that it may fail.   *)
(* Hertz, which is external, runs the hooks while requests that are in     *)
(* progress go on; the hook of CozeLoop closes a client that nothing else  *)
(* here uses and is left out.                                              *)
(***************************************************************************)
EXTENDS Integers

VARIABLES
  stage,    \* of the start, or "serving", or of the end
  held,     \* the connections initialize has in its variables
  opened,   \* how often each connection has been opened ...
  closed,   \* ... and closed
  browser   \* the web fetch client has a browser

start == <<stage, held, opened, closed, browser>>

Connection == {"mcp", "postgres", "redis"}

\* The stages of the start, each with the next; those of initialize are all
\* but the first two and main's last, and three of them open a connection.
After ==
  [env |-> "cozeloop", cozeloop |-> "instruction",
   instruction |-> "model", model |-> "knowledge", knowledge |-> "tongji",
   tongji |-> "catalog", catalog |-> "tavily", tavily |-> "webfetch",
   webfetch |-> "chromium", chromium |-> "mcp", mcp |-> "mcpTools",
   mcpTools |-> "sandbox", sandbox |-> "sessionConfig",
   sessionConfig |-> "postgres", postgres |-> "schema", schema |-> "redis",
   redis |-> "taskplan", taskplan |-> "runtime", runtime |-> "tiers",
   tiers |-> "cors", cors |-> "serving"]

Starting == DOMAIN After
Initialize == Starting \ {"env", "cozeloop", "cors"}
Ending == {"undoing", "panicked", "abandoned", "stopping", "stopped"}

StartTypeOK ==
  /\ stage \in Starting \cup {"serving"} \cup Ending
  /\ held \in SUBSET Connection
  /\ opened \in [Connection -> Nat]
  /\ closed \in [Connection -> Nat]
  /\ browser \in BOOLEAN

StartInit ==
  /\ stage = "env"
  /\ held = {}
  /\ opened = [c \in Connection |-> 0]
  /\ closed = [c \in Connection |-> 0]
  /\ browser = TRUE

-----------------------------------------------------------------------------
(***************************************************************************)
(* The start                                                               *)
(***************************************************************************)

\* A stage that opens nothing succeeds.  The last one is main's: the hooks
\* are registered and the server spins.
Pass ==
  /\ stage \in Starting \ (Connection \cup {"chromium"})
  /\ stage' = After[stage]
  /\ UNCHANGED <<held, opened, closed, browser>>

\* A browser that cannot be started is done without.
VerifyChromium(ok) ==
  /\ stage = "chromium"
  /\ browser' = ok
  /\ stage' = After[stage]
  /\ UNCHANGED <<held, opened, closed>>

Open(c) ==
  /\ stage = c
  /\ opened' = [opened EXCEPT ![c] = @ + 1]
  /\ held' = held \cup {c}
  /\ stage' = After[stage]
  /\ UNCHANGED <<closed, browser>>

\* What follows an error of initialize: the deferred closeResources, once
\* there is a connection to MCP.
Undo == stage' = IF "mcp" \in held THEN "undoing" ELSE "panicked"

\* A connection cannot be made ...
OpenFails(c) ==
  /\ stage = c
  /\ Undo
  /\ UNCHANGED <<held, opened, closed, browser>>

\* A mutant: the client whose first request fails is left open.
ProbeFailsOpen(c) ==
  /\ stage = c
  /\ opened' = [opened EXCEPT ![c] = @ + 1]
  /\ Undo
  /\ UNCHANGED <<held, closed, browser>>

\* ... or is made and does not answer: its constructor closes it.
ProbeFails(c) ==
  /\ stage = c
  /\ opened' = [opened EXCEPT ![c] = @ + 1]
  /\ closed' = [closed EXCEPT ![c] = @ + 1]
  /\ Undo
  /\ UNCHANGED <<held, browser>>

\* Another stage of initialize fails.
InitializeFails ==
  /\ stage \in Initialize \ (Connection \cup {"chromium"})
  /\ Undo
  /\ UNCHANGED <<held, opened, closed, browser>>

\* initializeClient panics before initialize ...
EnvironmentFails ==
  /\ stage \in {"env", "cozeloop"}
  /\ stage' = "panicked"
  /\ UNCHANGED <<held, opened, closed, browser>>

\* ... or main after it, and then nothing is closed but by the exit.
CorsFails ==
  /\ stage = "cors"
  /\ stage' = "abandoned"
  /\ UNCHANGED <<held, opened, closed, browser>>

-----------------------------------------------------------------------------
(***************************************************************************)
(* The end                                                                 *)
(***************************************************************************)

\* The process is told to stop and runs the hook of the chat service.
Shutdown ==
  /\ stage = "serving"
  /\ stage' = "stopping"
  /\ UNCHANGED <<held, opened, closed, browser>>

\* closeResources: redis, PostgreSQL and MCP, those there are; an error of
\* one does not keep it from the next.
CloseResources ==
  /\ stage \in {"undoing", "stopping"}
  /\ closed' = [c \in Connection |-> closed[c] + IF c \in held THEN 1 ELSE 0]
  /\ stage' = IF stage = "undoing" THEN "panicked" ELSE "stopped"
  /\ UNCHANGED <<held, opened, browser>>

-----------------------------------------------------------------------------
\* All but the look for a browser, which is PageFetch's.
Step ==
  \/ Pass \/ InitializeFails \/ EnvironmentFails \/ CorsFails
  \/ \E c \in Connection : Open(c) \/ OpenFails(c) \/ ProbeFails(c)
  \/ Shutdown \/ CloseResources

StartNext == Step \/ \E ok \in BOOLEAN : VerifyChromium(ok)

StartSpec == StartInit /\ [][StartNext]_start

\* Wherever the start fails, what it has opened by then is closed, once:
\* the half-made connection by its constructor, the others by
\* closeResources.  While the service serves all three are open, and its
\* end closes each of them once.
ConnectionsAreClosedOnce ==
  /\ \A c \in Connection : closed[c] <= opened[c]
  /\ stage \in {"panicked", "stopped"} => closed = opened
  /\ stage = "serving" =>
       \A c \in Connection : opened[c] = 1 /\ closed[c] = 0
=============================================================================
