------------------------------ MODULE TurnLock ------------------------------
(***************************************************************************)
(* The Redis turn lock of ONE session (AcquireTurn, renewTurnLock and the  *)
(* release closure of store/redis/store.go), with the retry loop of the    *)
(* chat service's DeleteSession (session_turn.go).                         *)
(*                                                                         *)
(* The lock is a key with a time to live that holds the token of one       *)
(* AcquireTurn call.  A goroutine renews it on every tick of a Go ticker;  *)
(* it gives up silently on the first error or when the key no longer holds *)
(* its token.  The turn itself is never told.                              *)
(*                                                                         *)
(* Time is discrete.  A call of AcquireTurn is identified with its token.  *)
(***************************************************************************)
EXTENDS Integers

CONSTANTS
  Turn,          \* calls of AcquireTurn that try once (StreamSession)
  Waiter,        \* calls that poll until they hold the lock (DeleteSession)
  None,          \* the key does not exist
  TTL,           \* ephemeralTurnLockTTL, in ticks
  Renewal,       \* ephemeralTurnRenewal, in ticks
  RenewErrors,   \* may a renewal script return an error?
  LateRenewals   \* may a renewal take longer than Renewal?

ASSUME DistinctCallers ==
  /\ Turn \cap Waiter = {}
  /\ None \notin Turn \cup Waiter
ASSUME Durations ==
  /\ TTL \in Nat
  /\ Renewal \in Nat \ {0}
  /\ 2 * Renewal <= TTL
ASSUME Environment ==
  /\ RenewErrors \in BOOLEAN
  /\ LateRenewals \in BOOLEAN

Caller == Turn \cup Waiter

VARIABLES
  owner,    \* the token stored under the key, or None
  left,     \* the remaining time to live of the key
  pc,       \* where each caller is
  renewer,  \* the renewal goroutine of each caller
  alarm,    \* ticks until the caller's ticker fires next
  due       \* is a tick waiting in the ticker's channel (capacity one)?

vars == <<owner, left, pc, renewer, alarm, due>>

TypeOK ==
  /\ owner \in Caller \cup {None}
  /\ left \in 0..TTL
  /\ pc \in [Caller -> {"idle", "waiting", "running", "closing",
                        "ended", "refused", "crashed"}]
  /\ renewer \in [Caller -> {"off", "armed", "calling", "stopped"}]
  /\ alarm \in [Caller -> 1..Renewal]
  /\ due \in [Caller -> BOOLEAN]

Init ==
  /\ owner = None
  /\ left = 0
  /\ pc = [c \in Caller |-> "idle"]
  /\ renewer = [c \in Caller |-> "off"]
  /\ alarm = [c \in Caller |-> Renewal]
  /\ due = [c \in Caller |-> FALSE]

-----------------------------------------------------------------------------
(* Acquiring.                                                              *)

\* MUTANT of Attempts: ErrTurnInProgress is never retried.
AttemptsOnce(c) == pc[c] = "idle"

Attempts(c) == pc[c] \in {"idle", "waiting"}

StoreToken(c) == owner' = c /\ left' = TTL

\* MUTANT of Acquire: SET without NX overwrites the token of another caller.
AcquireOverwrites(c) ==
  /\ Attempts(c)
  /\ StoreToken(c)
  /\ pc' = [pc EXCEPT ![c] = "running"]
  /\ renewer' = [renewer EXCEPT ![c] = "armed"]
  /\ alarm' = [alarm EXCEPT ![c] = Renewal]
  /\ due' = [due EXCEPT ![c] = FALSE]

\* SET NX succeeded and the caller was told: the renewal goroutine starts.
Acquire(c) ==
  /\ Attempts(c)
  /\ owner = None
  /\ StoreToken(c)
  /\ pc' = [pc EXCEPT ![c] = "running"]
  /\ renewer' = [renewer EXCEPT ![c] = "armed"]
  /\ alarm' = [alarm EXCEPT ![c] = Renewal]
  /\ due' = [due EXCEPT ![c] = FALSE]

\* Another token is stored: ErrTurnInProgress, which only a waiter retries.
Busy(c) ==
  /\ pc[c] = "idle"
  /\ owner # None
  /\ pc' = [pc EXCEPT ![c] = IF c \in Waiter THEN "waiting" ELSE "refused"]
  /\ UNCHANGED <<owner, left, renewer, alarm, due>>

\* The command fails, or the context of the caller ends while it polls.
AcquireFails(c) ==
  /\ Attempts(c)
  /\ pc' = [pc EXCEPT ![c] = "refused"]
  /\ UNCHANGED <<owner, left, renewer, alarm, due>>

\* SET NX took effect but its reply was lost.  The client reports an error,
\* or retries and finds its own token: nobody renews or releases the key.
AcquireReplyLost(c) ==
  /\ Attempts(c)
  /\ owner = None
  /\ StoreToken(c)
  /\ \E result \in {"refused"} \cup (IF c \in Waiter THEN {"waiting"} ELSE {}) :
       pc' = [pc EXCEPT ![c] = result]
  /\ UNCHANGED <<renewer, alarm, due>>

-----------------------------------------------------------------------------
(* The renewal goroutine.                                                  *)

\* The ticker runs until the goroutine returns.
Ticking(c) == renewer[c] \in {"armed", "calling"} /\ pc[c] # "crashed"

\* The goroutine ends as `how`, and its ticker is stopped.
Ends(c, how) ==
  /\ renewer' = [renewer EXCEPT ![c] = how]
  /\ alarm' = [alarm EXCEPT ![c] = Renewal]
  /\ due' = [due EXCEPT ![c] = FALSE]

\* select takes the tick, even when done is closed as well.
RenewCall(c) ==
  /\ renewer[c] = "armed"
  /\ due[c]
  /\ due' = [due EXCEPT ![c] = FALSE]
  /\ renewer' = [renewer EXCEPT ![c] = "calling"]
  /\ UNCHANGED <<owner, left, pc, alarm>>

\* MUTANT of Extend: the renewal adds to the remaining time.
ExtendAdds(c) == left' = IF owner = c THEN left + TTL ELSE left

\* The script compares the token before it extends the key.
Extend(c) == left' = IF owner = c THEN TTL ELSE left

\* The key is extended: the goroutine waits for the next tick.
RenewReply(c) ==
  /\ renewer[c] = "calling"
  /\ owner = c
  /\ pc[c] # "crashed"
  /\ Extend(c)
  /\ renewer' = [renewer EXCEPT ![c] = "armed"]
  /\ UNCHANGED <<owner, pc, alarm, due>>

\* MUTANT of RenewRefused: the goroutine ignores the script's result 0.
RenewRefusedIgnored(c) ==
  /\ renewer[c] = "calling"
  /\ owner # c
  /\ renewer' = [renewer EXCEPT ![c] = "armed"]
  /\ UNCHANGED <<owner, left, pc, alarm, due>>

\* The key holds another token, or nobody is left to read the reply.
RenewRefused(c) ==
  /\ renewer[c] = "calling"
  /\ owner # c \/ pc[c] = "crashed"
  /\ Extend(c)
  /\ Ends(c, "stopped")
  /\ UNCHANGED <<owner, pc>>

\* An error ends the goroutine, whether or not the script took effect.
RenewError(c) ==
  /\ RenewErrors
  /\ renewer[c] = "calling"
  /\ Extend(c) \/ UNCHANGED left
  /\ Ends(c, "stopped")
  /\ UNCHANGED <<owner, pc>>

\* select takes the closed done channel.
RenewerStops(c) ==
  /\ renewer[c] = "armed"
  /\ pc[c] = "closing"
  /\ Ends(c, "stopped")
  /\ UNCHANGED <<owner, left, pc>>

-----------------------------------------------------------------------------
(* Releasing, crashing, and the passing of time.                           *)

\* The turn is over; its release function closes done and waits.
Finish(c) ==
  /\ pc[c] = "running"
  /\ pc' = [pc EXCEPT ![c] = "closing"]
  /\ UNCHANGED <<owner, left, renewer, alarm, due>>

\* MUTANT of Release: DEL without comparing the token.
ReleaseAnyToken(c) ==
  /\ pc[c] = "closing"
  /\ renewer[c] = "stopped"
  /\ pc' = [pc EXCEPT ![c] = "ended"]
  /\ owner' = None /\ left' = 0
  /\ UNCHANGED <<renewer, alarm, due>>

\* The goroutine has returned: the release script deletes the key if it
\* still holds this token.
Release(c) ==
  /\ pc[c] = "closing"
  /\ renewer[c] = "stopped"
  /\ pc' = [pc EXCEPT ![c] = "ended"]
  /\ owner' = IF owner = c THEN None ELSE owner
  /\ left' = IF owner = c THEN 0 ELSE left
  /\ UNCHANGED <<renewer, alarm, due>>

\* MUTANT of ReleaseFails: done is not closed, the goroutine lives on.
ReleaseFailsRenewing(c) ==
  /\ pc[c] = "closing"
  /\ renewer[c] = "armed"
  /\ pc' = [pc EXCEPT ![c] = "ended"]
  /\ UNCHANGED <<owner, left, renewer, alarm, due>>

\* The release script fails; its error is dropped and the key stays.
ReleaseFails(c) ==
  /\ pc[c] = "closing"
  /\ renewer[c] = "stopped"
  /\ pc' = [pc EXCEPT ![c] = "ended"]
  /\ UNCHANGED <<owner, left, renewer, alarm, due>>

\* The process dies.  A renewal on the wire may still reach Redis.
Crash(c) ==
  /\ pc[c] \in {"waiting", "running", "closing"}
  /\ pc' = [pc EXCEPT ![c] = "crashed"]
  /\ Ends(c, IF renewer[c] = "calling" THEN "calling" ELSE "off")
  /\ UNCHANGED <<owner, left>>

\* A renewal that is due is over before the next one would be.
Punctual ==
  \A c \in Caller :
    Ticking(c) /\ (due[c] \/ renewer[c] = "calling") => alarm[c] > 1

Tick ==
  /\ LateRenewals \/ Punctual
  /\ left' = IF left = 0 THEN 0 ELSE left - 1
  /\ owner' = IF left' = 0 THEN None ELSE owner
  /\ alarm' = [c \in Caller |-> IF ~Ticking(c) THEN alarm[c]
                                ELSE IF alarm[c] = 1 THEN Renewal
                                ELSE alarm[c] - 1]
  /\ due' = [c \in Caller |-> due[c] \/ (Ticking(c) /\ alarm[c] = 1)]
  /\ UNCHANGED <<pc, renewer>>

-----------------------------------------------------------------------------
Step(c) ==
  \/ Acquire(c) \/ Busy(c) \/ AcquireFails(c) \/ AcquireReplyLost(c)
  \/ RenewCall(c) \/ RenewReply(c) \/ RenewRefused(c) \/ RenewError(c)
  \/ RenewerStops(c) \/ Finish(c) \/ Release(c) \/ ReleaseFails(c) \/ Crash(c)

Next == Tick \/ \E c \in Caller : Step(c)

Spec == Init /\ [][Next]_vars

(***************************************************************************)
(* Time passes; goroutines that can run do run; a turn comes to an end and *)
(* a waiter keeps polling.  Go's select chooses at random among the ready  *)
(* channels, so a closed done channel is taken even if ticks keep coming;  *)
(* and a network that loses replies does not lose every one of them.       *)
(***************************************************************************)
Fairness ==
  /\ WF_vars(Tick)
  /\ \A c \in Caller :
       /\ WF_vars(RenewCall(c))
       /\ WF_vars(RenewReply(c) \/ RenewRefused(c) \/ RenewError(c))
       /\ SF_vars(RenewerStops(c))
       /\ WF_vars(Finish(c)) /\ WF_vars(Release(c) \/ ReleaseFails(c))
       /\ SF_vars(Acquire(c))

FairSpec == Spec /\ Fairness

-----------------------------------------------------------------------------
Running == {c \in Caller : pc[c] = "running"}

\* The renewal goroutine waits in select and no tick has reached it yet.
OnSchedule(c) == renewer[c] = "armed" /\ ~due[c]

(***************************************************************************)
(* "TurnLocker: at any time a session executes only one turn, in whichever *)
(* instance" (session.go).                                                 *)
(***************************************************************************)
MutualExclusion == \A c, d \in Running : c = d

(***************************************************************************)
(* As long as a renewal goroutine is on schedule its turn owns the lock,   *)
(* with at least the time the next tick needs: the lock is lost only after *)
(* a renewal that failed, was refused, or stayed pending or unanswered.    *)
(***************************************************************************)
OnScheduleOwns ==
  \A c \in Caller : OnSchedule(c) =>
    owner = c /\ left >= TTL - Renewal + alarm[c]

\* The key of c goes in this step for a reason c may expect.
LeavesFairly(c) ==
  /\ owner' = None
  /\ \/ left = 1 /\ pc' = pc
     \/ pc[c] = "closing" /\ pc'[c] = "ended" /\ renewer[c] = "stopped"

(***************************************************************************)
(* Nobody takes the lock away from the token that owns it: the key goes    *)
(* only when its time is up or when its own holder, its goroutine stopped, *)
(* releases it, and it is never handed over in one step.                   *)
(***************************************************************************)
NoTheft == [][\A c \in Caller : owner = c /\ owner' # c => LeavesFairly(c)]_vars

(***************************************************************************)
(* A lock whose holder crashed, whose release failed or whose acquisition  *)
(* was never confirmed does not block the session for ever.                *)
(***************************************************************************)
AbandonedLockExpires ==
  \A c \in Caller :
    (owner = c /\ pc[c] \notin {"running", "closing"}) ~> (owner # c)

(***************************************************************************)
(* A deletion that waits for the turns before it is served once they stop  *)
(* arriving, whatever those turns do to the lock.                          *)
(***************************************************************************)
WaiterServed == \A c \in Waiter : (pc[c] = "waiting") ~> (pc[c] # "waiting")

(***************************************************************************)
(* The lock keeps the TurnLocker contract: a turn loses its exclusivity    *)
(* only where renewals can fail or be late.                                *)
(***************************************************************************)
Contract == INSTANCE TurnLocker WITH
  Turn <- Caller,
  MayLose <- RenewErrors \/ LateRenewals,
  executing <- Running,
  lost <- {c \in Running : owner # c}

KeepsContract == Contract!Spec
=============================================================================
