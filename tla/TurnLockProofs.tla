--------------------------- MODULE TurnLockProofs ---------------------------
(***************************************************************************)
(* Proofs about the turn lock, for any set of callers and any durations    *)
(* with 2 * Renewal <= TTL (the code's are 10 s and 30 s).                 *)
(***************************************************************************)
EXTENDS TurnLock, TLAPS

Reliable == ~RenewErrors /\ ~LateRenewals

(***************************************************************************)
(* How the parts of the state hang together: the key has time left exactly *)
(* while it exists, and a renewal goroutine lives only for a turn that has *)
(* begun.                                                                  *)
(***************************************************************************)
Shape ==
  /\ (owner = None) <=> (left = 0)
  /\ \A c \in Caller :
       /\ renewer[c] = "armed" => pc[c] \in {"running", "closing"}
       /\ renewer[c] = "calling" => pc[c] \in {"running", "closing", "crashed"}
       /\ pc[c] = "running" => renewer[c] # "off"

(***************************************************************************)
(* With reliable renewals the goroutine of a running turn never gives up,  *)
(* and even a pending renewal finds the key with time left.                *)
(***************************************************************************)
Protected ==
  \A c \in Caller : pc[c] = "running" =>
    /\ owner = c
    /\ renewer[c] \in {"armed", "calling"}
    /\ left >= TTL - 2 * Renewal + alarm[c]

IInv == TypeOK /\ Shape /\ OnScheduleOwns

USE DistinctCallers, Durations, Environment

LEMMA TypeCorrectStep == TypeOK /\ [Next]_vars => TypeOK'
<1> SUFFICES ASSUME TypeOK, [Next]_vars PROVE TypeOK'
  OBVIOUS
<1>1. CASE Tick
  BY <1>1 DEF TypeOK, Tick, Ticking, Caller
<1>2. ASSUME NEW c \in Caller, Step(c) PROVE TypeOK'
  <2> USE DEF TypeOK, Attempts, StoreToken, Ends, Extend
  <2>1. CASE Acquire(c)
    BY <2>1 DEF Acquire
  <2>2. CASE Busy(c)
    BY <2>2 DEF Busy
  <2>3. CASE AcquireFails(c)
    BY <2>3 DEF AcquireFails
  <2>4. CASE AcquireReplyLost(c)
    BY <2>4 DEF AcquireReplyLost
  <2>5. CASE RenewCall(c)
    BY <2>5 DEF RenewCall
  <2>6. CASE RenewReply(c)
    BY <2>6 DEF RenewReply
  <2>7. CASE RenewRefused(c)
    BY <2>7 DEF RenewRefused
  <2>8. CASE RenewError(c)
    BY <2>8 DEF RenewError
  <2>9. CASE RenewerStops(c)
    BY <2>9 DEF RenewerStops
  <2>10. CASE Finish(c)
    BY <2>10 DEF Finish
  <2>11. CASE Release(c)
    BY <2>11 DEF Release
  <2>12. CASE ReleaseFails(c)
    BY <2>12 DEF ReleaseFails
  <2>13. CASE Crash(c)
    BY <2>13 DEF Crash
  <2>14. QED
    BY <1>2, <2>1, <2>2, <2>3, <2>4, <2>5, <2>6, <2>7, <2>8, <2>9, <2>10,
       <2>11, <2>12, <2>13 DEF Step
<1>3. CASE UNCHANGED vars
  BY <1>3 DEF TypeOK, vars
<1>4. QED
  BY <1>1, <1>2, <1>3 DEF Next

(***************************************************************************)
(* The values of the variables keep their types.                           *)
(***************************************************************************)
THEOREM TypeCorrect == Spec => []TypeOK
<1>1. Init => TypeOK
  BY DEF Init, TypeOK, Caller
<1>2. TypeOK /\ [Next]_vars => TypeOK'
  BY TypeCorrectStep
<1>3. QED
  BY <1>1, <1>2, PTL DEF Spec

-----------------------------------------------------------------------------
LEMMA ShapeStep == TypeOK /\ Shape /\ [Next]_vars => Shape'
<1> SUFFICES ASSUME TypeOK, Shape, [Next]_vars PROVE Shape'
  OBVIOUS
<1>1. CASE Tick
  BY <1>1 DEF TypeOK, Shape, Tick, Caller
<1>2. ASSUME NEW c \in Caller, Step(c) PROVE Shape'
  <2> USE DEF TypeOK, Shape, Attempts, StoreToken, Ends, Extend, Caller
  <2>1. CASE Acquire(c)
    BY <2>1 DEF Acquire
  <2>2. CASE Busy(c)
    BY <2>2 DEF Busy
  <2>3. CASE AcquireFails(c)
    BY <2>3 DEF AcquireFails
  <2>4. CASE AcquireReplyLost(c)
    BY <2>4 DEF AcquireReplyLost
  <2>5. CASE RenewCall(c)
    BY <2>5 DEF RenewCall
  <2>6. CASE RenewReply(c)
    BY <2>6 DEF RenewReply
  <2>7. CASE RenewRefused(c)
    BY <2>7 DEF RenewRefused
  <2>8. CASE RenewError(c)
    BY <2>8 DEF RenewError
  <2>9. CASE RenewerStops(c)
    BY <2>9 DEF RenewerStops
  <2>10. CASE Finish(c)
    BY <2>10 DEF Finish
  <2>11. CASE Release(c)
    BY <2>11 DEF Release
  <2>12. CASE ReleaseFails(c)
    BY <2>12 DEF ReleaseFails
  <2>13. CASE Crash(c)
    BY <2>13 DEF Crash
  <2>14. QED
    BY <1>2, <2>1, <2>2, <2>3, <2>4, <2>5, <2>6, <2>7, <2>8, <2>9, <2>10,
       <2>11, <2>12, <2>13 DEF Step
<1>3. CASE UNCHANGED vars
  BY <1>3 DEF Shape, vars
<1>4. QED
  BY <1>1, <1>2, <1>3 DEF Next

LEMMA OnScheduleStep ==
  TypeOK /\ Shape /\ OnScheduleOwns /\ [Next]_vars => OnScheduleOwns'
<1> SUFFICES ASSUME TypeOK, Shape, OnScheduleOwns, [Next]_vars,
                    NEW d \in Caller, OnSchedule(d)'
             PROVE  owner' = d /\ left' >= TTL - Renewal + alarm'[d]
  BY DEF OnScheduleOwns
<1>1. CASE Tick
  <2>1. OnSchedule(d) /\ Ticking(d) /\ alarm[d] > 1
    <3>1. renewer[d] = "armed" /\ Ticking(d)
      BY <1>1 DEF Tick, OnSchedule, Ticking, TypeOK, Shape
    <3>2. ~due'[d]
      BY DEF OnSchedule
    <3>3. ~due[d] /\ ~(Ticking(d) /\ alarm[d] = 1)
      BY <1>1, <3>2, Zenon DEF Tick
    <3>4. QED
      BY <3>1, <3>3 DEF OnSchedule, TypeOK
  <2>2. owner = d /\ left >= TTL - Renewal + alarm[d]
    BY <2>1 DEF OnScheduleOwns
  <2>3. alarm'[d] = alarm[d] - 1 /\ alarm[d] \in 2..Renewal
    BY <1>1, <2>1 DEF Tick, TypeOK
  <2>4. left' = left - 1 /\ left' # 0
    BY <1>1, <2>2, <2>3 DEF Tick, TypeOK
  <2>5. owner' = d
    BY <1>1, <2>2, <2>4 DEF Tick
  <2>6. QED
    BY <2>2, <2>3, <2>4, <2>5 DEF TypeOK
<1>2. ASSUME NEW c \in Caller, Step(c)
      PROVE  owner' = d /\ left' >= TTL - Renewal + alarm'[d]
  <2> USE DEF TypeOK, Shape, OnScheduleOwns, OnSchedule, Attempts, StoreToken,
              Ends, Extend, Caller
  <2>1. CASE Acquire(c)
    BY <2>1 DEF Acquire
  <2>2. CASE Busy(c)
    BY <2>2 DEF Busy
  <2>3. CASE AcquireFails(c)
    BY <2>3 DEF AcquireFails
  <2>4. CASE AcquireReplyLost(c)
    BY <2>4 DEF AcquireReplyLost
  <2>5. CASE RenewCall(c)
    BY <2>5 DEF RenewCall
  <2>6. CASE RenewReply(c)
    BY <2>6 DEF RenewReply
  <2>7. CASE RenewRefused(c)
    BY <2>7 DEF RenewRefused
  <2>8. CASE RenewError(c)
    BY <2>8 DEF RenewError
  <2>9. CASE RenewerStops(c)
    BY <2>9 DEF RenewerStops
  <2>10. CASE Finish(c)
    BY <2>10 DEF Finish
  <2>11. CASE Release(c)
    BY <2>11 DEF Release
  <2>12. CASE ReleaseFails(c)
    BY <2>12 DEF ReleaseFails
  <2>13. CASE Crash(c)
    BY <2>13 DEF Crash
  <2>14. QED
    BY <1>2, <2>1, <2>2, <2>3, <2>4, <2>5, <2>6, <2>7, <2>8, <2>9, <2>10,
       <2>11, <2>12, <2>13 DEF Step
<1>3. CASE UNCHANGED vars
  BY <1>3 DEF OnScheduleOwns, OnSchedule, vars
<1>4. QED
  BY <1>1, <1>2, <1>3 DEF Next

LEMMA Invariance == Spec => []IInv
<1>1. Init => IInv
  BY DEF Init, IInv, TypeOK, Shape, OnScheduleOwns, OnSchedule, Caller
<1>2. IInv /\ [Next]_vars => IInv'
  <2>1. TypeOK /\ [Next]_vars => TypeOK'
    BY TypeCorrectStep
  <2>2. QED
    BY <2>1, ShapeStep, OnScheduleStep DEF IInv
<1>3. QED
  BY <1>1, <1>2, PTL DEF Spec

(***************************************************************************)
(* A renewal goroutine that is on schedule holds the lock, with the time   *)
(* its next renewal needs (renewTurnLock).                                 *)
(***************************************************************************)
THEOREM RenewalKeepsLock == Spec => []OnScheduleOwns
BY Invariance, PTL DEF IInv

-----------------------------------------------------------------------------
(* Exclusion under reliable renewals.                                      *)

LEMMA ProtectedStep ==
  ASSUME Reliable
  PROVE  IInv /\ Protected /\ [Next]_vars => Protected'
<1> SUFFICES ASSUME IInv, Protected, [Next]_vars,
                    NEW d \in Caller, pc'[d] = "running"
             PROVE  /\ owner' = d
                    /\ renewer'[d] \in {"armed", "calling"}
                    /\ left' >= TTL - 2 * Renewal + alarm'[d]
  BY DEF Protected
<1> USE DEF Reliable, IInv
<1>1. CASE Tick
  <2>1. /\ pc[d] = "running" /\ owner = d
        /\ renewer[d] \in {"armed", "calling"}
        /\ left >= TTL - 2 * Renewal + alarm[d]
    BY <1>1 DEF Tick, Protected
  <2>2. renewer'[d] = renewer[d] /\ Ticking(d)
    BY <1>1, <2>1 DEF Tick, Ticking
  <2>3. alarm[d] \in 1..Renewal /\ left \in 0..TTL
    BY DEF TypeOK
  <2>4. left' = IF left = 0 THEN 0 ELSE left - 1
    BY <1>1 DEF Tick
  <2>5. CASE alarm[d] > 1
    <3>1. alarm'[d] = alarm[d] - 1
      BY <1>1, <2>2, <2>3, <2>5 DEF Tick
    <3>2. left' = left - 1 /\ left' > 0
      BY <2>1, <2>3, <2>4, <2>5
    <3>3. owner' = d
      BY <1>1, <2>1, <3>2 DEF Tick
    <3>4. QED
      BY <2>1, <2>2, <2>3, <3>1, <3>2, <3>3
  <2>6. CASE alarm[d] = 1
    <3>1. ~due[d] /\ renewer[d] = "armed"
      BY <1>1, <2>1, <2>2, <2>6 DEF Tick, Punctual
    <3>2. left >= TTL - Renewal + 1
      BY <3>1, <2>6 DEF OnScheduleOwns, OnSchedule
    <3>3. alarm'[d] = Renewal
      BY <1>1, <2>2, <2>6 DEF Tick
    <3>4. left' = left - 1 /\ left' > 0
      BY <2>3, <2>4, <3>2
    <3>5. owner' = d
      BY <1>1, <2>1, <3>4 DEF Tick
    <3>6. QED
      BY <2>1, <2>2, <2>3, <3>2, <3>3, <3>4, <3>5
  <2>7. QED
    BY <2>3, <2>5, <2>6
<1>2. ASSUME NEW c \in Caller, Step(c)
      PROVE  /\ owner' = d
             /\ renewer'[d] \in {"armed", "calling"}
             /\ left' >= TTL - 2 * Renewal + alarm'[d]
  <2> USE DEF TypeOK, Shape, Protected, Attempts, StoreToken, Ends, Extend,
              Caller
  <2>1. CASE Acquire(c)
    BY <2>1 DEF Acquire
  <2>2. CASE Busy(c)
    BY <2>2 DEF Busy
  <2>3. CASE AcquireFails(c)
    BY <2>3 DEF AcquireFails
  <2>4. CASE AcquireReplyLost(c)
    BY <2>4 DEF AcquireReplyLost
  <2>5. CASE RenewCall(c)
    BY <2>5 DEF RenewCall
  <2>6. CASE RenewReply(c)
    BY <2>6 DEF RenewReply
  <2>7. CASE RenewRefused(c)
    BY <2>7 DEF RenewRefused
  <2>8. CASE RenewError(c)
    BY <2>8 DEF RenewError
  <2>9. CASE RenewerStops(c)
    BY <2>9 DEF RenewerStops
  <2>10. CASE Finish(c)
    BY <2>10 DEF Finish
  <2>11. CASE Release(c)
    BY <2>11 DEF Release
  <2>12. CASE ReleaseFails(c)
    BY <2>12 DEF ReleaseFails
  <2>13. CASE Crash(c)
    BY <2>13 DEF Crash
  <2>14. QED
    BY <1>2, <2>1, <2>2, <2>3, <2>4, <2>5, <2>6, <2>7, <2>8, <2>9, <2>10,
       <2>11, <2>12, <2>13 DEF Step
<1>3. CASE UNCHANGED vars
  BY <1>3 DEF Protected, vars
<1>4. QED
  BY <1>1, <1>2, <1>3 DEF Next

LEMMA ProtectedInvariance == ASSUME Reliable PROVE Spec => []Protected
<1>1. Init => Protected
  BY DEF Init, Protected
<1>2. IInv /\ Protected /\ [Next]_vars => Protected'
  BY ProtectedStep
<1>3. QED
  BY <1>1, <1>2, Invariance, PTL DEF Spec

(***************************************************************************)
(* "At any time a session executes only one turn" (session.go), provided   *)
(* that renewals neither fail nor are late.                                *)
(***************************************************************************)
THEOREM Exclusion == ASSUME Reliable PROVE Spec => []MutualExclusion
<1>1. Protected => MutualExclusion
  BY DEF Protected, MutualExclusion, Running
<1>2. QED
  BY <1>1, ProtectedInvariance, PTL

-----------------------------------------------------------------------------
(* The lock is never stolen, whatever fails.                               *)

LEMMA NoTheftStep ==
  ASSUME IInv, [Next]_vars, NEW c \in Caller, owner = c, owner' # c
  PROVE  LeavesFairly(c)
<1> USE DEF IInv, TypeOK, Shape, Caller, LeavesFairly
<1>1. CASE Tick
  BY <1>1 DEF Tick
<1>2. ASSUME NEW d \in Caller, Step(d) PROVE LeavesFairly(c)
  <2>1. CASE Release(d)
    BY <2>1 DEF Release
  <2>2. CASE Acquire(d) \/ AcquireReplyLost(d)
    BY <2>2 DEF Acquire, AcquireReplyLost
  <2>3. CASE Busy(d) \/ AcquireFails(d) \/ RenewCall(d) \/ RenewReply(d)
    BY <2>3 DEF Busy, AcquireFails, RenewCall, RenewReply
  <2>4. CASE RenewRefused(d) \/ RenewError(d) \/ RenewerStops(d)
    BY <2>4 DEF RenewRefused, RenewError, RenewerStops
  <2>5. CASE Finish(d) \/ ReleaseFails(d) \/ Crash(d)
    BY <2>5 DEF Finish, ReleaseFails, Crash
  <2>6. QED
    BY <1>2, <2>1, <2>2, <2>3, <2>4, <2>5 DEF Step
<1>3. CASE UNCHANGED vars
  BY <1>3 DEF vars
<1>4. QED
  BY <1>1, <1>2, <1>3 DEF Next

(***************************************************************************)
(* The release script compares the token, so no caller ever frees or       *)
(* overwrites the lock of another one.                                     *)
(***************************************************************************)
THEOREM LockNeverStolen == Spec => NoTheft
<1>1. IInv /\ [Next]_vars =>
        [\A c \in Caller : owner = c /\ owner' # c => LeavesFairly(c)]_vars
  BY NoTheftStep
<1>2. QED
  BY <1>1, Invariance, PTL DEF Spec, NoTheft

-----------------------------------------------------------------------------
(* Implementing the contract of TurnLocker.                                *)

LEMMA ContractStep ==
  ASSUME IInv, Reliable => Protected, [Next]_vars
  PROVE  [Contract!Next]_(Contract!vars)
<1> USE DEF IInv, TypeOK, Shape, Running
<1>1. ASSUME Running' = Running, owner' = owner PROVE UNCHANGED Contract!vars
  BY <1>1 DEF Contract!vars
<1>2. CASE Tick
  <2>1. Running' = Running
    BY <1>2 DEF Tick
  <2>2. CASE owner' = owner
    BY <1>1, <2>1, <2>2
  <2>3. CASE owner' # owner /\ owner \in Running
    <3>1. owner' = None /\ owner \in Caller /\ None \notin Caller
      BY <1>2, <2>3 DEF Tick, Caller
    <3>2. RenewErrors \/ LateRenewals
      <4> SUFFICES ASSUME Reliable PROVE FALSE
        BY DEF Reliable
      <4>1. Protected /\ left > 1
        BY <1>2, <2>3, ProtectedStep DEF Reliable, Protected, Tick
      <4>2. QED
        BY <1>2, <2>3, <4>1 DEF Tick
    <3>3. PICK d \in Running : d = owner
      BY <2>3
    <3>4. {c \in Running' : owner' # c} = {c \in Running : owner # c} \cup {d}
      BY <2>1, <3>1, <3>3
    <3>5. Contract!Lose(d)
      BY <2>1, <2>3, <3>2, <3>3, <3>4 DEF Contract!Lose
    <3>6. QED
      BY <3>5, Zenon DEF Contract!Next
  <2>4. CASE owner' # owner /\ owner \notin Running
    <3>1. owner' = None /\ None \notin Running
      BY <1>2, <2>4 DEF Tick, Caller
    <3>2. {c \in Running' : owner' # c} = {c \in Running : owner # c}
      BY <2>1, <2>4, <3>1
    <3>3. QED
      BY <2>1, <3>2 DEF Contract!vars
  <2>5. QED
    BY <2>2, <2>3, <2>4
<1>3. ASSUME NEW d \in Caller, Step(d) PROVE [Contract!Next]_(Contract!vars)
  <2>1. CASE Acquire(d)
    <3>1. Running' = Running \cup {d} /\ d \notin Running
      BY <2>1 DEF Acquire, Attempts
    <3>2. owner = None /\ owner' = d /\ None \notin Running
      BY <2>1 DEF Acquire, StoreToken, Caller
    <3>3. Running = {c \in Running : owner # c}
      BY <3>2
    <3>4. {c \in Running' : owner' # c} = {c \in Running : owner # c}
      BY <3>1, <3>2
    <3>5. Contract!Begin(d)
      BY <3>1, <3>3, <3>4 DEF Contract!Begin
    <3>6. QED
      BY <3>5, Zenon DEF Contract!Next
  <2>2. CASE AcquireReplyLost(d)
    <3>1. Running' = Running /\ d \notin Running
      BY <2>2 DEF AcquireReplyLost, Attempts
    <3>2. owner = None /\ owner' = d /\ None \notin Running
      BY <2>2 DEF AcquireReplyLost, StoreToken, Caller
    <3>3. {c \in Running' : owner' # c} = {c \in Running : owner # c}
      BY <3>1, <3>2
    <3>4. QED
      BY <3>1, <3>3 DEF Contract!vars
  <2>3. CASE Finish(d) \/ Crash(d)
    <3>1. Running' = Running \ {d} /\ owner' = owner
      BY <2>3 DEF Finish, Crash
    <3>2. CASE d \in Running
      <4>1. Contract!End(d)
        BY <3>1, <3>2 DEF Contract!End
      <4>2. QED
        BY <4>1, Zenon DEF Contract!Next
    <3>3. CASE d \notin Running
      BY <1>1, <3>1, <3>3
    <3>4. QED
      BY <3>2, <3>3
  <2>4. CASE Release(d)
    <3>1. Running' = Running /\ d \notin Running /\ None \notin Running
      BY <2>4 DEF Release, Caller
    <3>2. owner' = owner \/ (owner = d /\ owner' = None)
      BY <2>4 DEF Release
    <3>3. {c \in Running' : owner' # c} = {c \in Running : owner # c}
      BY <3>1, <3>2
    <3>4. QED
      BY <3>1, <3>3 DEF Contract!vars
  <2>5. CASE Busy(d) \/ AcquireFails(d) \/ ReleaseFails(d)
    <3>1. Running' = Running /\ owner' = owner
      BY <2>5 DEF Busy, AcquireFails, ReleaseFails, Attempts
    <3>2. QED
      BY <1>1, <3>1
  <2>6. CASE \/ RenewCall(d) \/ RenewReply(d) \/ RenewRefused(d)
             \/ RenewError(d) \/ RenewerStops(d)
    <3>1. Running' = Running /\ owner' = owner
      BY <2>6 DEF RenewCall, RenewReply, RenewRefused, RenewError, RenewerStops
    <3>2. QED
      BY <1>1, <3>1
  <2>7. QED
    BY <1>3, <2>1, <2>2, <2>3, <2>4, <2>5, <2>6 DEF Step
<1>4. CASE UNCHANGED vars
  BY <1>1, <1>4 DEF vars
<1>5. QED
  BY <1>2, <1>3, <1>4 DEF Next

(***************************************************************************)
(* The Redis lock implements the TurnLocker contract: turns begin one at a *)
(* time, and exclusivity is lost only where renewals can fail or be late.  *)
(***************************************************************************)
THEOREM LockKeepsContract == Spec => KeepsContract
<1>1. Init => Contract!Init
  BY DEF Init, Contract!Init, Running
<1>2. IInv /\ (Reliable => Protected) /\ [Next]_vars
        => [Contract!Next]_(Contract!vars)
  BY ContractStep
<1>3. Spec => [](Reliable => Protected)
  <2>1. CASE Reliable
    BY <2>1, ProtectedInvariance, PTL
  <2>2. CASE ~Reliable
    BY <2>2, PTL
  <2>3. QED
    BY <2>1, <2>2
<1>4. QED
  BY <1>1, <1>2, <1>3, Invariance, PTL DEF Spec, KeepsContract, Contract!Spec
=============================================================================
