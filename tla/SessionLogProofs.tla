-------------------------- MODULE SessionLogProofs --------------------------
(***************************************************************************)
(* Theorems about SessionLog, for any number of appends and readers, any   *)
(* window and any size of page: the sequences are consecutive, a stored    *)
(* message stays, and the pages of a snapshot fit together.                *)
(***************************************************************************)
EXTENDS SessionLog, FunctionTheorems, FiniteSetTheorems, TLAPS

-----------------------------------------------------------------------------
(***************************************************************************)
(* Sets of messages with consecutive sequences                             *)
(***************************************************************************)

Messages == [sequence : Sequence, by : Writer]

\* M has one message for each sequence from a to b, and no other.
Consecutive(M, a, b) ==
  /\ {m.sequence : m \in M} = a .. b
  /\ \A m, n \in M : m.sequence = n.sequence => m = n

\* The size of an interval of integers.
Size(a, b) == IF a > b THEN 0 ELSE b - a + 1

LEMMA ConsecutiveSize ==
  ASSUME NEW M, NEW a \in Int, NEW b \in Int, Consecutive(M, a, b)
  PROVE  IsFiniteSet(M) /\ Cardinality(M) = Size(a, b)
<1> DEFINE f == [s \in a .. b |-> CHOOSE m \in M : m.sequence = s]
<1>1. \A s \in a .. b : f[s] \in M /\ f[s].sequence = s
  BY DEF Consecutive
<1>2. f \in [a .. b -> M]
  BY <1>1
<1>3. \A m \in M : m.sequence \in a .. b
  BY DEF Consecutive
<1>4. \A m \in M : f[m.sequence] = m
  BY <1>1, <1>3 DEF Consecutive
<1> HIDE DEF f
<1>5. f \in Injection(a .. b, M)
  BY <1>1, <1>2 DEF Injection, IsInjective
<1>6. f \in Surjection(a .. b, M)
  BY <1>2, <1>3, <1>4 DEF Surjection
<1>7. ExistsBijection(a .. b, M)
  BY <1>5, <1>6 DEF ExistsBijection, Bijection
<1> QED BY <1>7, FS_Interval, FS_Bijection DEF Size

\* A part of such a set, cut by sequence.
LEMMA ConsecutivePart ==
  ASSUME NEW M, NEW a \in Int, NEW b \in Int, Consecutive(M, a, b),
         NEW c \in Int, NEW d \in Int, a <= c, d <= b,
         NEW P, P = {m \in M : c <= m.sequence /\ m.sequence <= d}
  PROVE  Consecutive(P, c, d)
<1>1. \A m \in M : m.sequence \in a .. b
  BY DEF Consecutive
<1>2. ASSUME NEW s \in c .. d PROVE \E m \in P : m.sequence = s
  <2>1. s \in a .. b
    OBVIOUS
  <2>2. PICK m \in M : m.sequence = s
    BY <2>1 DEF Consecutive
  <2> QED BY <2>2
<1>3. ASSUME NEW m \in P PROVE m.sequence \in c .. d
  BY <1>1
<1> QED BY <1>2, <1>3 DEF Consecutive

\* How many messages of such a set are newer than one of them.
LEMMA ConsecutiveRank ==
  ASSUME NEW M, NEW a \in Int, NEW b \in Int, Consecutive(M, a, b), NEW m \in M
  PROVE  Cardinality({n \in M : n.sequence > m.sequence}) = b - m.sequence
<1>1. m.sequence \in a .. b
  BY DEF Consecutive
<1>2. \A n \in M : n.sequence \in a .. b
  BY DEF Consecutive
<1> DEFINE c == m.sequence + 1
           P == {n \in M : c <= n.sequence /\ n.sequence <= b}
<1>3. c \in Int /\ a <= c
  BY <1>1
<1>4. {n \in M : n.sequence > m.sequence} = P
  BY <1>1, <1>2
<1> HIDE DEF P
<1>5. Consecutive(P, c, b)
  BY <1>3, ConsecutivePart DEF P
<1>6. Cardinality(P) = Size(c, b)
  BY <1>3, <1>5, ConsecutiveSize
<1>7. Size(c, b) = b - m.sequence
  <2>1. ASSUME NEW s \in a .. b PROVE Size(s + 1, b) = b - s
    BY DEF Size
  <2> QED BY <1>1, <2>1
<1> QED BY <1>4, <1>6, <1>7

\* A message with the next sequence is added.
LEMMA ConsecutiveNext ==
  ASSUME NEW M, NEW a \in Int, NEW b \in Int, Consecutive(M, a, b), a <= b + 1,
         NEW m, m.sequence = b + 1
  PROVE  Consecutive(M \cup {m}, a, b + 1)
<1>1. \A n \in M : n.sequence \in a .. b
  BY DEF Consecutive
<1>2. {n.sequence : n \in M \cup {m}} = a .. b + 1
  <2>1. ASSUME NEW s \in a .. b + 1
        PROVE  \E n \in M \cup {m} : n.sequence = s
    <3>1. CASE s = b + 1
      BY <3>1
    <3>2. CASE s # b + 1
      <4>1. s \in a .. b
        BY <3>2
      <4> QED BY <4>1 DEF Consecutive
    <3> QED BY <3>1, <3>2
  <2>2. \A n \in M \cup {m} : n.sequence \in a .. b + 1
    BY <1>1
  <2> QED BY <2>1, <2>2
<1>3. \A n \in M : n.sequence # m.sequence
  BY <1>1
<1> QED BY <1>2, <1>3 DEF Consecutive

\* What LTRIM leaves of such a set.
LEMMA TrimmedConsecutive ==
  ASSUME NEW M, NEW a \in Int, NEW b \in Int, Consecutive(M, a, b),
         NEW c \in Int,
         c = IF a <= b - MaxItems + 1 THEN b - MaxItems + 1 ELSE a
  PROVE  /\ Consecutive(Trimmed(M), c, b)
         /\ \A m \in M \ Trimmed(M) : b - m.sequence >= MaxItems
<1>1. \A m \in M : m.sequence \in a .. b
  BY DEF Consecutive
<1>2. \A m \in M :
        Cardinality({n \in M : n.sequence > m.sequence}) = b - m.sequence
  BY ConsecutiveRank
<1>3. \A m \in M : m \in Trimmed(M) <=> b - m.sequence < MaxItems
  BY <1>2 DEF Trimmed
<1>4. \A m \in M : b - m.sequence < MaxItems
                     <=> c <= m.sequence /\ m.sequence <= b
  <2>1. ASSUME NEW s \in a .. b
        PROVE  b - s < MaxItems <=> c <= s /\ s <= b
    BY Sizes
  <2> QED BY <1>1, <2>1
<1>5. Trimmed(M) = {m \in M : c <= m.sequence /\ m.sequence <= b}
  BY <1>3, <1>4 DEF Trimmed
<1>6. a <= c
  BY Sizes
<1>7. Consecutive(Trimmed(M), c, b)
  BY <1>5, <1>6, ConsecutivePart
<1>8. ASSUME NEW m \in M \ Trimmed(M) PROVE b - m.sequence >= MaxItems
  <2>1. m.sequence \in Int
    BY <1>1
  <2> QED BY <1>3, <2>1, Sizes
<1> QED BY <1>7, <1>8

-----------------------------------------------------------------------------
(***************************************************************************)
(* The log                                                                 *)
(***************************************************************************)

\* The latest sequence that a message of the session has got, and the first
\* of the messages that are kept.
Last == IF durable THEN Cardinality(messages) ELSE nextSequence
First == Last - Cardinality(messages) + 1

Kept ==
  /\ Cardinality(messages) \in Nat
  /\ Consecutive(messages, First, Last)
  /\ ~ durable =>
       Cardinality(messages) = IF nextSequence <= MaxItems THEN nextSequence
                                                           ELSE MaxItems
  /\ ~ alive => messages = {} /\ nextSequence = 0

\* One transaction at a time holds the row, and knows the next sequence.
RowHeld ==
  /\ \A w \in Holding : durable /\ alive
  /\ \A v, w \in Holding : v = w
  /\ \A w \in Writer : write[w] = "allocated" => sequence[w] = Last + 1

LogInv ==
  /\ Kept
  /\ RowHeld
  /\ \A w \in acknowledged : write[w] = "done"
  /\ AcknowledgedStays

LEMMA LastType ==
  ASSUME TypeOK, Kept
  PROVE  /\ Last \in Nat /\ First \in Nat \ {0} /\ First <= Last + 1
         /\ Cardinality(messages) <= Last
         /\ messages = {} <=> Last = 0
<1>1. Last \in Nat /\ Cardinality(messages) \in Nat
  BY DEF TypeOK, Kept, Last
<1>2. Cardinality(messages) <= Last
  BY <1>1, Sizes DEF TypeOK, Kept, Last
<1>3. First \in Nat \ {0} /\ First <= Last + 1
  BY <1>1, <1>2 DEF First
<1>4. IsFiniteSet(messages)
  BY <1>1, <1>3, ConsecutiveSize DEF Kept
<1>5. Cardinality(messages) = 0 <=> messages = {}
  BY <1>4, FS_EmptySet
<1>6. Cardinality(messages) = 0 <=> Last = 0
  BY <1>1, Sizes DEF TypeOK, Kept, Last
<1> QED BY <1>1, <1>2, <1>3, <1>5, <1>6

\* The greatest sequence of the table or the list is the latest.
LEMMA LatestIsLast ==
  ASSUME TypeOK, Kept
  PROVE  Latest = Last
<1>1. CASE messages = {}
  BY <1>1, LastType DEF Latest
<1>2. CASE messages # {}
  <2>1. /\ Last \in Nat /\ First \in Nat /\ Sequences = First .. Last
    BY LastType DEF Kept, Consecutive, Sequences
  <2>2. Sequences # {}
    BY <1>2 DEF Sequences
  <2>3. Last \in Sequences /\ \A k \in Sequences : k <= Last
    BY <2>1, <2>2
  <2>4. ASSUME NEW n \in Sequences, \A k \in Sequences : k <= n
        PROVE  n = Last
    BY <2>1, <2>3, <2>4
  <2> QED BY <1>2, <2>3, <2>4 DEF Latest
<1> QED BY <1>1, <1>2

LEMMA ReachedIs ==
  ASSUME TypeOK, NEW w \in Writer, NEW step, Reached(w, step)
  PROVE  write'[w] = step /\ \A v \in Writer : v # w => write'[v] = write[v]
BY DEF TypeOK, Reached

\* What storing the next message does to the log, in either store.
LEMMA StoredNext ==
  ASSUME TypeOK, Kept, alive, NEW w \in Writer,
         NEW m, m = [sequence |-> Last + 1, by |-> w],
         UNCHANGED <<durable, alive>>,
         IF durable
           THEN messages' = messages \cup {m} /\ UNCHANGED nextSequence
           ELSE /\ messages' = Trimmed(messages \cup {m})
                /\ nextSequence' = nextSequence + 1
  PROVE  /\ messages' \subseteq Messages
         /\ Kept' /\ Last' = Last + 1
         /\ \A n \in messages :
              \/ n \in messages'
              \/ ~ durable /\ nextSequence' - n.sequence >= MaxItems
         /\ m \in messages'
<1>0. /\ Last \in Nat /\ First \in Nat \ {0} /\ First <= Last + 1
      /\ Cardinality(messages) \in Nat
      /\ Consecutive(messages, First, Last)
      /\ Last + 1 \in Nat
  BY LastType DEF Kept
<1> DEFINE all == messages \cup {m}
<1>1. Consecutive(all, First, Last + 1)
  BY <1>0, ConsecutiveNext
<1>2. all \subseteq Messages /\ m \in Messages
  BY <1>0 DEF TypeOK, Messages, Sequence
<1>3. m \in all /\ messages \subseteq all
  OBVIOUS
<1> HIDE DEF all
<1>4. CASE durable
  <2>1. messages' = all
    BY <1>4 DEF all
  <2>2. /\ Cardinality(all) = Size(First, Last + 1)
        /\ Cardinality(messages) = Size(First, Last)
        /\ Last = Cardinality(messages) /\ First = 1
    BY <1>0, <1>1, <1>4, ConsecutiveSize DEF Last, First
  <2>3. Cardinality(all) = Last + 1
    BY <1>0, <2>2 DEF Size
  <2>4. Last' = Last + 1 /\ First' = First
    BY <1>0, <1>4, <2>1, <2>2, <2>3 DEF Last, First
  <2>5. Consecutive(messages', First', Last')
    BY <1>1, <2>1, <2>4
  <2>6. Kept'
    BY <1>0, <1>4, <2>1, <2>3, <2>5 DEF Kept
  <2> QED BY <1>2, <1>3, <2>1, <2>4, <2>6
<1>5. CASE ~ durable
  <2>b. PICK b \in Nat : b = Last + 1
    BY <1>0
  <2>c. PICK c \in Int : c = IF First <= b - MaxItems + 1 THEN b - MaxItems + 1
                                                          ELSE First
    <3>1. b - MaxItems + 1 \in Int /\ First \in Int
      BY <1>0, Sizes
    <3>2. CASE First <= b - MaxItems + 1
      BY <3>1, <3>2, Zenon
    <3>3. CASE ~ (First <= b - MaxItems + 1)
      BY <3>1, <3>3, Zenon
    <3> QED BY <3>2, <3>3
  <2>1. /\ messages' = Trimmed(all)
        /\ Last = nextSequence /\ nextSequence' = b /\ Last' = b
    BY <1>0, <1>5, <2>b DEF all, Last
  <2>2. /\ Consecutive(Trimmed(all), c, b)
        /\ \A n \in all \ Trimmed(all) : b - n.sequence >= MaxItems
    <3>1. Consecutive(all, First, b)
      BY <1>1, <2>b
    <3> QED BY <1>0, <2>c, <3>1, TrimmedConsecutive
  <2>3. Cardinality(Trimmed(all)) = Size(c, b)
    BY <2>2, ConsecutiveSize
  <2>4. /\ Cardinality(messages) = IF Last <= MaxItems THEN Last ELSE MaxItems
        /\ First = Last - Cardinality(messages) + 1
    BY <1>5, <2>1 DEF Kept, First
  <2>5. c = IF b <= MaxItems THEN 1 ELSE b + 1 - MaxItems
    BY <1>0, <2>b, <2>c, <2>4, Sizes
  <2>6. Size(c, b) = IF b <= MaxItems THEN b ELSE MaxItems
    BY <2>5, Sizes DEF Size
  <2>7. First' = c
    BY <2>1, <2>3, <2>5, <2>6, Sizes DEF First
  <2>8. Consecutive(messages', First', Last')
    BY <2>1, <2>2, <2>7
  <2>9. Cardinality(messages') = IF nextSequence' <= MaxItems
                                   THEN nextSequence' ELSE MaxItems
    BY <2>1, <2>3, <2>6
  <2>10. Kept'
    <3>1. Cardinality(messages)' \in Nat
      BY <2>1, <2>9, Sizes
    <3> QED BY <1>5, <2>8, <2>9, <3>1 DEF Kept
  <2>11. messages' \subseteq Messages
    BY <1>2, <2>1 DEF Trimmed
  <2>12. m \in messages'
    <3>1. m.sequence = b
      BY <2>b
    <3>2. ~ (b - m.sequence >= MaxItems)
      BY <3>1, Sizes
    <3> QED BY <1>3, <2>1, <2>2, <3>2
  <2>14. ASSUME NEW n \in messages
         PROVE  \/ n \in messages'
                \/ ~ durable /\ nextSequence' - n.sequence >= MaxItems
    BY <1>3, <1>5, <2>1, <2>2
  <2> QED BY <2>b, <2>1, <2>10, <2>11, <2>12, <2>14
<1> QED BY <1>4, <1>5

-----------------------------------------------------------------------------
(***************************************************************************)
(* Type correctness                                                        *)
(***************************************************************************)

LEMMA PageType ==
  ASSUME TypeOK, NEW upper, NEW skip
  PROVE  {m.sequence : m \in Page(upper, skip)} \subseteq Sequence
BY DEF TypeOK, Page, Within

LEMMA TypeStep ==
  ASSUME TypeOK, Kept, RowHeld, [Next]_vars
  PROVE  TypeOK'
<1>1. ASSUME NEW w \in Writer, Push(w) PROVE TypeOK'
  <2>1. /\ messages' \subseteq messages \cup {[sequence |-> nextSequence', by |-> w]}
        /\ nextSequence' \in Sequence
    BY <1>1 DEF Push, Trimmed, TypeOK, Sequence
  <2>2. messages' \subseteq [sequence : Sequence, by : Writer]
    BY <2>1 DEF TypeOK
  <2>3. write' \in [Writer -> {"idle", "locked", "allocated", "done", "failed"}]
        /\ acknowledged' \subseteq Writer
    BY <1>1 DEF Push, Answered, Reached, TypeOK
  <2> QED BY <1>1, <2>1, <2>2, <2>3 DEF Push, TypeOK, client, Sequence
<1>2. ASSUME NEW w \in Writer, Commit(w) PROVE TypeOK'
  <2>1. sequence[w] \in Sequence
    BY <1>2, LastType DEF Commit, RowHeld, Sequence
  <2>2. messages' \subseteq [sequence : Sequence, by : Writer]
    BY <1>2, <2>1 DEF Commit, TypeOK
  <2>3. write' \in [Writer -> {"idle", "locked", "allocated", "done", "failed"}]
        /\ acknowledged' \subseteq Writer
    BY <1>2 DEF Commit, Answered, Reached, TypeOK
  <2> QED BY <1>2, <2>2, <2>3 DEF Commit, TypeOK, client
<1>3. ASSUME NEW w \in Writer, Allocate(w) PROVE TypeOK'
  <2>1. Latest + 1 \in Nat
    BY LatestIsLast, LastType
  <2> QED BY <1>3, <2>1 DEF Allocate, Reached, TypeOK, session, client
<1>4. ASSUME NEW w \in Writer, LockRow(w) \/ AppendFails(w) PROVE TypeOK'
  BY <1>4 DEF LockRow, AppendFails, Reached, TypeOK, session, client
<1>5. ASSUME NEW r \in Reader, Find(r) \/ NotFound(r) \/ ReadFails(r)
      PROVE  TypeOK'
  BY <1>5 DEF Find, NotFound, ReadFails, TypeOK, session, writes, client
<1>6. ASSUME NEW r \in Reader, TakeSnapshot(r) PROVE TypeOK'
  <2>1. Latest \in Nat
    BY LatestIsLast, LastType
  <2> QED BY <1>6, <2>1 DEF TakeSnapshot, TypeOK, session, writes, client
<1>7. ASSUME NEW r \in Reader, ReadPage(r) PROVE TypeOK'
  <2> DEFINE upper == IF read[r] = "found" /\ bound[r] = 0 THEN Latest ELSE bound[r]
             page == Page(upper, offset[r])
  <2>1. upper \in Nat
    BY LatestIsLast, LastType DEF TypeOK
  <2>2. Cardinality(page) \in Nat
    <3>1. IsFiniteSet(messages)
      <4>1. Last \in Int /\ First \in Int
        BY LastType
      <4> QED BY <4>1, ConsecutiveSize DEF Kept
    <3>2. page \in SUBSET messages
      BY DEF Page, Within
    <3> HIDE DEF page
    <3>3. IsFiniteSet(page)
      BY <3>1, <3>2, FS_Subset
    <3> QED BY <3>3, FS_CardinalityType
  <2>3. {m.sequence : m \in page} \subseteq Sequence
        /\ {m.sequence : m \in Within(upper)} \subseteq Sequence
    BY PageType DEF TypeOK, Within
  <2>4. /\ snapshot' = [snapshot EXCEPT ![r] = upper]
        /\ promised' = IF snapshot[r] # 0 THEN promised
             ELSE [promised EXCEPT ![r] = {m.sequence : m \in Within(upper)}]
        /\ received' = [received EXCEPT ![r] = @ \cup {m.sequence : m \in page}]
        /\ offset' = [offset EXCEPT ![r] = @ + Cardinality(page)]
        /\ read' = [read EXCEPT ![r] =
                      IF HasMore(upper, offset[r]) THEN "idle" ELSE "done"]
        /\ UNCHANGED <<session, writes, bound>>
    BY <1>7 DEF ReadPage
  <2> HIDE DEF upper, page
  <2>5. snapshot' \in [Reader -> Nat] /\ offset' \in [Reader -> Nat]
    BY <2>1, <2>2, <2>4 DEF TypeOK
  <2>6. promised' \in [Reader -> SUBSET Sequence]
        /\ received' \in [Reader -> SUBSET Sequence]
    BY <2>3, <2>4 DEF TypeOK
  <2>7. read' \in [Reader -> {"idle", "found", "bounded", "done"}]
    BY <2>4 DEF TypeOK
  <2> QED BY <2>4, <2>5, <2>6, <2>7 DEF TypeOK, session, writes
<1>8. ASSUME Gone PROVE TypeOK'
  BY <1>8 DEF Gone, TypeOK, writes, client
<1>9. ASSUME UNCHANGED vars PROVE TypeOK'
  BY <1>9 DEF vars, session, writes, client, TypeOK
<1> QED BY <1>1, <1>2, <1>3, <1>4, <1>5, <1>6, <1>7, <1>8, <1>9 DEF Next

-----------------------------------------------------------------------------
(***************************************************************************)
(* Appends                                                                 *)
(***************************************************************************)

\* Steps that leave the log and the appends alone.
LEMMA LogKept ==
  ASSUME LogInv, UNCHANGED <<session, writes>>
  PROVE  LogInv'
BY DEF LogInv, Kept, RowHeld, AcknowledgedStays, Last, First, Holding,
       session, writes

\* An append that has stored its message.
LEMMA StoredKeepsLog ==
  ASSUME TypeOK, LogInv, alive, NEW w \in Writer, Holding \subseteq {w},
         NEW m, m = [sequence |-> Last + 1, by |-> w],
         UNCHANGED <<durable, alive>>,
         IF durable
           THEN messages' = messages \cup {m} /\ UNCHANGED nextSequence
           ELSE /\ messages' = Trimmed(messages \cup {m})
                /\ nextSequence' = nextSequence + 1,
         sequence' = [sequence EXCEPT ![w] = Last + 1],
         write[w] \in {"idle", "locked", "allocated"}, Answered(w)
  PROVE  LogInv'
<1>1. /\ Kept' /\ m \in messages'
      /\ \A n \in messages :
           \/ n \in messages'
           \/ ~ durable /\ nextSequence' - n.sequence >= MaxItems
  BY StoredNext DEF LogInv
<1>2. PICK step \in {"done", "failed"} : Reached(w, step)
  BY DEF Answered
<1>3. write'[w] = step /\ \A v \in Writer : v # w => write'[v] = write[v]
  BY <1>2, ReachedIs
<1>4. sequence'[w] = Last + 1 /\ \A v \in Writer : v # w => sequence'[v] = sequence[v]
  BY DEF TypeOK
<1>5. Holding' = {}
  BY <1>3 DEF Holding
<1>6. RowHeld'
  BY <1>3, <1>5 DEF RowHeld, Holding
<1>7. \A v \in acknowledged' : write'[v] = "done"
  <2>1. CASE acknowledged' = acknowledged \cup {w} /\ Reached(w, "done")
    <3>1. write'[w] = "done"
      BY <2>1, ReachedIs
    <3> QED BY <1>3, <2>1, <3>1 DEF LogInv, TypeOK
  <2>2. CASE acknowledged' = acknowledged
    <3>1. w \notin acknowledged
      BY DEF LogInv
    <3> QED BY <1>3, <2>2, <3>1 DEF LogInv, TypeOK
  <2> QED BY <2>1, <2>2 DEF Answered
<1>8. AcknowledgedStays'
  <2>1. ASSUME NEW v \in acknowledged'
        PROVE  \/ [sequence |-> sequence'[v], by |-> v] \in messages'
               \/ ~ durable' /\ nextSequence' - sequence'[v] >= MaxItems
    <3>1. CASE v = w
      BY <1>1, <1>4, <3>1
    <3>2. CASE v # w
      <4>1. v \in acknowledged /\ v \in Writer
        BY <2>1, <3>2 DEF Answered, TypeOK
      <4>2. sequence'[v] = sequence[v]
        BY <1>4, <3>2, <4>1
      <4>3. CASE [sequence |-> sequence[v], by |-> v] \in messages
        BY <1>1, <4>2, <4>3
      <4>4. CASE ~ durable /\ nextSequence - sequence[v] >= MaxItems
        <5>1. nextSequence' = nextSequence + 1 /\ sequence[v] \in Nat
              /\ nextSequence \in Nat
          BY <4>1, <4>4 DEF TypeOK
        <5> QED BY <4>2, <4>4, <5>1, Sizes
      <4> QED BY <4>1, <4>3, <4>4 DEF LogInv, AcknowledgedStays
    <3> QED BY <3>1, <3>2
  <2> QED BY <2>1 DEF AcknowledgedStays
<1> QED BY <1>1, <1>6, <1>7, <1>8 DEF LogInv

\* An append that moves without storing anything.
LEMMA MovedKeepsLog ==
  ASSUME TypeOK, LogInv, NEW w \in Writer, UNCHANGED <<session, acknowledged>>,
         NEW step \in {"locked", "allocated", "failed"}, Reached(w, step),
         write[w] # "done",
         \A v \in Writer : v # w => sequence'[v] = sequence[v],
         step = "allocated" => sequence'[w] = Last + 1,
         step \in {"locked", "allocated"} => Holding \subseteq {w} /\ durable /\ alive
  PROVE  LogInv'
<1>1. write'[w] = step /\ \A v \in Writer : v # w => write'[v] = write[v]
  BY ReachedIs
<1>2. Kept' /\ Last' = Last
  BY DEF LogInv, Kept, Last, First, session
<1>3. w \notin acknowledged /\ acknowledged \subseteq Writer
  BY DEF LogInv, TypeOK
<1>4. \A v \in acknowledged' : write'[v] = "done"
  BY <1>1, <1>3 DEF LogInv
<1>5. AcknowledgedStays'
  BY <1>3 DEF LogInv, AcknowledgedStays, session
<1>6. RowHeld'
  <2>1. CASE step = "failed"
    <3>1. Holding' \subseteq Holding /\ w \notin Holding'
      BY <1>1, <2>1 DEF Holding
    <3> QED BY <1>1, <1>2, <2>1, <3>1 DEF LogInv, RowHeld, session
  <2>2. CASE step \in {"locked", "allocated"}
    <3>1. Holding' \subseteq {w} /\ durable' /\ alive'
      BY <1>1, <2>2 DEF Holding, session
    <3>2. \A v \in Writer : write'[v] = "allocated" => v = w
      BY <3>1 DEF Holding
    <3> QED BY <1>1, <1>2, <2>2, <3>1, <3>2 DEF RowHeld
  <2> QED BY <2>1, <2>2
<1> QED BY <1>2, <1>4, <1>5, <1>6 DEF LogInv

LEMMA LogStep ==
  ASSUME TypeOK, LogInv, [Next]_vars
  PROVE  LogInv'
<1>1. ASSUME NEW w \in Writer, Push(w) PROVE LogInv'
  <2>1. Last = nextSequence /\ ~ durable /\ alive
    BY <1>1 DEF Push, Last
  <2>2. Holding = {}
    BY <2>1 DEF LogInv, RowHeld, Holding
  <2> QED BY <1>1, <2>1, <2>2, StoredKeepsLog DEF Push
<1>2. ASSUME NEW w \in Writer, Commit(w) PROVE LogInv'
  <2>1. w \in Holding
    BY <1>2 DEF Commit, Holding
  <2>2. durable /\ alive /\ Holding \subseteq {w}
    BY <2>1 DEF LogInv, RowHeld
  <2>3. sequence[w] = Last + 1 /\ sequence' = [sequence EXCEPT ![w] = Last + 1]
    BY <1>2 DEF Commit, LogInv, RowHeld, TypeOK
  <2> QED BY <1>2, <2>2, <2>3, StoredKeepsLog DEF Commit
<1>3. ASSUME NEW w \in Writer, LockRow(w) PROVE LogInv'
  BY <1>3, MovedKeepsLog DEF LockRow
<1>4. ASSUME NEW w \in Writer, Allocate(w) PROVE LogInv'
  <2>1. w \in Holding
    BY <1>4 DEF Allocate, Holding
  <2>2. durable /\ alive /\ Holding \subseteq {w}
    BY <2>1 DEF LogInv, RowHeld
  <2>3. /\ sequence'[w] = Last + 1
        /\ \A v \in Writer : v # w => sequence'[v] = sequence[v]
    BY <1>4, LatestIsLast DEF Allocate, TypeOK, LogInv
  <2> QED BY <1>4, <2>2, <2>3, MovedKeepsLog DEF Allocate
<1>5. ASSUME NEW w \in Writer, AppendFails(w) PROVE LogInv'
  BY <1>5, MovedKeepsLog DEF AppendFails
<1>6. ASSUME NEW r \in Reader,
             Find(r) \/ NotFound(r) \/ TakeSnapshot(r) \/ ReadPage(r) \/ ReadFails(r)
      PROVE  LogInv'
  BY <1>6, LogKept DEF Find, NotFound, TakeSnapshot, ReadPage, ReadFails
<1>7. ASSUME Gone PROVE LogInv'
  <2>1. Holding = {}
    BY <1>7 DEF Gone, LogInv, RowHeld
  <2>2. Cardinality(messages') = 0
    BY <1>7, FS_EmptySet DEF Gone
  <2>3. Last' = 0 /\ First' = 1
    BY <1>7, <2>2 DEF Gone, Last, First
  <2>4. Consecutive(messages', First', Last')
    BY <1>7, <2>3 DEF Gone, Consecutive
  <2>5. Kept'
    BY <1>7, <2>2, <2>4, Sizes DEF Gone, Kept
  <2>6. RowHeld'
    BY <1>7, <2>1 DEF Gone, RowHeld, Holding, writes
  <2> QED BY <1>7, <2>5, <2>6 DEF Gone, LogInv, AcknowledgedStays, writes
<1>8. ASSUME UNCHANGED vars PROVE LogInv'
  BY <1>8, LogKept DEF vars
<1> QED BY <1>1, <1>2, <1>3, <1>4, <1>5, <1>6, <1>7, <1>8 DEF Next

LEMMA InitialLog ==
  ASSUME Init
  PROVE  TypeOK /\ LogInv
<1>1. TypeOK
  BY DEF Init, TypeOK, Sequence
<1>2. Cardinality(messages) = 0 /\ Last = 0 /\ First = 1
  BY FS_EmptySet DEF Init, Last, First
<1>3. Kept
  BY <1>2, Sizes DEF Init, Kept, Consecutive
<1> QED BY <1>1, <1>3 DEF Init, LogInv, RowHeld, Holding, AcknowledgedStays

LEMMA LogAlways == Spec => [](TypeOK /\ LogInv)
<1>1. TypeOK /\ LogInv /\ [Next]_vars => (TypeOK /\ LogInv)'
  BY TypeStep, LogStep DEF LogInv
<1> QED BY <1>1, InitialLog, PTL DEF Spec

(***************************************************************************)
(* The variables of the log keep their types: sequences are positive, as   *)
(* the pages need, for which 0 means that there is no snapshot.            *)
(***************************************************************************)
THEOREM TypeCorrect == Spec => []TypeOK
BY LogAlways, PTL

(***************************************************************************)
(* However many appends run together and whichever of them fail, the       *)
(* sequences in either store are consecutive, and no append takes another's*)
(***************************************************************************)
THEOREM NoSequenceIsSkipped == Spec => []SequencesAreDense
<1>1. TypeOK /\ LogInv => SequencesAreDense
  <2> SUFFICES ASSUME TypeOK, LogInv PROVE SequencesAreDense
    OBVIOUS
  <2>1. /\ Last \in Nat /\ First \in Nat \ {0} /\ Cardinality(messages) \in Nat
        /\ Sequences = First .. Last
    BY LastType DEF LogInv, Kept, Consecutive, Sequences
  <2>2. \A m, n \in messages : m.sequence = n.sequence => m = n
    BY DEF LogInv, Kept, Consecutive
  <2>3. \A w \in Writer : write[w] = "allocated" => sequence[w] \notin Sequences
    BY <2>1 DEF LogInv, RowHeld
  <2>4. durable => Sequences = 1 .. Cardinality(messages)
    BY <2>1 DEF Last, First
  <2>5. ~ durable =>
          /\ Sequences = nextSequence - Cardinality(messages) + 1 .. nextSequence
          /\ Cardinality(messages) <= MaxItems
          /\ nextSequence > Cardinality(messages) => Cardinality(messages) = MaxItems
    BY <2>1, Sizes DEF Last, First, LogInv, Kept, TypeOK
  <2> QED BY <2>2, <2>3, <2>4, <2>5 DEF SequencesAreDense
<1> QED BY <1>1, LogAlways, PTL

(***************************************************************************)
(* What Append has returned stays in the log, until the session goes or    *)
(* the window of redis moves past it.                                      *)
(***************************************************************************)
THEOREM StoredMessagesStay == Spec => []AcknowledgedStays
BY LogAlways, PTL DEF LogInv


-----------------------------------------------------------------------------
(***************************************************************************)
(* Pages                                                                   *)
(***************************************************************************)

\* A page of a bound that the log has reached: the sequences under those that
\* the offset skips.  If it is the last one, it goes down to the first message.
LEMMA PageIs ==
  ASSUME TypeOK, Kept, NEW upper \in Nat, upper <= Last,
         NEW skip \in Nat, NEW low \in Int,
         low = IF First <= upper - skip - Limit + 1 THEN upper - skip - Limit + 1
                                                    ELSE First
  PROVE  /\ Consecutive(Page(upper, skip), low, upper - skip)
         /\ {m.sequence : m \in Within(upper)} = First .. upper
         /\ ~ HasMore(upper, skip) => low = First
<1>0. /\ Last \in Nat /\ First \in Nat \ {0} /\ First <= low
      /\ upper - skip \in Int /\ upper - skip <= Last
  BY LastType, Sizes
<1>1. \A m \in messages : m.sequence \in First .. Last
  BY DEF Kept, Consecutive
<1>2. Within(upper) = {m \in messages : First <= m.sequence /\ m.sequence <= upper}
  BY <1>1 DEF Within
<1>3. Consecutive(Within(upper), First, upper)
  BY <1>0, <1>2, ConsecutivePart DEF Kept
<1>4. \A m \in Within(upper) : Newer(m, upper) = upper - m.sequence
  BY <1>0, <1>3, ConsecutiveRank DEF Newer
<1>5. ASSUME NEW s \in First .. upper
      PROVE  upper - s \in skip .. skip + Limit - 1 <=> low <= s /\ s <= upper - skip
  BY <1>0, Sizes
<1>6. \A m \in Within(upper) : m.sequence \in First .. upper
  BY <1>3 DEF Consecutive
<1>7. Page(upper, skip)
        = {m \in Within(upper) : low <= m.sequence /\ m.sequence <= upper - skip}
  BY <1>4, <1>5, <1>6 DEF Page
<1>8. Consecutive(Page(upper, skip), low, upper - skip)
  <2>1. upper - skip <= upper
    OBVIOUS
  <2> QED BY <1>0, <1>3, <1>7, <2>1, ConsecutivePart
<1>9. Cardinality(Within(upper)) = Size(First, upper)
  BY <1>0, <1>3, ConsecutiveSize
<1>10. ~ HasMore(upper, skip) => low = First
  <2>1. Size(First, upper) \in Nat
    BY <1>0 DEF Size
  <2>2. Size(First, upper) <= skip + Limit => low = First
    BY <1>0, Sizes DEF Size
  <2> QED BY <1>9, <2>1, <2>2, Sizes DEF HasMore
<1> QED BY <1>3, <1>8, <1>10 DEF Consecutive

\* Where a client is: what it has got lies under its snapshot, which the log
\* has reached, and at the end it has all that is left of it.
Follows(r) ==
  /\ received[r] = snapshot[r] - offset[r] + 1 .. snapshot[r]
  /\ offset[r] <= snapshot[r]
  /\ promised[r] \subseteq 1 .. snapshot[r]
  /\ alive => snapshot[r] <= Last
  /\ read[r] = "found" => bound[r] = snapshot[r]
  /\ read[r] = "bounded" => snapshot[r] = 0
  /\ alive /\ read[r] = "bounded" => bound[r] <= Last
  /\ alive /\ read[r] = "done" => (1 .. snapshot[r]) \cap Sequences \subseteq received[r]

PageInv == \A r \in Reader : Follows(r)

\* The log grows at its end and loses messages at its beginning only.
GrowsAtEnd ==
  \/ ~ alive'
  \/ /\ alive /\ Last \in Nat /\ Last' \in Nat
     /\ Last' >= Last
     /\ \A s \in Sequences' : s \in Sequences \/ s > Last

LEMMA FollowsKept ==
  ASSUME TypeOK, PageInv, GrowsAtEnd, UNCHANGED <<read, bound, client>>
  PROVE  PageInv'
<1> SUFFICES ASSUME NEW r \in Reader PROVE Follows(r)'
  BY DEF PageInv
<1>1. /\ snapshot[r] \in Nat /\ bound[r] \in Nat /\ offset[r] \in Nat
      /\ Follows(r)
  BY DEF TypeOK, PageInv
<1>2. CASE ~ alive'
  BY <1>1, <1>2 DEF Follows, client
<1>3. CASE alive'
  <2>1. /\ alive /\ Last \in Nat /\ Last' \in Nat /\ Last' >= Last
        /\ \A s \in Sequences' : s \in Sequences \/ s > Last
    BY <1>3 DEF GrowsAtEnd
  <2>2. snapshot[r] <= Last' /\ (read[r] = "bounded" => bound[r] <= Last')
    BY <1>1, <2>1 DEF Follows
  <2>3. (1 .. snapshot[r]) \cap Sequences' \subseteq (1 .. snapshot[r]) \cap Sequences
    BY <1>1, <2>1 DEF Follows
  <2>4. read[r] = "done" => (1 .. snapshot[r]) \cap Sequences' \subseteq received[r]
    BY <1>1, <2>1, <2>3 DEF Follows
  <2> QED BY <1>1, <2>2, <2>4 DEF Follows, client
<1> QED BY <1>2, <1>3

LEMMA StepGrowsAtEnd ==
  ASSUME TypeOK, LogInv, NEW w \in Writer, Push(w) \/ Commit(w)
  PROVE  GrowsAtEnd
<1>0. Last \in Nat /\ alive /\ Kept /\ Last + 1 \in Nat
  <2>1. alive
    BY DEF Push, Commit, LogInv, RowHeld, Holding
  <2> QED BY <2>1, LastType DEF LogInv
<1> DEFINE m == [sequence |-> Last + 1, by |-> w]
<1>1. /\ UNCHANGED <<durable, alive>>
      /\ IF durable
           THEN messages' = messages \cup {m} /\ UNCHANGED nextSequence
           ELSE /\ messages' = Trimmed(messages \cup {m})
                /\ nextSequence' = nextSequence + 1
  <2>1. CASE Push(w)
    BY <2>1 DEF Push, Last
  <2>2. CASE Commit(w)
    <3>1. w \in Holding /\ durable
      BY <2>2 DEF Commit, Holding, LogInv, RowHeld
    <3>2. sequence[w] = Last + 1
      BY <2>2 DEF Commit, LogInv, RowHeld
    <3> QED BY <2>2, <3>1, <3>2 DEF Commit
  <2> QED BY <2>1, <2>2
<1>2. Last' = Last + 1
  BY <1>0, <1>1, StoredNext
<1>3. messages' \subseteq messages \cup {m}
  BY <1>1 DEF Trimmed
<1>4. \A s \in Sequences' : s \in Sequences \/ s = Last + 1
  BY <1>3 DEF Sequences
<1> QED BY <1>0, <1>1, <1>2, <1>4 DEF GrowsAtEnd

\* A page that has been read joins those before it.
LEMMA ReadPageFollows ==
  ASSUME TypeOK, Kept, PageInv, NEW r \in Reader, ReadPage(r)
  PROVE  Follows(r)'
<1> DEFINE upper == IF read[r] = "found" /\ bound[r] = 0 THEN Latest ELSE bound[r]
           page == Page(upper, offset[r])
           got == {m.sequence : m \in page}
           had == {m.sequence : m \in Within(upper)}
<1>1. /\ snapshot[r] \in Nat /\ bound[r] \in Nat /\ offset[r] \in Nat
      /\ Last \in Nat /\ First \in Nat \ {0} /\ Latest = Last
      /\ upper \in Nat
  BY LastType, LatestIsLast DEF TypeOK
<1>2. /\ read[r] \in {"found", "bounded"}
      /\ snapshot'[r] = upper
      /\ promised'[r] = IF snapshot[r] # 0 THEN promised[r] ELSE had
      /\ received'[r] = received[r] \cup got
      /\ offset'[r] = offset[r] + Cardinality(page)
      /\ read'[r] = IF HasMore(upper, offset[r]) THEN "idle" ELSE "done"
      /\ UNCHANGED session
  BY DEF ReadPage, TypeOK
<1>3. Follows(r)
  BY DEF PageInv
<1>4. /\ snapshot[r] = upper \/ (snapshot[r] = 0 /\ offset[r] = 0)
      /\ received[r] = upper - offset[r] + 1 .. upper
      /\ offset[r] <= upper
      /\ alive => upper <= Last
  <2>1. CASE read[r] = "found"
    BY <1>1, <1>3, <2>1 DEF Follows
  <2>2. CASE read[r] = "bounded"
    BY <1>1, <1>3, <2>2 DEF Follows
  <2> QED BY <1>2, <2>1, <2>2
<1>5. had = {} \/ (alive /\ had = First .. upper)
  <2>1. CASE alive
    <3>1. PICK low \in Int :
            low = IF First <= upper - offset[r] - Limit + 1
                    THEN upper - offset[r] - Limit + 1 ELSE First
      BY <1>1, Sizes
    <3> QED BY <1>1, <1>4, <2>1, <3>1, PageIs
  <2>2. CASE ~ alive
    BY <2>2 DEF Kept, Within
  <2> QED BY <2>1, <2>2
<1>6. promised'[r] \subseteq 1 .. upper
  <2>1. promised[r] \subseteq 1 .. snapshot[r]
    BY <1>3 DEF Follows
  <2>2. had \subseteq 1 .. upper
    BY <1>1, <1>5
  <2> HIDE DEF upper, had
  <2> QED BY <1>1, <1>2, <1>4, <2>1, <2>2
<1>7. CASE ~ alive
  <2>1. page = {}
    BY <1>7 DEF Kept, Page, Within
  <2>2. got = {} /\ Cardinality(page) = 0
    BY <2>1, FS_EmptySet
  <2> HIDE DEF upper, page, got, had
  <2>3. received'[r] = received[r] /\ offset'[r] = offset[r]
    BY <1>1, <1>2, <2>2
  <2> QED BY <1>2, <1>4, <1>6, <1>7, <2>3 DEF Follows, session
<1>8. CASE alive
  <2>1. PICK low \in Int :
          low = IF First <= upper - offset[r] - Limit + 1
                  THEN upper - offset[r] - Limit + 1 ELSE First
    <3> HIDE DEF upper
    <3> QED BY <1>1, Sizes
  <2>2. /\ Consecutive(page, low, upper - offset[r])
        /\ ~ HasMore(upper, offset[r]) => low = First
    BY <1>1, <1>4, <1>8, <2>1, PageIs
  <2>3. got = low .. upper - offset[r]
    BY <2>2 DEF Consecutive
  <2>4. Cardinality(page) = Size(low, upper - offset[r])
    <3>1. upper - offset[r] \in Int
      BY <1>1
    <3> HIDE DEF upper, page
    <3> QED BY <2>2, <3>1, ConsecutiveSize
  <2> HIDE DEF upper, page, got, had
  <2>5. low \in Nat \ {0}
    BY <1>1, <2>1, Sizes
  <2>6. PICK rest \in Int : rest = upper - offset[r]
    BY <1>1
  <2>7. Size(low, rest) = IF low > rest THEN 0 ELSE rest - low + 1
    BY DEF Size
  <2>8. /\ received'[r] = (rest + 1 .. upper) \cup (low .. rest)
        /\ offset'[r] = offset[r] + Size(low, rest)
    BY <1>2, <1>4, <2>3, <2>4, <2>6
  <2>9. /\ received'[r] = upper - offset'[r] + 1 .. upper
        /\ offset'[r] <= upper
    <3>1. CASE low > rest
      BY <1>1, <1>4, <2>5, <2>6, <2>7, <2>8, <3>1
    <3>2. CASE low <= rest
      <4>1. offset'[r] = upper - low + 1
        BY <1>1, <2>5, <2>6, <2>7, <2>8, <3>2
      <4>2. received'[r] = low .. upper
        BY <1>1, <1>4, <2>5, <2>6, <2>8, <3>2
      <4> QED BY <1>1, <2>5, <4>1, <4>2
    <3> QED BY <2>5, <2>6, <3>1, <3>2
  <2>10. low = First => (1 .. upper) \cap Sequences \subseteq received'[r]
    <3>1. Sequences = First .. Last
      BY DEF Kept, Consecutive, Sequences
    <3> QED BY <1>1, <2>5, <2>6, <2>8, <3>1
  <2>11. alive' /\ Last' = Last /\ Sequences' = Sequences
    BY <1>2, <1>8 DEF session, Last, Sequences
  <2>12. read'[r] # "found" /\ read'[r] # "bounded"
         /\ (read'[r] = "done" => low = First)
    BY <1>2, <2>2
  <2> QED BY <1>2, <1>4, <1>6, <1>8, <2>9, <2>10, <2>11, <2>12 DEF Follows
<1> QED BY <1>7, <1>8

LEMMA PageStep ==
  ASSUME TypeOK, LogInv, PageInv, [Next]_vars
  PROVE  PageInv'
<1>1. ASSUME NEW w \in Writer, Push(w) \/ Commit(w) PROVE PageInv'
  <2>1. GrowsAtEnd
    BY <1>1, StepGrowsAtEnd
  <2> QED BY <1>1, <2>1, FollowsKept DEF Push, Commit
<1>2. CASE UNCHANGED <<session, read, bound, client>>
  BY <1>2 DEF PageInv, Follows, Last, Sequences, session, client
<1>3. ASSUME NEW w \in Writer, LockRow(w) \/ Allocate(w) \/ AppendFails(w)
      PROVE  PageInv'
  BY <1>2, <1>3 DEF LockRow, Allocate, AppendFails
<1>4. CASE Gone
  BY <1>4, FollowsKept DEF Gone, GrowsAtEnd
<1>5. ASSUME NEW r \in Reader,
             Find(r) \/ NotFound(r) \/ TakeSnapshot(r) \/ ReadPage(r) \/ ReadFails(r)
      PROVE  PageInv'
  <2>1. ASSUME NEW q \in Reader, q # r PROVE Follows(q)'
    <3>1. /\ read'[q] = read[q] /\ bound'[q] = bound[q] /\ snapshot'[q] = snapshot[q]
          /\ offset'[q] = offset[q] /\ received'[q] = received[q]
          /\ promised'[q] = promised[q] /\ UNCHANGED session
      BY <1>5, <2>1 DEF Find, NotFound, TakeSnapshot, ReadPage, ReadFails, TypeOK, client
    <3>2. Follows(q)
      BY DEF PageInv
    <3> QED BY <3>1, <3>2 DEF Follows, Last, Sequences, session
  <2>2. Follows(r)'
    <3>1. CASE ReadPage(r)
      BY <3>1, ReadPageFollows DEF LogInv
    <3>2. CASE Find(r) \/ NotFound(r) \/ TakeSnapshot(r) \/ ReadFails(r)
      <4>1. /\ UNCHANGED <<session, client>> /\ Follows(r)
            /\ Last' = Last /\ Sequences' = Sequences
        BY <3>2 DEF Find, NotFound, TakeSnapshot, ReadFails, PageInv, Last,
                    Sequences, session
      <4>2. CASE Find(r)
        <5>1. read'[r] = "found" /\ bound'[r] = snapshot[r]
          BY <4>2 DEF Find, TypeOK
        <5> QED BY <4>1, <5>1 DEF Follows, session, client
      <4>3. CASE NotFound(r)
        <5>1. read'[r] = "done" /\ ~ alive
          BY <4>3 DEF NotFound, TypeOK
        <5> QED BY <4>1, <5>1 DEF Follows, session, client
      <4>4. CASE TakeSnapshot(r)
        <5>1. /\ read[r] = "found" /\ bound[r] = 0
              /\ read'[r] = "bounded" /\ bound'[r] = Last
          BY <4>4, LatestIsLast DEF TakeSnapshot, TypeOK, LogInv
        <5>2. Last \in Nat
          BY LastType DEF LogInv
        <5> QED BY <4>1, <5>1, <5>2 DEF Follows, session, client
      <4>5. CASE ReadFails(r)
        <5>1. read'[r] = "idle"
          BY <4>5 DEF ReadFails, TypeOK
        <5> QED BY <4>1, <5>1 DEF Follows, session, client
      <4> QED BY <3>2, <4>2, <4>3, <4>4, <4>5
    <3> QED BY <1>5, <3>1, <3>2
  <2> QED BY <2>1, <2>2 DEF PageInv
<1>6. CASE UNCHANGED vars
  BY <1>2, <1>6 DEF vars
<1> QED BY <1>1, <1>3, <1>4, <1>5, <1>6 DEF Next

LEMMA PagesAlways == Spec => [](TypeOK /\ LogInv /\ PageInv)
<1>1. Init => PageInv
  <2> SUFFICES ASSUME Init, NEW r \in Reader PROVE Follows(r)
    BY DEF PageInv
  <2>1. Last \in Nat
    BY InitialLog, LastType DEF LogInv
  <2> QED BY <2>1 DEF Init, Follows
<1>2. TypeOK /\ LogInv /\ PageInv /\ [Next]_vars => (TypeOK /\ LogInv /\ PageInv)'
  BY TypeStep, LogStep, PageStep DEF LogInv
<1> QED BY <1>1, <1>2, InitialLog, PTL DEF Spec

(***************************************************************************)
(* The pages of a snapshot join without gap or repetition in either store, *)
(* for any size of page and any window.                                    *)
(***************************************************************************)
THEOREM PagesJoin == Spec => []PagesFollow
<1>1. PageInv => PagesFollow
  BY DEF PageInv, Follows, PagesFollow
<1> QED BY <1>1, PagesAlways, PTL

(***************************************************************************)
(* The last page is the last: what the session still has of the snapshot   *)
(* has been received.                                                      *)
(***************************************************************************)
THEOREM LastPageEndsSnapshot == Spec => []PagesComplete
<1>1. TypeOK /\ PageInv => PagesComplete
  BY DEF TypeOK, PageInv, Follows, PagesComplete
<1> QED BY <1>1, PagesAlways, PTL

-----------------------------------------------------------------------------
(***************************************************************************)
(* Implementing MessageLog.                                                *)
(*                                                                         *)
(* An append takes effect with the script of redis and with the commit of  *)
(* postgres; what a transaction does before is not seen.                   *)
(***************************************************************************)

\* The contract's variables that are not the store's.
Count == IF durable THEN Latest ELSE nextSequence
Ended == {w \in Writer : write[w] \in {"done", "failed"}}
Given == [w \in Writer |-> IF w \in acknowledged THEN sequence[w] ELSE 0]

LEMMA CountIsLast ==
  ASSUME TypeOK, Kept
  PROVE  Count = Last
  BY LatestIsLast DEF Count, Last

\* The log starts with the oldest message the contract keeps.
LEMMA FirstIsOldest ==
  ASSUME TypeOK, Kept
  PROVE  First = IF ~ durable /\ Last > MaxItems THEN Last - MaxItems + 1 ELSE 1
<1>1. Last \in Nat /\ Cardinality(messages) \in Nat
  BY LastType DEF Kept
<1>2. CASE durable
  BY <1>1, <1>2 DEF First, Last
<1>3. CASE ~ durable
  BY <1>1, <1>3, Sizes DEF First, Last, Kept
<1> QED BY <1>2, <1>3

LEMMA LogDomain ==
  ASSUME Kept
  PROVE  /\ DOMAIN Log = First .. Last
         /\ Log = [n \in First .. Last |-> Log[n]]
  BY DEF Log, Sequences, Kept, Consecutive

\* A sequence leads to its author.
LEMMA AuthorIs ==
  ASSUME Kept, NEW m \in messages
  PROVE  m.sequence \in DOMAIN Log /\ Log[m.sequence] = m.by
<1> DEFINE n == m.sequence
<1>1. n \in Sequences
  BY DEF Sequences
<1>2. \A k \in messages : k.sequence = n => k = m
  BY DEF Kept, Consecutive
<1>3. (CHOOSE k \in messages : k.sequence = n) = m
  BY <1>2
<1> QED BY <1>1, <1>3 DEF Log

Attributed == \A m \in messages : Log[m.sequence] = m.by

LEMMA KeptIsAttributed == Kept => Attributed
  BY AuthorIs DEF Attributed

LEMMA EmptyLog ==
  ASSUME messages = {}
  PROVE  Log = <<>>
<1>1. Sequences = {}
  BY DEF Sequences
<1> QED BY <1>1 DEF Log

\* Storing the next message adds it to the log, which forgets only what the
\* contract does.
LEMMA LogGrows ==
  ASSUME TypeOK, Kept, alive, NEW w \in Writer,
         NEW m, m = [sequence |-> Last + 1, by |-> w],
         UNCHANGED <<durable, alive>>,
         IF durable
           THEN messages' = messages \cup {m} /\ UNCHANGED nextSequence
           ELSE /\ messages' = Trimmed(messages \cup {m})
                /\ nextSequence' = nextSequence + 1,
         TypeOK'
  PROVE  /\ Count' = Count + 1
         /\ Log' = [n \in Contract!Oldest(Count') .. Count' |->
                      IF n = Count' THEN w ELSE Log[n]]
<1>1. Kept' /\ Last' = Last + 1 /\ m \in messages' /\ Last \in Nat
  BY StoredNext, LastType
<1>2. messages' \subseteq messages \cup {m}
  BY DEF Trimmed
<1>3. Count = Last /\ Count' = Last'
  <2>1. (TypeOK /\ Kept => Count = Last)'
    BY CountIsLast, PTL
  <2> QED BY <1>1, <2>1, CountIsLast
<1>4. First' = Contract!Oldest(Last')
  <2>1. (TypeOK /\ Kept =>
           First = IF ~ durable /\ Last > MaxItems THEN Last - MaxItems + 1 ELSE 1)'
    BY FirstIsOldest, PTL
  <2> QED BY <1>1, <2>1 DEF Contract!Oldest
<1>5. Log' = [n \in First' .. Last' |-> Log'[n]]
  <2>1. (Kept => Log = [n \in First .. Last |-> Log[n]])'
    BY LogDomain, PTL
  <2> QED BY <1>1, <2>1
<1>6. ASSUME NEW n \in First' .. Last'
      PROVE  Log'[n] = IF n = Last' THEN w ELSE Log[n]
  <2>1. PICK k \in messages' : k.sequence = n
    BY <1>1, <1>6 DEF Kept, Consecutive
  <2>2. Log'[n] = k.by
    <3>1. Attributed'
      BY <1>1, KeptIsAttributed, PTL
    <3> QED BY <2>1, <3>1 DEF Attributed
  <2>3. CASE k = m
    BY <1>1, <2>1, <2>2, <2>3
  <2>4. CASE k \in messages
    <3>1. k.sequence \in First .. Last /\ Log[k.sequence] = k.by
      BY <2>4, AuthorIs DEF Kept, Consecutive
    <3>2. n # Last'
      BY <1>1, <2>1, <3>1, LastType
    <3> QED BY <2>1, <2>2, <3>1, <3>2
  <2> QED BY <1>2, <2>1, <2>3, <2>4
<1>7. Log' = [n \in First' .. Last' |-> IF n = Last' THEN w ELSE Log[n]]
  BY <1>5, <1>6
<1> QED BY <1>1, <1>3, <1>4, <1>7

\* The end of a call, and a step before it.
LEMMA EndedIs ==
  ASSUME TypeOK, NEW w \in Writer, NEW step, Reached(w, step), w \notin Ended
  PROVE  Ended' = IF step \in {"done", "failed"} THEN Ended \cup {w} ELSE Ended
<1>1. write'[w] = step /\ \A v \in Writer : v # w => write'[v] = write[v]
  BY ReachedIs
<1> QED BY <1>1 DEF Ended

\* What the call that stores a message at s is given, and the others.
LEMMA GivenIs ==
  ASSUME TypeOK, NEW w \in Writer, w \notin acknowledged, NEW s,
         \A v \in Writer : v # w => sequence'[v] = sequence[v], sequence'[w] = s,
         acknowledged' \in {acknowledged, acknowledged \cup {w}}
  PROVE  Given' \in {Given, [Given EXCEPT ![w] = s]}
<1>1. CASE acknowledged' = acknowledged
  BY <1>1 DEF Given
<1>2. CASE acknowledged' = acknowledged \cup {w}
  BY <1>2 DEF Given
<1> QED BY <1>1, <1>2

\* Both stores append to the log.
LEMMA StoreAppends ==
  ASSUME TypeOK, LogInv, NEW w \in Writer, Push(w) \/ Commit(w), TypeOK'
  PROVE  Contract!Append(w)
<1>0. Last \in Nat /\ alive /\ Kept
  <2>1. alive
    BY DEF Push, Commit, LogInv, RowHeld, Holding
  <2> QED BY <2>1, LastType DEF LogInv
<1> DEFINE m == [sequence |-> Last + 1, by |-> w]
<1>1. /\ UNCHANGED <<durable, alive>>
      /\ IF durable
           THEN messages' = messages \cup {m} /\ UNCHANGED nextSequence
           ELSE /\ messages' = Trimmed(messages \cup {m})
                /\ nextSequence' = nextSequence + 1
      /\ sequence'[w] = Last + 1
      /\ \A v \in Writer : v # w => sequence'[v] = sequence[v]
  <2>1. CASE Push(w)
    BY <2>1 DEF Push, Last, TypeOK
  <2>2. CASE Commit(w)
    <3>1. w \in Holding /\ durable
      BY <2>2 DEF Commit, Holding, LogInv, RowHeld
    <3>2. sequence[w] = Last + 1
      BY <2>2 DEF Commit, LogInv, RowHeld
    <3> QED BY <2>2, <3>1, <3>2 DEF Commit
  <2> QED BY <2>1, <2>2
<1>2. /\ Count' = Count + 1
      /\ Log' = [n \in Contract!Oldest(Count') .. Count' |->
                   IF n = Count' THEN w ELSE Log[n]]
  BY <1>0, <1>1, LogGrows
<1>3. w \notin Ended /\ w \notin acknowledged
  BY DEF Push, Commit, Ended, LogInv
<1>4. /\ Ended' = Ended \cup {w}
      /\ acknowledged' \in {acknowledged, acknowledged \cup {w}}
  BY <1>3, EndedIs DEF Push, Commit, Answered
<1>5. Given' \in {Given, [Given EXCEPT ![w] = Count']}
  <2>1. Count' = Last + 1
    BY <1>0, <1>2, CountIsLast
  <2> QED BY <1>1, <1>3, <1>4, <2>1, GivenIs
<1> HIDE DEF m
<1> QED
  BY <1>0, <1>1, <1>2, <1>3, <1>4, <1>5
     DEF Contract!Append, Count, Ended, Given

LEMMA StepIsContracts ==
  ASSUME TypeOK, LogInv, [Next]_vars, TypeOK'
  PROVE  UNCHANGED Contract!vars \/ Contract!Next
<1>1. ASSUME NEW w \in Writer, Push(w) \/ Commit(w) PROVE Contract!Next
  BY <1>1, StoreAppends DEF Contract!Next
<1>2. CASE UNCHANGED <<session, writes>>
  <2>1. /\ UNCHANGED session /\ UNCHANGED <<write, sequence, acknowledged>>
        /\ Count' = Count /\ Log' = Log
    BY <1>2 DEF session, writes, Count, Log, Sequences, Latest
  <2>2. Ended' = Ended /\ Given' = Given
    BY <2>1 DEF Ended, Given
  <2> QED BY <2>1, <2>2 DEF session, Contract!vars, Count, Ended, Given
<1>3. ASSUME NEW w \in Writer, LockRow(w) \/ Allocate(w)
      PROVE  UNCHANGED Contract!vars
  <2>1. w \notin Ended /\ w \notin acknowledged /\ UNCHANGED <<session, acknowledged>>
    BY <1>3 DEF LockRow, Allocate, Ended, LogInv
  <2>2. Ended' = Ended
    BY <1>3, <2>1, EndedIs DEF LockRow, Allocate
  <2>3. Given' = Given
    BY <1>3, <2>1 DEF LockRow, Allocate, Given, TypeOK
  <2>4. Count' = Count /\ Log' = Log
    BY <2>1 DEF session, Count, Log, Sequences, Latest
  <2> QED BY <2>1, <2>2, <2>3, <2>4 DEF session, Contract!vars, Count, Ended, Given
<1>4. ASSUME NEW w \in Writer, AppendFails(w) PROVE Contract!Next
  <2>1. w \notin Ended /\ UNCHANGED <<session, sequence, acknowledged>>
    BY <1>4 DEF AppendFails, Ended
  <2>2. Ended' = Ended \cup {w}
    BY <1>4, <2>1, EndedIs DEF AppendFails
  <2>3. Count' = Count /\ Log' = Log /\ Given' = Given
    BY <2>1 DEF session, Count, Log, Sequences, Latest, Given
  <2>4. Contract!Fail(w)
    BY <2>1, <2>2, <2>3 DEF session, Contract!Fail, Count, Ended, Given
  <2> QED BY <2>4 DEF Contract!Next
<1>5. CASE Gone
  <2>1. Log' = <<>>
    <3>1. (messages = {} => Log = <<>>)'
      BY EmptyLog, PTL
    <3> QED BY <1>5, <3>1 DEF Gone
  <2>2. Count' = 0
    BY <1>5 DEF Gone, Count, Latest
  <2>3. Ended' = Ended /\ Given' = Given
    BY <1>5 DEF Gone, writes, Ended, Given
  <2>4. Contract!End
    BY <1>5, <2>1, <2>2, <2>3 DEF Gone, Contract!End, Count, Ended, Given
  <2> QED BY <2>4 DEF Contract!Next
<1>6. ASSUME NEW r \in Reader,
             Find(r) \/ NotFound(r) \/ TakeSnapshot(r) \/ ReadPage(r) \/ ReadFails(r)
      PROVE  UNCHANGED Contract!vars \/ Contract!Next
  BY <1>2, <1>6 DEF Find, NotFound, TakeSnapshot, ReadPage, ReadFails
<1>7. CASE UNCHANGED vars
  BY <1>2, <1>7 DEF vars
<1> HIDE DEF Contract!Next, Contract!vars
<1> QED BY <1>1, <1>3, <1>4, <1>5, <1>6, <1>7 DEF Next

(***************************************************************************)
(* Both stores keep the log: each append takes effect at one moment, with  *)
(* the next sequence, and only the oldest messages are ever forgotten.     *)
(***************************************************************************)
THEOREM StoresKeepLog == Spec => KeepsLog
<1>1. Init => Contract!Init
  <2> SUFFICES ASSUME Init PROVE Contract!Init
    OBVIOUS
  <2>1. Log = <<>> /\ Count = 0
    BY EmptyLog DEF Init, Count, Latest
  <2>2. Ended = {} /\ Given = [w \in Writer |-> 0]
    BY DEF Init, Ended, Given
  <2> QED BY <2>1, <2>2 DEF Init, Contract!Init, Count, Ended, Given
<1>2. TypeOK /\ LogInv /\ TypeOK' /\ [Next]_vars => [Contract!Next]_Contract!vars
  BY StepIsContracts
<1> QED
  BY <1>1, <1>2, LogAlways, PTL DEF Spec, KeepsLog, Contract!Spec

=============================================================================
