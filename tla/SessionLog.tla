----------------------------- MODULE SessionLog -----------------------------
(***************************************************************************)
(* The messages of one session in its store (internal/agentic/session/     *)
(* store): how postgres and redis number them, how many redis keeps, and   *)
(* how a client reads them page by page from a fixed snapshot while more   *)
(* are appended.                                                           *)
(*                                                                         *)
(* Appends may run together: a turn can lose its lock (TurnLock).  redis   *)
(* allocates a sequence and pushes the message in one script, so its list  *)
(* is ordered by sequence and is modelled, like the table, as a set.       *)
(***************************************************************************)
EXTENDS Integers, FiniteSets

CONSTANTS
  Writer,    \* calls of Append, each with a message of its own
  Reader,    \* clients that read the history
  MaxItems,  \* messages that redis keeps
  Limit      \* messages in a page

ASSUME Sizes ==
  /\ MaxItems \in Nat \ {0}
  /\ Limit \in Nat \ {0}

VARIABLES
  durable,       \* it is a user's session, in postgres, not an anonymous one
  alive,         \* the session exists
  messages,      \* its messages; in postgres, those committed
  nextSequence,  \* redis: next_sequence of its meta key
  write,         \* where each Append is
  sequence,      \* the sequence it has allocated
  acknowledged,  \* the calls that returned a message
  read,          \* where each client's request is
  bound,         \* snapshotSequence in it
  snapshot,      \* the client's snapshot_sequence, 0 when it has none
  offset,        \* and its offset
  received,      \* history: sequences of the messages it got
  promised       \* history: those its snapshot had

session == <<durable, alive, messages, nextSequence>>
writes == <<write, sequence, acknowledged>>
client == <<snapshot, offset, received, promised>>
vars == <<session, writes, read, bound, client>>

Sequence == Nat \ {0}

TypeOK ==
  /\ durable \in BOOLEAN
  /\ alive \in BOOLEAN
  /\ messages \subseteq [sequence : Sequence, by : Writer]
  /\ nextSequence \in Nat
  /\ write \in [Writer -> {"idle", "locked", "allocated", "done", "failed"}]
  /\ sequence \in [Writer -> Nat]
  /\ acknowledged \subseteq Writer
  /\ read \in [Reader -> {"idle", "found", "bounded", "done"}]
  /\ bound \in [Reader -> Nat]
  /\ snapshot \in [Reader -> Nat]
  /\ offset \in [Reader -> Nat]
  /\ received \in [Reader -> SUBSET Sequence]
  /\ promised \in [Reader -> SUBSET Sequence]

Init ==
  /\ durable \in BOOLEAN
  /\ alive = TRUE
  /\ messages = {}
  /\ nextSequence = 0
  /\ write = [w \in Writer |-> "idle"]
  /\ sequence = [w \in Writer |-> 0]
  /\ acknowledged = {}
  /\ read = [r \in Reader |-> "idle"]
  /\ bound = [r \in Reader |-> 0]
  /\ snapshot = [r \in Reader |-> 0]
  /\ offset = [r \in Reader |-> 0]
  /\ received = [r \in Reader |-> {}]
  /\ promised = [r \in Reader |-> {}]

Sequences == {m.sequence : m \in messages}

\* COALESCE(MAX(sequence), 0)
Latest ==
  IF messages = {} THEN 0
                   ELSE CHOOSE n \in Sequences : \A k \in Sequences : k <= n

-----------------------------------------------------------------------------
(***************************************************************************)
(* Append                                                                  *)
(***************************************************************************)

Reached(w, step) == write' = [write EXCEPT ![w] = step]

\* The message is stored; the caller hears of it unless the reply is lost.
Answered(w) ==
  \/ acknowledged' = acknowledged \cup {w} /\ Reached(w, "done")
  \/ UNCHANGED acknowledged /\ Reached(w, "failed")

\* A mutant: the newest messages are trimmed.
NewestTrimmed(all) ==
  {m \in all : Cardinality({n \in all : n.sequence < m.sequence}) < MaxItems}

\* LTRIM
Trimmed(all) ==
  {m \in all : Cardinality({n \in all : n.sequence > m.sequence}) < MaxItems}

\* redisAppendScript
Push(w) ==
  /\ write[w] = "idle"
  /\ ~ durable /\ alive
  /\ nextSequence' = nextSequence + 1
  /\ sequence' = [sequence EXCEPT ![w] = nextSequence']
  /\ messages' = Trimmed(messages \cup {[sequence |-> nextSequence', by |-> w]})
  /\ Answered(w)
  /\ UNCHANGED <<durable, alive, read, bound, client>>

\* The transactions that hold the row of the session.
Holding == {w \in Writer : write[w] \in {"locked", "allocated"}}

\* A mutant: SELECT without FOR UPDATE.
ReadRow(w) ==
  /\ write[w] = "idle"
  /\ durable /\ alive
  /\ Reached(w, "locked")
  /\ UNCHANGED <<session, sequence, acknowledged, read, bound, client>>

\* SELECT ... FOR UPDATE waits for the transaction that holds the row.
LockRow(w) ==
  /\ write[w] = "idle"
  /\ durable /\ alive
  /\ Holding = {}
  /\ Reached(w, "locked")
  /\ UNCHANGED <<session, sequence, acknowledged, read, bound, client>>

\* A mutant: the first message has sequence 0.
AllocateFromZero(w) ==
  /\ write[w] = "locked"
  /\ sequence' = [sequence EXCEPT ![w] = IF messages = {} THEN 0 ELSE Latest + 1]
  /\ Reached(w, "allocated")
  /\ UNCHANGED <<session, acknowledged, read, bound, client>>

Allocate(w) ==
  /\ write[w] = "locked"
  /\ sequence' = [sequence EXCEPT ![w] = Latest + 1]
  /\ Reached(w, "allocated")
  /\ UNCHANGED <<session, acknowledged, read, bound, client>>

\* The message is inserted, the session touched and all of it committed,
\* unless UNIQUE (session_id, sequence) forbids it.
Commit(w) ==
  /\ write[w] = "allocated"
  /\ sequence[w] \notin Sequences
  /\ messages' = messages \cup {[sequence |-> sequence[w], by |-> w]}
  /\ Answered(w)
  /\ UNCHANGED <<durable, alive, nextSequence, sequence, read, bound, client>>

\* There is no such session, a statement fails, or the caller has gone: what
\* the transaction did is rolled back.
AppendFails(w) ==
  /\ write[w] \in {"idle", "locked", "allocated"}
  /\ Reached(w, "failed")
  /\ UNCHANGED <<session, sequence, acknowledged, read, bound, client>>

\* The session is deleted, once no transaction holds its row, or its keys
\* expire.
Gone ==
  /\ alive
  /\ durable => Holding = {}
  /\ alive' = FALSE
  /\ messages' = {}
  /\ nextSequence' = 0
  /\ UNCHANGED <<durable, writes, read, bound, client>>

-----------------------------------------------------------------------------
(***************************************************************************)
(* ListMessagePage, and a client that follows its pages to the end         *)
(***************************************************************************)

Within(upper) == {m \in messages : m.sequence <= upper}

\* How many messages within the bound are newer than m.
Newer(m, upper) ==
  Cardinality({n \in Within(upper) : n.sequence > m.sequence})

\* A mutant: a page may hold messages that came after the snapshot.
PageOfAll(upper, skip) ==
  {m \in messages :
     Cardinality({n \in messages : n.sequence > m.sequence})
       \in skip .. skip + Limit - 1}

Page(upper, skip) ==
  {m \in Within(upper) : Newer(m, upper) \in skip .. skip + Limit - 1}

\* A mutant: a last message by itself is not seen.
HasTwoMore(upper, skip) == Cardinality(Within(upper)) > skip + Limit + 1

\* One message more than the page holds was found.
HasMore(upper, skip) == Cardinality(Within(upper)) > skip + Limit

\* The request finds the session, which may still go before it is read.
Find(r) ==
  /\ read[r] = "idle"
  /\ alive
  /\ read' = [read EXCEPT ![r] = "found"]
  /\ bound' = [bound EXCEPT ![r] = snapshot[r]]
  /\ UNCHANGED <<session, writes, client>>

NotFound(r) ==
  /\ read[r] = "idle"
  /\ ~ alive
  /\ read' = [read EXCEPT ![r] = "done"]
  /\ UNCHANGED <<session, writes, bound, client>>

\* postgres: the snapshot of a first page is a query of its own.
TakeSnapshot(r) ==
  /\ read[r] = "found"
  /\ durable /\ bound[r] = 0
  /\ bound' = [bound EXCEPT ![r] = Latest]
  /\ read' = [read EXCEPT ![r] = "bounded"]
  /\ UNCHANGED <<session, writes, client>>

\* The page is read; redis takes the newest message it finds as the bound of
\* a first page.  The client goes on while there is more.
ReadPage(r) ==
  /\ \/ read[r] = "found" /\ (durable => bound[r] # 0)
     \/ read[r] = "bounded"
  /\ LET upper == IF read[r] = "found" /\ bound[r] = 0 THEN Latest ELSE bound[r]
         page == Page(upper, offset[r]) IN
     /\ snapshot' = [snapshot EXCEPT ![r] = upper]
     /\ promised' = IF snapshot[r] # 0 THEN promised
                    ELSE [promised EXCEPT ![r] = {m.sequence : m \in Within(upper)}]
     /\ received' = [received EXCEPT ![r] = @ \cup {m.sequence : m \in page}]
     /\ offset' = [offset EXCEPT ![r] = @ + Cardinality(page)]
     /\ read' = [read EXCEPT ![r] =
                   IF HasMore(upper, offset[r]) THEN "idle" ELSE "done"]
  /\ UNCHANGED <<session, writes, bound>>

\* A query fails, and the client asks for the page again.
ReadFails(r) ==
  /\ read[r] \in {"found", "bounded"}
  /\ read' = [read EXCEPT ![r] = "idle"]
  /\ UNCHANGED <<session, writes, bound, client>>

Next ==
  \/ \E w \in Writer :
       Push(w) \/ LockRow(w) \/ Allocate(w) \/ Commit(w) \/ AppendFails(w)
  \/ \E r \in Reader :
       Find(r) \/ NotFound(r) \/ TakeSnapshot(r) \/ ReadPage(r) \/ ReadFails(r)
  \/ Gone

Spec == Init /\ [][Next]_vars

-----------------------------------------------------------------------------
(***************************************************************************)
(* Properties                                                              *)
(***************************************************************************)

\* The messages of a session have consecutive sequences, each its own: all
\* from 1 on in postgres, the latest MaxItems in redis.  An append never fails
\* because another one took its sequence.
SequencesAreDense ==
  /\ alive /\ durable => Sequences = 1 .. Cardinality(messages)
  /\ alive /\ ~ durable =>
       /\ Sequences = nextSequence - Cardinality(messages) + 1 .. nextSequence
       /\ Cardinality(messages) <= MaxItems
       /\ nextSequence > Cardinality(messages) => Cardinality(messages) = MaxItems
  /\ \A m, n \in messages : m.sequence = n.sequence => m = n
  /\ \A w \in Writer : write[w] = "allocated" => sequence[w] \notin Sequences

\* A message whose Append returned stays in the log under the sequence it was
\* given, until the session is gone or MaxItems newer ones push it out of redis.
AcknowledgedStays ==
  \A w \in acknowledged : alive =>
    \/ [sequence |-> sequence[w], by |-> w] \in messages
    \/ ~ durable /\ nextSequence - sequence[w] >= MaxItems

\* The messages by sequence, and their authors.
Log ==
  [n \in Sequences |-> (CHOOSE m \in messages : m.sequence = n).by]

Contract == INSTANCE MessageLog WITH
  bounded <- ~ durable,
  open <- alive,
  count <- IF durable THEN Latest ELSE nextSequence,
  kept <- Log,
  ended <- {w \in Writer : write[w] \in {"done", "failed"}},
  given <- [w \in Writer |-> IF w \in acknowledged THEN sequence[w] ELSE 0]

\* Although an append to postgres is a transaction of several statements, and
\* redis forgets messages, both stores keep the one log of MessageLog.
KeepsLog == Contract!Spec

\* The pages a client gets follow each other down from the snapshot, without
\* a gap and without a message seen twice, whatever is appended meanwhile,
\* trimmed, deleted, or read again.
PagesFollow ==
  \A r \in Reader :
    received[r] = snapshot[r] - offset[r] + 1 .. snapshot[r]

\* A client that has been told there is no more has every message of its
\* snapshot that the session still has.
PagesComplete ==
  \A r \in Reader :
    (read[r] = "done" /\ alive) => (promised[r] \cap Sequences) \subseteq received[r]

\* A client that has been told there is no more has every message of its
\* snapshot, "concurrent writes cause neither a gap nor a repetition"
\* (README.md:431).
SnapshotIsRead ==
  \A r \in Reader : (read[r] = "done" /\ alive) => promised[r] \subseteq received[r]
=============================================================================
