--------------------------- MODULE HistoryProofs ----------------------------
(***************************************************************************)
(* Proofs about what a model is shown of a session, for any models, any    *)
(* limit of the history and any life of a response chain.                  *)
(*                                                                         *)
(* The loop of completeToolHistory is a recursive function; what it keeps  *)
(* is shown by induction over the messages it has taken (LoopInv), which   *)
(* UpTo states with a set of numbers.  What a call shows the model follows *)
(* from what each chain holds (LogCovered, InputCovered) and from the      *)
(* messages of the call being all there is to show (Shows) and no more     *)
(* (ShowsOnly).                                                            *)
(***************************************************************************)
EXTENDS History, SequenceTheorems, WellFoundedInduction, TLAPS

(***************************************************************************)
(* Induction                                                               *)
(***************************************************************************)

\* A set of numbers has a least one.
LEMMA LeastNumber ==
  ASSUME NEW T \in SUBSET Nat, T # {}
  PROVE  \E x \in T : \A y \in T : x <= y
<1> DEFINE R == {p \in Nat \X Nat : p[1] < p[2]}
<1>1. IsWellFoundedOn(R, Nat)
  BY NatLessThanWellFounded DEF OpToRel
<1>2. \A x, y \in Nat : <<x, y>> \in R <=> x < y
  OBVIOUS
<1> HIDE DEF R
<1>3. PICK x \in T : \A y \in T : ~ (<<y, x>> \in R)
  BY <1>1, WFMin
<1>4. ASSUME NEW y \in T PROVE x <= y
  <2>1. x \in Nat /\ y \in Nat /\ ~ (y < x)
    BY <1>2, <1>3
  <2> QED
    BY <2>1
<1> QED
  BY <1>4

\* Induction up to n, over a set.
LEMMA UpTo ==
  ASSUME NEW n \in Nat, NEW T \in SUBSET (0 .. n), 0 \in T,
         \A i \in 0 .. n : i < n /\ i \in T => i + 1 \in T
  PROVE  T = 0 .. n
<1> SUFFICES ASSUME (0 .. n) \ T # {} PROVE FALSE
  OBVIOUS
<1>1. PICK x \in (0 .. n) \ T : \A y \in (0 .. n) \ T : x <= y
  <2> DEFINE U == (0 .. n) \ T
  <2>1. U \in SUBSET Nat /\ U # {}
    OBVIOUS
  <2> HIDE DEF U
  <2>2. \E x \in U : \A y \in U : x <= y
    BY <2>1, LeastNumber
  <2> QED
    BY <2>2 DEF U
<1>2. x # 0 /\ x - 1 \in 0 .. n /\ x - 1 < n
  BY <1>1
<1>3. x - 1 \in T
  BY <1>1, <1>2
<1>4. (x - 1) + 1 \in T
  BY <1>2, <1>3
<1>5. (x - 1) + 1 = x
  BY <1>1
<1> QED
  BY <1>1, <1>4, <1>5

-----------------------------------------------------------------------------
(***************************************************************************)
(* The loop of completeToolHistory                                         *)
(***************************************************************************)
LoopState ==
  {s \in [result : Seq(Message), start : Nat, pending : SUBSET CallId] :
     s.start <= Len(s.result)}

LoopStart == [result |-> <<>>, start |-> 0, pending |-> {}]

LEMMA MessageType ==
  ASSUME NEW m \in Message
  PROVE  /\ m.seq \in Nat /\ m.role \in {"user", "assistant", "tool"}
         /\ m.model \in Model /\ m.calls \in SUBSET CallId
         /\ m.answers \in CallId \cup {NoCall} /\ m.response \in Nat
         /\ m.expires \in Nat
BY DEF Message

LEMMA ClosedType ==
  ASSUME NEW s \in LoopState
  PROVE  /\ Closed(s) \in Seq(Message)
         /\ Len(Closed(s)) = IF s.pending = {} THEN Len(s.result) ELSE s.start
         /\ Len(Closed(s)) <= Len(s.result)
         /\ \A x \in 1 .. Len(Closed(s)) : Closed(s)[x] = s.result[x]
<1>1. /\ s.result \in Seq(Message) /\ s.start \in Nat
      /\ s.start <= Len(s.result) /\ Len(s.result) \in Nat
  BY LenProperties DEF LoopState
<1>2. CASE s.pending = {}
  BY <1>1, <1>2 DEF Closed
<1>3. CASE s.pending # {}
  <2>1. \A x \in 1 .. s.start : x \in DOMAIN s.result /\ s.result[x] \in Message
    BY <1>1, LenProperties, ElementOfSeq
  <2>2. /\ SubSeq(s.result, 1, s.start) \in Seq(Message)
        /\ Len(SubSeq(s.result, 1, s.start)) = s.start
        /\ \A x \in 1 .. s.start : SubSeq(s.result, 1, s.start)[x] = s.result[x]
    <3>1. s.start \in 0 .. Len(s.result) /\ 1 \in 1 .. Len(s.result) + 1
      BY <1>1
    <3>2. /\ SubSeq(s.result, 1, s.start) \in Seq(Message)
          /\ Len(SubSeq(s.result, 1, s.start)) = IF 1 <= s.start THEN s.start - 1 + 1 ELSE 0
          /\ \A x \in 1 .. s.start - 1 + 1 :
               SubSeq(s.result, 1, s.start)[x] = s.result[1 + x - 1]
      BY <1>1, <2>1, <3>1, SubSeqProperties
    <3> QED
      BY <1>1, <3>2
  <2> QED
    BY <1>1, <1>3, <2>2 DEF Closed
<1> QED
  BY <1>2, <1>3

LEMMA CompleteStepType ==
  ASSUME NEW s \in LoopState, NEW m \in Message
  PROVE  CompleteStep(s, m) \in LoopState
<1> DEFINE kept == IF m.role = "tool" THEN s.result ELSE Closed(s)
           open == IF m.role = "tool" THEN s.pending ELSE {}
           next == [result |-> Append(kept, m),
                    start |-> IF m.role = "assistant" THEN Len(kept) ELSE s.start,
                    pending |-> (open \cup m.calls) \ {m.answers}]
<1>1. /\ s.result \in Seq(Message) /\ s.start \in Nat
      /\ s.start <= Len(s.result) /\ Len(s.result) \in Nat
      /\ s.pending \subseteq CallId
  BY LenProperties DEF LoopState
<1>2. kept \in Seq(Message) /\ s.start <= Len(kept) /\ Len(kept) \in Nat
  BY <1>1, ClosedType, LenProperties
<1>3. Append(kept, m) \in Seq(Message) /\ Len(Append(kept, m)) = Len(kept) + 1
  BY <1>2, AppendProperties
<1>4. (open \cup m.calls) \ {m.answers} \subseteq CallId
  BY <1>1, MessageType
<1>5. CompleteStep(s, m) = IF m.role = "tool" /\ m.answers \notin open THEN s ELSE next
  BY DEF CompleteStep
<1> HIDE DEF kept, open
<1>6. next \in LoopState
  BY <1>1, <1>2, <1>3, <1>4 DEF LoopState
<1> QED
  BY <1>5, <1>6

\* The states of the loop are what their recursion says.
LEMMA CompletingStates ==
  ASSUME NEW h \in Seq(Message)
  PROVE  /\ Completing(h) \in [0 .. Len(h) -> LoopState]
         /\ Completing(h)[0] = LoopStart
         /\ \A i \in 1 .. Len(h) :
              Completing(h)[i] = CompleteStep(Completing(h)[i - 1], h[i])
<1> DEFINE Run(f, n) == [i \in 0 .. n |->
                           IF i = 0 THEN LoopStart ELSE CompleteStep(f[i - 1], h[i])]
           T == {n \in 0 .. Len(h) : \E f \in [0 .. n -> LoopState] : f = Run(f, n)}
<1>1. Len(h) \in Nat /\ \A i \in 1 .. Len(h) : h[i] \in Message
  BY LenProperties, ElementOfSeq
<1>2. LoopStart \in LoopState
  <2>1. <<>> \in Seq(Message) /\ Len(<<>>) = 0
    BY EmptySeq
  <2> QED
    BY <2>1 DEF LoopStart, LoopState
<1>3. 0 \in T
  <2> DEFINE f == [i \in 0 .. 0 |-> LoopStart]
  <2>1. f \in [0 .. 0 -> LoopState]
    BY <1>2
  <2>2. f = Run(f, 0)
    OBVIOUS
  <2> HIDE DEF f
  <2>3. \E g \in [0 .. 0 -> LoopState] : g = Run(g, 0)
    BY <2>1, <2>2
  <2> HIDE DEF Run
  <2> QED
    BY <1>1, <2>3
<1>4. ASSUME NEW n \in 0 .. Len(h), n < Len(h), n \in T PROVE n + 1 \in T
  <2>1. PICK f \in [0 .. n -> LoopState] : f = Run(f, n)
    BY <1>4
  <2> DEFINE g == [i \in 0 .. n + 1 |->
                     IF i <= n THEN f[i] ELSE CompleteStep(f[n], h[n + 1])]
  <2>2. CompleteStep(f[n], h[n + 1]) \in LoopState
    <3>1. f[n] \in LoopState /\ h[n + 1] \in Message
      BY <1>1, <1>4
    <3> QED
      BY <3>1, CompleteStepType
  <2>3. g \in [0 .. n + 1 -> LoopState]
    BY <2>2
  <2>4. ASSUME NEW i \in 0 .. n + 1
        PROVE  g[i] = IF i = 0 THEN LoopStart ELSE CompleteStep(g[i - 1], h[i])
    <3>1. CASE i <= n
      <4>1. f[i] = IF i = 0 THEN LoopStart ELSE CompleteStep(f[i - 1], h[i])
        BY <2>1, <3>1
      <4>2. g[i] = f[i] /\ (i # 0 => g[i - 1] = f[i - 1])
        BY <3>1
      <4> QED
        BY <4>1, <4>2
    <3>2. CASE i = n + 1
      <4>1. g[i] = CompleteStep(f[n], h[n + 1]) /\ g[i - 1] = f[n] /\ i # 0
        BY <3>2
      <4> QED
        BY <4>1, <3>2
    <3> QED
      BY <3>1, <3>2
  <2>5. g = Run(g, n + 1)
    <3> HIDE DEF g
    <3> QED
      BY <2>3, <2>4
  <2> HIDE DEF g, Run
  <2>6. \E e \in [0 .. n + 1 -> LoopState] : e = Run(e, n + 1)
    BY <2>3, <2>5
  <2>7. n + 1 \in 0 .. Len(h)
    BY <1>1, <1>4
  <2> QED
    BY <2>6, <2>7
<1>5. T = 0 .. Len(h)
  <2> HIDE DEF T
  <2>1. T \in SUBSET (0 .. Len(h))
    BY DEF T
  <2> QED
    BY <1>1, <1>3, <1>4, <2>1, UpTo
<1>6. \E f : f \in [0 .. Len(h) -> LoopState] /\ f = Run(f, Len(h))
  BY <1>1, <1>5
<1>7. Completing(h) = CHOOSE f : f = Run(f, Len(h))
  BY DEF Completing, LoopStart
<1>8. Completing(h) = Run(Completing(h), Len(h))
  BY <1>6, <1>7
<1> DEFINE c == Completing(h)
<1>9. /\ DOMAIN c = 0 .. Len(h) /\ c[0] = LoopStart
      /\ \A i \in 1 .. Len(h) : c[i] = CompleteStep(c[i - 1], h[i])
      /\ c = [i \in 0 .. Len(h) |-> c[i]]
  BY <1>1, <1>8
<1>10. {i \in 0 .. Len(h) : c[i] \in LoopState} = 0 .. Len(h)
  <2> DEFINE U == {i \in 0 .. Len(h) : c[i] \in LoopState}
  <2>1. U \in SUBSET (0 .. Len(h)) /\ 0 \in U
    BY <1>1, <1>2, <1>9
  <2>2. ASSUME NEW i \in 0 .. Len(h), i < Len(h), i \in U PROVE i + 1 \in U
    <3>1. i + 1 \in 1 .. Len(h) /\ i + 1 \in 0 .. Len(h) /\ (i + 1) - 1 = i
      BY <1>1, <2>2
    <3>2. h[i + 1] \in Message /\ c[i] \in LoopState
      BY <1>1, <2>2, <3>1
    <3> HIDE DEF c
    <3>3. c[i + 1] = CompleteStep(c[i], h[i + 1])
      BY <1>9, <3>1
    <3> QED
      BY <3>1, <3>2, <3>3, CompleteStepType
  <2> HIDE DEF U
  <2>3. U = 0 .. Len(h)
    BY <1>1, <2>1, <2>2, UpTo
  <2> QED
    BY <2>3 DEF U
<1> QED
  BY <1>9, <1>10

-----------------------------------------------------------------------------
(***************************************************************************)
(* What completeToolHistory keeps                                          *)
(***************************************************************************)

\* What a log is like: in order, and every call is answered once.
Ordered(h) == \A i, k \in DOMAIN h : i < k => h[i].seq < h[k].seq

Shaped(h) ==
  \A i \in DOMAIN h :
    /\ h[i].role # "assistant" => h[i].calls = {}
    /\ h[i].role # "tool" => h[i].answers = NoCall

AnswersOnce(h) ==
  \A i, k \in DOMAIN h :
    i < k /\ (\A j \in i .. k : h[j].role = "tool") => h[i].answers # h[k].answers

IsLog(h) == h \in Seq(Message) /\ Ordered(h) /\ Shaped(h) /\ AnswersOnce(h)

LEMMA LogType ==
  ASSUME NEW h, IsLog(h)
  PROVE  /\ h \in Seq(Message) /\ Len(h) \in Nat /\ DOMAIN h = 1 .. Len(h)
         /\ \A i \in 1 .. Len(h) : h[i] \in Message
BY LenProperties, ElementOfSeq DEF IsLog

\* Asker is the last message that is not a result.
IsAsker(h, i, a) ==
  /\ a \in 0 .. i
  /\ a # 0 => h[a].role # "tool"
  /\ \A j \in a + 1 .. i : h[j].role = "tool"

LEMMA AskerProperties ==
  ASSUME NEW h, IsLog(h), NEW i \in 0 .. Len(h)
  PROVE  /\ IsAsker(h, i, Asker(h, i))
         /\ \A a : IsAsker(h, i, a) => Asker(h, i) = a
<1> DEFINE before == {j \in 1 .. i : h[j].role # "tool"}
<1>1. Len(h) \in Nat /\ i \in Nat
  BY LogType
<1>2. Asker(h, i) = IF before = {} THEN 0
                    ELSE CHOOSE j \in before : \A k \in before : k <= j
  BY DEF Asker
<1>3. CASE before = {}
  BY <1>1, <1>2, <1>3 DEF IsAsker
<1>4. CASE before # {}
  <2> DEFINE T == {i - j : j \in before}
  <2>1. T \in SUBSET Nat /\ T # {}
    BY <1>1, <1>4
  <2>2. PICK x \in T : \A y \in T : x <= y
    <3> HIDE DEF T
    <3> QED
      BY <2>1, LeastNumber
  <2>3. PICK m \in before : x = i - m
    BY <2>2
  <2>4. \A k \in before : k <= m
    <3>1. \A k \in before : i - m <= i - k
      BY <2>2, <2>3
    <3> QED
      BY <1>1, <3>1
  <2> HIDE DEF T
  <2>5. Asker(h, i) \in before /\ \A k \in before : k <= Asker(h, i)
    <3> HIDE DEF before
    <3> QED
      BY <1>2, <1>4, <2>3, <2>4
  <2>6. IsAsker(h, i, Asker(h, i))
    BY <1>1, <2>5 DEF IsAsker
  <2>7. ASSUME NEW a, IsAsker(h, i, a) PROVE Asker(h, i) = a
    <3>1. a \in 0 .. i /\ (a # 0 => a \in before) /\ \A j \in a + 1 .. i : j \notin before
      BY <1>1, <2>7 DEF IsAsker
    <3> QED
      BY <1>1, <2>5, <3>1
  <2> QED
    BY <2>6, <2>7
<1> QED
  BY <1>3, <1>4

\* It stays the same over the results of a chain.
LEMMA NextAsker ==
  ASSUME NEW h, IsLog(h), NEW i \in 0 .. Len(h), i < Len(h)
  PROVE  Asker(h, i + 1) = IF h[i + 1].role = "tool" THEN Asker(h, i) ELSE i + 1
<1>1. Len(h) \in Nat /\ i + 1 \in 0 .. Len(h)
  BY LogType
<1>2. IsAsker(h, i, Asker(h, i))
  BY AskerProperties
<1>3. CASE h[i + 1].role = "tool"
  <2>1. IsAsker(h, i + 1, Asker(h, i))
    BY <1>1, <1>2, <1>3 DEF IsAsker
  <2> QED
    BY <1>1, <1>3, <2>1, AskerProperties
<1>4. CASE h[i + 1].role # "tool"
  <2>1. IsAsker(h, i + 1, i + 1)
    BY <1>1, <1>4 DEF IsAsker
  <2> QED
    BY <1>1, <1>4, <2>1, AskerProperties
<1> QED
  BY <1>3, <1>4

\* The messages of a chain are the one that asks and the results behind it.
LEMMA SameAsker ==
  ASSUME NEW h, IsLog(h), NEW i \in 0 .. Len(h), NEW k \in 1 .. Len(h)
  PROVE  /\ k \in Asker(h, i) .. i /\ Asker(h, i) # 0 => Asker(h, k) = Asker(h, i)
         /\ k <= i /\ k < Asker(h, i) => Asker(h, k) < Asker(h, i)
         /\ k <= i => Asker(h, k) <= Asker(h, i)
         /\ Asker(h, k) = Asker(h, i) => Asker(h, i) <= k
         /\ Asker(h, k) \in 0 .. k /\ Asker(h, i) \in 0 .. i
<1>1. Len(h) \in Nat /\ i \in Nat /\ k \in 0 .. Len(h)
  BY LogType
<1>2. IsAsker(h, i, Asker(h, i)) /\ IsAsker(h, k, Asker(h, k))
  BY <1>1, AskerProperties
<1>3. ASSUME k \in Asker(h, i) .. i, Asker(h, i) # 0 PROVE Asker(h, k) = Asker(h, i)
  <2>1. IsAsker(h, k, Asker(h, i))
    BY <1>1, <1>2, <1>3 DEF IsAsker
  <2> QED
    BY <1>1, <2>1, AskerProperties
<1>4. /\ k <= i /\ k < Asker(h, i) => Asker(h, k) < Asker(h, i)
      /\ Asker(h, k) = Asker(h, i) => Asker(h, i) <= k
      /\ Asker(h, k) \in 0 .. k /\ Asker(h, i) \in 0 .. i
  BY <1>1, <1>2 DEF IsAsker
<1>5. k <= i => Asker(h, k) <= Asker(h, i)
  BY <1>1, <1>2, <1>3, <1>4 DEF IsAsker
<1> QED
  BY <1>3, <1>4, <1>5

-----------------------------------------------------------------------------
\* A message that is kept so far: its chain is whole, or the last one.
KeptSoFar(h, i, k) ==
  LET j == Asker(h, k)
  IN /\ j # 0
     /\ j = Asker(h, i) \/ IsWhole(h, j)
     /\ h[k].role = "tool" => h[k].answers \in h[j].calls

\* The loop after i messages.  A chain that is open begins behind start.
LoopInv(h, i, s) ==
  LET a == Asker(h, i)
  IN /\ s.pending = IF a = 0 THEN {}
                    ELSE h[a].calls \ {h[k].answers : k \in a + 1 .. i}
     /\ \A k \in 1 .. i : KeptSoFar(h, i, k) <=> \E x \in DOMAIN s.result : s.result[x] = h[k]
     /\ \A x \in DOMAIN s.result : \E k \in 1 .. i : s.result[x] = h[k]
     /\ \A x, y \in DOMAIN s.result : x < y => s.result[x].seq < s.result[y].seq
     /\ s.pending # {} =>
          \A x \in DOMAIN s.result : x <= s.start <=> s.result[x].seq < h[a].seq

\* Where a chain ends, it is whole when nothing is pending.
LEMMA WholeWhenAnswered ==
  ASSUME NEW h, IsLog(h), NEW i \in 0 .. Len(h), NEW s, LoopInv(h, i, s),
         i = Len(h) \/ h[i + 1].role # "tool", Asker(h, i) # 0
  PROVE  IsWhole(h, Asker(h, i)) <=> s.pending = {}
<1> DEFINE a == Asker(h, i)
<1>0. DOMAIN h = 1 .. Len(h)
  BY LogType
<1>1. Len(h) \in Nat /\ i \in Nat /\ i <= Len(h) /\ a \in Nat /\ 0 < a /\ a <= i
  BY LogType, AskerProperties DEF IsAsker
<1>2. s.pending = h[a].calls \ {h[k].answers : k \in a + 1 .. i}
  BY DEF LoopInv
<1>3. h[a].role # "tool" /\ \A k \in a + 1 .. i : h[k].role = "tool"
  BY AskerProperties DEF IsAsker
<1>4. \A k \in 1 .. Len(h) :
        /\ k \in a .. i => Asker(h, k) = a
        /\ k < a => Asker(h, k) < a
        /\ k = i + 1 => Asker(h, k) = k
        /\ i < k => i + 1 <= Len(h) /\ Asker(h, i + 1) <= Asker(h, k)
        /\ Asker(h, k) \in Nat
  <2> TAKE k \in 1 .. Len(h)
  <2>1. k \in a .. i => Asker(h, k) = a
    BY SameAsker
  <2>2. k < a => Asker(h, k) < a
    BY <1>1, SameAsker
  <2>3. Asker(h, k) \in Nat
    BY SameAsker
  <2>4. k = i + 1 => Asker(h, k) = k
    BY <1>1, NextAsker
  <2>5. ASSUME i < k PROVE i + 1 <= Len(h) /\ Asker(h, i + 1) <= Asker(h, k)
    <3>1. k \in 0 .. Len(h) /\ i + 1 \in 1 .. Len(h) /\ i + 1 <= k
      BY <1>1, <2>5
    <3> QED
      BY <1>1, <3>1, SameAsker
  <2> QED
    BY <2>1, <2>2, <2>3, <2>4, <2>5
<1> HIDE DEF a
<1>5. ASSUME NEW k \in 1 .. Len(h)
      PROVE  (Asker(h, k) = a /\ h[k].role = "tool") <=> k \in a + 1 .. i
  <2>1. CASE k \in a + 1 .. i
    BY <1>1, <1>3, <1>4, <2>1
  <2>2. CASE k <= a
    BY <1>1, <1>3, <1>4, <2>2
  <2>3. CASE i < k
    <3>1. i + 1 \in 1 .. Len(h)
      BY <1>1, <1>4, <2>3
    <3> QED
      BY <1>1, <1>4, <2>3, <3>1
  <2> QED
    BY <1>1, <2>1, <2>2, <2>3
<1>6. IsWhole(h, a) <=> \A c \in h[a].calls : \E k \in a + 1 .. i : h[k].answers = c
  <2>1. \A k \in a + 1 .. i : k \in 1 .. Len(h)
    BY <1>1
  <2> QED
    BY <1>0, <1>5, <2>1, Zenon DEF IsWhole
<1> QED
  BY <1>2, <1>6 DEF a

-----------------------------------------------------------------------------
\* At the end of a chain, what is left are the messages that are kept.
LEMMA ClosedKeeps ==
  ASSUME NEW h, IsLog(h), NEW i \in 0 .. Len(h), NEW s \in LoopState,
         LoopInv(h, i, s), i = Len(h) \/ h[i + 1].role # "tool"
  PROVE  /\ \A k \in 1 .. i :
              IsKept(h, k) <=> \E x \in DOMAIN Closed(s) : Closed(s)[x] = h[k]
         /\ \A x \in DOMAIN Closed(s) : \E k \in 1 .. i : Closed(s)[x] = h[k]
         /\ \A x, y \in DOMAIN Closed(s) :
              x < y => Closed(s)[x].seq < Closed(s)[y].seq
<1> DEFINE a == Asker(h, i)
           r == s.result
           c == Closed(s)
<1>1. /\ Len(h) \in Nat /\ i \in Nat /\ i <= Len(h) /\ a \in Nat /\ a <= i
      /\ \A k \in 1 .. Len(h) : h[k].seq \in Nat
  BY LogType, AskerProperties, MessageType DEF IsAsker
<1>2. \A k, l \in 1 .. Len(h) : k < l => h[k].seq < h[l].seq
  BY LogType DEF IsLog, Ordered
<1>3. /\ \A k \in 1 .. i : KeptSoFar(h, i, k) <=> \E x \in DOMAIN r : r[x] = h[k]
      /\ \A x \in DOMAIN r : \E k \in 1 .. i : r[x] = h[k]
      /\ \A x, y \in DOMAIN r : x < y => r[x].seq < r[y].seq
      /\ s.pending # {} => \A x \in DOMAIN r : x <= s.start <=> r[x].seq < h[a].seq
      /\ a = 0 => s.pending = {}
  BY DEF LoopInv
<1>4. a # 0 => (IsWhole(h, a) <=> s.pending = {})
  BY WholeWhenAnswered
<1>5. /\ DOMAIN r = 1 .. Len(r) /\ Len(r) \in Nat /\ DOMAIN c = 1 .. Len(c)
      /\ Len(c) = IF s.pending = {} THEN Len(r) ELSE s.start
      /\ Len(c) <= Len(r) /\ s.start \in Nat
      /\ \A x \in 1 .. Len(c) : c[x] = r[x]
  BY ClosedType, LenProperties DEF LoopState
<1>6. \A k \in 1 .. i :
        /\ k \in a .. i /\ a # 0 => Asker(h, k) = a
        /\ k < a => Asker(h, k) < a
        /\ Asker(h, k) \in Nat
  <2> TAKE k \in 1 .. i
  <2>1. k \in 1 .. Len(h)
    BY <1>1
  <2> QED
    BY <2>1, SameAsker
<1> HIDE DEF a, r, c
<1>7. \A x, y \in DOMAIN c : x < y => c[x].seq < c[y].seq
  BY <1>3, <1>5
<1>8. \A x \in DOMAIN c : x \in DOMAIN r /\ c[x] = r[x]
  BY <1>5
<1>9. \A x \in DOMAIN c : \E k \in 1 .. i : c[x] = h[k]
  BY <1>3, <1>8
<1>10. ASSUME NEW k \in 1 .. i
       PROVE  IsKept(h, k) <=> \E x \in DOMAIN c : c[x] = h[k]
  <2>0. k \in Nat /\ 1 <= k /\ k <= i /\ k \in 1 .. Len(h)
    BY <1>1
  <2>1. CASE s.pending = {}
    <3>1. IsKept(h, k) <=> KeptSoFar(h, i, k)
      BY <1>4, <2>1 DEF IsKept, KeptSoFar, a
    <3>2. DOMAIN c = DOMAIN r
      BY <1>5, <2>1
    <3> QED
      BY <1>3, <1>8, <3>1, <3>2
  <2>2. CASE s.pending # {}
    <3>1. a # 0 /\ ~ IsWhole(h, a)
      BY <1>3, <1>4, <2>2
    <3>2. a \in 1 .. Len(h)
      BY <1>1, <3>1
    <3>3. ASSUME IsKept(h, k) PROVE \E x \in DOMAIN c : c[x] = h[k]
      <4>1. IsWhole(h, Asker(h, k)) /\ KeptSoFar(h, i, k)
        BY <3>3 DEF IsKept, KeptSoFar
      <4>2. k < a
        BY <1>1, <1>6, <2>0, <3>1, <4>1
      <4>3. PICK x \in DOMAIN r : r[x] = h[k]
        BY <1>3, <4>1
      <4>4. h[k].seq < h[a].seq
        BY <1>2, <2>0, <3>2, <4>2
      <4>5. x <= s.start
        BY <1>3, <2>2, <4>3, <4>4
      <4>6. x \in DOMAIN c
        BY <1>5, <2>2, <4>3, <4>5
      <4> QED
        BY <1>8, <4>3, <4>6
    <3>4. ASSUME NEW x \in DOMAIN c, c[x] = h[k] PROVE IsKept(h, k)
      <4>1. x \in DOMAIN r /\ r[x] = h[k] /\ x <= s.start
        BY <1>5, <1>8, <2>2, <3>4
      <4>2. h[k].seq < h[a].seq
        BY <1>3, <2>2, <4>1
      <4>3. k < a
        <5>1. ~ (a < k) /\ k # a
          BY <1>1, <1>2, <2>0, <3>2, <4>2
        <5> QED
          BY <1>1, <2>0, <5>1
      <4>4. Asker(h, k) < a
        BY <1>6, <4>3
      <4>5. KeptSoFar(h, i, k)
        BY <1>3, <4>1
      <4>6. Asker(h, k) # a
        BY <1>1, <1>6, <4>4
      <4> QED
        BY <4>5, <4>6 DEF KeptSoFar, IsKept, a
    <3> QED
      BY <3>3, <3>4
  <2> QED
    BY <2>1, <2>2
<1> QED
  BY <1>7, <1>9, <1>10 DEF c

-----------------------------------------------------------------------------
\* Sequence r is c and message i + 1 of h behind it.
Takes(r, c, h, i) ==
  /\ DOMAIN r = 1 .. Len(c) + 1 /\ DOMAIN c = 1 .. Len(c) /\ Len(c) \in Nat
  /\ r[Len(c) + 1] = h[i + 1]
  /\ \A x \in 1 .. Len(c) : r[x] = c[x] /\ c[x].seq < h[i + 1].seq
  /\ \A x \in DOMAIN r : \E k \in 1 .. i + 1 : r[x] = h[k]
  /\ \A x, y \in DOMAIN r : x < y => r[x].seq < r[y].seq
  /\ \A k \in 1 .. i : (\E x \in DOMAIN r : r[x] = h[k])
                        <=> (\E x \in DOMAIN c : c[x] = h[k])

\* A message that is taken comes behind the others.
LEMMA TakenInOrder ==
  ASSUME NEW h, IsLog(h), NEW i \in 0 .. Len(h), i < Len(h),
         NEW c \in Seq(Message),
         \A x \in DOMAIN c : \E k \in 1 .. i : c[x] = h[k],
         \A x, y \in DOMAIN c : x < y => c[x].seq < c[y].seq
  PROVE  Takes(Append(c, h[i + 1]), c, h, i)
<1> DEFINE r == Append(c, h[i + 1])
           m == h[i + 1]
<1>1. /\ Len(h) \in Nat /\ i \in Nat /\ i + 1 \in 1 .. Len(h) /\ m \in Message
      /\ \A k \in 1 .. Len(h) : h[k].seq \in Nat
  BY LogType, MessageType
<1>2. \A k \in 1 .. i : h[k].seq < m.seq
  BY <1>1, LogType DEF IsLog, Ordered
<1>3. /\ Len(c) \in Nat /\ DOMAIN c = 1 .. Len(c)
      /\ DOMAIN r = 1 .. Len(c) + 1
      /\ r[Len(c) + 1] = m
      /\ \A x \in 1 .. Len(c) : r[x] = c[x]
  BY <1>1, AppendProperties, LenProperties
<1> HIDE DEF r, m
<1>4. \A x \in 1 .. Len(c) : c[x].seq < m.seq
  BY <1>2, <1>3
<1>5. \A x \in DOMAIN r : \E k \in 1 .. i + 1 : r[x] = h[k]
  <2> TAKE x \in DOMAIN r
  <2>1. CASE x = Len(c) + 1
    <3>1. i + 1 \in 1 .. i + 1 /\ r[x] = h[i + 1]
      BY <1>1, <1>3, <2>1 DEF m
    <3> QED
      BY <3>1
  <2>2. CASE x \in 1 .. Len(c)
    <3>1. PICK k \in 1 .. i : c[x] = h[k]
      BY <1>3, <2>2
    <3>2. k \in 1 .. i + 1 /\ r[x] = h[k]
      BY <1>1, <1>3, <2>2, <3>1
    <3> QED
      BY <3>2
  <2> QED
    BY <1>3, <2>1, <2>2
<1>6. \A x, y \in DOMAIN r : x < y => r[x].seq < r[y].seq
  <2> SUFFICES ASSUME NEW x \in DOMAIN r, NEW y \in DOMAIN r, x < y
               PROVE  r[x].seq < r[y].seq
    OBVIOUS
  <2>1. x \in 1 .. Len(c)
    BY <1>3
  <2>2. CASE y = Len(c) + 1
    BY <1>3, <1>4, <2>1, <2>2
  <2>3. CASE y \in 1 .. Len(c)
    <3>1. c[x].seq < c[y].seq
      BY <1>3, <2>1, <2>3
    <3> QED
      BY <1>3, <2>1, <2>3, <3>1
  <2> QED
    BY <1>3, <2>2, <2>3
<1>7. ASSUME NEW k \in 1 .. i
      PROVE  (\E x \in DOMAIN r : r[x] = h[k]) <=> (\E x \in DOMAIN c : c[x] = h[k])
  <2>1. h[k] # m
    BY <1>1, <1>2
  <2>2. \A x \in DOMAIN r : x \in DOMAIN c \/ r[x] = m
    BY <1>3
  <2>3. \A x \in DOMAIN c : x \in DOMAIN r /\ r[x] = c[x]
    BY <1>3
  <2> QED
    BY <2>1, <2>2, <2>3, Zenon
<1> QED
  BY <1>3, <1>4, <1>5, <1>6, <1>7 DEF r, m, Takes

-----------------------------------------------------------------------------
\* A message that is not a result closes the chain before it.
LEMMA OtherMessage ==
  ASSUME NEW h, IsLog(h), NEW i \in 0 .. Len(h), i < Len(h),
         NEW s \in LoopState, LoopInv(h, i, s), h[i + 1].role # "tool"
  PROVE  LoopInv(h, i + 1, CompleteStep(s, h[i + 1]))
<1> DEFINE m == h[i + 1]
           c == Closed(s)
           t == CompleteStep(s, m)
           r == Append(c, m)
<1>1. /\ Len(h) \in Nat /\ i \in Nat /\ i + 1 \in 1 .. Len(h) /\ i + 1 \in 0 .. Len(h)
      /\ m \in Message /\ DOMAIN h = 1 .. Len(h)
  BY LogType
<1>2. /\ m.calls \subseteq CallId /\ m.answers = NoCall
      /\ m.role # "assistant" => m.calls = {}
  BY <1>1, MessageType DEF IsLog, Shaped
<1>3. Asker(h, i + 1) = i + 1
  BY <1>1, NextAsker
<1>4. /\ \A k \in 1 .. i : IsKept(h, k) <=> \E x \in DOMAIN c : c[x] = h[k]
      /\ \A x \in DOMAIN c : \E k \in 1 .. i : c[x] = h[k]
      /\ \A x, y \in DOMAIN c : x < y => c[x].seq < c[y].seq
  BY ClosedKeeps
<1>5. c \in Seq(Message)
  BY ClosedType
<1>6. /\ t.result = r
      /\ t.start = IF m.role = "assistant" THEN Len(c) ELSE s.start
      /\ t.pending = m.calls
  BY <1>2, NoCallDiffers DEF CompleteStep
<1> HIDE DEF c, t
<1>12. Takes(r, c, h, i)
  BY <1>4, <1>5, TakenInOrder
<1> HIDE DEF r, m
<1>7. /\ DOMAIN r = 1 .. Len(c) + 1 /\ DOMAIN c = 1 .. Len(c) /\ Len(c) \in Nat
      /\ r[Len(c) + 1] = m
      /\ \A x \in 1 .. Len(c) : r[x] = c[x] /\ c[x].seq < m.seq
      /\ \A x \in DOMAIN r : \E k \in 1 .. i + 1 : r[x] = h[k]
      /\ \A x, y \in DOMAIN r : x < y => r[x].seq < r[y].seq
      /\ \A k \in 1 .. i : (\E x \in DOMAIN r : r[x] = h[k])
                            <=> (\E x \in DOMAIN c : c[x] = h[k])
  BY <1>12 DEF Takes, m
<1>8. t.pending = IF Asker(h, i + 1) = 0 THEN {}
                  ELSE h[Asker(h, i + 1)].calls
                         \ {h[k].answers : k \in Asker(h, i + 1) + 1 .. i + 1}
  <2>1. \A k \in (i + 1) + 1 .. i + 1 : FALSE
    BY <1>1
  <2>2. {h[k].answers : k \in (i + 1) + 1 .. i + 1} = {}
    BY <2>1
  <2>3. t.pending = h[i + 1].calls \ {h[k].answers : k \in (i + 1) + 1 .. i + 1}
    BY <1>6, <2>2 DEF m
  <2>4. i + 1 # 0
    BY <1>1
  <2> QED
    BY <1>3, <2>3, <2>4
<1>9. ASSUME NEW k \in 1 .. i + 1
      PROVE  KeptSoFar(h, i + 1, k) <=> \E x \in DOMAIN r : r[x] = h[k]
  <2>1. CASE k = i + 1
    <3>1. KeptSoFar(h, i + 1, k)
      BY <1>1, <1>3, <2>1 DEF KeptSoFar
    <3>2. Len(c) + 1 \in DOMAIN r /\ r[Len(c) + 1] = h[k]
      BY <1>7, <2>1 DEF m
    <3> QED
      BY <3>1, <3>2
  <2>2. CASE k \in 1 .. i
    <3>1. k \in 1 .. Len(h) /\ k < i + 1
      BY <1>1, <2>2
    <3>2. Asker(h, k) # Asker(h, i + 1)
      BY <1>1, <1>3, <3>1, SameAsker
    <3>3. KeptSoFar(h, i + 1, k) <=> IsKept(h, k)
      BY <3>2 DEF KeptSoFar, IsKept
    <3> QED
      BY <1>4, <1>7, <2>2, <3>3
  <2> QED
    BY <1>1, <2>1, <2>2
<1>10. t.pending # {} =>
         \A x \in DOMAIN r : x <= t.start <=> r[x].seq < h[Asker(h, i + 1)].seq
  <2> SUFFICES ASSUME t.pending # {}, NEW x \in DOMAIN r
               PROVE  x <= t.start <=> r[x].seq < m.seq
    BY <1>3 DEF m
  <2>1. t.start = Len(c)
    BY <1>2, <1>6
  <2>2. m.seq \in Nat
    BY <1>1, MessageType
  <2>3. CASE x = Len(c) + 1
    BY <1>7, <2>1, <2>2, <2>3
  <2>4. CASE x \in 1 .. Len(c)
    BY <1>7, <2>1, <2>4
  <2> QED
    BY <1>7, <2>3, <2>4
<1>11. /\ \A k \in 1 .. i + 1 : KeptSoFar(h, i + 1, k) <=> \E x \in DOMAIN t.result : t.result[x] = h[k]
       /\ \A x \in DOMAIN t.result : \E k \in 1 .. i + 1 : t.result[x] = h[k]
       /\ \A x, y \in DOMAIN t.result : x < y => t.result[x].seq < t.result[y].seq
       /\ t.pending # {} =>
            \A x \in DOMAIN t.result : x <= t.start <=> t.result[x].seq < h[Asker(h, i + 1)].seq
  BY <1>6, <1>7, <1>9, <1>10
<1>13. LoopInv(h, i + 1, t)
  BY <1>8, <1>11 DEF LoopInv
<1> QED
  BY <1>13 DEF t, m

\* A result is taken when its call is pending, and it is not when the chain
\* has no such call.
LEMMA ResultMessage ==
  ASSUME NEW h, IsLog(h), NEW i \in 0 .. Len(h), i < Len(h),
         NEW s \in LoopState, LoopInv(h, i, s), h[i + 1].role = "tool"
  PROVE  LoopInv(h, i + 1, CompleteStep(s, h[i + 1]))
<1> DEFINE m == h[i + 1]
           a == Asker(h, i)
           t == CompleteStep(s, m)
           r == Append(s.result, m)
           answered == {h[k].answers : k \in a + 1 .. i}
<1>1. /\ Len(h) \in Nat /\ i \in Nat /\ i + 1 \in 1 .. Len(h) /\ i + 1 \in 0 .. Len(h)
      /\ m \in Message
  BY LogType
<1>2. m.calls = {} /\ m.seq \in Nat
  BY <1>1, LogType, MessageType DEF IsLog, Shaped
<1>3. Asker(h, i + 1) = a /\ Asker(h, i) = a
  BY NextAsker
<1>4. a \in Nat /\ a <= i /\ (\A k \in a + 1 .. i : h[k].role = "tool")
      /\ (a # 0 => a \in 1 .. Len(h) /\ h[a].seq < m.seq)
  <2>1. a \in Nat /\ a <= i /\ (\A k \in a + 1 .. i : h[k].role = "tool")
    BY <1>1, AskerProperties DEF IsAsker
  <2>2. a # 0 => a \in 1 .. Len(h) /\ h[a].seq < m.seq
    BY <1>1, <2>1, LogType DEF IsLog, Ordered
  <2> QED
    BY <2>1, <2>2
<1>5. /\ s.pending = IF a = 0 THEN {} ELSE h[a].calls \ answered
      /\ \A k \in 1 .. i : KeptSoFar(h, i, k) <=> \E x \in DOMAIN s.result : s.result[x] = h[k]
      /\ \A x \in DOMAIN s.result : \E k \in 1 .. i : s.result[x] = h[k]
      /\ \A x, y \in DOMAIN s.result : x < y => s.result[x].seq < s.result[y].seq
      /\ s.pending # {} =>
           \A x \in DOMAIN s.result : x <= s.start <=> s.result[x].seq < h[a].seq
  BY DEF LoopInv
<1>6. m.answers \notin answered
  <2> SUFFICES ASSUME NEW k \in a + 1 .. i PROVE h[k].answers # m.answers
    OBVIOUS
  <2>1. k \in DOMAIN h /\ i + 1 \in DOMAIN h /\ k < i + 1
    BY <1>1, <1>4, LogType
  <2>2. \A j \in k .. i + 1 : h[j].role = "tool"
    <3> TAKE j \in k .. i + 1
    <3>1. j \in a + 1 .. i \/ j = i + 1
      BY <1>1, <1>4
    <3> QED
      BY <1>4, <3>1
  <2> QED
    BY <2>1, <2>2 DEF IsLog, AnswersOnce
<1>7. {h[k].answers : k \in a + 1 .. i + 1} = answered \cup {m.answers}
  <2>1. a + 1 .. i + 1 = (a + 1 .. i) \cup {i + 1}
    BY <1>1, <1>4
  <2> QED
    BY <2>1
<1>8. KeptSoFar(h, i + 1, i + 1) <=> m.answers \in s.pending
  <2>1. KeptSoFar(h, i + 1, i + 1) <=> a # 0 /\ m.answers \in h[a].calls
    BY <1>3 DEF KeptSoFar
  <2> HIDE DEF answered, a, m
  <2> QED
    BY <1>5, <1>6, <2>1
<1>9. \A k \in 1 .. i : KeptSoFar(h, i + 1, k) <=> KeptSoFar(h, i, k)
  BY <1>3 DEF KeptSoFar
<1>10. t = IF m.answers \notin s.pending THEN s
           ELSE [result |-> r, start |-> s.start,
                 pending |-> s.pending \ {m.answers}]
  BY <1>2 DEF CompleteStep
<1>11. s.result \in Seq(Message) /\ \A x \in DOMAIN s.result : s.result[x] # m
  <2>1. \A k \in 1 .. i : h[k] # m
    <3> TAKE k \in 1 .. i
    <3>1. k \in DOMAIN h /\ i + 1 \in DOMAIN h /\ k < i + 1
      BY <1>1, LogType
    <3>2. h[k].seq < m.seq
      BY <3>1 DEF IsLog, Ordered
    <3> QED
      BY <1>2, <3>2
  <2> HIDE DEF m
  <2> QED
    BY <1>5, <2>1 DEF LoopState
<1>12. CASE m.answers \notin s.pending
  <2>1. t = s
    BY <1>10, <1>12
  <2>2. s.pending = IF a = 0 THEN {} ELSE h[a].calls \ (answered \cup {m.answers})
    BY <1>5, <1>12
  <2> HIDE DEF m, a, t, r, answered
  <2>3. ASSUME NEW k \in 1 .. i + 1
        PROVE  KeptSoFar(h, i + 1, k) <=> \E x \in DOMAIN s.result : s.result[x] = h[k]
    <3>1. CASE k = i + 1
      BY <1>8, <1>11, <1>12, <3>1 DEF m
    <3>2. CASE k \in 1 .. i
      BY <1>5, <1>9, <3>2
    <3> QED
      BY <1>1, <3>1, <3>2
  <2>4. \A x \in DOMAIN s.result : \E k \in 1 .. i + 1 : s.result[x] = h[k]
    <3>1. \A k \in 1 .. i : k \in 1 .. i + 1
      BY <1>1
    <3> QED
      BY <1>5, <3>1
  <2>5. LoopInv(h, i + 1, s)
    BY <1>3, <1>5, <1>7, <2>2, <2>3, <2>4 DEF LoopInv
  <2> QED
    BY <2>1, <2>5 DEF t, m
<1>13. CASE m.answers \in s.pending
  <2>1. t.result = r /\ t.start = s.start /\ t.pending = s.pending \ {m.answers}
    BY <1>10, <1>13
  <2>2. a # 0 /\ t.pending = h[a].calls \ (answered \cup {m.answers})
    <3> HIDE DEF m, a, t, answered
    <3> QED
      BY <1>5, <1>13, <2>1
  <2>3. /\ DOMAIN r = 1 .. Len(s.result) + 1 /\ DOMAIN s.result = 1 .. Len(s.result)
        /\ Len(s.result) \in Nat
        /\ r[Len(s.result) + 1] = m
        /\ \A x \in 1 .. Len(s.result) : r[x] = s.result[x] /\ s.result[x].seq < m.seq
        /\ \A x \in DOMAIN r : \E k \in 1 .. i + 1 : r[x] = h[k]
        /\ \A x, y \in DOMAIN r : x < y => r[x].seq < r[y].seq
        /\ \A k \in 1 .. i : (\E x \in DOMAIN r : r[x] = h[k])
                              <=> (\E x \in DOMAIN s.result : s.result[x] = h[k])
    <3> DEFINE q == s.result
    <3>1. /\ q \in Seq(Message)
          /\ \A x \in DOMAIN q : \E k \in 1 .. i : q[x] = h[k]
          /\ \A x, y \in DOMAIN q : x < y => q[x].seq < q[y].seq
      BY <1>5, <1>11
    <3> HIDE DEF q
    <3>2. Takes(Append(q, h[i + 1]), q, h, i)
      BY <3>1, TakenInOrder
    <3>3. Takes(r, s.result, h, i)
      BY <3>2 DEF q
    <3> HIDE DEF r, m
    <3> QED
      BY <3>3 DEF Takes, m
  <2>4. s.start \in Nat /\ s.start <= Len(s.result)
    BY DEF LoopState
  <2>5. a \in 1 .. Len(h) /\ h[a].seq \in Nat /\ h[a].seq < m.seq
    BY <1>4, <2>2, LogType, MessageType
  <2> HIDE DEF m, a, t, r, answered
  <2>6. ASSUME NEW k \in 1 .. i + 1
        PROVE  KeptSoFar(h, i + 1, k) <=> \E x \in DOMAIN r : r[x] = h[k]
    <3>1. CASE k = i + 1
      <4>1. KeptSoFar(h, i + 1, k)
        BY <1>8, <1>13, <3>1
      <4>2. Len(s.result) + 1 \in DOMAIN r /\ r[Len(s.result) + 1] = h[k]
        BY <2>3, <3>1 DEF m
      <4> QED
        BY <4>1, <4>2
    <3>2. CASE k \in 1 .. i
      BY <1>5, <1>9, <2>3, <3>2
    <3> QED
      BY <1>1, <3>1, <3>2
  <2>7. ASSUME NEW x \in DOMAIN r
        PROVE  x <= s.start <=> r[x].seq < h[a].seq
    <3>1. CASE x = Len(s.result) + 1
      BY <1>2, <2>3, <2>4, <2>5, <3>1
    <3>2. CASE x \in 1 .. Len(s.result)
      <4>1. x \in DOMAIN s.result /\ r[x] = s.result[x] /\ s.pending # {}
        BY <1>13, <2>3, <3>2
      <4> QED
        BY <1>5, <4>1
    <3> QED
      BY <2>3, <3>1, <3>2
  <2>8. LoopInv(h, i + 1, t)
    BY <1>3, <1>7, <2>1, <2>2, <2>3, <2>6, <2>7 DEF LoopInv
  <2> QED
    BY <2>8 DEF t, m
<1> QED
  BY <1>12, <1>13

\* completeToolHistory keeps the messages of whole chains, and no others.
LEMMA CompleteKeeps ==
  ASSUME NEW h, IsLog(h)
  PROVE  LET c == CompleteToolHistory(h)
         IN /\ c \in Seq(Message)
            /\ \A k \in DOMAIN h : IsKept(h, k) <=> \E x \in DOMAIN c : c[x] = h[k]
            /\ \A x, y \in DOMAIN c : x < y => c[x].seq < c[y].seq
<1> DEFINE s == Completing(h)
           T == {i \in 0 .. Len(h) : LoopInv(h, i, s[i])}
<1>1. h \in Seq(Message) /\ Len(h) \in Nat /\ DOMAIN h = 1 .. Len(h)
  BY LogType
<1>2. /\ s \in [0 .. Len(h) -> LoopState]
      /\ s[0] = LoopStart
      /\ \A i \in 1 .. Len(h) : s[i] = CompleteStep(s[i - 1], h[i])
  BY <1>1, CompletingStates
<1> HIDE DEF s
<1>3. LoopInv(h, 0, s[0])
  <2>1. Asker(h, 0) = 0
    BY <1>1, AskerProperties DEF IsAsker
  <2>2. s[0].pending = {} /\ DOMAIN s[0].result = {}
    BY <1>2, EmptySeq DEF LoopStart
  <2>3. 1 .. 0 = {}
    OBVIOUS
  <2> QED
    BY <2>1, <2>2, <2>3 DEF LoopInv
<1>4. ASSUME NEW i \in 0 .. Len(h), i < Len(h), i \in T PROVE i + 1 \in T
  <2>1. i + 1 \in 1 .. Len(h) /\ i + 1 \in 0 .. Len(h) /\ (i + 1) - 1 = i
    BY <1>1, <1>4
  <2>2. s[i + 1] = CompleteStep(s[i], h[i + 1]) /\ s[i] \in LoopState
    BY <1>2, <2>1
  <2>3. LoopInv(h, i, s[i])
    BY <1>4
  <2>4. LoopInv(h, i + 1, CompleteStep(s[i], h[i + 1]))
    BY <1>4, <2>2, <2>3, OtherMessage, ResultMessage
  <2> QED
    BY <2>1, <2>2, <2>4
<1>5. Len(h) \in T
  <2>1. T \in SUBSET (0 .. Len(h)) /\ 0 \in T
    BY <1>1, <1>3
  <2> HIDE DEF T
  <2>2. T = 0 .. Len(h)
    BY <1>1, <1>4, <2>1, UpTo
  <2> QED
    BY <1>1, <2>2
<1>6. s[Len(h)] \in LoopState /\ LoopInv(h, Len(h), s[Len(h)]) /\ Len(h) \in 0 .. Len(h)
  BY <1>1, <1>2, <1>5
<1>7. CompleteToolHistory(h) = Closed(s[Len(h)])
  BY DEF CompleteToolHistory, s
<1> QED
  BY <1>1, <1>6, <1>7, ClosedKeeps, ClosedType

-----------------------------------------------------------------------------
(***************************************************************************)
(* The log and the history read from it                                    *)
(***************************************************************************)

\* A message goes by its place.
Placed(l) == \A i \in DOMAIN l : l[i].seq = i

\* No result behind the last other message of l answers a call of cs.
Open(l, cs) ==
  \A k \in DOMAIN l :
    (\A j \in k .. Len(l) : l[j].role = "tool") => l[k].answers \notin cs

\* The newest messages are those from first on.
First(l, limit) == IF Len(l) > limit THEN Len(l) - limit + 1 ELSE 1

LEMMA ListIsWindow ==
  ASSUME NEW l \in Seq(Message), l = log, NEW limit \in Nat \ {0}
  PROVE  LET h == ListMessages(limit)
         IN /\ h \in Seq(Message)
            /\ First(l, limit) \in 1 .. Len(l) + 1 /\ Len(l) \in Nat
            /\ Len(h) = Len(l) - First(l, limit) + 1
            /\ \A i \in 1 .. Len(h) :
                 /\ First(l, limit) + i - 1 \in 1 .. Len(l)
                 /\ h[i] = l[First(l, limit) + i - 1]
<1> DEFINE first == First(l, limit)
<1>1. first \in 1 .. Len(l) + 1 /\ Len(l) \in Nat
  BY LenProperties DEF First
<1>2. ListMessages(limit) = SubSeq(l, first, Len(l))
  BY DEF ListMessages, First
<1> HIDE DEF first
<1>3. \A i \in first .. Len(l) : l[i] \in Message
  BY <1>1, LenProperties, ElementOfSeq
<1>4. /\ SubSeq(l, first, Len(l)) \in Seq(Message)
      /\ Len(SubSeq(l, first, Len(l)))
           = IF first <= Len(l) THEN Len(l) - first + 1 ELSE 0
      /\ \A i \in 1 .. Len(l) - first + 1 :
           SubSeq(l, first, Len(l))[i] = l[first + i - 1]
  BY <1>1, <1>3, SubSeqProperties
<1>5. Len(ListMessages(limit)) = Len(l) - first + 1
  BY <1>1, <1>2, <1>4
<1>6. \A i \in 1 .. Len(l) - first + 1 : first + i - 1 \in 1 .. Len(l)
  BY <1>1
<1> QED
  BY <1>1, <1>2, <1>4, <1>5, <1>6 DEF first

\* A part of a log is a log.
LEMMA WindowIsLog ==
  ASSUME NEW l, IsLog(l), NEW h \in Seq(Message), NEW f \in Nat \ {0},
         \A i \in 1 .. Len(h) : f + i - 1 \in 1 .. Len(l) /\ h[i] = l[f + i - 1]
  PROVE  IsLog(h)
<1>1. /\ Len(h) \in Nat /\ DOMAIN h = 1 .. Len(h)
      /\ Len(l) \in Nat /\ DOMAIN l = 1 .. Len(l)
  BY LogType, LenProperties
<1>2. Ordered(h)
  <2> SUFFICES ASSUME NEW i \in 1 .. Len(h), NEW k \in 1 .. Len(h), i < k
               PROVE  h[i].seq < h[k].seq
    BY <1>1 DEF Ordered
  <2>1. f + i - 1 < f + k - 1 /\ f + i - 1 \in DOMAIN l /\ f + k - 1 \in DOMAIN l
    BY <1>1
  <2>2. l[f + i - 1].seq < l[f + k - 1].seq
    BY <2>1 DEF IsLog, Ordered
  <2> QED
    BY <2>2
<1>3. Shaped(h)
  BY <1>1 DEF IsLog, Shaped
<1>4. AnswersOnce(h)
  <2> SUFFICES ASSUME NEW i \in 1 .. Len(h), NEW k \in 1 .. Len(h), i < k,
                      \A j \in i .. k : h[j].role = "tool"
               PROVE  h[i].answers # h[k].answers
    BY <1>1 DEF AnswersOnce
  <2>1. f + i - 1 < f + k - 1 /\ f + i - 1 \in DOMAIN l /\ f + k - 1 \in DOMAIN l
    BY <1>1
  <2>2. \A j \in f + i - 1 .. f + k - 1 : l[j].role = "tool"
    <3> TAKE j \in f + i - 1 .. f + k - 1
    <3>1. j - f + 1 \in i .. k /\ j - f + 1 \in 1 .. Len(h)
      BY <1>1
    <3>2. h[j - f + 1] = l[f + (j - f + 1) - 1] /\ f + (j - f + 1) - 1 = j
      BY <1>1, <3>1
    <3> QED
      BY <3>1, <3>2
  <2>3. l[f + i - 1].answers # l[f + k - 1].answers
    BY <2>1, <2>2 DEF IsLog, AnswersOnce
  <2> QED
    BY <2>3
<1> QED
  BY <1>2, <1>3, <1>4 DEF IsLog

\* A message that is stored keeps a log a log, when a result among others
\* answers what they do not.
LEMMA StoredKeepsLog ==
  ASSUME NEW l, IsLog(l), Placed(l), NEW m \in Message,
         m.seq = Len(l) + 1,
         m.role # "assistant" => m.calls = {},
         m.role # "tool" => m.answers = NoCall,
         m.role = "tool" =>
           \A k \in DOMAIN l : (\A j \in k .. Len(l) : l[j].role = "tool")
                                 => l[k].answers # m.answers
  PROVE  /\ IsLog(Append(l, m)) /\ Placed(Append(l, m))
         /\ \A cs : Open(l, cs) /\ m.role = "tool" => Open(Append(l, m), cs \ {m.answers})
         /\ \A cs : m.role # "tool" => Open(Append(l, m), cs)
<1> DEFINE r == Append(l, m)
<1>1. /\ l \in Seq(Message) /\ Len(l) \in Nat /\ DOMAIN l = 1 .. Len(l)
  BY LogType
<1>2. /\ r \in Seq(Message) /\ Len(r) = Len(l) + 1 /\ DOMAIN r = 1 .. Len(l) + 1
      /\ r[Len(l) + 1] = m
      /\ \A i \in 1 .. Len(l) : r[i] = l[i]
  BY <1>1, AppendProperties, LenProperties
<1> HIDE DEF r
<1>3. Placed(r)
  BY <1>1, <1>2 DEF Placed
<1>4. Ordered(r)
  BY <1>2, <1>3 DEF Ordered, Placed
<1>5. Shaped(r)
  <2> SUFFICES ASSUME NEW i \in 1 .. Len(l) + 1
               PROVE  /\ r[i].role # "assistant" => r[i].calls = {}
                      /\ r[i].role # "tool" => r[i].answers = NoCall
    BY <1>2 DEF Shaped
  <2>1. CASE i = Len(l) + 1
    BY <1>2, <2>1
  <2>2. CASE i \in 1 .. Len(l)
    BY <1>1, <1>2, <2>2 DEF IsLog, Shaped
  <2> QED
    BY <1>1, <2>1, <2>2
<1>6. AnswersOnce(r)
  <2> SUFFICES ASSUME NEW i \in 1 .. Len(l) + 1, NEW k \in 1 .. Len(l) + 1, i < k,
                      \A j \in i .. k : r[j].role = "tool"
               PROVE  r[i].answers # r[k].answers
    BY <1>2 DEF AnswersOnce
  <2>1. i \in 1 .. Len(l) /\ r[i] = l[i]
    BY <1>1, <1>2
  <2>2. CASE k = Len(l) + 1
    <3>1. \A j \in i .. Len(l) : l[j].role = "tool"
      <4> TAKE j \in i .. Len(l)
      <4>1. j \in i .. k /\ j \in 1 .. Len(l)
        BY <1>1, <2>1, <2>2
      <4> QED
        BY <1>2, <4>1
    <3>2. m.role = "tool"
      <4>1. k \in i .. k
        OBVIOUS
      <4> QED
        BY <1>2, <2>2, <4>1
    <3> QED
      BY <1>1, <1>2, <2>1, <2>2, <3>1, <3>2
  <2>3. CASE k \in 1 .. Len(l)
    <3>1. \A j \in i .. k : l[j].role = "tool"
      <4> TAKE j \in i .. k
      <4>1. j \in 1 .. Len(l)
        BY <1>1, <2>3
      <4> QED
        BY <1>2, <4>1
    <3>2. l[i].answers # l[k].answers
      BY <1>1, <2>1, <2>3, <3>1 DEF IsLog, AnswersOnce
    <3> QED
      BY <1>2, <2>1, <2>3, <3>2
  <2> QED
    BY <1>1, <2>2, <2>3
<1>7. ASSUME NEW cs, Open(l, cs), m.role = "tool" PROVE Open(r, cs \ {m.answers})
  <2> SUFFICES ASSUME NEW k \in 1 .. Len(l) + 1,
                      \A j \in k .. Len(l) + 1 : r[j].role = "tool"
               PROVE  r[k].answers \notin cs \ {m.answers}
    BY <1>2 DEF Open
  <2>1. CASE k = Len(l) + 1
    BY <1>2, <2>1
  <2>2. CASE k \in 1 .. Len(l)
    <3>1. \A j \in k .. Len(l) : l[j].role = "tool"
      <4> TAKE j \in k .. Len(l)
      <4>1. j \in k .. Len(l) + 1 /\ j \in 1 .. Len(l)
        BY <1>1, <2>2
      <4> QED
        BY <1>2, <4>1
    <3> QED
      BY <1>1, <1>2, <1>7, <2>2, <3>1 DEF Open
  <2> QED
    BY <1>1, <2>1, <2>2
<1>8. ASSUME NEW cs, m.role # "tool" PROVE Open(r, cs)
  <2> SUFFICES ASSUME NEW k \in 1 .. Len(l) + 1,
                      \A j \in k .. Len(l) + 1 : r[j].role = "tool"
               PROVE  FALSE
    BY <1>2 DEF Open
  <2>1. Len(l) + 1 \in k .. Len(l) + 1
    BY <1>1
  <2> QED
    BY <1>2, <1>8, <2>1
<1> QED
  BY <1>2, <1>3, <1>4, <1>5, <1>6, <1>7, <1>8 DEF IsLog, r

\* What the history keeps of the messages when it is sanitized.
LEMMA SanitizedMessages ==
  ASSUME NEW h \in Seq(Message), NEW m \in Model
  PROVE  LET s == SanitizeHistoryForModel(h, m)
         IN /\ s \in Seq(Message) /\ Len(s) = Len(h)
            /\ \A i \in 1 .. Len(h) :
                 /\ s[i].seq = h[i].seq /\ s[i].role = h[i].role
                 /\ s[i].response = 0
                      \/ (s[i] = h[i] /\ h[i].model = m)
<1> DEFINE s == SanitizeHistoryForModel(h, m)
<1>1. Len(h) \in Nat /\ DOMAIN h = 1 .. Len(h) /\ \A i \in 1 .. Len(h) : h[i] \in Message
  BY LenProperties, ElementOfSeq
<1>2. DOMAIN s = 1 .. Len(h)
  BY <1>1 DEF SanitizeHistoryForModel
<1>3. ASSUME NEW i \in 1 .. Len(h)
      PROVE  /\ s[i] \in Message /\ s[i].seq = h[i].seq /\ s[i].role = h[i].role
             /\ s[i].response = 0 \/ (s[i] = h[i] /\ h[i].model = m)
  <2>1. h[i] \in Message
    BY <1>1
  <2>2. CASE \E j \in i .. Len(h) : h[j].model # m
    <3>1. s[i] = [h[i] EXCEPT !.response = 0, !.expires = 0]
      BY <1>1, <2>2 DEF SanitizeHistoryForModel
    <3> DEFINE t == [h[i] EXCEPT !.response = 0, !.expires = 0]
    <3>2. t \in Message /\ t.seq = h[i].seq /\ t.role = h[i].role /\ t.response = 0
      BY <2>1 DEF Message
    <3> HIDE DEF t
    <3>3. s[i] = t
      BY <3>1 DEF t
    <3> HIDE DEF s
    <3> QED
      BY <3>2, <3>3
  <2>3. CASE ~ \E j \in i .. Len(h) : h[j].model # m
    <3>1. s[i] = h[i] /\ h[i].model = m
      BY <1>1, <2>3 DEF SanitizeHistoryForModel
    <3> HIDE DEF s
    <3> QED
      BY <2>1, <3>1
  <2> QED
    BY <2>2, <2>3
<1>4. s \in [1 .. Len(h) -> Message]
  BY <1>1, <1>3 DEF SanitizeHistoryForModel
<1>5. s \in Seq(Message) /\ Len(s) = Len(h)
  BY <1>1, <1>2, <1>4, SeqDef, LenProperties
<1> QED
  BY <1>3, <1>5

-----------------------------------------------------------------------------
(***************************************************************************)
(* What the chains hold of a log, a history and the messages of a call.    *)
(***************************************************************************)

\* A response that is named is the chain of a call of model m.
Owned(cs, response, m) ==
  response # 0 => response \in DOMAIN cs /\ cs[response].model = m

AllOwned(s, cs, m) == \A i \in DOMAIN s : Owned(cs, s[i].response, m)

LogOwned(l, cs) == \A i \in DOMAIN l : Owned(cs, l[i].response, l[i].model)

\* The chain of a reply holds its turn and the Limit messages before that.
LogCovered(l, cs) ==
  \A i \in DOMAIN l : l[i].response # 0 =>
    \E r \in 1 .. i : \A k \in 1 .. i :
      k >= r - Limit => k \in cs[l[i].response].messages

\* The chain of a message holds it and what is before it in s.
Covered(s, cs) ==
  \A c \in DOMAIN s : s[c].response # 0 =>
    \A j \in 1 .. c : s[j].seq \in cs[s[c].response].messages

\* The same of the messages of a call: a chain that does not hold the
\* reminder before it of turn r has expired at time t.
InputCovered(in, cs, r, t) ==
  \A c \in DOMAIN in : in[c].response # 0 =>
    \A j \in 1 .. c :
      IF in[j].reminder
      THEN r \in cs[in[c].response].reminders \/ in[c].expires < t
      ELSE in[j].seq \in cs[in[c].response].messages

\* They hold what is replayed and the messages r to n of the log, and no
\* others, and the reminder.
HasSeq(in, k) == \E i \in DOMAIN in : in[i].seq = k /\ ~ in[i].reminder

Shows(in, replayed, r, n) ==
  /\ \A i \in DOMAIN replayed : HasSeq(in, replayed[i].seq)
  /\ \A k \in r .. n : HasSeq(in, k)
  /\ \E i \in DOMAIN in : in[i].reminder

ShowsOnly(in, replayed, r, n) ==
  \A i \in DOMAIN in : ~ in[i].reminder =>
    in[i].seq \in r .. n \/ \E k \in DOMAIN replayed : replayed[k].seq = in[i].seq

\* The chains ds are the chains cs and more.
Grown(cs, ds) == \A r \in DOMAIN cs : r \in DOMAIN ds /\ ds[r] = cs[r]

LEMMA StillOwned ==
  ASSUME NEW cs, NEW ds, Grown(cs, ds)
  PROVE  /\ \A r, m : Owned(cs, r, m) => Owned(ds, r, m) /\ (r # 0 => ds[r] = cs[r])
         /\ \A s, m : AllOwned(s, cs, m) => AllOwned(s, ds, m)
         /\ \A l : LogOwned(l, cs) => LogOwned(l, ds)
         /\ \A l : LogOwned(l, cs) /\ LogCovered(l, cs) => LogCovered(l, ds)
         /\ \A s, m : AllOwned(s, cs, m) /\ Covered(s, cs) => Covered(s, ds)
         /\ \A s, m, r, t : AllOwned(s, cs, m) /\ InputCovered(s, cs, r, t)
                              => InputCovered(s, ds, r, t)
<1>1. \A r, m : Owned(cs, r, m) => Owned(ds, r, m) /\ (r # 0 => ds[r] = cs[r])
  BY DEF Owned, Grown
<1>2. \A s, m : AllOwned(s, cs, m) => AllOwned(s, ds, m)
  BY <1>1 DEF AllOwned
<1>3. \A l : LogOwned(l, cs) => LogOwned(l, ds)
  BY <1>1 DEF LogOwned
<1>4. ASSUME NEW l, LogOwned(l, cs), LogCovered(l, cs) PROVE LogCovered(l, ds)
  <2>1. \A i \in DOMAIN l : l[i].response # 0 => ds[l[i].response] = cs[l[i].response]
    BY <1>1, <1>4 DEF LogOwned
  <2> QED
    BY <2>1, <1>4 DEF LogCovered
<1>5. ASSUME NEW s, NEW m, AllOwned(s, cs, m), Covered(s, cs) PROVE Covered(s, ds)
  <2>1. \A i \in DOMAIN s : s[i].response # 0 => ds[s[i].response] = cs[s[i].response]
    BY <1>1, <1>5 DEF AllOwned
  <2> QED
    BY <2>1, <1>5 DEF Covered
<1>6. ASSUME NEW s, NEW m, NEW r, NEW t, AllOwned(s, cs, m), InputCovered(s, cs, r, t)
      PROVE  InputCovered(s, ds, r, t)
  <2>1. \A i \in DOMAIN s : s[i].response # 0 => ds[s[i].response] = cs[s[i].response]
    BY <1>1, <1>6 DEF AllOwned
  <2> QED
    BY <2>1, <1>6 DEF InputCovered
<1> QED
  BY <1>1, <1>2, <1>3, <1>4, <1>5, <1>6, Zenon

LEMMA GrownByOne ==
  ASSUME NEW cs \in Seq(Chain), NEW x \in Chain
  PROVE  /\ Grown(cs, Append(cs, x)) /\ Append(cs, x) \in Seq(Chain)
         /\ Len(cs) + 1 \in DOMAIN Append(cs, x) /\ Append(cs, x)[Len(cs) + 1] = x
         /\ Len(cs) + 1 # 0
<1>1. /\ Len(cs) \in Nat /\ DOMAIN cs = 1 .. Len(cs)
      /\ Append(cs, x) \in Seq(Chain) /\ Len(Append(cs, x)) = Len(cs) + 1
      /\ \A i \in 1 .. Len(cs) : Append(cs, x)[i] = cs[i]
      /\ Append(cs, x)[Len(cs) + 1] = x
      /\ DOMAIN Append(cs, x) = 1 .. Len(cs) + 1
  BY AppendProperties, LenProperties
<1> QED
  BY <1>1 DEF Grown

-----------------------------------------------------------------------------
\* A message that is stored with no response, or with that of a chain that
\* holds its turn, run r, and the history of the turn.
LEMMA StoredIsCovered ==
  ASSUME NEW l \in Seq(Message), NEW m \in Message, NEW cs, NEW r \in 1 .. Len(l),
         LogOwned(l, cs), LogCovered(l, cs), Owned(cs, m.response, m.model),
         m.response # 0 =>
           \A k \in 1 .. Len(l) + 1 :
             k >= r - Limit => k \in cs[m.response].messages
  PROVE  LogOwned(Append(l, m), cs) /\ LogCovered(Append(l, m), cs)
<1> DEFINE e == Append(l, m)
<1>1. /\ Len(l) \in Nat /\ DOMAIN l = 1 .. Len(l)
      /\ DOMAIN e = 1 .. Len(l) + 1
      /\ \A i \in 1 .. Len(l) : e[i] = l[i]
      /\ e[Len(l) + 1] = m
  BY AppendProperties, LenProperties
<1> HIDE DEF e
<1>2. ASSUME NEW i \in 1 .. Len(l) + 1
      PROVE  /\ Owned(cs, e[i].response, e[i].model)
             /\ e[i].response # 0 =>
                  \E q \in 1 .. i : \A k \in 1 .. i :
                    k >= q - Limit => k \in cs[e[i].response].messages
  <2>1. CASE i = Len(l) + 1
    <3>1. r \in 1 .. i
      BY <1>1, <2>1
    <3> QED
      BY <1>1, <2>1, <3>1
  <2>2. CASE i \in 1 .. Len(l)
    <3>1. e[i] = l[i] /\ i \in DOMAIN l
      BY <1>1, <2>2
    <3> QED
      BY <3>1, Zenon DEF LogOwned, LogCovered
  <2> QED
    BY <1>1, <2>1, <2>2
<1>3. LogOwned(e, cs)
  BY <1>1, <1>2 DEF LogOwned
<1>4. LogCovered(e, cs)
  BY <1>1, <1>2, Zenon DEF LogCovered
<1> QED
  BY <1>3, <1>4 DEF e

\* The same of the messages of a call.
LEMMA AnswerIsCovered ==
  ASSUME NEW in \in Seq(Item), NEW x \in Item, NEW cs, NEW m, NEW r, NEW t,
         NEW rep, NEW n \in Nat, r \in 1 .. n,
         AllOwned(in, cs, m), InputCovered(in, cs, r, t),
         Shows(in, rep, r, n), ShowsOnly(in, rep, r, n),
         ~ x.reminder, x.seq = n + 1, Owned(cs, x.response, m),
         x.response # 0 =>
           /\ r \in cs[x.response].reminders
           /\ \A i \in DOMAIN rep : rep[i].seq \in cs[x.response].messages
           /\ \A k \in r .. n + 1 : k \in cs[x.response].messages
  PROVE  LET e == Append(in, x)
         IN /\ e \in Seq(Item) /\ AllOwned(e, cs, m) /\ InputCovered(e, cs, r, t)
            /\ Shows(e, rep, r, n + 1) /\ ShowsOnly(e, rep, r, n + 1)
<1> DEFINE e == Append(in, x)
<1>1. /\ Len(in) \in Nat /\ DOMAIN in = 1 .. Len(in)
      /\ DOMAIN e = 1 .. Len(in) + 1
      /\ \A i \in 1 .. Len(in) : e[i] = in[i]
      /\ e[Len(in) + 1] = x
      /\ e \in Seq(Item)
  BY AppendProperties, LenProperties
<1> HIDE DEF e
<1>2. AllOwned(e, cs, m)
  <2> SUFFICES ASSUME NEW i \in 1 .. Len(in) + 1 PROVE Owned(cs, e[i].response, m)
    BY <1>1 DEF AllOwned
  <2>1. CASE i = Len(in) + 1
    BY <1>1, <2>1
  <2>2. CASE i \in 1 .. Len(in)
    BY <1>1, <2>2 DEF AllOwned
  <2> QED
    BY <1>1, <2>1, <2>2
<1>3. \A i \in 1 .. Len(in) : ~ in[i].reminder =>
        in[i].seq \in r .. n \/ \E k \in DOMAIN rep : rep[k].seq = in[i].seq
  BY <1>1 DEF ShowsOnly
<1>4. InputCovered(e, cs, r, t)
  <2> SUFFICES ASSUME NEW c \in 1 .. Len(in) + 1, e[c].response # 0,
                      NEW j \in 1 .. c
               PROVE  IF e[j].reminder
                      THEN r \in cs[e[c].response].reminders \/ e[c].expires < t
                      ELSE e[j].seq \in cs[e[c].response].messages
    BY <1>1 DEF InputCovered
  <2>1. CASE c = Len(in) + 1
    <3>1. e[c] = x
      BY <1>1, <2>1
    <3>2. CASE j = Len(in) + 1
      <4>1. n + 1 \in r .. n + 1
        OBVIOUS
      <4> QED
        BY <1>1, <3>1, <3>2, <4>1
    <3>3. CASE j \in 1 .. Len(in)
      <4>1. e[j] = in[j]
        BY <1>1, <3>3
      <4>2. ASSUME ~ in[j].reminder PROVE in[j].seq \in cs[x.response].messages
        <5>1. CASE in[j].seq \in r .. n
          <6>1. in[j].seq \in r .. n + 1
            BY <5>1
          <6> QED
            BY <3>1, <6>1
        <5>2. CASE \E k \in DOMAIN rep : rep[k].seq = in[j].seq
          BY <3>1, <5>2
        <5> QED
          BY <1>3, <3>3, <4>2, <5>1, <5>2
      <4> QED
        BY <3>1, <4>1, <4>2
    <3> QED
      BY <1>1, <2>1, <3>2, <3>3
  <2>2. CASE c \in 1 .. Len(in)
    <3>1. j \in 1 .. Len(in) /\ e[c] = in[c] /\ e[j] = in[j]
      BY <1>1, <2>2
    <3> QED
      BY <1>1, <2>2, <3>1 DEF InputCovered
  <2> QED
    BY <1>1, <2>1, <2>2
<1>5. \A k : HasSeq(in, k) => HasSeq(e, k)
  BY <1>1 DEF HasSeq
<1>6. HasSeq(e, n + 1)
  <2>1. Len(in) + 1 \in DOMAIN e
    BY <1>1
  <2> QED
    BY <1>1, <2>1 DEF HasSeq
<1>7. Shows(e, rep, r, n + 1)
  <2>1. \A k \in r .. n + 1 : k \in r .. n \/ k = n + 1
    OBVIOUS
  <2>2. \E i \in DOMAIN e : e[i].reminder
    BY <1>1 DEF Shows
  <2> QED
    BY <1>5, <1>6, <2>1, <2>2 DEF Shows
<1>8. ShowsOnly(e, rep, r, n + 1)
  <2> SUFFICES ASSUME NEW i \in 1 .. Len(in) + 1, ~ e[i].reminder
               PROVE  e[i].seq \in r .. n + 1 \/ \E k \in DOMAIN rep : rep[k].seq = e[i].seq
    BY <1>1 DEF ShowsOnly
  <2>1. CASE i = Len(in) + 1
    BY <1>1, <2>1
  <2>2. CASE i \in 1 .. Len(in)
    <3>1. e[i] = in[i]
      BY <1>1, <2>2
    <3>2. in[i].seq \in r .. n => in[i].seq \in r .. n + 1
      OBVIOUS
    <3> QED
      BY <1>3, <2>2, <3>1, <3>2
  <2> QED
    BY <1>1, <2>1, <2>2
<1> QED
  BY <1>1, <1>2, <1>4, <1>7, <1>8 DEF e

-----------------------------------------------------------------------------
\* The messages of the history of run r are the Limit before it.
Reads(h, r) ==
  \A k \in 1 .. r - 1 : k >= r - Limit => \E i \in DOMAIN h : h[i].seq = k

LEMMA HistoryRead ==
  ASSUME IsLog(log), Placed(log), LogOwned(log, chains), LogCovered(log, chains),
         NEW m \in Model
  PROVE  LET h == SanitizeHistoryForModel(ListMessages(Limit), m)
         IN /\ h \in Seq(Message) /\ AllOwned(h, chains, m) /\ Covered(h, chains)
            /\ Reads(h, Len(log) + 1)
<1> DEFINE w == ListMessages(Limit)
           f == First(log, Limit)
           h == SanitizeHistoryForModel(w, m)
<1>1. log \in Seq(Message) /\ Len(log) \in Nat /\ DOMAIN log = 1 .. Len(log)
  BY LogType
<1>2. /\ w \in Seq(Message) /\ f \in 1 .. Len(log) + 1
      /\ Len(w) = Len(log) - f + 1
      /\ \A i \in 1 .. Len(w) : f + i - 1 \in 1 .. Len(log) /\ w[i] = log[f + i - 1]
  BY <1>1, ListIsWindow, Sizes
<1>3. f = IF Len(log) > Limit THEN Len(log) - Limit + 1 ELSE 1
  BY DEF First
<1> HIDE DEF w, f
<1>4. /\ h \in Seq(Message) /\ Len(h) = Len(w)
      /\ \A i \in 1 .. Len(w) :
           /\ h[i].seq = w[i].seq
           /\ h[i].response = 0 \/ (h[i] = w[i] /\ w[i].model = m)
  BY <1>2, SanitizedMessages
<1> HIDE DEF h
<1>5. DOMAIN h = 1 .. Len(w) /\ Len(w) \in Nat
  BY <1>2, <1>4, LenProperties
<1>6. \A i \in 1 .. Len(w) : h[i].seq = f + i - 1
  BY <1>1, <1>2, <1>4 DEF Placed
<1>7. AllOwned(h, chains, m)
  <2> SUFFICES ASSUME NEW i \in 1 .. Len(w), h[i].response # 0
               PROVE  Owned(chains, h[i].response, m)
    BY <1>5 DEF AllOwned, Owned
  <2>1. h[i] = log[f + i - 1] /\ f + i - 1 \in DOMAIN log /\ log[f + i - 1].model = m
    BY <1>1, <1>2, <1>4
  <2> QED
    BY <2>1 DEF LogOwned
<1>8. Covered(h, chains)
  <2> SUFFICES ASSUME NEW c \in 1 .. Len(w), h[c].response # 0, NEW j \in 1 .. c
               PROVE  h[j].seq \in chains[h[c].response].messages
    BY <1>5 DEF Covered
  <2>1. h[c] = log[f + c - 1] /\ f + c - 1 \in DOMAIN log
    BY <1>1, <1>2, <1>4
  <2>2. PICK r \in 1 .. f + c - 1 : \A k \in 1 .. f + c - 1 :
          k >= r - Limit => k \in chains[log[f + c - 1].response].messages
    BY <2>1 DEF LogCovered
  <2>3. j \in 1 .. Len(w) /\ h[j].seq = f + j - 1
    BY <1>5, <1>6
  <2>4. f + j - 1 \in 1 .. f + c - 1 /\ f + j - 1 >= r - Limit
    <3>1. /\ f \in Nat /\ j \in Nat /\ c \in Nat /\ r \in Nat /\ Limit \in Nat
          /\ 1 <= f /\ 1 <= j /\ j <= c /\ 1 <= r /\ r <= f + c - 1 /\ f + c - 1 <= Len(log)
      BY <1>1, <1>2, <1>5, Sizes
    <3> QED
      BY <1>1, <1>3, <3>1
  <2> QED
    BY <2>1, <2>2, <2>3, <2>4
<1>9. Reads(h, Len(log) + 1)
  <2> SUFFICES ASSUME NEW k \in 1 .. (Len(log) + 1) - 1,
                      k >= (Len(log) + 1) - Limit
               PROVE  \E i \in DOMAIN h : h[i].seq = k
    BY DEF Reads
  <2>1. k - f + 1 \in 1 .. Len(w) /\ f + (k - f + 1) - 1 = k
    <3>1. f \in Nat /\ k \in Nat /\ k <= Len(log) /\ f <= k /\ Len(w) = Len(log) - f + 1
      BY <1>1, <1>2, <1>3, Sizes
    <3> QED
      BY <1>1, <3>1
  <2>2. h[k - f + 1].seq = k
    BY <1>6, <2>1
  <2> QED
    BY <1>5, <2>1, <2>2
<1> QED
  BY <1>4, <1>7, <1>8, <1>9 DEF h, w

\* What an agent holds of a history.
LEMMA ItemsOf ==
  ASSUME NEW h \in Seq(Message),
         model \notin Stateless => AllOwned(h, chains, model) /\ Covered(h, chains)
  PROVE  /\ Items(h) \in Seq(Item) /\ Len(Items(h)) = Len(h)
         /\ \A i \in 1 .. Len(h) :
              /\ Items(h)[i].seq = h[i].seq /\ ~ Items(h)[i].reminder
              /\ Items(h)[i].response # 0 =>
                   /\ model \notin Stateless /\ h[i].role = "assistant"
                   /\ Items(h)[i].response = h[i].response
                   /\ Items(h)[i].expires = h[i].expires
         /\ AllOwned(Items(h), chains, model) /\ Covered(Items(h), chains)
<1> DEFINE e == Items(h)
<1>1. Len(h) \in Nat /\ DOMAIN h = 1 .. Len(h) /\ \A i \in 1 .. Len(h) : h[i] \in Message
  BY LenProperties, ElementOfSeq
<1>2. DOMAIN e = 1 .. Len(h) /\ \A i \in 1 .. Len(h) : e[i] = ItemOf(h[i])
  BY <1>1 DEF Items
<1>3. ASSUME NEW x \in Message
      PROVE  /\ ItemOf(x) \in Item /\ ItemOf(x).seq = x.seq /\ ~ ItemOf(x).reminder
             /\ ItemOf(x).response # 0 =>
                   /\ model \notin Stateless /\ x.role = "assistant"
                   /\ ItemOf(x).response = x.response
                   /\ ItemOf(x).expires = x.expires
  BY DEF ItemOf, Item, Message
<1>4. e = [i \in 1 .. Len(h) |-> ItemOf(h[i])]
  BY <1>1 DEF Items
<1>5. e \in Seq(Item)
  <2>1. \A i \in 1 .. Len(h) : ItemOf(h[i]) \in Item
    BY <1>1, <1>3
  <2>2. e \in [1 .. Len(h) -> Item]
    BY <1>4, <2>1
  <2> QED
    BY <1>1, <2>2, SeqDef
<1> HIDE DEF e
<1>6. Len(e) = Len(h)
  BY <1>1, <1>2, <1>5, LenProperties
<1>7. \A i \in 1 .. Len(h) :
        /\ e[i].seq = h[i].seq /\ ~ e[i].reminder
        /\ e[i].response # 0 =>
             /\ model \notin Stateless /\ h[i].role = "assistant"
             /\ e[i].response = h[i].response /\ e[i].expires = h[i].expires
  BY <1>1, <1>2, <1>3
<1>8. AllOwned(e, chains, model)
  <2> SUFFICES ASSUME NEW i \in 1 .. Len(h), e[i].response # 0
               PROVE  Owned(chains, e[i].response, model)
    BY <1>2 DEF AllOwned, Owned
  <2> QED
    BY <1>1, <1>7 DEF AllOwned
<1>9. Covered(e, chains)
  <2> SUFFICES ASSUME NEW c \in 1 .. Len(h), e[c].response # 0, NEW j \in 1 .. c
               PROVE  e[j].seq \in chains[e[c].response].messages
    BY <1>2 DEF Covered
  <2>1. j \in 1 .. Len(h) /\ e[j].seq = h[j].seq /\ e[c].response = h[c].response
    BY <1>1, <1>7
  <2>2. Covered(h, chains)
    BY <1>7
  <2> QED
    BY <1>1, <2>1, <2>2 DEF Covered
<1> QED
  BY <1>5, <1>6, <1>7, <1>8, <1>9 DEF e

-----------------------------------------------------------------------------
\* The messages of a call: the history with the reminder at place p, and
\* the request behind.
IsAssembled(in, h, q, p) ==
  /\ in \in Seq(Item) /\ Len(in) = Len(h) + 2 /\ p \in 1 .. Len(h) + 1
  /\ in[p] = Reminder /\ in[Len(h) + 2] = q
  /\ \A i \in 1 .. p - 1 : in[i] = h[i]
  /\ \A i \in p .. Len(h) : in[i + 1] = h[i]

LEMMA ReminderType ==
  /\ Reminder \in Item /\ Reminder.response = 0 /\ Reminder.reminder
BY DEF Reminder, Item

LEMMA ReminderLast ==
  ASSUME NEW h \in Seq(Item), NEW q \in Item
  PROVE  IsAssembled(h \o <<Reminder, q>>, h, q, Len(h) + 1)
<1> DEFINE two == <<Reminder, q>>
           in == h \o two
<1>1. two \in Seq(Item) /\ Len(two) = 2 /\ two[1] = Reminder /\ two[2] = q
  BY ReminderType
<1> HIDE DEF two
<1>2. /\ in \in Seq(Item) /\ Len(in) = Len(h) + 2 /\ Len(h) \in Nat
      /\ \A i \in 1 .. Len(h) + 2 :
           in[i] = IF i <= Len(h) THEN h[i] ELSE two[i - Len(h)]
  <2>1. /\ in \in Seq(Item) /\ Len(in) = Len(h) + Len(two)
        /\ \A i \in 1 .. Len(h) + Len(two) :
             in[i] = IF i <= Len(h) THEN h[i] ELSE two[i - Len(h)]
    BY <1>1, ConcatProperties
  <2> QED
    BY <1>1, <2>1, LenProperties
<1> HIDE DEF in
<1>3. in[Len(h) + 1] = Reminder /\ in[Len(h) + 2] = q
  BY <1>1, <1>2
<1>4. IsAssembled(in, h, q, Len(h) + 1)
  BY <1>2, <1>3 DEF IsAssembled
<1> QED
  BY <1>4 DEF in, two

LEMMA ReminderFirst ==
  ASSUME NEW h \in Seq(Item), NEW q \in Item
  PROVE  IsAssembled(<<Reminder>> \o h \o <<q>>, h, q, 1)
<1> DEFINE one == <<Reminder>>
           last == <<q>>
           in == one \o h \o last
<1>1. /\ one \in Seq(Item) /\ Len(one) = 1 /\ one[1] = Reminder
      /\ last \in Seq(Item) /\ Len(last) = 1 /\ last[1] = q
  BY ReminderType
<1> HIDE DEF one, last
<1>2. /\ one \o h \in Seq(Item) /\ Len(one \o h) = Len(h) + 1 /\ Len(h) \in Nat
      /\ \A i \in 1 .. Len(h) + 1 :
           (one \o h)[i] = IF i <= 1 THEN one[i] ELSE h[i - 1]
  <2>1. /\ one \o h \in Seq(Item) /\ Len(one \o h) = Len(one) + Len(h)
        /\ \A i \in 1 .. Len(one) + Len(h) :
             (one \o h)[i] = IF i <= Len(one) THEN one[i] ELSE h[i - Len(one)]
    BY <1>1, ConcatProperties
  <2>2. Len(h) \in Nat /\ Len(one) + Len(h) = Len(h) + 1
    BY <1>1, LenProperties
  <2> QED
    BY <1>1, <2>1, <2>2
<1>3. /\ in \in Seq(Item) /\ Len(in) = Len(h) + 2
      /\ \A i \in 1 .. Len(h) + 2 :
           in[i] = IF i <= Len(h) + 1 THEN (one \o h)[i] ELSE last[i - (Len(h) + 1)]
  <2> DEFINE front == one \o h
  <2>1. front \in Seq(Item)
    BY <1>2
  <2> HIDE DEF front
  <2>2. /\ front \o last \in Seq(Item) /\ Len(front \o last) = Len(front) + Len(last)
        /\ \A i \in 1 .. Len(front) + Len(last) :
             (front \o last)[i] = IF i <= Len(front) THEN front[i] ELSE last[i - Len(front)]
    BY <1>1, <2>1, ConcatProperties
  <2>3. Len(front) = Len(h) + 1 /\ Len(front) + Len(last) = Len(h) + 2
    BY <1>1, <1>2 DEF front
  <2>4. in = front \o last
    BY DEF front
  <2> QED
    BY <2>2, <2>3, <2>4 DEF front
<1> HIDE DEF in
<1>4. in[1] = Reminder /\ in[Len(h) + 2] = q
  BY <1>1, <1>2, <1>3
<1>5. \A i \in 1 .. Len(h) : in[i + 1] = h[i]
  BY <1>2, <1>3
<1>6. IsAssembled(in, h, q, 1)
  BY <1>2, <1>3, <1>4, <1>5 DEF IsAssembled
<1> QED
  BY <1>6 DEF in, one, last

\* Items h of the replayed messages, none before the reminder at p that
\* names a chain alive at t.
Replays(h, replayed) ==
  /\ DOMAIN replayed = 1 .. Len(h)
  /\ \A i \in 1 .. Len(h) : h[i].seq = replayed[i].seq /\ ~ h[i].reminder

NoneAlive(h, p, t) ==
  \A i \in 1 .. Len(h) : p <= Len(h) /\ h[i].response # 0 => h[i].expires < t

IsInput(in, cs, m, replayed, r, n, t) ==
  /\ AllOwned(in, cs, m) /\ InputCovered(in, cs, r, t)
  /\ Shows(in, replayed, r, n) /\ ShowsOnly(in, replayed, r, n)

\* It shows the model its history and its request; what comes before a
\* message with a chain is in the chain, and the reminder does unless the
\* chain has expired.
LEMMA AssembledShows ==
  ASSUME NEW in, NEW h \in Seq(Item), NEW q \in Item, NEW p,
         IsAssembled(in, h, q, p), ~ q.reminder, q.response = 0,
         NEW cs, NEW m, NEW rep, NEW t,
         AllOwned(h, cs, m), Covered(h, cs), Replays(h, rep), NoneAlive(h, p, t)
  PROVE  IsInput(in, cs, m, rep, q.seq, q.seq, t)
<1>1. /\ Len(h) \in Nat /\ p \in 1 .. Len(h) + 1
      /\ in \in Seq(Item) /\ Len(in) = Len(h) + 2 /\ DOMAIN in = 1 .. Len(h) + 2
      /\ in[p] = Reminder /\ in[Len(h) + 2] = q
      /\ \A i \in 1 .. p - 1 : in[i] = h[i]
      /\ \A i \in p .. Len(h) : in[i + 1] = h[i]
      /\ DOMAIN h = 1 .. Len(h) /\ q.seq \in Nat
  BY LenProperties DEF IsAssembled, Item
<1>10. /\ DOMAIN rep = 1 .. Len(h)
       /\ \A i \in 1 .. Len(h) : h[i].seq = rep[i].seq /\ ~ h[i].reminder
       /\ \A i \in 1 .. Len(h) :
            p <= Len(h) /\ h[i].response # 0 => h[i].expires < t
  BY DEF Replays, NoneAlive
<1> DEFINE At(i) == IF i < p THEN i ELSE i - 1
<1>2. ASSUME NEW i \in 1 .. Len(h) + 2, i # p, i # Len(h) + 2
      PROVE  At(i) \in 1 .. Len(h) /\ in[i] = h[At(i)]
  <2>1. CASE i < p
    BY <1>1, <2>1
  <2>2. CASE i > p
    <3>1. i - 1 \in p .. Len(h) /\ (i - 1) + 1 = i
      BY <1>1, <1>2, <2>2
    <3> QED
      BY <1>1, <2>2, <3>1
  <2> QED
    BY <1>1, <1>2, <2>1, <2>2
<1>3. Reminder.reminder /\ Reminder.response = 0
  BY ReminderType
<1>4. AllOwned(in, cs, m)
  <2> SUFFICES ASSUME NEW i \in 1 .. Len(h) + 2 PROVE Owned(cs, in[i].response, m)
    BY <1>1 DEF AllOwned
  <2>1. CASE i = p \/ i = Len(h) + 2
    BY <1>1, <1>3, <2>1 DEF Owned
  <2>2. CASE i # p /\ i # Len(h) + 2
    <3>1. At(i) \in DOMAIN h /\ in[i] = h[At(i)]
      BY <1>1, <1>2, <2>2
    <3> QED
      BY <3>1 DEF AllOwned
  <2> QED
    BY <2>1, <2>2
<1>5. InputCovered(in, cs, q.seq, t)
  <2> SUFFICES ASSUME NEW c \in 1 .. Len(h) + 2, in[c].response # 0, NEW j \in 1 .. c
               PROVE  IF in[j].reminder
                      THEN \/ q.seq \in cs[in[c].response].reminders
                           \/ in[c].expires < t
                      ELSE in[j].seq \in cs[in[c].response].messages
    BY <1>1 DEF InputCovered
  <2>1. c # p /\ c # Len(h) + 2
    BY <1>1, <1>3
  <2>2. At(c) \in 1 .. Len(h) /\ in[c] = h[At(c)]
    BY <1>2, <2>1
  <2>3. CASE j = p
    <3>1. p <= Len(h)
      BY <1>1, <2>1, <2>3
    <3> QED
      BY <1>1, <1>3, <1>10, <2>2, <2>3, <3>1
  <2>4. CASE j # p
    <3>1. j \in 1 .. Len(h) + 2 /\ j # Len(h) + 2
      BY <1>1, <2>1
    <3>2. At(j) \in 1 .. Len(h) /\ in[j] = h[At(j)]
      BY <1>2, <2>4, <3>1
    <3>3. At(j) <= At(c)
      BY <1>1
    <3>4. At(j) \in 1 .. At(c)
      BY <2>2, <3>2, <3>3
    <3> HIDE DEF At
    <3>5. h[At(j)].seq \in cs[h[At(c)].response].messages
      BY <1>1, <2>2, <3>4 DEF Covered
    <3> QED
      BY <1>10, <2>2, <3>2, <3>5
  <2> QED
    BY <2>3, <2>4
<1>6. ASSUME NEW i \in 1 .. Len(h) PROVE HasSeq(in, rep[i].seq)
  <2>1. CASE i < p
    <3>1. i \in DOMAIN in /\ in[i] = h[i]
      BY <1>1, <2>1
    <3> QED
      BY <1>10, <3>1 DEF HasSeq
  <2>2. CASE i >= p
    <3>1. i + 1 \in DOMAIN in /\ in[i + 1] = h[i]
      BY <1>1, <2>2
    <3> QED
      BY <1>10, <3>1 DEF HasSeq
  <2> QED
    BY <1>1, <2>1, <2>2
<1>7. HasSeq(in, q.seq)
  <2>1. Len(h) + 2 \in DOMAIN in
    BY <1>1
  <2> QED
    BY <1>1, <2>1 DEF HasSeq
<1>8. Shows(in, rep, q.seq, q.seq)
  <2>1. \A k \in q.seq .. q.seq : k = q.seq
    BY <1>1
  <2>2. p \in DOMAIN in
    BY <1>1
  <2> QED
    BY <1>1, <1>3, <1>6, <1>7, <1>10, <2>1, <2>2 DEF Shows
<1>9. ShowsOnly(in, rep, q.seq, q.seq)
  <2> SUFFICES ASSUME NEW i \in 1 .. Len(h) + 2, ~ in[i].reminder
               PROVE  \/ in[i].seq \in q.seq .. q.seq
                      \/ \E k \in DOMAIN rep : rep[k].seq = in[i].seq
    BY <1>1 DEF ShowsOnly
  <2>1. CASE i = Len(h) + 2
    BY <1>1, <2>1
  <2>2. CASE i # Len(h) + 2
    <3>1. At(i) \in 1 .. Len(h) /\ in[i] = h[At(i)]
      BY <1>1, <1>2, <1>3, <2>2
    <3> HIDE DEF At
    <3> QED
      BY <1>10, <3>1
  <2> QED
    BY <2>1, <2>2
<1> QED
  BY <1>4, <1>5, <1>8, <1>9 DEF IsInput

-----------------------------------------------------------------------------
(***************************************************************************)
(* The inductive invariant                                                 *)
(***************************************************************************)
HasModel == phase # "idle" => model \in Model

LogIsOne ==
  IsLog(log) /\ Placed(log) /\ (phase = "tools" => Open(log, asked))

\* A reply of the log names a chain of its model that holds what it was
\* shown, ...
LogIsCovered == LogOwned(log, chains) /\ LogCovered(log, chains)

\* ... and the history of a turn only those of the turn's model.
HistoryIsCovered ==
  phase # "idle" =>
    /\ AllOwned(history, chains, model)
    /\ Covered(history, chains)
    /\ Reads(history, run)

RequestIsStored ==
  phase # "idle" =>
    /\ run \in DOMAIN log
    /\ log[run].response = 0
    /\ phase \in {"started", "rejected"} => run = Len(log)

\* So do the messages of a call, which are all that is to be seen.
InputIsCovered ==
  phase \in {"model", "called", "tools", "ended"} =>
    /\ AllOwned(input, chains, model)
    /\ InputCovered(input, chains, run, now)
    /\ Shows(input, Replayed, run, Len(log))
    /\ ShowsOnly(input, Replayed, run, Len(log))

IInv ==
  /\ TypeOK /\ HasModel /\ LogIsOne /\ LogIsCovered /\ HistoryIsCovered
  /\ RequestIsStored /\ InputIsCovered
  /\ ChainIsOwn /\ EverythingIsSeen

-----------------------------------------------------------------------------
LEMMA InitInv == Init => IInv
<1> SUFFICES ASSUME Init PROVE IInv
  OBVIOUS
<1> USE DEF Init
<1>1. TypeOK
  BY Sizes DEF TypeOK, Unseen
<1>2. IsLog(log) /\ Placed(log)
  BY DEF IsLog, Ordered, Shaped, AnswersOnce, Placed
<1>3. LogOwned(log, chains) /\ LogCovered(log, chains)
  BY DEF LogOwned, LogCovered
<1> QED
  BY <1>1, <1>2, <1>3 DEF IInv, HasModel, LogIsOne, LogIsCovered, HistoryIsCovered,
     RequestIsStored, InputIsCovered, ChainIsOwn, EverythingIsSeen

LEMMA StartTurnStep == ASSUME IInv, NEW m \in Model, StartTurn(m) PROVE IInv'
<1> USE DEF IInv
<1> DEFINE message == [seq |-> Len(log) + 1, role |-> "user", model |-> m,
                       calls |-> {}, answers |-> NoCall, blank |-> FALSE,
                       response |-> 0, expires |-> 0]
<1>1. /\ phase = "idle" /\ phase' = "started" /\ model' = m
      /\ history' = SanitizeHistoryForModel(ListMessages(Limit), m)
      /\ log' = Append(log, message) /\ run' = Len(log) + 1
      /\ UNCHANGED <<now, chains, input, asked, seen>>
  BY DEF StartTurn, Record
<1>2. /\ IsLog(log) /\ Placed(log) /\ LogOwned(log, chains) /\ LogCovered(log, chains)
      /\ log \in Seq(Message) /\ Len(log) \in Nat /\ DOMAIN log = 1 .. Len(log)
  BY LenProperties DEF TypeOK, LogIsOne, LogIsCovered
<1>3. /\ message \in Message /\ message.response = 0 /\ message.role = "user"
      /\ message.calls = {} /\ message.answers = NoCall /\ message.seq = Len(log) + 1
  BY <1>2 DEF Message
<1> HIDE DEF message
<1>4. /\ log' \in Seq(Message) /\ Len(log') = Len(log) + 1
      /\ DOMAIN log' = 1 .. Len(log) + 1 /\ log'[Len(log) + 1] = message
      /\ \A i \in 1 .. Len(log) : log'[i] = log[i]
  BY <1>1, <1>2, <1>3, AppendProperties, LenProperties
<1>5. IsLog(log') /\ Placed(log')
  <2>1. IsLog(Append(log, message)) /\ Placed(Append(log, message))
    BY <1>2, <1>3, StoredKeepsLog
  <2> QED
    BY <1>1, <2>1
<1>6. LogOwned(log', chains') /\ LogCovered(log', chains')
  <2>1. ASSUME NEW i \in 1 .. Len(log) + 1
        PROVE  \/ log'[i].response = 0
               \/ i \in DOMAIN log /\ log'[i] = log[i]
    BY <1>2, <1>3, <1>4
  <2>2. LogOwned(log', chains)
    BY <1>2, <1>4, <2>1 DEF LogOwned, Owned
  <2>3. LogCovered(log', chains)
    <3> SUFFICES ASSUME NEW i \in 1 .. Len(log) + 1, log'[i].response # 0
                 PROVE  \E r \in 1 .. i : \A k \in 1 .. i :
                          k >= r - Limit => k \in chains[log'[i].response].messages
      BY <1>4 DEF LogCovered
    <3>1. i \in DOMAIN log /\ log'[i] = log[i]
      BY <2>1
    <3> QED
      BY <1>2, <3>1 DEF LogCovered
  <2> QED
    BY <1>1, <2>2, <2>3
<1>7. /\ history' \in Seq(Message) /\ AllOwned(history', chains', model')
      /\ Covered(history', chains') /\ Reads(history', run')
  BY <1>1, <1>2, HistoryRead
<1>8. TypeOK'
  BY <1>1, <1>2, <1>4, <1>7 DEF TypeOK
<1>9. HasModel' /\ LogIsOne' /\ LogIsCovered'
  BY <1>1, <1>5, <1>6 DEF HasModel, LogIsOne, LogIsCovered
<1>10. HistoryIsCovered'
  BY <1>7 DEF HistoryIsCovered
<1>11. RequestIsStored'
  <2>1. Len(log) + 1 \in 1 .. Len(log) + 1
    BY <1>2
  <2> QED
    BY <1>1, <1>3, <1>4, <2>1 DEF RequestIsStored
<1>12. InputIsCovered' /\ ChainIsOwn' /\ EverythingIsSeen'
  BY <1>1 DEF InputIsCovered, ChainIsOwn, EverythingIsSeen
<1> QED
  BY <1>8, <1>9, <1>10, <1>11, <1>12

\* completeToolHistory makes messages of messages.
LEMMA ReplayedType ==
  ASSUME history \in Seq(Message)
  PROVE  Replayed \in Seq(Message)
<1> DEFINE s == Completing(history)
<1>1. s \in [0 .. Len(history) -> LoopState] /\ Len(history) \in 0 .. Len(history)
  BY CompletingStates, LenProperties
<1> HIDE DEF s
<1>2. Closed(s[Len(history)]) \in Seq(Message)
  BY <1>1, ClosedType
<1> QED
  BY <1>2 DEF Replayed, CompleteToolHistory, s

\* The history, the reminder and the request, in either order.
LEMMA AssembledInput ==
  ASSUME IInv, phase = "started"
  PROVE  /\ Assembled \in Seq(Item)
         /\ AllOwned(Assembled, chains, model)
         /\ InputCovered(Assembled, chains, run, now)
         /\ Shows(Assembled, Replayed, run, Len(log))
         /\ ShowsOnly(Assembled, Replayed, run, Len(log))
<1> USE DEF IInv
<1> DEFINE rep == Replayed
           h == Items(rep)
           q == ItemOf(log[run])
<1>1. /\ rep \in Seq(Message) /\ now \in Nat
      /\ model \notin Stateless => AllOwned(rep, chains, model) /\ Covered(rep, chains)
  <2>1. rep \in Seq(Message) /\ now \in Nat
    BY ReplayedType DEF TypeOK
  <2>2. model \notin Stateless => rep = history
    BY DEF Replayed
  <2> QED
    BY <2>1, <2>2 DEF HistoryIsCovered
<1>2. /\ run = Len(log) /\ log[run] \in Message /\ log[run].response = 0
      /\ log[run].seq = run
  BY ElementOfSeq, LenProperties DEF TypeOK, RequestIsStored, LogIsOne, Placed
<1>3. q \in Item /\ q.response = 0 /\ ~ q.reminder /\ q.seq = run
  BY <1>2 DEF ItemOf, Item, Message
<1> HIDE DEF rep, q
<1>4. /\ h \in Seq(Item) /\ Len(h) = Len(rep)
      /\ \A i \in 1 .. Len(rep) :
           /\ h[i].seq = rep[i].seq /\ ~ h[i].reminder
           /\ h[i].response # 0 =>
                /\ model \notin Stateless /\ rep[i].role = "assistant"
                /\ h[i].response = rep[i].response
                /\ h[i].expires = rep[i].expires
      /\ AllOwned(h, chains, model) /\ Covered(h, chains)
  BY <1>1, ItemsOf
<1>5. /\ DOMAIN rep = 1 .. Len(rep) /\ Len(rep) \in Nat
      /\ \A i \in 1 .. Len(rep) : rep[i].expires \in Nat
  <2>1. \A x \in Message : x.expires \in Nat
    BY DEF Message
  <2> QED
    BY <1>1, <2>1, LenProperties, ElementOfSeq
<1>6. \/ Assembled = h \o <<Reminder, q>>
      \/ /\ Assembled = <<Reminder>> \o h \o <<q>>
         /\ ~ HasActiveArkResponseCache(rep)
  BY DEF Assembled, rep, q
<1> HIDE DEF h
<1>9. Replays(h, rep)
  BY <1>4, <1>5 DEF Replays
<1>7. CASE Assembled = h \o <<Reminder, q>>
  <2>1. IsAssembled(Assembled, h, q, Len(h) + 1)
    BY <1>3, <1>4, <1>7, ReminderLast
  <2>2. NoneAlive(h, Len(h) + 1, now)
    BY <1>4, <1>5 DEF NoneAlive
  <2>3. IsInput(Assembled, chains, model, rep, q.seq, q.seq, now)
    BY <1>3, <1>4, <1>9, <2>1, <2>2, AssembledShows
  <2> QED
    BY <1>2, <1>3, <2>1, <2>3 DEF IsAssembled, IsInput, rep
<1>8. CASE /\ Assembled = <<Reminder>> \o h \o <<q>>
           /\ ~ HasActiveArkResponseCache(rep)
  <2>1. IsAssembled(Assembled, h, q, 1)
    BY <1>3, <1>4, <1>8, ReminderFirst
  <2>4. ASSUME NEW i \in 1 .. Len(h), h[i].response # 0 PROVE h[i].expires < now
    <3>1. i \in DOMAIN rep /\ rep[i].role = "assistant" /\ rep[i].response # 0
          /\ h[i].expires = rep[i].expires /\ rep[i].expires \in Nat
      BY <1>4, <1>5, <2>4
    <3>2. ~ (rep[i].expires >= now)
      BY <1>8, <3>1 DEF HasActiveArkResponseCache, Live
    <3> QED
      BY <1>1, <3>1, <3>2
  <2>2. NoneAlive(h, 1, now)
    BY <2>4 DEF NoneAlive
  <2>3. IsInput(Assembled, chains, model, rep, q.seq, q.seq, now)
    BY <1>3, <1>4, <1>9, <2>1, <2>2, AssembledShows
  <2> QED
    BY <1>2, <1>3, <2>1, <2>3 DEF IsAssembled, IsInput, rep
<1> QED
  BY <1>6, <1>7, <1>8

\* What is replayed depends on the turn's model and history only.
LEMMA SameReplayed == ASSUME UNCHANGED <<model, history>> PROVE Replayed' = Replayed
BY DEF Replayed

LEMMA AssembleStep == ASSUME IInv, Assemble PROVE IInv'
<1> USE DEF IInv
<1>1. /\ phase = "started" /\ phase' = "model" /\ input' = Assembled
      /\ UNCHANGED <<now, log, chains, model, run, history, asked, seen>>
  BY DEF Assemble
<1>2. /\ input' \in Seq(Item)
      /\ AllOwned(input', chains, model)
      /\ InputCovered(input', chains, run, now)
      /\ Shows(input', Replayed, run, Len(log))
      /\ ShowsOnly(input', Replayed, run, Len(log))
  BY <1>1, AssembledInput
<1>3. Replayed' = Replayed
  BY <1>1, SameReplayed
<1>4. InputIsCovered'
  BY <1>1, <1>2, <1>3 DEF InputIsCovered
<1>5. TypeOK'
  BY <1>1, <1>2 DEF TypeOK
<1>6. HasModel' /\ LogIsOne' /\ LogIsCovered' /\ HistoryIsCovered' /\ RequestIsStored'
  BY <1>1 DEF HasModel, LogIsOne, LogIsCovered, HistoryIsCovered, RequestIsStored
<1>7. ChainIsOwn' /\ EverythingIsSeen'
  BY <1>1 DEF ChainIsOwn, EverythingIsSeen
<1> QED
  BY <1>4, <1>5, <1>6, <1>7

\* What a call shows the model is what it sends and the chain it names.
LEMMA CallModelStep == ASSUME IInv, CallModel PROVE IInv'
<1> USE DEF IInv
<1>1. /\ phase = "model" /\ phase' = "called"
      /\ UNCHANGED <<now, log, chains, model, run, history, input, asked>>
  BY DEF CallModel
<1>2. PICK cut \in 0 .. Len(input) :
        LET chain == IF cut = 0 THEN 0 ELSE input[cut].response
            sent == {input[i] : i \in cut + 1 .. Len(input)}
        IN /\ IsCut(cut)
           /\ seen' =
                [chain |-> chain,
                 messages |-> {x.seq : x \in {y \in sent : ~ y.reminder}} \cup
                              IF chain = 0 THEN {} ELSE chains[chain].messages,
                 reminders |-> (IF \E x \in sent : x.reminder THEN {run} ELSE {})
                               \cup IF chain = 0 THEN {} ELSE chains[chain].reminders]
  BY DEF CallModel
<1> DEFINE chain == IF cut = 0 THEN 0 ELSE input[cut].response
           sent == {input[i] : i \in cut + 1 .. Len(input)}
<1>3. /\ input \in Seq(Item) /\ Len(input) \in Nat /\ DOMAIN input = 1 .. Len(input)
      /\ \A i \in 1 .. Len(input) : input[i] \in Item
  BY <1>1, LenProperties, ElementOfSeq DEF TypeOK
<1>4. /\ AllOwned(input, chains, model)
      /\ InputCovered(input, chains, run, now)
      /\ Shows(input, Replayed, run, Len(log))
      /\ now \in Nat
  BY <1>1 DEF InputIsCovered, TypeOK
<1>5. cut # 0 => /\ cut \in DOMAIN input /\ chain = input[cut].response /\ chain # 0
                 /\ input[cut].expires \in Nat /\ input[cut].expires >= now
  <2>1. cut # 0 => Live(input[cut])
    BY <1>2 DEF IsCut
  <2>2. cut # 0 => cut \in 1 .. Len(input) /\ input[cut] \in Item
    BY <1>3
  <2> QED
    BY <1>3, <2>1, <2>2 DEF Live, Item
<1>6. chain # 0 => chain \in DOMAIN chains /\ chains[chain].model = model
  BY <1>4, <1>5 DEF AllOwned, Owned
<1>7. chain \in Nat /\ (chain # 0 => /\ chains[chain].messages \subseteq Nat
                                     /\ chains[chain].reminders \subseteq Nat)
  <2>1. chain # 0 => chain \in Nat /\ chains[chain] \in Chain
    BY <1>6, ElementOfSeq, LenProperties DEF TypeOK
  <2> HIDE DEF chain
  <2> QED
    BY <2>1 DEF Chain
<1>8. \A x \in sent : x.seq \in Nat
  <2>1. \A x \in Item : x.seq \in Nat
    BY DEF Item
  <2> QED
    BY <1>3, <2>1
<1>9. /\ \A i \in cut + 1 .. Len(input) : input[i] \in sent
      /\ \A i \in 1 .. Len(input) : i \in cut + 1 .. Len(input) \/ (i \in 1 .. cut /\ cut # 0)
  BY <1>3
<1>10. run \in Nat
  BY DEF TypeOK
<1> HIDE DEF chain, sent
<1>11. /\ seen' = [chain |-> chain, messages |-> seen'.messages, reminders |-> seen'.reminders]
       /\ seen'.chain = chain
       /\ seen'.messages = {x.seq : x \in {y \in sent : ~ y.reminder}} \cup
                              IF chain = 0 THEN {} ELSE chains[chain].messages
       /\ seen'.reminders = (IF \E x \in sent : x.reminder THEN {run} ELSE {})
                               \cup IF chain = 0 THEN {} ELSE chains[chain].reminders
  BY <1>2 DEF chain, sent
<1>12. seen'.messages \subseteq Nat /\ seen'.reminders \subseteq Nat
  BY <1>7, <1>8, <1>10, <1>11
<1>13. TypeOK'
  <2>1. seen' \in [chain : Nat, messages : SUBSET Nat, reminders : SUBSET Nat]
    BY <1>7, <1>11, <1>12
  <2> QED
    BY <1>1, <2>1 DEF TypeOK
<1>14. ChainIsOwn'
  BY <1>1, <1>6, <1>11 DEF ChainIsOwn
<1>15. ASSUME NEW k, HasSeq(input, k) PROVE k \in seen'.messages
  <2>1. PICK i \in 1 .. Len(input) : input[i].seq = k /\ ~ input[i].reminder
    BY <1>3, <1>15 DEF HasSeq
  <2>2. CASE i \in cut + 1 .. Len(input)
    BY <1>9, <1>11, <2>1, <2>2
  <2>3. CASE i \in 1 .. cut /\ cut # 0
    <3>1. k \in chains[chain].messages
      BY <1>4, <1>5, <2>1, <2>3 DEF InputCovered
    <3> QED
      BY <1>5, <1>11, <2>3, <3>1
  <2> QED
    BY <1>9, <2>2, <2>3
<1>16. run \in seen'.reminders
  <2>1. PICK i \in 1 .. Len(input) : input[i].reminder
    BY <1>3, <1>4 DEF Shows
  <2>2. CASE i \in cut + 1 .. Len(input)
    BY <1>9, <1>11, <2>1, <2>2
  <2>3. CASE i \in 1 .. cut /\ cut # 0
    <3>1. run \in chains[chain].reminders \/ input[cut].expires < now
      BY <1>4, <1>5, <2>1, <2>3 DEF InputCovered
    <3>2. run \in chains[chain].reminders
      BY <1>4, <1>5, <2>3, <3>1
    <3> QED
      BY <1>5, <1>11, <2>3, <3>2
  <2> QED
    BY <1>9, <2>2, <2>3
<1>17. Replayed' = Replayed
  BY <1>1, SameReplayed
<1>18. EverythingIsSeen'
  <2>1. \A i \in DOMAIN Replayed : Replayed[i].seq \in seen'.messages
    BY <1>4, <1>15 DEF Shows
  <2>2. \A i \in run .. Len(log) : i \in seen'.messages
    BY <1>4, <1>15 DEF Shows
  <2> QED
    BY <1>1, <1>16, <1>17, <2>1, <2>2 DEF EverythingIsSeen
<1>19. HasModel' /\ LogIsOne' /\ LogIsCovered' /\ HistoryIsCovered' /\ RequestIsStored'
  BY <1>1 DEF HasModel, LogIsOne, LogIsCovered, HistoryIsCovered, RequestIsStored
<1>20. InputIsCovered'
  BY <1>1, <1>17 DEF InputIsCovered
<1> QED
  BY <1>13, <1>14, <1>18, <1>19, <1>20

-----------------------------------------------------------------------------
\* What the reply and a tool's result have in common.
LEMMA RecordStep ==
  ASSUME IInv, phase \in {"called", "tools"},
         chains' \in Seq(Chain), Grown(chains, chains'),
         NEW role \in {"assistant", "tool"}, NEW calls \in SUBSET CallId,
         NEW answers \in CallId \cup {NoCall}, NEW blank \in BOOLEAN,
         NEW response \in Nat, NEW expires \in Nat,
         UNCHANGED <<now, model, run, history, seen>>,
         Record(role, calls, answers, blank, response, expires),
         input' = Append(input, [seq |-> Len(log) + 1, reminder |-> FALSE,
                                 response |-> response, expires |-> expires]),
         role # "assistant" => calls = {} /\ phase = "tools" /\ answers \in asked
                               /\ asked' = asked \ {answers},
         role # "tool" => answers = NoCall,
         phase' \in {"tools", "ended", "model"}, asked' \subseteq CallId,
         phase' = "tools" <=> asked' # {},
         Owned(chains', response, model),
         response # 0 =>
           /\ model \notin Stateless
           /\ run \in chains'[response].reminders
           /\ \A i \in DOMAIN Replayed : Replayed[i].seq \in chains'[response].messages
           /\ \A k \in run .. Len(log) + 1 : k \in chains'[response].messages
  PROVE  IInv'
<1> USE DEF IInv
<1> DEFINE message == [seq |-> Len(log) + 1, role |-> role, model |-> model,
                       calls |-> calls, answers |-> answers, blank |-> blank,
                       response |-> response, expires |-> expires]
           item == [seq |-> Len(log) + 1, reminder |-> FALSE,
                    response |-> response, expires |-> expires]
<1>1. log' = Append(log, message) /\ input' = Append(input, item)
  BY DEF Record
<1>2. /\ log \in Seq(Message) /\ Len(log) \in Nat /\ DOMAIN log = 1 .. Len(log)
      /\ IsLog(log) /\ Placed(log) /\ model \in Model
      /\ LogOwned(log, chains) /\ LogCovered(log, chains)
      /\ input \in Seq(Item)
  BY LenProperties DEF TypeOK, HasModel, LogIsOne, LogIsCovered
<1>3. /\ message \in Message /\ message.seq = Len(log) + 1 /\ message.role = role
      /\ message.calls = calls /\ message.answers = answers
      /\ message.response = response /\ message.model = model
      /\ item \in Item /\ item.seq = Len(log) + 1 /\ item.response = response
      /\ ~ item.reminder
  BY <1>2 DEF Message, Item
<1> HIDE DEF message, item
<1>4. /\ log' \in Seq(Message) /\ Len(log') = Len(log) + 1
      /\ DOMAIN log' = 1 .. Len(log) + 1
      /\ \A i \in 1 .. Len(log) : log'[i] = log[i]
  BY <1>1, <1>2, <1>3, AppendProperties, LenProperties
<1>5. /\ IsLog(log') /\ Placed(log') /\ (phase' = "tools" => Open(log', asked'))
  <2>1. role = "tool" =>
          \A k \in DOMAIN log : (\A j \in k .. Len(log) : log[j].role = "tool")
                                  => log[k].answers # answers
    BY DEF LogIsOne, Open
  <2>2. /\ IsLog(Append(log, message)) /\ Placed(Append(log, message))
        /\ \A cs : Open(log, cs) /\ message.role = "tool"
                     => Open(Append(log, message), cs \ {message.answers})
        /\ \A cs : message.role # "tool" => Open(Append(log, message), cs)
    BY <1>2, <1>3, <2>1, StoredKeepsLog
  <2>3. CASE role = "tool"
    <3>1. Open(log, asked) /\ asked' = asked \ {answers}
      BY <2>3 DEF LogIsOne
    <3> QED
      BY <1>1, <1>3, <2>2, <2>3, <3>1
  <2>4. CASE role = "assistant"
    BY <1>1, <1>3, <2>2, <2>4
  <2> QED
    BY <2>3, <2>4
<1>6. /\ run \in 1 .. Len(log) /\ run \in 1 .. Len(log) + 1 /\ log[run].response = 0
      /\ AllOwned(history, chains, model) /\ Covered(history, chains)
      /\ Reads(history, run)
      /\ AllOwned(input, chains, model) /\ InputCovered(input, chains, run, now)
      /\ Shows(input, Replayed, run, Len(log))
      /\ ShowsOnly(input, Replayed, run, Len(log))
  BY <1>2 DEF RequestIsStored, HistoryIsCovered, InputIsCovered
<1> DEFINE ds == chains'
<1>7. Grown(chains, ds) /\ Owned(ds, response, model)
  OBVIOUS
<1>8. ASSUME response # 0, NEW k \in 1 .. Len(log) + 1, k >= run - Limit
      PROVE  k \in ds[response].messages
  <2>1. CASE k \in run .. Len(log) + 1
    BY <1>8, <2>1
  <2>2. CASE k \in 1 .. run - 1
    <3>1. PICK i \in DOMAIN history : history[i].seq = k
      BY <1>6, <1>8, <2>2 DEF Reads
    <3>2. Replayed = history
      BY <1>8 DEF Replayed
    <3> QED
      BY <1>8, <3>1, <3>2
  <2> QED
    BY <1>2, <1>6, <2>1, <2>2
<1>9. response # 0 =>
        /\ run \in ds[response].reminders
        /\ \A i \in DOMAIN Replayed : Replayed[i].seq \in ds[response].messages
        /\ \A k \in run .. Len(log) + 1 : k \in ds[response].messages
  OBVIOUS
<1> HIDE DEF ds
<1>10. LogOwned(log', ds) /\ LogCovered(log', ds)
  <2>1. LogOwned(log, ds) /\ LogCovered(log, ds)
    BY <1>2, <1>7, StillOwned
  <2>2. Owned(ds, message.response, message.model)
    BY <1>3, <1>7
  <2>3. message.response # 0 =>
          \A k \in 1 .. Len(log) + 1 :
            k >= run - Limit => k \in ds[message.response].messages
    BY <1>3, <1>8
  <2> QED
    BY <1>1, <1>2, <1>3, <1>6, <2>1, <2>2, <2>3, StoredIsCovered
<1>11. AllOwned(history, ds, model) /\ Covered(history, ds)
  BY <1>6, <1>7, StillOwned
<1>12. /\ input' \in Seq(Item)
       /\ AllOwned(input', ds, model) /\ InputCovered(input', ds, run, now)
       /\ Shows(input', Replayed, run, Len(log) + 1)
       /\ ShowsOnly(input', Replayed, run, Len(log) + 1)
  <2>1. AllOwned(input, ds, model) /\ InputCovered(input, ds, run, now)
    BY <1>6, <1>7, StillOwned
  <2>2. Owned(ds, item.response, model)
    BY <1>3, <1>7
  <2>3. item.response # 0 =>
          /\ run \in ds[item.response].reminders
          /\ \A i \in DOMAIN Replayed : Replayed[i].seq \in ds[item.response].messages
          /\ \A k \in run .. Len(log) + 1 : k \in ds[item.response].messages
    BY <1>3, <1>9
  <2> DEFINE e == Append(input, item)
  <2>4. /\ e \in Seq(Item)
        /\ AllOwned(e, ds, model) /\ InputCovered(e, ds, run, now)
        /\ Shows(e, Replayed, run, Len(log) + 1)
        /\ ShowsOnly(e, Replayed, run, Len(log) + 1)
    BY <1>2, <1>3, <1>6, <2>1, <2>2, <2>3, AnswerIsCovered
  <2> QED
    BY <1>1, <2>4
<1>13. Replayed' = Replayed
  BY SameReplayed
<1>14. TypeOK'
  BY <1>4, <1>12 DEF TypeOK
<1>15. HasModel' /\ LogIsOne'
  BY <1>2, <1>5 DEF HasModel, LogIsOne
<1>16. LogIsCovered' /\ HistoryIsCovered'
  BY <1>6, <1>10, <1>11 DEF ds, LogIsCovered, HistoryIsCovered
<1>17. RequestIsStored'
  BY <1>4, <1>6 DEF RequestIsStored
<1>18. InputIsCovered'
  BY <1>4, <1>12, <1>13 DEF ds, InputIsCovered
<1>19. ChainIsOwn' /\ EverythingIsSeen'
  BY DEF ChainIsOwn, EverythingIsSeen
<1> QED
  BY <1>14, <1>15, <1>16, <1>17, <1>18, <1>19

LEMMA ModelRepliesStep ==
  ASSUME IInv, NEW calls \in SUBSET CallId, NEW blank \in BOOLEAN,
         NEW chained \in BOOLEAN, NEW ttl \in BOOLEAN,
         ModelReplies(calls, blank, chained, ttl)
  PROVE  IInv'
<1> USE DEF IInv
<1> DEFINE response == IF chained THEN Len(chains) + 1 ELSE 0
           expires == IF chained /\ ttl THEN now + TTL ELSE 0
           chain == [model |-> model,
                     messages |-> seen.messages \cup {Len(log) + 1},
                     reminders |-> seen.reminders]
<1>1. /\ phase = "called" /\ phase' \in {"ended", "tools"}
      /\ asked' = calls /\ (phase' = "tools" <=> asked' # {})
      /\ chained => model \notin Stateless
      /\ UNCHANGED <<now, model, run, history, seen>>
      /\ Record("assistant", calls, NoCall, blank, response, expires)
      /\ chains' = IF chained THEN Append(chains, chain) ELSE chains
      /\ input' = Append(input, [seq |-> Len(log) + 1, reminder |-> FALSE,
                                 response |-> response, expires |-> expires])
  BY DEF ModelReplies
<1>2. /\ chains \in Seq(Chain) /\ Len(chains) \in Nat /\ Len(log) \in Nat
      /\ now \in Nat /\ seen.messages \subseteq Nat /\ seen.reminders \subseteq Nat
      /\ model \in Model /\ run \in Nat
  BY <1>1, LenProperties DEF TypeOK, HasModel
<1>3. response \in Nat /\ expires \in Nat
  BY <1>2, Sizes
<1>4. CASE chained
  <2>1. /\ chain \in Chain /\ chain.model = model
        /\ chain.messages = seen.messages \cup {Len(log) + 1}
        /\ chain.reminders = seen.reminders
    BY <1>2 DEF Chain
  <2> HIDE DEF chain
  <2>2. chains' = Append(chains, chain) /\ response = Len(chains) + 1
    BY <1>1, <1>4
  <2>3. /\ Grown(chains, chains') /\ chains' \in Seq(Chain)
        /\ response \in DOMAIN chains' /\ chains'[response] = chain
        /\ response # 0
    BY <1>2, <2>1, <2>2, GrownByOne
  <2> HIDE DEF response, expires
  <2>4. Owned(chains', response, model)
    BY <2>1, <2>3 DEF Owned
  <2>5. /\ run \in chains'[response].reminders
        /\ \A i \in DOMAIN Replayed : Replayed[i].seq \in chains'[response].messages
        /\ \A k \in run .. Len(log) + 1 : k \in chains'[response].messages
    <3>1. \A k \in run .. Len(log) + 1 : k \in run .. Len(log) \/ k = Len(log) + 1
      BY <1>2
    <3> QED
      BY <1>1, <2>1, <2>3, <3>1 DEF EverythingIsSeen
  <2> QED
    BY <1>1, <1>3, <1>4, <2>3, <2>4, <2>5, RecordStep
<1>5. CASE ~ chained
  <2>1. chains' = chains /\ response = 0
    BY <1>1, <1>5
  <2>2. chains' \in Seq(Chain) /\ Grown(chains, chains') /\ Owned(chains', response, model)
    BY <1>2, <2>1 DEF Grown, Owned
  <2> HIDE DEF response, expires, chain
  <2> QED
    BY <1>1, <1>3, <2>1, <2>2, RecordStep
<1> QED
  BY <1>4, <1>5

LEMMA ToolResultStep ==
  ASSUME IInv, NEW c \in CallId, ToolResult(c) PROVE IInv'
<1> USE DEF IInv
<1>1. /\ phase = "tools" /\ phase' \in {"model", "tools"} /\ c \in asked
      /\ asked' = asked \ {c} /\ (phase' = "tools" <=> asked' # {})
      /\ UNCHANGED <<now, chains, model, run, history, seen>>
      /\ Record("tool", {}, c, FALSE, 0, 0)
      /\ input' = Append(input, [seq |-> Len(log) + 1, reminder |-> FALSE,
                                 response |-> 0, expires |-> 0])
  BY DEF ToolResult
<1>2. /\ chains' \in Seq(Chain) /\ Grown(chains, chains') /\ Owned(chains', 0, model)
      /\ asked' \subseteq CallId
  BY <1>1 DEF TypeOK, Owned, Grown
<1> QED
  BY <1>1, <1>2, RecordStep

\* Time passes: what has expired stays expired.
LEMMA TickStep == ASSUME IInv, Tick PROVE IInv'
<1> USE DEF IInv
<1>1. now \in Nat /\ now <= MaxTime /\ now' = now + 1 /\ UNCHANGED <<log, chains, turn>>
  BY DEF Tick, TypeOK
<1>2. UNCHANGED <<phase, model, run, history, input, asked, seen>>
  BY <1>1 DEF turn
<1>3. TypeOK'
  BY <1>1, <1>2, Sizes DEF TypeOK
<1>4. Replayed' = Replayed
  BY <1>2, SameReplayed
<1>5. InputIsCovered'
  <2> SUFFICES ASSUME InputCovered(input, chains, run, now)
               PROVE  InputCovered(input, chains, run, now + 1)
    BY <1>1, <1>2, <1>4 DEF InputIsCovered
  <2>1. \A c \in DOMAIN input : input[c].expires \in Nat
    <3>1. \A x \in Item : x.expires \in Nat
      BY DEF Item
    <3> QED
      BY <3>1, ElementOfSeq, LenProperties DEF TypeOK
  <2>2. \A c \in DOMAIN input : input[c].expires < now => input[c].expires < now + 1
    BY <1>1, <2>1
  <2> QED
    BY <2>2 DEF InputCovered
<1> QED
  BY <1>1, <1>2, <1>3, <1>4, <1>5 DEF HasModel, LogIsOne, LogIsCovered,
     HistoryIsCovered, RequestIsStored, ChainIsOwn, EverythingIsSeen

LEMMA RejectStep == ASSUME IInv, Reject PROVE IInv'
BY DEF Reject, IInv, TypeOK, HasModel, LogIsOne, LogIsCovered, HistoryIsCovered,
   RequestIsStored, InputIsCovered, ChainIsOwn, EverythingIsSeen

LEMMA EndTurnStep == ASSUME IInv, EndTurn PROVE IInv'
<1>1. TypeOK'
  BY DEF EndTurn, IInv, TypeOK, Unseen
<1> QED
  BY <1>1 DEF EndTurn, IInv, HasModel, LogIsOne, LogIsCovered, HistoryIsCovered,
     RequestIsStored, InputIsCovered, ChainIsOwn, EverythingIsSeen

LEMMA StutterStep == ASSUME IInv, UNCHANGED vars PROVE IInv'
<1>1. Replayed' = Replayed
  BY SameReplayed DEF vars, turn
<1> QED
  BY <1>1 DEF vars, turn, IInv, TypeOK, HasModel, LogIsOne, LogIsCovered,
     HistoryIsCovered, RequestIsStored, InputIsCovered, ChainIsOwn, EverythingIsSeen

LEMMA NextStep == IInv /\ [Next]_vars => IInv'
<1> SUFFICES ASSUME IInv, [Next]_vars PROVE IInv'
  OBVIOUS
<1>1. CASE \E m \in Model : StartTurn(m)
  BY <1>1, StartTurnStep
<1>2. CASE Assemble \/ Reject \/ CallModel
  BY <1>2, AssembleStep, RejectStep, CallModelStep
<1>3. CASE EndTurn \/ Tick \/ UNCHANGED vars
  BY <1>3, EndTurnStep, TickStep, StutterStep
<1>4. CASE \E calls \in SUBSET CallId, blank, chained, ttl \in BOOLEAN :
             ModelReplies(calls, blank, chained, ttl)
  BY <1>4, ModelRepliesStep
<1>5. CASE \E c \in CallId : ToolResult(c)
  BY <1>5, ToolResultStep
<1> QED
  BY <1>1, <1>2, <1>3, <1>4, <1>5 DEF Next

-----------------------------------------------------------------------------
\* The newest messages of a log are a log, of which completeToolHistory
\* keeps what it should.
LEMMA ListIsKept == IInv => OnlyBrokenChainsAreDropped
<1> SUFFICES ASSUME IInv PROVE OnlyBrokenChainsAreDropped
  OBVIOUS
<1> DEFINE h == ListMessages(Limit)
           kept == CompleteToolHistory(h)
           f == First(log, Limit)
<1>1. IsLog(log) /\ log \in Seq(Message)
  BY DEF IInv, LogIsOne, TypeOK
<1>6. /\ h \in Seq(Message) /\ f \in 1 .. Len(log) + 1 /\ Len(log) \in Nat
      /\ \A i \in 1 .. Len(h) : f + i - 1 \in 1 .. Len(log) /\ h[i] = log[f + i - 1]
  BY <1>1, ListIsWindow, Sizes
<1> HIDE DEF h, f
<1>2. /\ h \in Seq(Message) /\ f \in Nat \ {0}
      /\ \A i \in 1 .. Len(h) : f + i - 1 \in 1 .. Len(log) /\ h[i] = log[f + i - 1]
  BY <1>6
<1>3. IsLog(h)
  BY <1>1, <1>2, WindowIsLog
<1>4. /\ kept \in Seq(Message)
      /\ \A k \in DOMAIN h : IsKept(h, k) <=> \E x \in DOMAIN kept : kept[x] = h[k]
      /\ \A x, y \in DOMAIN kept : x < y => kept[x].seq < kept[y].seq
  BY <1>3, CompleteKeeps
<1> HIDE DEF kept
<1>5. ASSUME NEW k \in DOMAIN kept, k > 1 PROVE kept[k - 1].seq < kept[k].seq
  <2>1. k - 1 \in DOMAIN kept /\ k - 1 < k
    BY <1>4, <1>5, LenProperties
  <2> QED
    BY <1>4, <2>1
<1> QED
  BY <1>4, <1>5 DEF OnlyBrokenChainsAreDropped, h, kept

\* The log, the chains and the agent's messages are what they should be.
THEOREM TypeCorrect == Spec => []TypeOK
<1>1. IInv => TypeOK
  BY DEF IInv
<1> QED
  BY <1>1, InitInv, NextStep, PTL DEF Spec

\* Whatever models the turns of a session ask for, however the history is
\* cut and whenever chains expire, a model never goes on from the response
\* of another.
THEOREM ChainsAreOwn == Spec => []ChainIsOwn
<1>1. IInv => ChainIsOwn
  BY DEF IInv
<1> QED
  BY <1>1, InitInv, NextStep, PTL DEF Spec

\* What the Ark SDK cuts is in the chain that it names: a model sees all of
\* the history its turn replays, of the turn and its reminder, whatever has
\* been said in the session and whenever chains expire.
THEOREM EverythingIsShown == Spec => []EverythingIsSeen
<1>1. IInv => EverythingIsSeen
  BY DEF IInv
<1> QED
  BY <1>1, InitInv, NextStep, PTL DEF Spec

\* completeToolHistory drops the broken tool chains of every history a
\* session can have, wherever its limit cuts it, and nothing else.
THEOREM HistoriesAreComplete == Spec => []OnlyBrokenChainsAreDropped
BY ListIsKept, InitInv, NextStep, PTL DEF Spec

-----------------------------------------------------------------------------
(***************************************************************************)
(* The conversation                                                        *)
(***************************************************************************)

SpokenMessage ==
  [role : {"user", "assistant", "tool"}, calls : SUBSET (CallId \cup {NoCall})]

SpokenIn(l) == [i \in DOMAIN l |-> SpokenAs(l[i])]

LEMMA SpokenType ==
  ASSUME NEW l \in Seq(Message)
  PROVE  /\ SpokenIn(l) \in Seq(SpokenMessage)
         /\ Len(SpokenIn(l)) = Len(l) /\ Len(l) \in Nat
         /\ \A i \in 1 .. Len(l) : SpokenIn(l)[i] = SpokenAs(l[i])
<1>1. Len(l) \in Nat /\ DOMAIN l = 1 .. Len(l)
  BY LenProperties
<1>2. \A m \in Message : SpokenAs(m) \in SpokenMessage
  BY DEF Message, SpokenAs, SpokenMessage
<1>3. \A i \in 1 .. Len(l) : SpokenAs(l[i]) \in SpokenMessage
  BY <1>1, <1>2, ElementOfSeq
<1>4. SpokenIn(l) \in [1 .. Len(l) -> SpokenMessage]
  BY <1>1, <1>3 DEF SpokenIn
<1>5. SpokenIn(l) \in Seq(SpokenMessage)
  BY <1>1, <1>4, SeqDef
<1>6. Len(SpokenIn(l)) = Len(l)
  BY <1>1, <1>4, <1>5, LenProperties
<1> QED
  BY <1>1, <1>5, <1>6 DEF SpokenIn

\* A sequence and the same with one element more.
Longer(s2, s, x) ==
  /\ Len(s) \in Nat /\ DOMAIN s = 1 .. Len(s)
  /\ Len(s2) = Len(s) + 1 /\ DOMAIN s2 = 1 .. Len(s) + 1
  /\ \A i \in 1 .. Len(s) : s2[i] = s[i]
  /\ s2[Len(s) + 1] = x

\* A message that is stored is said.
LEMMA StoredIsSaid ==
  ASSUME NEW l \in Seq(Message), NEW m \in Message
  PROVE  /\ SpokenIn(Append(l, m)) = Append(SpokenIn(l), SpokenAs(m))
         /\ Longer(SpokenIn(Append(l, m)), SpokenIn(l), SpokenAs(m))
<1> DEFINE k == Append(l, m)
           s == SpokenIn(l)
           e == SpokenAs(m)
<1>1. /\ k \in Seq(Message) /\ Len(k) = Len(l) + 1
      /\ \A i \in 1 .. Len(l) : k[i] = l[i]
      /\ k[Len(l) + 1] = m
  BY AppendProperties
<1>2. /\ s \in Seq(SpokenMessage) /\ Len(s) = Len(l) /\ Len(l) \in Nat
      /\ \A i \in 1 .. Len(l) : s[i] = SpokenAs(l[i])
  BY SpokenType
<1> HIDE DEF k, s
<1>3. /\ SpokenIn(k) \in Seq(SpokenMessage) /\ Len(SpokenIn(k)) = Len(k)
      /\ \A i \in 1 .. Len(k) : SpokenIn(k)[i] = SpokenAs(k[i])
  BY <1>1, SpokenType
<1>4. e \in SpokenMessage
  BY DEF Message, SpokenAs, SpokenMessage
<1> HIDE DEF e
<1>5. /\ Append(s, e) \in Seq(SpokenMessage) /\ Len(Append(s, e)) = Len(l) + 1
      /\ \A i \in 1 .. Len(l) : Append(s, e)[i] = s[i]
      /\ Append(s, e)[Len(l) + 1] = e
  BY <1>2, <1>4, AppendProperties
<1>6. \A i \in 1 .. Len(l) : SpokenIn(k)[i] = s[i]
  BY <1>1, <1>2, <1>3
<1>7. SpokenIn(k)[Len(l) + 1] = e
  BY <1>1, <1>2, <1>3 DEF e
<1>8. \A i \in 1 .. Len(l) + 1 : SpokenIn(k)[i] = Append(s, e)[i]
  BY <1>2, <1>5, <1>6, <1>7
<1>9. SpokenIn(k) = Append(s, e)
  BY <1>1, <1>3, <1>5, <1>8, SeqEqual
<1>10. Longer(SpokenIn(k), s, e)
  BY <1>1, <1>2, <1>3, <1>6, <1>7, LenProperties DEF Longer
<1> QED
  BY <1>9, <1>10 DEF k, s, e

\* The last reply of s waits for the result of call c.
WaitsIn(s, c) ==
  \E i \in DOMAIN s :
    /\ s[i].role = "assistant" /\ c \in s[i].calls
    /\ \A k \in i + 1 .. Len(s) : s[k].role = "tool" /\ c \notin s[k].calls

\* What waits when one message more is said.
LEMMA WaitsLater ==
  ASSUME NEW s2, NEW s, NEW x, Longer(s2, s, x), NEW c
  PROVE  WaitsIn(s2, c) <=>
           \/ x.role = "assistant" /\ c \in x.calls
           \/ x.role = "tool" /\ c \notin x.calls /\ WaitsIn(s, c)
<1>1. /\ Len(s) \in Nat /\ DOMAIN s = 1 .. Len(s)
      /\ Len(s2) = Len(s) + 1 /\ DOMAIN s2 = 1 .. Len(s) + 1
      /\ \A i \in 1 .. Len(s) : s2[i] = s[i]
      /\ s2[Len(s) + 1] = x
  BY DEF Longer
<1>2. ASSUME x.role = "assistant", c \in x.calls PROVE WaitsIn(s2, c)
  BY <1>1, <1>2 DEF WaitsIn
<1>3. ASSUME x.role = "tool", c \notin x.calls, WaitsIn(s, c) PROVE WaitsIn(s2, c)
  <2>1. PICK i \in 1 .. Len(s) :
          /\ s[i].role = "assistant" /\ c \in s[i].calls
          /\ \A k \in i + 1 .. Len(s) : s[k].role = "tool" /\ c \notin s[k].calls
    BY <1>1, <1>3 DEF WaitsIn
  <2>2. \A k \in i + 1 .. Len(s2) : k \in i + 1 .. Len(s) \/ k = Len(s) + 1
    BY <1>1
  <2>3. \A k \in i + 1 .. Len(s2) : s2[k].role = "tool" /\ c \notin s2[k].calls
    BY <1>1, <1>3, <2>1, <2>2
  <2> QED
    BY <1>1, <2>1, <2>3 DEF WaitsIn
<1>4. ASSUME WaitsIn(s2, c), ~ (x.role = "assistant" /\ c \in x.calls)
      PROVE  x.role = "tool" /\ c \notin x.calls /\ WaitsIn(s, c)
  <2>1. PICK i \in 1 .. Len(s) + 1 :
          /\ s2[i].role = "assistant" /\ c \in s2[i].calls
          /\ \A k \in i + 1 .. Len(s2) : s2[k].role = "tool" /\ c \notin s2[k].calls
    BY <1>1, <1>4 DEF WaitsIn
  <2>2. i \in 1 .. Len(s)
    BY <1>1, <1>4, <2>1
  <2>3. Len(s) + 1 \in i + 1 .. Len(s2)
    BY <1>1, <2>2
  <2>4. \A k \in i + 1 .. Len(s) : k \in i + 1 .. Len(s2) /\ k \in 1 .. Len(s)
    BY <1>1, <2>2
  <2> QED
    BY <1>1, <2>1, <2>2, <2>3, <2>4 DEF WaitsIn
<1> QED
  BY <1>2, <1>3, <1>4

\* A model is called when the last message is not its own and no result is
\* missing, and a turn at its tools waits for those that are.
TalkInv ==
  /\ phase \in {"started", "model", "called"} =>
       /\ Spoken # <<>> /\ Spoken[Len(Spoken)].role # "assistant"
       /\ \A c \in CallId : ~ WaitsIn(Spoken, c)
  /\ phase = "tools" => \A c \in CallId : WaitsIn(Spoken, c) <=> c \in asked

LEMMA TalkNames ==
  /\ Spoken = SpokenIn(log)
  /\ \A c : Talk!Waits(c) <=> WaitsIn(Spoken, c)
BY DEF Spoken, SpokenIn, Talk!Waits, WaitsIn

\* A message that is stored is said, and what waits afterwards.
LEMMA MessageSays ==
  ASSUME IInv, NEW m \in Message, log' = Append(log, m)
  PROVE  /\ Spoken' = Append(Spoken, SpokenAs(m))
         /\ Spoken' # <<>> /\ Spoken'[Len(Spoken')] = SpokenAs(m)
         /\ \A c : WaitsIn(Spoken', c) <=>
              \/ m.role = "assistant" /\ c \in m.calls
              \/ m.role = "tool" /\ c # m.answers /\ WaitsIn(Spoken, c)
<1> DEFINE e == SpokenAs(m)
<1>1. log \in Seq(Message)
  BY DEF IInv, TypeOK
<1>2. Spoken = SpokenIn(log) /\ Spoken' = SpokenIn(log')
  BY DEF Spoken, SpokenIn
<1>3. Spoken' = Append(Spoken, e) /\ Longer(Spoken', Spoken, e)
  BY <1>1, <1>2, StoredIsSaid
<1>4. Spoken' # <<>> /\ Spoken'[Len(Spoken')] = e
  BY <1>3 DEF Longer
<1>5. /\ e.role = m.role
      /\ m.role = "tool" => e.calls = {m.answers}
      /\ m.role # "tool" => e.calls = m.calls
  BY DEF SpokenAs
<1> HIDE DEF e
<1>6. \A c : WaitsIn(Spoken', c) <=>
        \/ e.role = "assistant" /\ c \in e.calls
        \/ e.role = "tool" /\ c \notin e.calls /\ WaitsIn(Spoken, c)
  BY <1>3, WaitsLater
<1>7. \A c : WaitsIn(Spoken', c) <=>
        \/ m.role = "assistant" /\ c \in m.calls
        \/ m.role = "tool" /\ c # m.answers /\ WaitsIn(Spoken, c)
  BY <1>5, <1>6
<1> QED
  BY <1>3, <1>4, <1>7 DEF e

\* Nothing is said.
LEMMA SilentStep ==
  ASSUME TalkInv, log' = log,
         \/ phase' \in {"idle", "rejected"}
         \/ UNCHANGED <<phase, asked>>
         \/ /\ phase \in {"started", "model", "called"}
            /\ phase' \in {"started", "model", "called"}
  PROVE  TalkInv' /\ Spoken' = Spoken
BY DEF TalkInv, Spoken

\* What the steps of the conversation need of the message that is stored.
LEMMA SayStep ==
  ASSUME IInv, NEW m \in Message, log' = Append(log, m),
         \/ m.role = "user" /\ m.calls = {}
         \/ /\ m.role = "assistant"
            /\ Spoken # <<>> /\ Spoken[Len(Spoken)].role # "assistant"
            /\ \A c \in CallId : ~ WaitsIn(Spoken, c)
         \/ m.role = "tool" /\ m.answers \in CallId /\ WaitsIn(Spoken, m.answers)
  PROVE  Talk!Next
<1> DEFINE e == SpokenAs(m)
<1>1. Spoken' = Append(Spoken, e)
  BY MessageSays
<1>2. /\ e.role = m.role
      /\ m.role = "tool" => e.calls = {m.answers}
      /\ m.role # "tool" => e.calls = m.calls
  BY DEF SpokenAs
<1>3. e \in [role : {"user", "assistant", "tool"}, calls : SUBSET CallId]
  <2>1. m.calls \in SUBSET CallId /\ m.role \in {"user", "assistant", "tool"}
    BY DEF Message
  <2> QED
    BY <2>1 DEF SpokenAs
<1> HIDE DEF e
<1>4. Talk!Say(e)
  BY <1>1 DEF Talk!Say
<1>5. Talk!Ask(e) \/ Talk!Reply(e) \/ Talk!Result(e)
  BY <1>2, <1>4, TalkNames DEF Talk!Ask, Talk!Reply, Talk!Result
<1> QED
  BY <1>3, <1>5 DEF Talk!Next

LEMMA TalkStep ==
  ASSUME IInv, TalkInv, [Next]_vars
  PROVE  TalkInv' /\ (Spoken' = Spoken \/ Talk!Next)
<1>0. Len(log) \in Nat
  BY LenProperties DEF IInv, TypeOK
<1>1. CASE UNCHANGED vars
  BY <1>1, SilentStep DEF vars, turn
<1>2. CASE Assemble \/ Reject \/ CallModel \/ EndTurn \/ Tick
  BY <1>2, SilentStep DEF Assemble, Reject, CallModel, EndTurn, Tick, turn
<1>3. ASSUME NEW n \in Model, StartTurn(n)
      PROVE  TalkInv' /\ Talk!Next
  <2>1. phase' = "started" /\ model' \in Model
    BY <1>3 DEF StartTurn
  <2>2. PICK m \in Message :
          log' = Append(log, m) /\ m.role = "user" /\ m.calls = {}
    <3> DEFINE r == [seq |-> Len(log) + 1, role |-> "user", model |-> model',
                     calls |-> {}, answers |-> NoCall, blank |-> FALSE,
                     response |-> 0, expires |-> 0]
    <3>1. log' = Append(log, r)
      BY <1>3 DEF StartTurn, Record
    <3>2. r \in Message /\ r.role = "user" /\ r.calls = {}
      BY <1>0, <2>1 DEF Message
    <3> QED
      BY <3>1, <3>2
  <2>3. /\ Spoken' # <<>> /\ Spoken'[Len(Spoken')].role = "user"
        /\ \A c : ~ WaitsIn(Spoken', c)
    <3>1. SpokenAs(m).role = "user"
      BY <2>2 DEF SpokenAs
    <3> QED
      BY <2>2, <3>1, MessageSays
  <2>4. Talk!Next
    BY <2>2, SayStep
  <2> QED
    BY <2>1, <2>3, <2>4 DEF TalkInv
<1>4. ASSUME NEW calls \in SUBSET CallId, NEW blank \in BOOLEAN,
             NEW chained \in BOOLEAN, NEW ttl \in BOOLEAN,
             ModelReplies(calls, blank, chained, ttl)
      PROVE  TalkInv' /\ Talk!Next
  <2>1. /\ phase = "called" /\ phase' \in {"ended", "tools"} /\ asked' = calls
        /\ model' \in Model
    BY <1>4 DEF ModelReplies, IInv, HasModel
  <2>2. PICK m \in Message :
          log' = Append(log, m) /\ m.role = "assistant" /\ m.calls = calls
    <3>1. Len(chains) \in Nat /\ now \in Nat /\ TTL \in Nat
      BY LenProperties, Sizes DEF IInv, TypeOK
    <3>2. PICK response \in Nat, expires \in Nat :
            Record("assistant", calls, NoCall, blank, response, expires)
      BY <1>4, <3>1 DEF ModelReplies
    <3> DEFINE r == [seq |-> Len(log) + 1, role |-> "assistant", model |-> model',
                     calls |-> calls, answers |-> NoCall, blank |-> blank,
                     response |-> response, expires |-> expires]
    <3>3. log' = Append(log, r)
      BY <3>2 DEF Record
    <3>4. r \in Message /\ r.role = "assistant" /\ r.calls = calls
      BY <1>0, <2>1 DEF Message
    <3> QED
      BY <3>3, <3>4
  <2>3. \A c : WaitsIn(Spoken', c) <=> c \in calls
    BY <2>2, MessageSays
  <2>4. Talk!Next
    BY <2>1, <2>2, SayStep DEF TalkInv
  <2> QED
    BY <2>1, <2>3, <2>4 DEF TalkInv
<1>5. ASSUME NEW c \in CallId, ToolResult(c)
      PROVE  TalkInv' /\ Talk!Next
  <2>1. /\ phase = "tools" /\ c \in asked /\ asked' = asked \ {c}
        /\ phase' = IF asked = {c} THEN "model" ELSE "tools"
        /\ model' \in Model
    BY <1>5 DEF ToolResult, IInv, HasModel
  <2>2. PICK m \in Message :
          log' = Append(log, m) /\ m.role = "tool" /\ m.answers = c
    <3> DEFINE r == [seq |-> Len(log) + 1, role |-> "tool", model |-> model',
                     calls |-> {}, answers |-> c, blank |-> FALSE,
                     response |-> 0, expires |-> 0]
    <3>1. log' = Append(log, r)
      BY <1>5 DEF ToolResult, Record
    <3>2. r \in Message /\ r.role = "tool" /\ r.answers = c
      BY <2>1, <1>0 DEF Message
    <3> QED
      BY <3>1, <3>2
  <2>3. /\ Spoken' # <<>> /\ Spoken'[Len(Spoken')].role = "tool"
        /\ \A d : WaitsIn(Spoken', d) <=> d # c /\ WaitsIn(Spoken, d)
    <3>1. SpokenAs(m).role = "tool"
      BY <2>2 DEF SpokenAs
    <3> QED
      BY <2>2, <3>1, MessageSays
  <2>4. \A d \in CallId : WaitsIn(Spoken, d) <=> d \in asked
    BY <2>1 DEF TalkInv
  <2>5. Talk!Next
    BY <2>1, <2>2, <2>4, SayStep
  <2>6. \A d \in CallId : WaitsIn(Spoken', d) <=> d \in asked'
    BY <2>1, <2>3, <2>4
  <2>7. CASE asked = {c}
    <3>1. phase' = "model" /\ \A d \in CallId : ~ WaitsIn(Spoken', d)
      BY <2>1, <2>6, <2>7
    <3> QED
      BY <2>3, <2>5, <3>1 DEF TalkInv
  <2>8. CASE asked # {c}
    BY <2>1, <2>5, <2>6, <2>8 DEF TalkInv
  <2> QED
    BY <2>7, <2>8
<1> QED
  BY <1>1, <1>2, <1>3, <1>4, <1>5 DEF Next

(***************************************************************************)
(* The log that models read is a conversation, whichever models its turns  *)
(* ask for and wherever a turn ends: the same that the requests of         *)
(* ChatTurn write.                                                         *)
(***************************************************************************)
THEOREM HistoryConverses == Spec => KeepsConversation
<1>1. Init => TalkInv /\ Talk!Init
  BY DEF Init, TalkInv, Talk!Init, Spoken
<1>2. IInv /\ TalkInv /\ [Next]_vars => TalkInv' /\ [Talk!Next]_Talk!vars
  <2> SUFFICES ASSUME IInv, TalkInv, [Next]_vars
               PROVE  TalkInv' /\ [Talk!Next]_Talk!vars
    OBVIOUS
  <2>1. TalkInv' /\ (Spoken' = Spoken \/ Talk!Next)
    BY TalkStep
  <2> QED
    BY <2>1 DEF Talk!vars
<1> QED
  BY <1>1, <1>2, InitInv, NextStep, PTL DEF Spec, KeepsConversation, Talk!Spec
=============================================================================
