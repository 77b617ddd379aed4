-------------------- MODULE BackgroundCalculationProofs --------------------
(***************************************************************************)
(* Proofs about BackgroundCalculation for every number of operations, every *)
(* history limit and any number of expressions on a line: type correctness   *)
(* and the five safety invariants of its run.                               *)
(*                                                                         *)
(* What a commit writes was computed from the snapshot, so everything said  *)
(* of the live engine has to be said of the snapshot as well; and what a    *)
(* history records was answered before the running operation began.         *)
(***************************************************************************)
EXTENDS BackgroundCalculation, TLAPS

\* An operation that left a trace among xs was answered "ok".
Answered(xs) == \A i \in Operations : i \in xs => result[i] = "ok"

Traces(e) == {e.ans, e.memory} \cup Recorded(e.history)

Ordered(h) == InOrder(h) /\ Chronological(h)

\* What was answered is done, and what is done began before what is running.
RunningIsLatest ==
  /\ \A i \in Operations : result[i] # None => i \in done
  /\ ~Idle => \A j \in done : j < running

EnginesAreGenuine ==
  /\ Answered(Traces(Live))
  /\ Answered(Recorded(stored))
  /\ snapshot # None => Answered(Traces(snapshot))

EnginesAreOrdered ==
  /\ Ordered(history)
  /\ Ordered(stored)
  /\ snapshot # None => Ordered(snapshot.history)

\* Nothing runs in an application that is closed.
ClosedIsIdle == app = "down" => Idle

\* The inductive invariant.
IInv ==
  /\ TypeOK
  /\ LockFollowsController
  /\ ClosedIsIdle
  /\ RunningIsLatest
  /\ EnginesAreGenuine
  /\ EnginesAreOrdered
  /\ ClearedMessageIsTrue
  /\ OnlyWindowsDisturb

-----------------------------------------------------------------------------
\* None is neither an operation nor an engine nor an answer.
LEMMA NoneFacts ==
  None \notin Operations /\ 0 \notin Operations /\ None \notin Engines /\ None # "ok"
  BY BackgroundAssumption, NoneIsNoValue DEF Answers

\* A history is a sequence of entries within the limit.
LEMMA HistoriesAreSequences ==
  \A h : h \in Histories <=> h \in Seq(Entries) /\ Len(h) <= HistoryLimit
<1>1. ASSUME NEW h \in Histories PROVE h \in Seq(Entries) /\ Len(h) <= HistoryLimit
  <2>1. PICK n \in 0..HistoryLimit : h \in [1..n -> Entries]
    BY <1>1 DEF Histories
  <2> QED
    BY <2>1, BackgroundAssumption
<1>2. ASSUME NEW h \in Seq(Entries), Len(h) <= HistoryLimit PROVE h \in Histories
  <2>1. Len(h) \in 0..HistoryLimit /\ h \in [1..Len(h) -> Entries]
    BY <1>2, BackgroundAssumption
  <2> QED
    BY <2>1 DEF Histories
<1> QED
  BY <1>1, <1>2

\* So is the history of a new engine, whose entries record nothing.
LEMMA EmptyHistory == <<>> \in Histories /\ Recorded(<<>>) = {} /\ Ordered(<<>>)
<1>1. <<>> \in Seq(Entries) /\ Len(<<>>) = 0 /\ 0 <= HistoryLimit
  BY BackgroundAssumption
<1>2. <<>> \in Histories
  BY <1>1, HistoriesAreSequences
<1>3. DOMAIN <<>> = {}
  OBVIOUS
<1> QED
  BY <1>2, <1>3 DEF Recorded, Ordered, InOrder, Chronological

\* Newest drops the first entries, as many as exceed the limit, and moves the rest up.
LEMMA NewestIsASuffix ==
  ASSUME NEW h \in Seq(Entries)
  PROVE  /\ Newest(h) \in Histories
         /\ \E d \in Nat : /\ Len(Newest(h)) = Len(h) - d
                           /\ \A k \in 1..Len(Newest(h)) : Newest(h)[k] = h[k + d]
<1>1. CASE Len(h) <= HistoryLimit
  <2>1. Newest(h) = h
    BY <1>1, BackgroundAssumption DEF Newest
  <2>2. /\ Len(Newest(h)) = Len(h) - 0
        /\ \A k \in 1..Len(Newest(h)) : Newest(h)[k] = h[k + 0]
    BY <2>1
  <2> QED
    BY <1>1, <2>1, <2>2, HistoriesAreSequences
<1>2. CASE Len(h) > HistoryLimit
  <2> DEFINE d == Len(h) - HistoryLimit
  <2>1. Newest(h) = SubSeq(h, d + 1, Len(h)) /\ d \in Nat
    BY <1>2, BackgroundAssumption DEF Newest
  <2>2. Newest(h) \in Seq(Entries) /\ Len(Newest(h)) = HistoryLimit
    BY <1>2, <2>1, BackgroundAssumption
  <2>3. \A k \in 1..Len(Newest(h)) : Newest(h)[k] = h[k + d]
    BY <1>2, <2>1, <2>2, BackgroundAssumption
  <2>4. Len(Newest(h)) = Len(h) - d
    BY <2>2, BackgroundAssumption
  <2> HIDE DEF d
  <2>5. Newest(h) \in Histories
    BY <2>2, HistoriesAreSequences, BackgroundAssumption
  <2> QED
    BY <2>1, <2>3, <2>4, <2>5
<1> QED
  BY <1>1, <1>2, BackgroundAssumption

\* What one evaluate call records is a sequence of entries.
LEMMA BatchEntries ==
  ASSUME NEW i \in Tokens, NEW n \in 1..MaxParts
  PROVE  /\ Batch(i, n) \in Seq(Entries)
         /\ Len(Batch(i, n)) = n
         /\ \A k \in 1..n : Batch(i, n)[k] = [op |-> i, part |-> k, of |-> n]
  BY BackgroundAssumption DEF Batch, Entries

\* b is h followed by what one evaluate call of operation i records.
Extends(b, h, i, n) ==
  /\ Len(b) = Len(h) + n
  /\ \A k \in 1..Len(h) : b[k] = h[k]
  /\ \A k \in 1..Len(b) : k > Len(h) => b[k] = [op |-> i, part |-> k - Len(h), of |-> n]

\* g is b without its first entries.
Ends(g, b) ==
  \E d \in Nat : Len(g) = Len(b) - d /\ \A k \in 1..Len(g) : g[k] = b[k + d]

\* The history after a calculation, entry by entry.
LEMMA AfterBatch ==
  ASSUME NEW h \in Seq(Entries), NEW i \in Tokens, NEW n \in 1..MaxParts
  PROVE  h \o Batch(i, n) \in Seq(Entries) /\ Extends(h \o Batch(i, n), h, i, n)
<1> DEFINE c == Batch(i, n)
           b == h \o c
<1>1. /\ c \in Seq(Entries) /\ Len(c) = n /\ n \in Nat
      /\ \A k \in 1..n : c[k] = [op |-> i, part |-> k, of |-> n]
  BY BatchEntries, BackgroundAssumption
<1> HIDE DEF c
<1>2. b \in Seq(Entries) /\ Len(b) = Len(h) + n
  BY <1>1
<1>3. \A k \in 1..Len(h) : b[k] = h[k]
  BY <1>1
<1>4. ASSUME NEW k \in 1..Len(b), k > Len(h)
      PROVE  b[k] = [op |-> i, part |-> k - Len(h), of |-> n]
  <2>1. k - Len(h) \in 1..n
    BY <1>1, <1>2, <1>4
  <2>2. b[k] = c[k - Len(h)]
    BY <1>1, <1>2, <1>4
  <2> QED
    BY <1>1, <2>1, <2>2
<1> QED
  BY <1>2, <1>3, <1>4 DEF Extends, c

\* Recording adds one operation to a history, and forgetting adds none.
LEMMA RecordedEntries ==
  ASSUME NEW h \in Seq(Entries), NEW b \in Seq(Entries), NEW g \in Seq(Entries),
         NEW i \in Tokens, NEW n \in Nat, Extends(b, h, i, n), Ends(g, b)
  PROVE  Recorded(g) \subseteq Recorded(h) \cup {i}
<1>1. PICK d \in Nat : Len(g) = Len(b) - d /\ \A k \in 1..Len(g) : g[k] = b[k + d]
  BY DEF Ends
<1>2. DOMAIN g = 1..Len(g) /\ DOMAIN h = 1..Len(h)
  OBVIOUS
<1>3. ASSUME NEW k \in 1..Len(b) PROVE b[k].op \in Recorded(h) \cup {i}
  <2>1. CASE k > Len(h)
    BY <2>1 DEF Extends
  <2>2. CASE ~(k > Len(h))
    <3>1. k \in DOMAIN h /\ b[k] = h[k]
      BY <2>2, <1>2 DEF Extends
    <3> QED
      BY <3>1 DEF Recorded
  <2> QED
    BY <2>1, <2>2
<1>4. \A k \in 1..Len(g) : k + d \in 1..Len(b) /\ g[k].op = b[k + d].op
  BY <1>1
<1> QED
  BY <1>2, <1>3, <1>4 DEF Recorded

\* A batch of a later operation keeps a history in order.
LEMMA BatchInOrder ==
  ASSUME NEW h \in Seq(Entries), NEW b \in Seq(Entries), NEW i \in Tokens, NEW n \in Nat,
         Extends(b, h, i, n), Ordered(h), i = 0 \/ \A j \in Recorded(h) : j < i
  PROVE  Ordered(b)
<1>1. DOMAIN b = 1..Len(b) /\ DOMAIN h = 1..Len(h) /\ Len(b) \in Nat /\ Len(h) \in Nat
  OBVIOUS
<1>2. ASSUME NEW k \in 1..Len(b), b[k].part # b[k].of
      PROVE  k < Len(b) /\ b[k + 1] = [b[k] EXCEPT !.part = @ + 1]
  <2>1. CASE k > Len(h)
    <3>1. b[k] = [op |-> i, part |-> k - Len(h), of |-> n]
      BY <2>1 DEF Extends
    <3>2. k - Len(h) # n
      BY <3>1, <1>2
    <3>3. k + 1 \in 1..Len(b) /\ k + 1 > Len(h) /\ k < Len(b)
      BY <3>2, <2>1, <1>1 DEF Extends
    <3>4. b[k + 1] = [op |-> i, part |-> k + 1 - Len(h), of |-> n]
      BY <3>3 DEF Extends
    <3>5. k + 1 - Len(h) = k - Len(h) + 1
      BY <1>1
    <3> QED
      BY <3>1, <3>3, <3>4, <3>5
  <2>2. CASE ~(k > Len(h))
    <3>1. k \in DOMAIN h /\ b[k] = h[k]
      BY <2>2, <1>1 DEF Extends
    <3>2. k < Len(h) /\ h[k + 1] = [h[k] EXCEPT !.part = @ + 1]
      BY <3>1, <1>2 DEF Ordered, InOrder
    <3>3. k + 1 \in 1..Len(h) /\ k < Len(b)
      BY <3>1, <3>2, <1>1 DEF Extends
    <3>4. b[k + 1] = h[k + 1]
      BY <3>3 DEF Extends
    <3> QED
      BY <3>1, <3>2, <3>3, <3>4
  <2> QED
    BY <2>1, <2>2
<1>3. ASSUME NEW j \in 1..Len(b), NEW k \in 1..Len(b), j < k, b[k].op # 0
      PROVE  \/ b[j].op < b[k].op
             \/ b[j].op = b[k].op /\ b[j].part < b[k].part
  <2>1. CASE ~(k > Len(h))
    <3>1. j \in DOMAIN h /\ k \in DOMAIN h /\ b[j] = h[j] /\ b[k] = h[k]
      BY <2>1, <1>1, <1>3 DEF Extends
    <3> QED
      BY <3>1, <1>3 DEF Ordered, Chronological
  <2>2. CASE k > Len(h) /\ ~(j > Len(h))
    <3>1. b[k].op = i /\ i # 0
      BY <2>2, <1>3 DEF Extends
    <3>2. j \in DOMAIN h /\ b[j] = h[j]
      BY <2>2, <1>1 DEF Extends
    <3>3. b[j].op \in Recorded(h)
      BY <3>2 DEF Recorded
    <3> QED
      BY <3>1, <3>3
  <2>3. CASE k > Len(h) /\ j > Len(h)
    <3>1. /\ b[k] = [op |-> i, part |-> k - Len(h), of |-> n]
          /\ b[j] = [op |-> i, part |-> j - Len(h), of |-> n]
      BY <2>3 DEF Extends
    <3>2. j - Len(h) < k - Len(h)
      BY <1>1, <1>3
    <3> QED
      BY <3>1, <3>2
  <2> QED
    BY <2>1, <2>2, <2>3
<1> QED
  BY <1>1, <1>2, <1>3 DEF Ordered, InOrder, Chronological

\* Forgetting the oldest entries keeps a history in order.
LEMMA EndInOrder ==
  ASSUME NEW b \in Seq(Entries), NEW g \in Seq(Entries), Ends(g, b), Ordered(b)
  PROVE  Ordered(g)
<1>1. PICK d \in Nat : Len(g) = Len(b) - d /\ \A k \in 1..Len(g) : g[k] = b[k + d]
  BY DEF Ends
<1>2. DOMAIN b = 1..Len(b) /\ DOMAIN g = 1..Len(g) /\ Len(b) \in Nat /\ Len(g) \in Nat
  OBVIOUS
<1>3. \A k \in 1..Len(g) : k + d \in 1..Len(b)
  BY <1>1, <1>2
<1>4. ASSUME NEW k \in 1..Len(g), g[k].part # g[k].of
      PROVE  k < Len(g) /\ g[k + 1] = [g[k] EXCEPT !.part = @ + 1]
  <2> DEFINE m == k + d
  <2>1. m \in DOMAIN b /\ b[m] = g[k]
    BY <1>1, <1>2, <1>3
  <2> HIDE DEF m
  <2>2. m < Len(b) /\ b[m + 1] = [b[m] EXCEPT !.part = @ + 1]
    BY <2>1, <1>4 DEF Ordered, InOrder
  <2>3. k < Len(g) /\ k + 1 \in 1..Len(g) /\ (k + 1) + d = m + 1
    BY <2>2, <1>1, <1>2 DEF m
  <2>4. g[k + 1] = b[m + 1]
    BY <2>3, <1>1
  <2> QED
    BY <2>1, <2>2, <2>3, <2>4
<1>5. ASSUME NEW j \in 1..Len(g), NEW k \in 1..Len(g), j < k, g[k].op # 0
      PROVE  \/ g[j].op < g[k].op
             \/ g[j].op = g[k].op /\ g[j].part < g[k].part
  <2>1. /\ j + d \in DOMAIN b /\ k + d \in DOMAIN b /\ j + d < k + d
        /\ g[j] = b[j + d] /\ g[k] = b[k + d]
    BY <1>1, <1>2, <1>3, <1>5
  <2> QED
    BY <2>1, <1>5 DEF Ordered, Chronological
<1> QED
  BY <1>2, <1>4, <1>5 DEF Ordered, InOrder, Chronological

\* What a calculation records: a history, with its own operation added at most, and
\* in order if the calculation is a later one.
LEMMA NewestHistory ==
  ASSUME NEW h \in Histories, NEW i \in Tokens, NEW n \in 1..MaxParts
  PROVE  /\ Newest(h \o Batch(i, n)) \in Histories
         /\ Recorded(Newest(h \o Batch(i, n))) \subseteq Recorded(h) \cup {i}
         /\ Ordered(h) /\ (i = 0 \/ \A j \in Recorded(h) : j < i) =>
              Ordered(Newest(h \o Batch(i, n)))
<1> DEFINE b == h \o Batch(i, n)
           g == Newest(b)
<1>1. h \in Seq(Entries) /\ n \in Nat
  BY HistoriesAreSequences, BackgroundAssumption
<1>2. b \in Seq(Entries) /\ Extends(b, h, i, n)
  BY <1>1, AfterBatch
<1> HIDE DEF b
<1>3. g \in Histories /\ Ends(g, b)
  BY <1>2, NewestIsASuffix DEF Ends
<1>4. g \in Seq(Entries)
  BY <1>3, HistoriesAreSequences
<1> HIDE DEF g
<1>5. Recorded(g) \subseteq Recorded(h) \cup {i}
  BY <1>1, <1>2, <1>3, <1>4, RecordedEntries
<1>6. Ordered(h) /\ (i = 0 \/ \A j \in Recorded(h) : j < i) => Ordered(g)
  BY <1>1, <1>2, <1>3, <1>4, BatchInOrder, EndInOrder
<1> QED
  BY <1>3, <1>5, <1>6 DEF g, b

-----------------------------------------------------------------------------
\* What a worker returns for i is an engine that adds nothing to its snapshot but i.
LEMMA PayloadFacts ==
  ASSUME NEW i \in Operations, NEW s \in Engines, NEW p \in Payloads(i, s)
  PROVE  /\ p \in Engines
         /\ Traces(p) \subseteq Traces(s) \cup {i}
         /\ Ordered(s.history) /\ (\A j \in Recorded(s.history) : j < i) => Ordered(p.history)
<1> DEFINE h(n) == Newest(s.history \o Batch(i, n))
<1>1. s.history \in Histories /\ i \in Tokens /\ 1 \in 1..MaxParts
  BY BackgroundAssumption DEF Engines, Tokens
<1>2. \A n \in 1..MaxParts :
        /\ h(n) \in Histories
        /\ Recorded(h(n)) \subseteq Recorded(s.history) \cup {i}
        /\ Ordered(s.history) /\ (i = 0 \/ \A j \in Recorded(s.history) : j < i) => Ordered(h(n))
  BY <1>1, NewestHistory
<1>3. \/ p = s
      \/ p = [s EXCEPT !.history = h(1)]
      \/ \E n \in 1..MaxParts : p = [s EXCEPT !.ans = i, !.history = h(n)]
      \/ p = [ans |-> i, memory |-> i, history |-> h(1)]
  BY DEF Payloads, Engines
<1> HIDE DEF h
<1>4. CASE p = s
  BY <1>4
<1>5. CASE p = [s EXCEPT !.history = h(1)]
  BY <1>1, <1>2, <1>5 DEF Engines, Traces
<1>6. CASE \E n \in 1..MaxParts : p = [s EXCEPT !.ans = i, !.history = h(n)]
  <2>1. PICK n \in 1..MaxParts : p = [s EXCEPT !.ans = i, !.history = h(n)]
    BY <1>6
  <2> QED
    BY <1>1, <1>2, <2>1 DEF Engines, Traces
<1>7. CASE p = [ans |-> i, memory |-> i, history |-> h(1)]
  BY <1>1, <1>2, <1>7 DEF Engines, Traces
<1> QED
  BY <1>3, <1>4, <1>5, <1>6, <1>7

\* A commit writes a payload, also when nothing of it is displayed.
LEMMA CommitIsPayload ==
  ASSUME TypeOK, LockFollowsController, NEW i \in Operations, Succeed(i) \/ SucceedUnseen(i)
  PROVE  /\ running = i /\ snapshot \in Engines
         /\ running' = None /\ snapshot' = None /\ input' = "open"
         /\ done' = done \cup {i} /\ result' = [result EXCEPT ![i] = "ok"]
         /\ stored' \in {history', stored}
         /\ \E p \in Payloads(i, snapshot) : Apply(p)
<1>1. running = i /\ running' = None /\ done' = done \cup {i}
      /\ result' = [result EXCEPT ![i] = "ok"] /\ snapshot' = None /\ input' = "open"
      /\ stored' \in {history', stored}
  BY DEF Succeed, SucceedUnseen, Controller!Complete, MaySave
<1>2. snapshot \in Engines
  BY <1>1, NoneFacts DEF TypeOK, LockFollowsController, Idle
<1>3. CASE Succeed(i)
  BY <1>1, <1>2, <1>3 DEF Succeed
<1>4. CASE SucceedUnseen(i)
  BY <1>1, <1>2, <1>4 DEF SucceedUnseen, Payloads
<1> QED
  BY <1>1, <1>2, <1>3, <1>4

\* A key or a window that withdraws the running operation, if there is one.
LEMMA WithdrawFacts ==
  ASSUME TypeOK, LockFollowsController, Withdraw
  PROVE  /\ running' = None /\ snapshot' = None /\ input' = "open"
         /\ result' = result
         /\ done' = IF Idle THEN done ELSE done \cup {running}
<1>1. CASE Idle
  BY <1>1, NoneFacts DEF Withdraw, Idle, serviceVars, LockFollowsController, TypeOK
<1>2. CASE ~Idle
  BY <1>2 DEF Withdraw, Controller!Withdraw
<1> QED
  BY <1>1, <1>2

\* The engine and the table keep their types, whichever callback runs.
LEMMA EnginesStayTyped ==
  ASSUME TypeOK, LockFollowsController, Next
  PROVE  Live' \in Engines /\ stored' \in Histories
<1> USE DEF TypeOK
<1>1. /\ ans \in Tokens /\ memory \in Tokens /\ 0 \in Tokens
      /\ history \in Histories /\ stored \in Histories
  BY DEF Live, Engines, Tokens
<1>2. <<>> \in Histories
  BY EmptyHistory
<1>3. SUFFICES /\ ans' \in Tokens /\ memory' \in Tokens
               /\ history' \in Histories /\ stored' \in Histories
  BY DEF Live, Engines
<1>4. ASSUME NEW i \in Operations, Succeed(i) \/ SucceedUnseen(i)
      PROVE  /\ ans' \in Tokens /\ memory' \in Tokens
             /\ history' \in Histories /\ stored' \in Histories
  <2>1. snapshot \in Engines /\ stored' \in {history', stored}
    BY <1>4, CommitIsPayload
  <2>2. PICK p \in Payloads(i, snapshot) : Apply(p)
    BY <1>4, CommitIsPayload
  <2>3. p \in Engines
    BY <2>1, PayloadFacts
  <2> QED
    BY <1>1, <2>1, <2>2, <2>3 DEF Apply, Engines
<1>5. CASE Combination
  <2>1. history' \in Histories
    BY <1>1, <1>5, NewestHistory, BackgroundAssumption DEF Combination
  <2> QED
    BY <1>1, <1>5, <2>1 DEF Combination, MaySave
<1>6. ASSUME NEW i \in Operations,
             Begin(i) \/ BeginFails(i) \/ \E a \in Answers : Fail(i, a)
      PROVE  UNCHANGED <<ans, memory, history, stored>>
  BY <1>6 DEF Begin, BeginFails, Fail, engineVars
<1>7. CASE AcKey \/ OpenTemplate \/ EscapeInTemplate \/ Store \/ BaseN
  BY <1>1, <1>7 DEF AcKey, OpenTemplate, EscapeInTemplate, Store, BaseN, engineVars
<1>8. CASE SaveSetup \/ ClearHistory \/ ResetToDefaults \/ ResetMemory \/ InitializeAll \/ Convert
  BY <1>1, <1>2, <1>8 DEF SaveSetup, ClearHistory, ResetToDefaults, ResetMemory,
     InitializeAll, Convert, MaySave, engineVars
<1>9. CASE CloseWindow \/ Die \/ Launch
  BY <1>1, <1>2, <1>9 DEF CloseWindow, Die, Launch, MaySave, engineVars
<1> QED
  BY <1>1, <1>4, <1>5, <1>6, <1>7, <1>8, <1>9 DEF Next

\* The types of the variables that hold no live engine.
FlagTypes ==
  /\ running \in Operations \cup {None}
  /\ done \subseteq Operations
  /\ result \in [Operations -> Answers \cup {None}]
  /\ snapshot \in Engines \cup {None}
  /\ input \in {"open", "locked"}
  /\ lcd \in {"calculating", "cleared", "other"}
  /\ template \in {"none", "open"}
  /\ app \in {"up", "down"}
  /\ cleared \subseteq Operations
  /\ disturbed \in Operations \cup {None}

\* They keep their types, whichever callback runs.
LEMMA FlagsStayTyped ==
  ASSUME TypeOK, LockFollowsController, Next
  PROVE  FlagTypes'
<1>1. FlagTypes /\ Live \in Engines
  BY DEF TypeOK, FlagTypes
<1> USE DEF FlagTypes, serviceVars, userVars, engineVars
<1>2. ASSUME NEW i \in Operations, Begin(i) PROVE FlagTypes'
  BY <1>1, <1>2 DEF Begin, Controller!Accept
<1>3. ASSUME NEW i \in Operations, BeginFails(i) PROVE FlagTypes'
  BY <1>1, <1>3 DEF BeginFails, Controller!Reject
<1>4. ASSUME NEW i \in Operations, Succeed(i) PROVE FlagTypes'
  BY <1>1, <1>4 DEF Succeed, Controller!Complete, Answers
<1>5. ASSUME NEW i \in Operations, SucceedUnseen(i) PROVE FlagTypes'
  BY <1>1, <1>5 DEF SucceedUnseen, Controller!Complete, Answers
<1>6. ASSUME NEW i \in Operations, NEW a \in Answers, Fail(i, a) PROVE FlagTypes'
  BY <1>1, <1>6 DEF Fail, Controller!Complete
<1>7. ASSUME Withdraw
      PROVE  /\ running' = None /\ snapshot' = None /\ input' = "open"
             /\ result' = result /\ done' \subseteq Operations
  BY <1>1, <1>7, WithdrawFacts DEF Idle
<1>8. CASE AcKey
  BY <1>1, <1>7, <1>8 DEF AcKey
<1>9. CASE CloseWindow \/ Die
  BY <1>1, <1>7, <1>9 DEF CloseWindow, Die
<1>10. CASE OpenTemplate \/ EscapeInTemplate \/ Store \/ BaseN \/ Combination
  BY <1>1, <1>10 DEF OpenTemplate, EscapeInTemplate, Store, BaseN, Combination
<1>11. CASE SaveSetup \/ ClearHistory \/ ResetToDefaults
  BY <1>1, <1>11 DEF SaveSetup, ClearHistory, ResetToDefaults, WindowAction
<1>12. CASE ResetMemory \/ InitializeAll \/ Convert
  BY <1>1, <1>12 DEF ResetMemory, InitializeAll, Convert, WindowAction
<1>13. CASE Launch
  BY <1>1, <1>13 DEF Launch
<1> QED
  BY <1>2, <1>3, <1>4, <1>5, <1>6, <1>8, <1>9, <1>10, <1>11, <1>12, <1>13 DEF Next

-----------------------------------------------------------------------------
\* The lock, the snapshot and the controller change together; a closed application
\* runs nothing; what runs is later than what is done.
LEMMA StepKeepsControl ==
  ASSUME TypeOK, LockFollowsController, ClosedIsIdle, RunningIsLatest, Next
  PROVE  LockFollowsController' /\ ClosedIsIdle' /\ RunningIsLatest'
<1> DEFINE Control == LockFollowsController' /\ ClosedIsIdle' /\ RunningIsLatest'
<1>1. Live \in Engines /\ Live # None /\ FlagTypes
  BY NoneFacts DEF TypeOK, FlagTypes
<1> USE DEF LockFollowsController, ClosedIsIdle, RunningIsLatest, Idle, FlagTypes
<1>2. ASSUME NEW i \in Operations, Begin(i) PROVE Control
  BY <1>1, <1>2, NoneFacts DEF Begin, Controller!Accept, KeyObeyed
<1>3. ASSUME NEW i \in Operations, BeginFails(i) PROVE Control
  BY <1>1, <1>3 DEF BeginFails, Controller!Reject, serviceVars, KeyObeyed
<1>4. ASSUME NEW i \in Operations, NEW a \in Answers, Controller!Complete(i, a),
             snapshot' = None, input' = "open", UNCHANGED app
      PROVE  Control
  <2>1. \A j \in Operations : result'[j] # None => j \in done'
    BY <1>1, <1>4 DEF Controller!Complete
  <2> QED
    BY <1>4, <2>1 DEF Controller!Complete
<1>5. ASSUME NEW i \in Operations, Succeed(i) \/ SucceedUnseen(i) PROVE Control
  BY <1>4, <1>5 DEF Succeed, SucceedUnseen, Answers, userVars
<1>6. ASSUME NEW i \in Operations, NEW a \in Answers, Fail(i, a) PROVE Control
  BY <1>4, <1>6 DEF Fail
<1>7. CASE AcKey \/ CloseWindow \/ Die
  <2>1. Withdraw
    BY <1>7 DEF AcKey, CloseWindow, Die
  <2> QED
    BY <1>1, <2>1, WithdrawFacts
<1>8. CASE OpenTemplate \/ EscapeInTemplate \/ Store \/ BaseN \/ Combination
  BY <1>8 DEF OpenTemplate, EscapeInTemplate, Store, BaseN, Combination, serviceVars
<1>9. CASE SaveSetup \/ ClearHistory \/ ResetToDefaults \/ ResetMemory \/ InitializeAll \/ Convert
  BY <1>9 DEF SaveSetup, ClearHistory, ResetToDefaults, ResetMemory, InitializeAll,
     Convert, WindowAction, serviceVars
<1>10. CASE Launch
  BY <1>10 DEF Launch, serviceVars
<1> QED
  BY <1>2, <1>3, <1>5, <1>6, <1>7, <1>8, <1>9, <1>10 DEF Next

\* Every callback that leaves "History cleared" on the display leaves the table alone.
LEMMA StepKeepsClearedTrue ==
  ASSUME ClearedMessageIsTrue, Next
  PROVE  ClearedMessageIsTrue'
<1> USE DEF ClearedMessageIsTrue
<1>1. ASSUME NEW i \in Operations, Begin(i) \/ BeginFails(i) \/ Succeed(i)
      PROVE  ClearedMessageIsTrue'
  BY <1>1 DEF Begin, BeginFails, Succeed
<1>2. ASSUME NEW i \in Operations, SucceedUnseen(i) \/ \E a \in Answers : Fail(i, a)
      PROVE  ClearedMessageIsTrue'
  BY <1>2 DEF SucceedUnseen, Fail
<1>3. CASE AcKey \/ OpenTemplate \/ EscapeInTemplate \/ Store \/ BaseN \/ Combination
  BY <1>3 DEF AcKey, OpenTemplate, EscapeInTemplate, Store, BaseN, Combination
<1>4. CASE SaveSetup \/ ClearHistory \/ ResetToDefaults \/ ResetMemory \/ InitializeAll \/ Convert
  BY <1>4 DEF SaveSetup, ClearHistory, ResetToDefaults, ResetMemory, InitializeAll,
     Convert, WindowAction
<1>5. CASE CloseWindow \/ Die \/ Launch
  BY <1>5 DEF CloseWindow, Die, Launch
<1> QED
  BY <1>1, <1>2, <1>3, <1>4, <1>5 DEF Next

\* While something runs, only a window changes the engine, and it says so.
LEMMA StepKeepsSnapshotCurrent ==
  ASSUME TypeOK, LockFollowsController, ClosedIsIdle, OnlyWindowsDisturb, Next
  PROVE  OnlyWindowsDisturb'
<1> USE DEF OnlyWindowsDisturb, LockFollowsController, ClosedIsIdle, Idle
<1>1. ASSUME UNCHANGED <<running, snapshot, ans, memory, history, disturbed>>
      PROVE  OnlyWindowsDisturb'
  BY <1>1 DEF Live
<1>2. ASSUME running' = None PROVE OnlyWindowsDisturb'
  BY <1>2
<1>3. ASSUME NEW i \in Operations, Begin(i) PROVE OnlyWindowsDisturb'
  BY <1>3 DEF Begin, Live, engineVars
<1>4. ASSUME NEW i \in Operations, BeginFails(i) PROVE OnlyWindowsDisturb'
  BY <1>1, <1>4 DEF BeginFails, Controller!Reject, serviceVars, engineVars, userVars
<1>5. ASSUME NEW i \in Operations,
             Succeed(i) \/ SucceedUnseen(i) \/ \E a \in Answers : Fail(i, a)
      PROVE  OnlyWindowsDisturb'
  BY <1>2, <1>5 DEF Succeed, SucceedUnseen, Fail, Controller!Complete
<1>6. CASE AcKey \/ CloseWindow \/ Die
  <2>1. Withdraw
    BY <1>6 DEF AcKey, CloseWindow, Die
  <2> QED
    BY <1>2, <2>1, WithdrawFacts
<1>7. CASE OpenTemplate \/ EscapeInTemplate \/ SaveSetup
  BY <1>1, <1>7 DEF OpenTemplate, EscapeInTemplate, SaveSetup, serviceVars, engineVars, userVars
<1>8. CASE Store \/ BaseN \/ Combination
  <2>1. running' = None
    BY <1>8 DEF Store, BaseN, Combination, KeyObeyed, serviceVars
  <2> QED
    BY <1>2, <2>1
<1>9. CASE ClearHistory \/ ResetToDefaults \/ ResetMemory \/ InitializeAll \/ Convert
  <2>1. disturbed' = running /\ running' = running
    BY <1>9 DEF ClearHistory, ResetToDefaults, ResetMemory, InitializeAll, Convert,
       WindowAction, serviceVars
  <2> QED
    BY <2>1
<1>10. CASE Launch
  <2>1. running' = None
    BY <1>10 DEF Launch, serviceVars
  <2> QED
    BY <1>2, <2>1
<1> QED
  BY <1>3, <1>4, <1>5, <1>6, <1>7, <1>8, <1>9, <1>10 DEF Next

-----------------------------------------------------------------------------
\* What is in the engine, the table or the snapshot was answered before.
LEMMA TracesAreEarlier ==
  ASSUME TypeOK, RunningIsLatest, NEW xs, xs \subseteq Tokens, Answered(xs)
  PROVE  ~Idle => \A j \in xs : j < running
<1> SUFFICES ASSUME ~Idle, NEW j \in xs PROVE j < running
  OBVIOUS
<1>1. CASE j = 0
  BY <1>1, BackgroundAssumption DEF TypeOK, Idle
<1>2. CASE j \in Operations
  BY <1>2, NoneFacts DEF Answered, RunningIsLatest
<1> QED
  BY <1>1, <1>2 DEF Tokens

\* An engine leaves traces of operations only.
LEMMA TracesAreTokens ==
  /\ \A h \in Histories : Recorded(h) \subseteq Tokens
  /\ \A e \in Engines : Traces(e) \subseteq Tokens
<1>1. ASSUME NEW h \in Histories, NEW k \in DOMAIN h PROVE h[k].op \in Tokens
  <2>1. h \in Seq(Entries) /\ k \in 1..Len(h)
    BY <1>1, HistoriesAreSequences
  <2>2. h[k] \in Entries
    BY <2>1
  <2> QED
    BY <2>2 DEF Entries
<1>2. \A h \in Histories : Recorded(h) \subseteq Tokens
  BY <1>1 DEF Recorded
<1> QED
  BY <1>2 DEF Traces, Engines

\* The answer "ok", once given, is not taken back.
LEMMA AnswersStay ==
  ASSUME TypeOK, LockFollowsController, RunningIsLatest, Next, NEW i \in Operations,
         result[i] = "ok"
  PROVE  result'[i] = "ok"
<1> USE DEF TypeOK, serviceVars
<1>1. i \in done
  BY NoneFacts DEF RunningIsLatest
<1>2. ASSUME NEW j \in Operations, NEW a \in Answers, Controller!Complete(j, a)
      PROVE  result'[i] = "ok"
  <2>1. i < j /\ i \in Nat
    BY <1>1, <1>2, NoneFacts, BackgroundAssumption DEF Controller!Complete, RunningIsLatest, Idle
  <2> QED
    BY <1>2, <2>1 DEF Controller!Complete
<1>3. ASSUME NEW j \in Operations,
             Succeed(j) \/ SucceedUnseen(j) \/ \E a \in Answers : Fail(j, a)
      PROVE  result'[i] = "ok"
  BY <1>2, <1>3 DEF Succeed, SucceedUnseen, Fail, Answers
<1>4. ASSUME UNCHANGED result PROVE result'[i] = "ok"
  BY <1>4
<1>5. ASSUME NEW j \in Operations, Begin(j) \/ BeginFails(j) PROVE UNCHANGED result
  BY <1>5 DEF Begin, BeginFails, Controller!Accept, Controller!Reject
<1>6. CASE AcKey \/ CloseWindow \/ Die
  BY <1>4, <1>6, WithdrawFacts DEF AcKey, CloseWindow, Die
<1>7. CASE OpenTemplate \/ EscapeInTemplate \/ Store \/ BaseN \/ Combination
  BY <1>4, <1>7 DEF OpenTemplate, EscapeInTemplate, Store, BaseN, Combination
<1>8. CASE SaveSetup \/ ClearHistory \/ ResetToDefaults \/ ResetMemory \/ InitializeAll \/ Convert
  BY <1>4, <1>8 DEF SaveSetup, ClearHistory, ResetToDefaults, ResetMemory, InitializeAll,
     Convert, WindowAction
<1>9. CASE Launch
  BY <1>4, <1>9 DEF Launch
<1> QED
  BY <1>3, <1>4, <1>5, <1>6, <1>7, <1>8, <1>9 DEF Next

\* A callback that computes nothing only copies, or erases, what there is.
LEMMA OthersOnlyCopy ==
  ASSUME TypeOK, LockFollowsController, Next, ~Combination,
         \A i \in Operations : ~Succeed(i) /\ ~SucceedUnseen(i)
  PROVE  /\ ans' \in {ans, 0}
         /\ memory' \in {memory, ans, 0}
         /\ history' \in {history, stored, <<>>}
         /\ stored' \in {stored, history, <<>>}
         /\ snapshot' \in {None, snapshot, Live}
<1> USE DEF serviceVars, engineVars, userVars, MaySave
<1>1. ASSUME NEW i \in Operations,
             Begin(i) \/ BeginFails(i) \/ \E a \in Answers : Fail(i, a)
      PROVE  UNCHANGED <<ans, memory, history, stored>> /\ snapshot' \in {None, snapshot, Live}
  BY <1>1 DEF Begin, BeginFails, Fail
<1>2. CASE AcKey \/ CloseWindow \/ Die
  <2>1. snapshot' = None
    BY <1>2, WithdrawFacts DEF AcKey, CloseWindow, Die
  <2> QED
    BY <1>2, <2>1 DEF AcKey, CloseWindow, Die
<1>3. CASE OpenTemplate \/ EscapeInTemplate \/ Store \/ BaseN
  BY <1>3 DEF OpenTemplate, EscapeInTemplate, Store, BaseN
<1>4. CASE SaveSetup \/ ClearHistory \/ ResetToDefaults
  BY <1>4 DEF SaveSetup, ClearHistory, ResetToDefaults, WindowAction
<1>5. CASE ResetMemory \/ InitializeAll \/ Convert
  BY <1>5 DEF ResetMemory, InitializeAll, Convert, WindowAction
<1>6. CASE Launch
  BY <1>6 DEF Launch
<1> QED
  BY <1>1, <1>2, <1>3, <1>4, <1>5, <1>6 DEF Next

\* Nothing unanswered reaches the engine, the table or a snapshot.
LEMMA StepKeepsGenuine ==
  ASSUME TypeOK, LockFollowsController, RunningIsLatest, EnginesAreGenuine, Next
  PROVE  EnginesAreGenuine'
<1> DEFINE Good(xs) == \A i \in Operations : i \in xs => result'[i] = "ok"
<1>1. \A i \in Operations : result[i] = "ok" => result'[i] = "ok"
  BY AnswersStay
<1>2. /\ Good(Traces(Live)) /\ Good(Recorded(stored))
      /\ snapshot # None => Good(Traces(snapshot))
  BY <1>1 DEF EnginesAreGenuine, Answered
<1>3. /\ Good({0}) /\ Good(Recorded(<<>>))
  BY NoneFacts, EmptyHistory
<1>4. Good(Recorded(history)) /\ Good({ans}) /\ Good({memory})
  BY <1>2 DEF Traces, Live
<1>5. SUFFICES /\ Good(Recorded(history')) /\ Good({ans'}) /\ Good({memory'})
               /\ Good(Recorded(stored'))
               /\ snapshot' # None => Good(Traces(snapshot'))
  BY DEF EnginesAreGenuine, Answered, Traces, Live
<1>6. ASSUME NEW i \in Operations, Succeed(i) \/ SucceedUnseen(i)
      PROVE  /\ Good(Recorded(history')) /\ Good({ans'}) /\ Good({memory'})
             /\ Good(Recorded(stored')) /\ snapshot' = None
  <2>1. /\ snapshot \in Engines /\ snapshot' = None
        /\ result' = [result EXCEPT ![i] = "ok"] /\ stored' \in {history', stored}
    BY <1>6, CommitIsPayload
  <2>2. PICK p \in Payloads(i, snapshot) : Apply(p)
    BY <1>6, CommitIsPayload
  <2>3. Traces(p) \subseteq Traces(snapshot) \cup {i}
    BY <2>1, PayloadFacts
  <2>4. result'[i] = "ok"
    BY <2>1 DEF TypeOK
  <2>5. Good(Traces(p))
    BY <1>2, <2>1, <2>3, <2>4, NoneFacts
  <2>6. Good(Recorded(history')) /\ Good({ans'}) /\ Good({memory'})
    BY <2>2, <2>5 DEF Apply, Traces
  <2> QED
    BY <1>2, <2>1, <2>6
<1>7. CASE Combination
  <2>1. /\ ans' = 0 /\ memory' = memory /\ snapshot' = snapshot
        /\ stored' \in {history', stored}
    BY <1>7 DEF Combination, MaySave
  <2>2. Recorded(history') \subseteq Recorded(history) \cup {0}
    BY <1>7, NewestHistory, BackgroundAssumption DEF Combination, TypeOK, Live, Engines, Tokens
  <2>3. Good(Recorded(history'))
    BY <1>3, <1>4, <2>2
  <2> QED
    BY <1>2, <1>3, <1>4, <2>1, <2>3
<1>8. CASE ~Combination /\ \A i \in Operations : ~Succeed(i) /\ ~SucceedUnseen(i)
  <2>1. /\ ans' \in {ans, 0} /\ memory' \in {memory, ans, 0}
        /\ history' \in {history, stored, <<>>} /\ stored' \in {stored, history, <<>>}
        /\ snapshot' \in {None, snapshot, Live}
    BY <1>8, OthersOnlyCopy
  <2> HIDE DEF Good
  <2> QED
    BY <1>2, <1>3, <1>4, <2>1
<1> QED
  BY <1>6, <1>7, <1>8

\* No commit, save or launch brings a history out of order.
LEMMA StepKeepsOrder ==
  ASSUME TypeOK, LockFollowsController, RunningIsLatest, EnginesAreGenuine,
         EnginesAreOrdered, Next
  PROVE  EnginesAreOrdered'
<1>1. SUFFICES /\ Ordered(history') /\ Ordered(stored')
               /\ snapshot' # None => Ordered(snapshot'.history)
  BY DEF EnginesAreOrdered, Ordered, InOrder, Chronological
<1>2. /\ Ordered(history) /\ Ordered(stored) /\ Ordered(<<>>)
      /\ snapshot # None => Ordered(snapshot.history)
  BY EmptyHistory DEF EnginesAreOrdered
<1>3. ASSUME NEW i \in Operations, Succeed(i) \/ SucceedUnseen(i)
      PROVE  Ordered(history') /\ Ordered(stored') /\ snapshot' = None
  <2>1. /\ running = i /\ snapshot \in Engines /\ snapshot' = None
        /\ stored' \in {history', stored}
    BY <1>3, CommitIsPayload
  <2>2. PICK p \in Payloads(i, snapshot) : Apply(p)
    BY <1>3, CommitIsPayload
  <2>3. \A j \in Traces(snapshot) : j < i
    BY <2>1, TracesAreEarlier, TracesAreTokens, NoneFacts DEF EnginesAreGenuine, Idle
  <2>4. \A j \in Recorded(snapshot.history) : j < i
    BY <2>3 DEF Traces
  <2>5. Ordered(p.history)
    BY <1>2, <2>1, <2>4, NoneFacts, PayloadFacts
  <2> QED
    BY <1>2, <2>1, <2>2, <2>5 DEF Apply
<1>4. CASE Combination
  <2>1. Ordered(history')
    BY <1>2, <1>4, NewestHistory, BackgroundAssumption DEF Combination, TypeOK, Live, Engines, Tokens
  <2> QED
    BY <1>2, <1>4, <2>1 DEF Combination, MaySave
<1>5. CASE ~Combination /\ \A i \in Operations : ~Succeed(i) /\ ~SucceedUnseen(i)
  <2>1. /\ history' \in {history, stored, <<>>} /\ stored' \in {stored, history, <<>>}
        /\ snapshot' \in {None, snapshot, Live}
    BY <1>5, OthersOnlyCopy
  <2>2. Live.history = history
    BY DEF Live
  <2> QED
    BY <1>2, <2>1, <2>2
<1> QED
  BY <1>3, <1>4, <1>5

-----------------------------------------------------------------------------
\* The invariant holds in every behaviour.
LEMMA InvariantHolds == Spec => []IInv
<1>1. Init => IInv
  <2> SUFFICES ASSUME Init PROVE IInv
    OBVIOUS
  <2> USE DEF Init, Controller!Init
  <2>1. TypeOK
    BY EmptyHistory DEF TypeOK, Live, Engines, Tokens
  <2>2. EnginesAreGenuine
    BY EmptyHistory, NoneFacts DEF EnginesAreGenuine, Answered, Traces, Live
  <2>3. EnginesAreOrdered
    BY EmptyHistory DEF EnginesAreOrdered
  <2> QED
    BY <2>1, <2>2, <2>3 DEF IInv, LockFollowsController, ClosedIsIdle, RunningIsLatest,
       ClearedMessageIsTrue, OnlyWindowsDisturb, Idle
<1>2. IInv /\ [Next]_vars => IInv'
  <2>1. ASSUME IInv, Next PROVE IInv'
    <3>1. TypeOK'
      BY <2>1, EnginesStayTyped, FlagsStayTyped DEF IInv, TypeOK, FlagTypes
    <3>2. LockFollowsController' /\ ClosedIsIdle' /\ RunningIsLatest'
      BY <2>1, StepKeepsControl DEF IInv
    <3>3. ClearedMessageIsTrue' /\ OnlyWindowsDisturb'
      BY <2>1, StepKeepsClearedTrue, StepKeepsSnapshotCurrent DEF IInv
    <3>4. EnginesAreGenuine' /\ EnginesAreOrdered'
      BY <2>1, StepKeepsGenuine, StepKeepsOrder DEF IInv
    <3> QED
      BY <3>1, <3>2, <3>3, <3>4 DEF IInv
  <2>2. ASSUME IInv, UNCHANGED vars PROVE IInv'
    BY <2>2 DEF vars, serviceVars, engineVars, userVars, IInv, TypeOK, LockFollowsController,
       ClosedIsIdle, RunningIsLatest, EnginesAreGenuine, EnginesAreOrdered,
       ClearedMessageIsTrue, OnlyWindowsDisturb, Idle, Live, Answered
  <2> QED
    BY <2>1, <2>2
<1> QED
  BY <1>1, <1>2, PTL DEF Spec

\* Every variable keeps its type: no history grows past the limit, whichever commits,
\* trims and launches produced it (CalculationSession.apply_success, _commit_outcome).
THEOREM TypeCorrect == Spec => []TypeOK
<1>1. IInv => TypeOK
  BY DEF IInv
<1> QED
  BY <1>1, InvariantHolds, PTL

\* Ans, memory, history, table and snapshot hold nothing of an operation that was not
\* answered "ok" (USER_GUIDE.md on timed-out and cancelled results).
THEOREM OnlySuccessesAreKept == Spec => []OnlySuccessesRecorded
<1>1. IInv => OnlySuccessesRecorded
  BY DEF IInv, EnginesAreGenuine, Answered, Traces, Live, OnlySuccessesRecorded
<1> QED
  BY <1>1, InvariantHolds, PTL

\* Commits that replace the live history by a worker's copy never duplicate, reorder or
\* tear what one calculation recorded (apply_success after _commit_outcome).
THEOREM HistoriesStayInOrder == Spec => []HistoryInOrder
<1>1. IInv => HistoryInOrder
  BY DEF IInv, EnginesAreOrdered, Ordered, HistoryInOrder
<1> QED
  BY <1>1, InvariantHolds, PTL

\* _calculation_busy and controller.busy agree after every callback.
THEOREM LockIsTheController == Spec => []LockFollowsController
<1>1. IInv => LockFollowsController
  BY DEF IInv
<1> QED
  BY <1>1, InvariantHolds, PTL

\* "History cleared" is not left on the display by anything that writes the table.
THEOREM ClearedIsCleared == Spec => []ClearedMessageIsTrue
<1>1. IInv => ClearedMessageIsTrue
  BY DEF IInv
<1> QED
  BY <1>1, InvariantHolds, PTL

\* No key gets through the input lock and changes the engine under a calculation.
THEOREM CommitsOverwriteOnlyWindows == Spec => []OnlyWindowsDisturb
<1>1. IInv => OnlyWindowsDisturb
  BY DEF IInv
<1> QED
  BY <1>1, InvariantHolds, PTL
=============================================================================
