--------------------------- MODULE PoolRoundsProofs ---------------------------
(***************************************************************************)
(* Theorems about the connection pool and its program, for any number of   *)
(* workers, connections, rounds, requests and breaks.  What the pool       *)
(* promises to any user is proved of ConnectionPool's steps, and every     *)
(* step of PoolRounds is one of these.                                     *)
(***************************************************************************)
EXTENDS PoolRounds, FiniteSetTheorems, TLAPS

--------------------------------------------------------------------------------
(* Sequences                                                                  *)

LEMMA SetToSeqFacts ==
    ASSUME NEW S, IsFiniteSet(S)
    PROVE  SetToSeq(S) \in Seq(S) /\ IsInjective(SetToSeq(S)) /\ Range(SetToSeq(S)) = S
<1> DEFINE n == Cardinality(S)
<1>1. n \in Nat /\ ExistsBijection(1..n, S)
  BY FS_CardinalityType
<1>2. PICK f \in [1..n -> S] : IsInjective(f)
  BY <1>1 DEF ExistsBijection, Bijection, Injection
<1>3. SetToSeq(S) \in [1..n -> S] /\ IsInjective(SetToSeq(S))
  BY <1>2 DEF SetToSeq
<1>4. PICK g : g = SetToSeq(S)
  OBVIOUS
<1>5. g \in Injection(1..n, S)
  BY <1>3, <1>4 DEF Injection
<1>6. Cardinality(1..n) = Cardinality(S)
  BY <1>1, FS_Interval
<1>7. g \in Surjection(1..n, S)
  BY <1>5, <1>6, FS_Injection
<1>8. Range(g) = S
  BY <1>7 DEF Surjection, Range
<1>9. g \in Seq(S)
  BY <1>1, <1>3, <1>4
<1> QED
  BY <1>3, <1>4, <1>8, <1>9

LEMMA AppendFacts ==
    ASSUME NEW S, NEW s \in Seq(S), NEW x \in S
    PROVE  /\ Append(s, x) \in Seq(S)
           /\ Range(Append(s, x)) = Range(s) \cup {x}
           /\ IsInjective(s) /\ x \notin Range(s) => IsInjective(Append(s, x))
<1>1. /\ Append(s, x) \in Seq(S) /\ Len(s) \in Nat
      /\ DOMAIN s = 1..Len(s) /\ DOMAIN Append(s, x) = 1..(Len(s) + 1)
      /\ Append(s, x)[Len(s) + 1] = x
      /\ \A i \in 1..Len(s) : Append(s, x)[i] = s[i]
  OBVIOUS
<1>2. Range(Append(s, x)) = Range(s) \cup {x}
  BY <1>1 DEF Range
<1>3. ASSUME IsInjective(s), x \notin Range(s) PROVE IsInjective(Append(s, x))
  BY <1>1, <1>3 DEF Range, IsInjective
<1> QED
  BY <1>1, <1>2, <1>3

LEMMA TailFacts ==
    ASSUME NEW S, NEW s \in Seq(S), s # <<>>
    PROVE  /\ Head(s) \in S /\ Tail(s) \in Seq(S)
           /\ Range(s) = Range(Tail(s)) \cup {Head(s)}
           /\ IsInjective(s) => IsInjective(Tail(s)) /\ Head(s) \notin Range(Tail(s))
<1>1. /\ Len(s) \in Nat \ {0} /\ DOMAIN s = 1..Len(s)
      /\ Tail(s) \in Seq(S) /\ DOMAIN Tail(s) = 1..(Len(s) - 1)
      /\ Head(s) = s[1] /\ \A i \in 1..(Len(s) - 1) : Tail(s)[i] = s[i + 1]
      /\ Head(s) \in S
  OBVIOUS
<1>2. Range(s) = Range(Tail(s)) \cup {Head(s)}
  <2>1. ASSUME NEW i \in 1..Len(s) PROVE s[i] = Head(s) \/ s[i] \in Range(Tail(s))
    <3>1. CASE i = 1
      BY <1>1, <3>1
    <3>2. CASE i # 1
      <4>1. i - 1 \in 1..(Len(s) - 1) /\ Tail(s)[i - 1] = s[i]
        BY <1>1, <3>2
      <4> QED
        BY <4>1, <1>1 DEF Range
    <3> QED
      BY <3>1, <3>2
  <2>2. ASSUME NEW i \in 1..(Len(s) - 1) PROVE Tail(s)[i] \in Range(s)
    BY <1>1 DEF Range
  <2>3. Head(s) \in Range(s)
    BY <1>1 DEF Range
  <2> QED
    BY <2>1, <2>2, <2>3, <1>1 DEF Range
<1>3. ASSUME IsInjective(s) PROVE IsInjective(Tail(s)) /\ Head(s) \notin Range(Tail(s))
  BY <1>1, <1>3 DEF Range, IsInjective
<1> QED
  BY <1>1, <1>2, <1>3

--------------------------------------------------------------------------------
(* Types                                                                      *)

LEMMA Update == ASSUME NEW S, NEW T, NEW f \in [S -> T], NEW x, NEW v \in T
                PROVE  [f EXCEPT ![x] = v] \in [S -> T]
OBVIOUS

\* A worker that has a connection, and only such a worker, is between Receive
\* and the end of Return; only there it has a result.
HoldsIts ==
    \A w \in Workers :
       /\ conn[w] # none <=> pc[w] \in {"clear", "done", "once", "send", "wait", "read", "return", "push"}
       /\ success[w] => pc[w] = "return"

Typing == TypeOK /\ HoldsIts

LEMMA TypingInit == Init => Typing
<1> SUFFICES ASSUME Init PROVE Typing
  OBVIOUS
<1> USE PoolAssumption DEF Init, none
<1>1. /\ available \in Seq(Connections) /\ all \subseteq Connections
      /\ Fresh \in Collectors
  BY DEF Fresh, Collectors
<1>2. /\ queue \in [Connections -> Seq(Frames)] /\ pending \in [Connections -> Seq(1..MaxReqs)]
      /\ collector \in [Connections -> Collectors]
      /\ session \in [Connections -> BOOLEAN] /\ stage \in [Connections -> [Callers -> Stages]]
      /\ reader \in [Connections -> {"run", "closing", "ended", "silent"}]
      /\ sent \in [Connections -> 0..MaxFrames]
  BY <1>1 DEF Stages
<1>3. /\ pc \in [Workers -> PCs] /\ conn \in [Workers -> Connections \cup {none}]
      /\ req \in [Workers -> 0..MaxReqs] /\ reqs \in 0..MaxReqs
      /\ success \in [Workers -> BOOLEAN]
  BY DEF PCs
<1>4. HoldsIts
  BY DEF HoldsIts
<1> QED
  BY <1>1, <1>2, <1>3, <1>4 DEF Typing, TypeOK

LEMMA Fields ==
    ASSUME NEW col \in Collectors
    PROVE  /\ col.frames \in Seq(0..MaxReqs) /\ col.last \in BOOLEAN /\ col.err \in BOOLEAN
           /\ col.done \in {"open", "closed"} /\ col.once \in {"fresh", "spent"} /\ col.lock \in BOOLEAN
           /\ col = [frames |-> col.frames, last |-> col.last, err |-> col.err,
                     done |-> col.done, once |-> col.once, lock |-> col.lock]
BY DEF Collectors

\* TypeOK in parts.
PoolType ==
    /\ available \in Seq(Connections) /\ channel \in {"open", "closed"}
    /\ pool \in {"new", "ready", "closing", "draining", "closed"} /\ all \subseteq Connections
CollectorType == collector \in [Connections -> Collectors]
SessionType ==
    /\ queue \in [Connections -> Seq(Frames)]
    /\ session \in [Connections -> BOOLEAN] /\ stage \in [Connections -> [Callers -> Stages]]
    /\ reader \in [Connections -> {"run", "closing", "ended", "silent"}]
    /\ pending \in [Connections -> Seq(1..MaxReqs)] /\ sent \in [Connections -> 0..MaxFrames]
WorkerType ==
    /\ pc \in [Workers -> PCs] /\ conn \in [Workers -> Connections \cup {none}]
    /\ reqs \in 0..MaxReqs /\ req \in [Workers -> 0..MaxReqs]
    /\ success \in [Workers -> BOOLEAN]
HistoryType ==
    /\ cancelled \subseteq Connections /\ rushed \in BOOLEAN
    /\ panicked \in {"no", "close of closed", "unlock of unlocked", "send on closed", "nil connection"}

LEMMA Parts == TypeOK <=> PoolType /\ CollectorType /\ SessionType /\ WorkerType /\ HistoryType
BY DEF TypeOK, PoolType, CollectorType, SessionType, WorkerType, HistoryType

LEMMA PartsNext ==
    TypeOK' <=> PoolType' /\ CollectorType' /\ SessionType' /\ WorkerType' /\ HistoryType'
BY DEF TypeOK, PoolType, CollectorType, SessionType, WorkerType, HistoryType

\* What a worker works on is a connection.
LEMMA HasConn ==
    ASSUME Typing, NEW w \in Workers,
           pc[w] \in {"clear", "done", "once", "send", "wait", "read", "return", "push"}
    PROVE  conn[w] \in Connections
BY DEF Typing, TypeOK, HoldsIts

LEMMA ClosedType ==
    ASSUME SessionType, NEW c \in Connections, NEW k \in Callers, SessionClose(c, k)
    PROVE  session' \in [Connections -> BOOLEAN] /\ stage' \in [Connections -> [Callers -> Stages]]
<1>1. [stage[c] EXCEPT ![k] = "begin"] \in [Callers -> Stages]
  BY DEF SessionType, Stages, Finishes
<1>2. stage' \in [Connections -> [Callers -> Stages]]
  BY <1>1 DEF SessionClose, SessionType
<1>3. session' \in [Connections -> BOOLEAN]
  BY DEF SessionClose, SessionType
<1> QED
  BY <1>2, <1>3

LEMMA Working == {"idle", "borrow", "clear", "done", "once", "send", "wait", "read", "return", "push"} = PCs
BY DEF PCs

--------------------------------------------------------------------------------
(* Callbacks                                                                  *)

LEMMA Staged ==
    ASSUME Typing, NEW c \in Connections, NEW k \in Callers, NEW from, NEW to \in Stages,
           Stage(c, k, from, to)
    PROVE  /\ stage[c][k] = from /\ stage'[c][k] = to
           /\ stage' \in [Connections -> [Callers -> Stages]]
           /\ \A d \in Connections : d # c => stage'[d] = stage[d]
           /\ \A j \in Callers : j # k => stage'[c][j] = stage[c][j]
           /\ Running
BY DEF Stage, Typing, TypeOK

\* What a step of the callback that k runs does to its collector.
Did(c, k) ==
    LET col == collector[c]  next == collector'[c]  from == stage[c][k]  to == stage'[c][k] IN
    /\ next.frames = col.frames /\ next.last = col.last
    /\ \/ /\ from \in {"set", "fail"} /\ to = "do"
          /\ next.err /\ next.done = col.done /\ next.once = col.once /\ next.lock = col.lock
          /\ UNCHANGED panicked
       \/ /\ from \in {"begin", "ask"} /\ to \in {"ask", "fail", "do"}
          /\ to = "do" => col.last \/ col.err
          /\ next = col /\ UNCHANGED panicked
       \/ /\ from = "do" /\ to = "none" /\ col.once = "spent"
          /\ next = col /\ UNCHANGED panicked
       \/ /\ from = "do" /\ to = "close"
          /\ next.err = col.err /\ next.done = col.done
          /\ UNCHANGED panicked
       \/ /\ from = "close" /\ to = "release"
          /\ next.err = col.err /\ next.once = col.once /\ next.lock = col.lock
          /\ next.done = "closed"
          /\ panicked' \in {panicked, "close of closed"}
       \/ /\ from = "release" /\ to = "none"
          /\ next.err = col.err /\ next.done = col.done
          /\ next # col => col.lock
          /\ panicked' \in {panicked, "unlock of unlocked"}

\* The fields of a collector after each assignment of a callback.
LEMMA Assigned ==
    ASSUME NEW col \in Collectors
    PROVE  /\ LET n == [col EXCEPT !.err = TRUE] IN
                n \in Collectors /\ n.err /\ n.frames = col.frames /\ n.last = col.last
                /\ n.done = col.done /\ n.once = col.once /\ n.lock = col.lock
           /\ LET n == [col EXCEPT !.lock = TRUE] IN
                n \in Collectors /\ n.err = col.err /\ n.frames = col.frames /\ n.last = col.last
                /\ n.done = col.done /\ n.once = col.once
           /\ LET n == [col EXCEPT !.done = "closed"] IN
                n \in Collectors /\ n.err = col.err /\ n.frames = col.frames /\ n.last = col.last
                /\ n.done = "closed" /\ n.once = col.once /\ n.lock = col.lock
           /\ LET n == [col EXCEPT !.once = "spent", !.lock = FALSE] IN
                n \in Collectors /\ n.err = col.err /\ n.frames = col.frames /\ n.last = col.last
                /\ n.done = col.done
BY DEF Collectors

\* A callback that runs: who runs it, and all that it may change.
LEMMA CallbackFacts ==
    ASSUME Typing, NEW c \in Connections, Callback(c)
    PROVE  /\ Running /\ UNCHANGED <<pools, queue, session, reader, pending, sent, workers, history>>
           /\ stage' \in [Connections -> [Callers -> Stages]]
           /\ collector' \in [Connections -> Collectors]
           /\ \A d \in Connections : d # c => stage'[d] = stage[d] /\ collector'[d] = collector[d]
           /\ panicked' \in {"no", "close of closed", "unlock of unlocked"}
           /\ \E k \in Callers : Did(c, k) /\ \A j \in Callers : j # k => stage'[c][j] = stage[c][j]
<1> DEFINE col == collector[c]
           Goal(k) == /\ Running /\ stage' \in [Connections -> [Callers -> Stages]]
                      /\ collector' \in [Connections -> Collectors]
                      /\ \A d \in Connections : d # c => stage'[d] = stage[d] /\ collector'[d] = collector[d]
                      /\ panicked' \in {"no", "close of closed", "unlock of unlocked"}
                      /\ Did(c, k) /\ \A j \in Callers : j # k => stage'[c][j] = stage[c][j]
<1>0. /\ collector \in [Connections -> Collectors] /\ col \in Collectors
      /\ {"none", "release", "set", "begin", "ask", "fail", "do", "close"} = Stages
  BY DEF Typing, TypeOK, Stages, Finishes
<1>1. UNCHANGED <<pools, queue, session, reader, pending, sent, workers, history>>
  BY DEF Callback, ByCallback, OnErrorSets, OnCloseRuns, OnCloseAsks, FinishSets, FinishDone, Finish,
     FinishCloses, FinishUnlocks
<1>9. ASSUME NEW k \in Callers, NEW from, NEW to \in Stages, Stage(c, k, from, to),
             NEW next \in Collectors, collector' = [collector EXCEPT ![c] = next],
             panicked' \in {"no", "close of closed", "unlock of unlocked"}
      PROVE  /\ collector'[c] = next /\ stage[c][k] = from /\ stage'[c][k] = to /\ panicked = "no"
             /\ Did(c, k) => Goal(k)
  <2>1. /\ collector'[c] = next /\ collector' \in [Connections -> Collectors]
        /\ \A d \in Connections : d # c => collector'[d] = collector[d]
    BY <1>0, <1>9
  <2>2. /\ stage[c][k] = from /\ stage'[c][k] = to /\ stage' \in [Connections -> [Callers -> Stages]]
        /\ \A d \in Connections : d # c => stage'[d] = stage[d]
        /\ \A j \in Callers : j # k => stage'[c][j] = stage[c][j]
        /\ Running
    <3>1. Typing /\ Stage(c, k, from, to) /\ to \in Stages
      BY <1>9
    <3> QED
      BY <3>1, Staged
  <2> QED
    BY <1>9, <2>1, <2>2 DEF Running
<1> HIDE DEF Goal
<1>2. ASSUME NEW k \in Callers, NEW from \in {"set", "fail"}, Stage(c, k, from, "do"),
             collector' = [collector EXCEPT ![c].err = TRUE], UNCHANGED panicked
      PROVE  Goal(k)
  <2>1. PICK next \in Collectors :
           /\ next = [col EXCEPT !.err = TRUE] /\ next.err /\ next.frames = col.frames
           /\ next.last = col.last /\ next.done = col.done /\ next.once = col.once /\ next.lock = col.lock
    BY <1>0, Assigned
  <2>2. collector' = [collector EXCEPT ![c] = next]
    BY <1>0, <1>2, <2>1
  <2>3. panicked = "no" /\ "do" \in Stages
    BY <1>0, <1>2 DEF Stage, Running
  <2>4. collector'[c] = next /\ stage[c][k] = from /\ stage'[c][k] = "do" /\ (Did(c, k) => Goal(k))
    BY <1>2, <1>9, <2>2, <2>3
  <2>5. Did(c, k)
    BY <1>2, <2>1, <2>4 DEF Did
  <2> QED
    BY <2>4, <2>5
<1>3. ASSUME NEW k \in Callers, OnCloseRuns(c, k) \/ OnCloseAsks(c, k) PROVE Goal(k)
  <2>1. PICK from \in {"begin", "ask"}, to \in {"ask", "fail", "do"} :
           /\ Stage(c, k, from, to) /\ UNCHANGED <<collector, panicked>>
           /\ to = "do" => col.last \/ col.err
    BY <1>3 DEF OnCloseRuns, OnCloseAsks
  <2>2. /\ collector' = [collector EXCEPT ![c] = col] /\ to \in Stages
        /\ panicked' \in {"no", "close of closed", "unlock of unlocked"}
    BY <1>0, <2>1 DEF Stage, Running
  <2>3. collector'[c] = col /\ stage[c][k] = from /\ stage'[c][k] = to /\ (Did(c, k) => Goal(k))
    <3>1. PICK next \in Collectors : next = col
      BY <1>0
    <3> QED
      BY <1>9, <2>1, <2>2, <3>1
  <2> HIDE DEF col
  <2>4. collector'[c].frames = col.frames /\ collector'[c].last = col.last /\ UNCHANGED panicked
    BY <2>1, <2>3
  <2>5. Did(c, k)
    BY <2>1, <2>3, <2>4 DEF Did, col
  <2> QED
    BY <2>3, <2>5
<1>4. ASSUME NEW k \in Callers, FinishDone(c, k) PROVE Goal(k)
  <2>1. Stage(c, k, "do", "none") /\ UNCHANGED <<collector, panicked>> /\ col.once = "spent"
    BY <1>4 DEF FinishDone
  <2>2. /\ collector' = [collector EXCEPT ![c] = col] /\ "none" \in Stages
        /\ panicked' \in {"no", "close of closed", "unlock of unlocked"}
    BY <1>0, <2>1 DEF Stage, Running
  <2>3. collector'[c] = col /\ stage[c][k] = "do" /\ stage'[c][k] = "none" /\ (Did(c, k) => Goal(k))
    <3>1. PICK next \in Collectors : next = col
      BY <1>0
    <3> QED
      BY <1>9, <2>1, <2>2, <3>1
  <2>4. UNCHANGED panicked /\ collector[c].once = "spent"
    BY <2>1
  <2>5. Did(c, k)
    BY <2>3, <2>4 DEF Did
  <2> QED
    BY <2>3, <2>5
<1>5. ASSUME NEW k \in Callers, Finish(c, k) PROVE Goal(k)
  <2>1. /\ Stage(c, k, "do", "close") /\ UNCHANGED panicked
        /\ collector' = [collector EXCEPT ![c].lock = TRUE]
    BY <1>5 DEF Finish
  <2>2. PICK next \in Collectors :
           /\ next = [col EXCEPT !.lock = TRUE] /\ next.err = col.err /\ next.frames = col.frames
           /\ next.last = col.last /\ next.done = col.done
    BY <1>0, Assigned
  <2>3. collector' = [collector EXCEPT ![c] = next] /\ panicked = "no" /\ "close" \in Stages
    BY <1>0, <2>1, <2>2 DEF Stage, Running
  <2>4. collector'[c] = next /\ stage[c][k] = "do" /\ stage'[c][k] = "close" /\ (Did(c, k) => Goal(k))
    BY <1>9, <2>1, <2>3
  <2>5. Did(c, k)
    BY <2>1, <2>2, <2>4 DEF Did
  <2> QED
    BY <2>4, <2>5
<1>6. ASSUME NEW k \in Callers, FinishCloses(c, k) PROVE Goal(k)
  <2>1. PICK next \in Collectors :
           /\ next.err = col.err /\ next.frames = col.frames /\ next.last = col.last
           /\ next.once = col.once /\ next.lock = col.lock /\ next.done = "closed"
           /\ collector' = [collector EXCEPT ![c] = next]
           /\ panicked' \in {panicked, "close of closed"}
    <3>1. CASE col.done = "closed"
      <4>1. UNCHANGED collector /\ panicked' = "close of closed"
        BY <1>6, <3>1 DEF FinishCloses, Panic
      <4>2. collector' = [collector EXCEPT ![c] = col]
        BY <1>0, <4>1
      <4> QED
        BY <1>0, <3>1, <4>1, <4>2
    <3>2. CASE col.done # "closed"
      <4>1. UNCHANGED panicked /\ collector' = [collector EXCEPT ![c].done = "closed"]
        BY <1>6, <3>2 DEF FinishCloses
      <4>2. PICK next \in Collectors :
               /\ next = [col EXCEPT !.done = "closed"] /\ next.err = col.err /\ next.frames = col.frames
               /\ next.last = col.last /\ next.once = col.once /\ next.lock = col.lock /\ next.done = "closed"
        BY <1>0, Assigned
      <4>3. collector' = [collector EXCEPT ![c] = next]
        BY <1>0, <4>1, <4>2
      <4> QED
        BY <4>1, <4>2, <4>3
    <3> QED
      BY <3>1, <3>2
  <2>2. Stage(c, k, "close", "release") /\ panicked = "no" /\ "release" \in Stages
    BY <1>0, <1>6 DEF FinishCloses, Stage, Running
  <2>3. collector'[c] = next /\ stage[c][k] = "close" /\ stage'[c][k] = "release" /\ (Did(c, k) => Goal(k))
    BY <1>9, <2>1, <2>2
  <2>4. Did(c, k)
    BY <2>1, <2>3 DEF Did
  <2> QED
    BY <2>3, <2>4
<1>7. ASSUME NEW k \in Callers, FinishUnlocks(c, k) PROVE Goal(k)
  <2>1. PICK next \in Collectors :
           /\ next.err = col.err /\ next.frames = col.frames /\ next.last = col.last
           /\ next.done = col.done /\ (next # col => col.lock)
           /\ collector' = [collector EXCEPT ![c] = next]
           /\ panicked' \in {panicked, "unlock of unlocked"}
    <3>1. CASE ~col.lock
      <4>1. UNCHANGED collector /\ panicked' = "unlock of unlocked"
        BY <1>7, <3>1 DEF FinishUnlocks, Panic
      <4>2. collector' = [collector EXCEPT ![c] = col]
        BY <1>0, <4>1
      <4> QED
        BY <1>0, <4>1, <4>2
    <3>2. CASE col.lock
      <4>1. /\ UNCHANGED panicked
            /\ collector' = [collector EXCEPT ![c].once = "spent", ![c].lock = FALSE]
        BY <1>7, <3>2 DEF FinishUnlocks
      <4>2. PICK next \in Collectors :
               /\ next = [col EXCEPT !.once = "spent", !.lock = FALSE] /\ next.err = col.err
               /\ next.frames = col.frames /\ next.last = col.last /\ next.done = col.done
        BY <1>0, Assigned
      <4>3. collector' = [collector EXCEPT ![c] = next]
        BY <1>0, <4>1, <4>2
      <4> QED
        BY <3>2, <4>1, <4>2, <4>3
    <3> QED
      BY <3>1, <3>2
  <2>2. Stage(c, k, "release", "none") /\ panicked = "no" /\ "none" \in Stages
    BY <1>0, <1>7 DEF FinishUnlocks, Stage, Running
  <2>3. collector'[c] = next /\ stage[c][k] = "release" /\ stage'[c][k] = "none" /\ (Did(c, k) => Goal(k))
    BY <1>9, <2>1, <2>2
  <2>4. Did(c, k)
    BY <2>1, <2>3 DEF Did
  <2> QED
    BY <2>3, <2>4
<1>8. \E k \in Callers : Goal(k)
  <2>1. ASSUME OnErrorSets(c) PROVE Goal("dispatcher")
    <3>1. "dispatcher" \in Callers
      BY DEF Callers
    <3> QED
      BY <1>2, <2>1, <3>1 DEF OnErrorSets
  <2>2. ASSUME NEW k \in Callers, FinishSets(c, k) PROVE Goal(k)
    BY <1>2, <2>2 DEF FinishSets
  <2>3. "dispatcher" \in Callers
    BY DEF Callers
  <2> QED
    BY <2>1, <2>2, <2>3, <1>3, <1>4, <1>5, <1>6, <1>7 DEF Callback
<1> QED
  BY <1>1, <1>8 DEF Goal

\* The dispatcher takes the next callback of c.
LEMMA DeliverFacts ==
    ASSUME Typing, NEW c \in Connections, Deliver(c)
    PROVE  /\ Running /\ UNCHANGED <<pools, session, reader, pending, sent, workers, history, panicked>>
           /\ queue[c] # <<>> /\ queue' = [queue EXCEPT ![c] = Tail(@)] /\ Head(queue[c]) \in Frames
           /\ queue' \in [Connections -> Seq(Frames)]
           /\ stage' \in [Connections -> [Callers -> Stages]]
           /\ collector' \in [Connections -> Collectors]
           /\ \A d \in Connections : d # c => stage'[d] = stage[d] /\ collector'[d] = collector[d]
           /\ \A j \in Callers : j # "dispatcher" => stage'[c][j] = stage[c][j]
           /\ stage[c]["dispatcher"] = "none"
           /\ LET f == Head(queue[c])  col == collector[c]  next == collector'[c] IN
                 \/ /\ f.kind = "frame" /\ stage'[c]["dispatcher"] = IF f.last THEN "do" ELSE "none"
                    /\ next.frames = Append(col.frames, f.req) /\ next.last = (col.last \/ f.last)
                    /\ next.err = col.err /\ next.done = col.done /\ next.once = col.once /\ next.lock = col.lock
                 \/ /\ f.kind = "error" /\ stage'[c]["dispatcher"] \in {"do", "set"} /\ next = col
                    /\ stage'[c]["dispatcher"] = "do" => col.err
<1> DEFINE f == Head(queue[c])
           col == collector[c]
<1>1. /\ Running /\ UNCHANGED <<pools, session, reader, pending, sent, workers, history, panicked>>
      /\ queue[c] # <<>> /\ queue' = [queue EXCEPT ![c] = Tail(@)]
      /\ queue \in [Connections -> Seq(Frames)] /\ collector \in [Connections -> Collectors] /\ col \in Collectors
  BY DEF Deliver, Stage, Typing, TypeOK
<1>2. f \in Frames /\ queue' \in [Connections -> Seq(Frames)] /\ "dispatcher" \in Callers
  BY <1>1 DEF Callers
<1>3. CASE f.kind = "frame"
  <2> DEFINE kept == [col EXCEPT !.frames = Append(@, f.req), !.last = @ \/ f.last]
  <2>1. PICK to \in Stages : to = (IF f.last THEN "do" ELSE "none") /\ Stage(c, "dispatcher", "none", to)
    BY <1>3 DEF Deliver, Stages, Finishes
  <2>2. f.req \in 0..MaxReqs /\ f.last \in BOOLEAN
    BY <1>2 DEF Frames
  <2>3. /\ kept \in Collectors /\ kept.frames = Append(col.frames, f.req) /\ kept.last = (col.last \/ f.last)
        /\ kept.err = col.err /\ kept.done = col.done /\ kept.once = col.once /\ kept.lock = col.lock
    <3>1. PICK s \in Seq(0..MaxReqs), b \in BOOLEAN : s = Append(col.frames, f.req) /\ b = (col.last \/ f.last)
      <4>1. Append(col.frames, f.req) \in Seq(0..MaxReqs)
        BY <1>1, <2>2 DEF Collectors
      <4>2. (col.last \/ f.last) \in BOOLEAN
        OBVIOUS
      <4> QED
        BY <4>1, <4>2
    <3>2. kept = [col EXCEPT !.frames = s, !.last = b]
      BY <3>1
    <3>3. LET n == [col EXCEPT !.frames = s, !.last = b] IN
             n \in Collectors /\ n.frames = s /\ n.last = b /\ n.err = col.err /\ n.done = col.done
             /\ n.once = col.once /\ n.lock = col.lock
      BY <1>1 DEF Collectors
    <3> QED
      BY <3>1, <3>2, <3>3
  <2>4. collector' = [collector EXCEPT ![c] = kept]
    BY <1>1, <1>3 DEF Deliver
  <2>5. collector'[c] = kept /\ \A d \in Connections : d # c => collector'[d] = collector[d]
    BY <1>1, <2>4
  <2> HIDE DEF kept
  <2>6. collector' \in [Connections -> Collectors]
    BY <1>1, <2>3, <2>4
  <2> QED
    BY <1>1, <1>2, <1>3, <2>1, <2>3, <2>5, <2>6, Staged
<1>4. CASE f.kind # "frame"
  <2>1. PICK to \in {"do", "set"} : /\ Stage(c, "dispatcher", "none", to) /\ UNCHANGED collector
                                   /\ f.kind = "error" /\ (to = "do" => col.err)
    BY <1>4 DEF Deliver
  <2>2. to \in Stages
    BY <2>1 DEF Stages, Finishes
  <2> QED
    BY <1>1, <1>2, <2>1, <2>2, Staged
<1> QED
  BY <1>3, <1>4

--------------------------------------------------------------------------------
(* Types of the steps                                                         *)

LEMMA PoolStep == Typing /\ [Next]_vars => PoolType'
<1> SUFFICES ASSUME Typing, [Next]_vars PROVE PoolType'
  OBVIOUS
<1>0. PoolType /\ CollectorType /\ SessionType /\ WorkerType /\ HistoryType
  BY Parts DEF Typing
<1> USE <1>0, PoolAssumption DEF PoolType, pools
<1>1. CASE Initialize
  <2>1. PICK made \in SUBSET Connections : all' = made /\ available' = SetToSeq(made)
    BY <1>1 DEF Initialize
  <2>2. IsFiniteSet(made)
    BY <2>1, FS_Subset
  <2>3. SetToSeq(made) \in Seq(made)
    BY <2>2, SetToSeqFacts
  <2>4. available' \in Seq(Connections)
    BY <2>1, <2>3
  <2> QED
    BY <1>1, <2>1, <2>4 DEF Initialize
<1>2. CASE StartClose
  BY <1>2 DEF StartClose
<1>3. CASE CloseConnection
  BY <1>3 DEF CloseConnection
<1>4. CASE CloseChannel
  BY <1>4 DEF CloseChannel
<1>5. CASE Drain
  BY <1>5 DEF Drain
<1>6. ASSUME NEW w \in Workers, Borrow(w) PROVE PoolType'
  BY <1>6 DEF Borrow
<1>7. ASSUME NEW w \in Workers, Receive(w) PROVE PoolType'
  BY <1>7 DEF Receive
<1>8. ASSUME NEW w \in Workers, ReceiveNil(w) PROVE PoolType'
  BY <1>8 DEF ReceiveNil
<1>9. ASSUME NEW w \in Workers, BorrowTimeout(w) PROVE PoolType'
  BY <1>9 DEF BorrowTimeout
<1>10. ASSUME NEW w \in Workers, Reset1(w) PROVE PoolType'
  BY <1>10 DEF Reset1
<1>11. ASSUME NEW w \in Workers, Reset2(w) PROVE PoolType'
  BY <1>11 DEF Reset2
<1>12. ASSUME NEW w \in Workers, Reset3(w) PROVE PoolType'
  BY <1>12 DEF Reset3
<1>13. ASSUME NEW w \in Workers, SendAudio(w) PROVE PoolType'
  BY <1>13 DEF SendAudio
<1>14. ASSUME NEW w \in Workers, SendFails(w) PROVE PoolType'
  BY <1>14 DEF SendFails
<1>15. ASSUME NEW w \in Workers, Wait(w) PROVE PoolType'
  BY <1>15 DEF Wait
<1>16. ASSUME NEW w \in Workers, Return(w) PROVE PoolType'
  BY <1>16 DEF Return
<1>17. ASSUME NEW w \in Workers, Push(w) PROVE PoolType'
  <2>1. conn[w] \in Connections
    BY <1>17, HasConn DEF Push, At
  <2>2. Append(available, conn[w]) \in Seq(Connections)
    BY <2>1
  <2>3. available' \in Seq(Connections)
    BY <1>17, <2>2 DEF Push
  <2> QED
    BY <1>17, <2>3 DEF Push
<1>18. ASSUME NEW w \in Workers, WaitCancelled(w) PROVE PoolType'
  BY <1>18 DEF WaitCancelled
<1>19. ASSUME NEW c \in Connections, Deliver(c) PROVE PoolType'
  BY <1>19, DeliverFacts DEF pools, workers, history
<1>20. ASSUME NEW c \in Connections, ServerFrame(c) PROVE PoolType'
  BY <1>20 DEF ServerFrame
<1>21. ASSUME NEW c \in Connections, ServerEnds(c) PROVE PoolType'
  BY <1>21 DEF ServerEnds
<1>22. ASSUME NEW c \in Connections, Breaks(c) PROVE PoolType'
  BY <1>22 DEF Breaks
<1>23. ASSUME NEW c \in Connections, ReaderCloses(c) PROVE PoolType'
  BY <1>23 DEF ReaderCloses
<1>24. ASSUME NEW c \in Connections, Callback(c) PROVE PoolType'
  BY <1>24, CallbackFacts DEF pools, workers, history
<1>25. ASSUME NEW w \in Workers, WaitReads(w) PROVE PoolType'
  BY <1>25 DEF WaitReads
<1>26. CASE UNCHANGED vars
  BY <1>26 DEF vars, pools, sessions, workers, history
<1> QED
  BY <1>1, <1>2, <1>3, <1>4, <1>5, <1>6, <1>7, <1>8, <1>9, <1>10, <1>11, <1>12, <1>13,
     <1>14, <1>15, <1>16, <1>17, <1>18, <1>19, <1>20, <1>21, <1>22, <1>23, <1>24, <1>25, <1>26
     DEF Next, UserNext, Close, WorkerStep, ConnectionStep

LEMMA CollectorStep == Typing /\ [Next]_vars => CollectorType'
<1> SUFFICES ASSUME Typing, [Next]_vars PROVE CollectorType'
  OBVIOUS
<1>0. PoolType /\ CollectorType /\ SessionType /\ WorkerType /\ HistoryType
  BY Parts DEF Typing
<1> USE <1>0, PoolAssumption DEF CollectorType
<1>1. CASE Initialize
  BY <1>1 DEF Initialize
<1>2. CASE StartClose
  BY <1>2 DEF StartClose
<1>3. CASE CloseConnection
  BY <1>3 DEF CloseConnection
<1>4. CASE CloseChannel
  BY <1>4 DEF CloseChannel
<1>5. CASE Drain
  BY <1>5 DEF Drain
<1>6. ASSUME NEW w \in Workers, Borrow(w) PROVE CollectorType'
  BY <1>6 DEF Borrow
<1>7. ASSUME NEW w \in Workers, Receive(w) PROVE CollectorType'
  BY <1>7 DEF Receive
<1>8. ASSUME NEW w \in Workers, ReceiveNil(w) PROVE CollectorType'
  BY <1>8 DEF ReceiveNil
<1>9. ASSUME NEW w \in Workers, BorrowTimeout(w) PROVE CollectorType'
  BY <1>9 DEF BorrowTimeout
<1>10. ASSUME NEW w \in Workers, Reset1(w) PROVE CollectorType'
  <2>1. conn[w] \in Connections
    BY <1>10, HasConn DEF Reset1, At
  <2> DEFINE col == collector[conn[w]]
  <2>2. [col EXCEPT !.frames = <<>>, !.last = FALSE, !.err = FALSE] \in Collectors
    <3>1. col \in Collectors /\ <<>> \in Seq(0..MaxReqs)
      BY <2>1
    <3>2. \A k \in Collectors, s \in Seq(0..MaxReqs) :
             [k EXCEPT !.frames = s, !.last = FALSE, !.err = FALSE] \in Collectors
      BY DEF Collectors
    <3> QED
      BY <3>1, <3>2
  <2>3. collector' = [collector EXCEPT ![conn[w]] =
                        [col EXCEPT !.frames = <<>>, !.last = FALSE, !.err = FALSE]]
    BY <1>10, <2>1 DEF Reset1, Collectors
  <2> QED
    BY <2>2, <2>3, Update
<1>11. ASSUME NEW w \in Workers, Reset2(w) PROVE CollectorType'
  <2>1. conn[w] \in Connections
    BY <1>11, HasConn DEF Reset2, At
  <2> QED
    BY <1>11, <2>1 DEF Reset2, Collectors
<1>12. ASSUME NEW w \in Workers, Reset3(w) PROVE CollectorType'
  <2>1. conn[w] \in Connections
    BY <1>12, HasConn DEF Reset3, At
  <2> DEFINE fresh == [collector[conn[w]] EXCEPT !.once = "fresh", !.lock = FALSE]
  <2>2. fresh \in Collectors
    BY <2>1 DEF Collectors
  <2>3. collector' = [collector EXCEPT ![conn[w]] = fresh]
    BY <1>12, <2>1 DEF Reset3
  <2> QED
    BY <2>2, <2>3, Update
<1>13. ASSUME NEW w \in Workers, SendAudio(w) PROVE CollectorType'
  BY <1>13 DEF SendAudio
<1>14. ASSUME NEW w \in Workers, SendFails(w) PROVE CollectorType'
  BY <1>14 DEF SendFails
<1>15. ASSUME NEW w \in Workers, Wait(w) PROVE CollectorType'
  BY <1>15 DEF Wait
<1>16. ASSUME NEW w \in Workers, Return(w) PROVE CollectorType'
  BY <1>16 DEF Return
<1>17. ASSUME NEW w \in Workers, Push(w) PROVE CollectorType'
  BY <1>17 DEF Push
<1>18. ASSUME NEW w \in Workers, WaitCancelled(w) PROVE CollectorType'
  BY <1>18 DEF WaitCancelled
<1>19. ASSUME NEW c \in Connections, Deliver(c) PROVE CollectorType'
  BY <1>19, DeliverFacts
<1>20. ASSUME NEW c \in Connections, ServerFrame(c) PROVE CollectorType'
  BY <1>20 DEF ServerFrame
<1>21. ASSUME NEW c \in Connections, ServerEnds(c) PROVE CollectorType'
  BY <1>21 DEF ServerEnds
<1>22. ASSUME NEW c \in Connections, Breaks(c) PROVE CollectorType'
  BY <1>22 DEF Breaks
<1>23. ASSUME NEW c \in Connections, ReaderCloses(c) PROVE CollectorType'
  BY <1>23 DEF ReaderCloses
<1>24. ASSUME NEW c \in Connections, Callback(c) PROVE CollectorType'
  BY <1>24, CallbackFacts
<1>25. ASSUME NEW w \in Workers, WaitReads(w) PROVE CollectorType'
  BY <1>25 DEF WaitReads
<1>26. CASE UNCHANGED vars
  BY <1>26 DEF vars, pools, sessions, workers, history
<1> QED
  BY <1>1, <1>2, <1>3, <1>4, <1>5, <1>6, <1>7, <1>8, <1>9, <1>10, <1>11, <1>12, <1>13,
     <1>14, <1>15, <1>16, <1>17, <1>18, <1>19, <1>20, <1>21, <1>22, <1>23, <1>24, <1>25, <1>26
     DEF Next, UserNext, Close, WorkerStep, ConnectionStep

LEMMA SessionStep == Typing /\ [Next]_vars => SessionType'
<1> SUFFICES ASSUME Typing, [Next]_vars PROVE SessionType'
  OBVIOUS
<1>0. PoolType /\ CollectorType /\ SessionType /\ WorkerType /\ HistoryType
  BY Parts DEF Typing
<1> USE <1>0, PoolAssumption DEF SessionType, PoolType, sessions
<1>1. CASE Initialize
  BY <1>1 DEF Initialize
<1>2. CASE StartClose
  BY <1>2 DEF StartClose
<1>3. CASE CloseConnection
  <2>1. PICK c \in Connections : SessionClose(c, "pool")
    BY <1>3 DEF CloseConnection
  <2>2. "pool" \in Callers
    BY DEF Callers
  <2> QED
    BY <1>3, <2>1, <2>2, ClosedType DEF CloseConnection
<1>4. CASE CloseChannel
  BY <1>4 DEF CloseChannel
<1>5. CASE Drain
  BY <1>5 DEF Drain
<1>6. ASSUME NEW w \in Workers, Borrow(w) PROVE SessionType'
  BY <1>6 DEF Borrow
<1>7. ASSUME NEW w \in Workers, Receive(w) PROVE SessionType'
  BY <1>7 DEF Receive
<1>8. ASSUME NEW w \in Workers, ReceiveNil(w) PROVE SessionType'
  BY <1>8 DEF ReceiveNil
<1>9. ASSUME NEW w \in Workers, BorrowTimeout(w) PROVE SessionType'
  BY <1>9 DEF BorrowTimeout
<1>10. ASSUME NEW w \in Workers, Reset1(w) PROVE SessionType'
  BY <1>10 DEF Reset1
<1>11. ASSUME NEW w \in Workers, Reset2(w) PROVE SessionType'
  BY <1>11 DEF Reset2
<1>12. ASSUME NEW w \in Workers, Reset3(w) PROVE SessionType'
  BY <1>12 DEF Reset3
<1>13. ASSUME NEW w \in Workers, SendAudio(w) PROVE SessionType'
  <2>1. conn[w] \in Connections
    BY <1>13, HasConn DEF SendAudio, At
  <2>2. reqs' \in 1..MaxReqs
    BY <1>13 DEF SendAudio, WorkerType
  <2>3. Append(pending[conn[w]], reqs') \in Seq(1..MaxReqs)
    BY <2>1, <2>2
  <2>4. pending' \in [Connections -> Seq(1..MaxReqs)]
    BY <1>13, <2>1, <2>3, Update DEF SendAudio
  <2> QED
    BY <1>13, <2>4 DEF SendAudio
<1>14. ASSUME NEW w \in Workers, SendFails(w) PROVE SessionType'
  BY <1>14 DEF SendFails
<1>15. ASSUME NEW w \in Workers, Wait(w) PROVE SessionType'
  BY <1>15 DEF Wait
<1>16. ASSUME NEW w \in Workers, Return(w) PROVE SessionType'
  BY <1>16 DEF Return
<1>17. ASSUME NEW w \in Workers, Push(w) PROVE SessionType'
  BY <1>17 DEF Push
<1>18. ASSUME NEW w \in Workers, WaitCancelled(w) PROVE SessionType'
  BY <1>18 DEF WaitCancelled
<1>19. ASSUME NEW c \in Connections, Deliver(c) PROVE SessionType'
  BY <1>19, DeliverFacts
<1>20. ASSUME NEW c \in Connections, ServerFrame(c) PROVE SessionType'
  <2>1. Head(pending[c]) \in 0..MaxReqs
    BY <1>20 DEF ServerFrame
  <2>2. Append(queue[c], Frame(Head(pending[c]), FALSE)) \in Seq(Frames)
    BY <2>1, AppendFacts DEF Frame, Frames
  <2>3. queue' \in [Connections -> Seq(Frames)]
    BY <1>20, <2>2, Update DEF ServerFrame
  <2>4. sent' \in [Connections -> 0..MaxFrames]
    BY <1>20 DEF ServerFrame
  <2> QED
    BY <1>20, <2>3, <2>4 DEF ServerFrame
<1>21. ASSUME NEW c \in Connections, ServerEnds(c) PROVE SessionType'
  <2>1. Head(pending[c]) \in 0..MaxReqs /\ Tail(pending[c]) \in Seq(1..MaxReqs)
    BY <1>21 DEF ServerEnds
  <2>2. PICK f \in {Frame(Head(pending[c]), TRUE), Error} : queue' = [queue EXCEPT ![c] = Append(@, f)]
    BY <1>21 DEF ServerEnds
  <2>3. f \in Frames
    <3>1. Frame(Head(pending[c]), TRUE) \in Frames
      BY <2>1 DEF Frame, Frames
    <3>2. Error \in Frames
      BY DEF Frames, Error
    <3> QED
      BY <2>2, <3>1, <3>2
  <2>4. Append(queue[c], f) \in Seq(Frames)
    BY <2>3
  <2>5. queue' \in [Connections -> Seq(Frames)]
    BY <2>2, <2>4, Update
  <2>6. pending' \in [Connections -> Seq(1..MaxReqs)]
    BY <1>21, <2>1, Update DEF ServerEnds
  <2> QED
    BY <1>21, <2>5, <2>6 DEF ServerEnds
<1>22. ASSUME NEW c \in Connections, Breaks(c) PROVE SessionType'
  <2>0. Error \in Frames
    BY DEF Frames, Error
  <2>1. Append(queue[c], Error) \in Seq(Frames)
    BY <2>0
  <2>2. queue' \in [Connections -> Seq(Frames)]
    BY <1>22, <2>1, Update DEF Breaks
  <2>3. pending' \in [Connections -> Seq(1..MaxReqs)]
    BY <1>22, Update DEF Breaks
  <2> QED
    BY <1>22, <2>2, <2>3 DEF Breaks
<1>23. ASSUME NEW c \in Connections, ReaderCloses(c) PROVE SessionType'
  <2>1. "reader" \in Callers
    BY DEF Callers
  <2>2. session' \in [Connections -> BOOLEAN] /\ stage' \in [Connections -> [Callers -> Stages]]
    BY <1>23, <2>1, ClosedType DEF ReaderCloses
  <2>3. reader' \in [Connections -> {"run", "closing", "ended", "silent"}]
    BY <1>23 DEF ReaderCloses
  <2> QED
    BY <1>23, <2>2, <2>3 DEF ReaderCloses
<1>24. ASSUME NEW c \in Connections, Callback(c) PROVE SessionType'
  BY <1>24, CallbackFacts
<1>25. ASSUME NEW w \in Workers, WaitReads(w) PROVE SessionType'
  BY <1>25 DEF WaitReads
<1>26. CASE UNCHANGED vars
  BY <1>26 DEF vars, pools, sessions, workers, history
<1> QED
  BY <1>1, <1>2, <1>3, <1>4, <1>5, <1>6, <1>7, <1>8, <1>9, <1>10, <1>11, <1>12, <1>13,
     <1>14, <1>15, <1>16, <1>17, <1>18, <1>19, <1>20, <1>21, <1>22, <1>23, <1>24, <1>25, <1>26
     DEF Next, UserNext, Close, WorkerStep, ConnectionStep

LEMMA WorkerTypeStep == Typing /\ [Next]_vars => WorkerType'
<1> SUFFICES ASSUME Typing, [Next]_vars PROVE WorkerType'
  OBVIOUS
<1>0. PoolType /\ CollectorType /\ SessionType /\ WorkerType /\ HistoryType
  BY Parts DEF Typing
<1> USE <1>0, PoolAssumption DEF WorkerType, workers, At, Returned, none
<1>1. CASE Initialize
  BY <1>1 DEF Initialize
<1>2. CASE StartClose
  BY <1>2 DEF StartClose
<1>3. CASE CloseConnection
  BY <1>3 DEF CloseConnection
<1>4. CASE CloseChannel
  BY <1>4 DEF CloseChannel
<1>5. CASE Drain
  BY <1>5 DEF Drain
<1>6. ASSUME NEW w \in Workers, Borrow(w) PROVE WorkerType'
  BY <1>6, Working DEF Borrow
<1>7. ASSUME NEW w \in Workers, Receive(w) PROVE WorkerType'
  <2>1. Head(available) \in Connections
    BY <1>7 DEF Receive, PoolType
  <2> QED
    BY <1>7, <2>1, Working DEF Receive
<1>8. ASSUME NEW w \in Workers, ReceiveNil(w) PROVE WorkerType'
  BY <1>8, Working DEF ReceiveNil
<1>9. ASSUME NEW w \in Workers, BorrowTimeout(w) PROVE WorkerType'
  BY <1>9, Working DEF BorrowTimeout
<1>10. ASSUME NEW w \in Workers, Reset1(w) PROVE WorkerType'
  BY <1>10, Working DEF Reset1
<1>11. ASSUME NEW w \in Workers, Reset2(w) PROVE WorkerType'
  BY <1>11, Working DEF Reset2
<1>12. ASSUME NEW w \in Workers, Reset3(w) PROVE WorkerType'
  BY <1>12, Working DEF Reset3
<1>13. ASSUME NEW w \in Workers, SendAudio(w) PROVE WorkerType'
  <2>1. reqs' \in 0..MaxReqs
    BY <1>13 DEF SendAudio
  <2>2. req' \in [Workers -> 0..MaxReqs]
    BY <1>13, <2>1, Update DEF SendAudio
  <2> QED
    BY <1>13, <2>1, <2>2, Working DEF SendAudio
<1>14. ASSUME NEW w \in Workers, SendFails(w) PROVE WorkerType'
  BY <1>14, Working DEF SendFails
<1>15. ASSUME NEW w \in Workers, Wait(w) PROVE WorkerType'
  BY <1>15, Working DEF Wait
<1>16. ASSUME NEW w \in Workers, Return(w) PROVE WorkerType'
  <2>1. pc' \in [Workers -> PCs] /\ success' \in [Workers -> BOOLEAN]
    BY <1>16, Working, Update DEF Return
  <2>2. conn' \in [Workers -> Connections \cup {none}] /\ req' \in [Workers -> 0..MaxReqs]
    <3>1. 0 \in 0..MaxReqs
      OBVIOUS
    <3> QED
      BY <1>16, <3>1, Update DEF Return
  <2> QED
    BY <1>16, <2>1, <2>2 DEF Return
<1>17. ASSUME NEW w \in Workers, Push(w) PROVE WorkerType'
  <2>3. pc' \in [Workers -> PCs]
    BY <1>17, Working DEF Push
  <2>4. conn' \in [Workers -> Connections \cup {none}]
    BY <1>17, Update DEF Push
  <2>5. req' \in [Workers -> 0..MaxReqs]
    <3>1. 0 \in 0..MaxReqs
      OBVIOUS
    <3> QED
      BY <1>17, <3>1, Update DEF Push
  <2> QED
    BY <1>17, <2>3, <2>4, <2>5 DEF Push
<1>18. ASSUME NEW w \in Workers, WaitCancelled(w) PROVE WorkerType'
  BY <1>18, Working DEF WaitCancelled
<1>19. ASSUME NEW c \in Connections, Deliver(c) PROVE WorkerType'
  BY <1>19, DeliverFacts DEF pools, workers, history
<1>20. ASSUME NEW c \in Connections, ServerFrame(c) PROVE WorkerType'
  BY <1>20 DEF ServerFrame
<1>21. ASSUME NEW c \in Connections, ServerEnds(c) PROVE WorkerType'
  BY <1>21 DEF ServerEnds
<1>22. ASSUME NEW c \in Connections, Breaks(c) PROVE WorkerType'
  BY <1>22 DEF Breaks
<1>23. ASSUME NEW c \in Connections, ReaderCloses(c) PROVE WorkerType'
  BY <1>23 DEF ReaderCloses
<1>24. ASSUME NEW c \in Connections, Callback(c) PROVE WorkerType'
  BY <1>24, CallbackFacts DEF pools, workers, history
<1>25. ASSUME NEW w \in Workers, WaitReads(w) PROVE WorkerType'
  <2>1. (~collector[conn[w]].err) \in BOOLEAN
    OBVIOUS
  <2>2. success' \in [Workers -> BOOLEAN]
    BY <1>25, <2>1, Update DEF WaitReads
  <2> QED
    BY <1>25, <2>2, Working DEF WaitReads
<1>26. CASE UNCHANGED vars
  BY <1>26 DEF vars, pools, sessions, workers, history
<1> QED
  BY <1>1, <1>2, <1>3, <1>4, <1>5, <1>6, <1>7, <1>8, <1>9, <1>10, <1>11, <1>12, <1>13,
     <1>14, <1>15, <1>16, <1>17, <1>18, <1>19, <1>20, <1>21, <1>22, <1>23, <1>24, <1>25, <1>26
     DEF Next, UserNext, Close, WorkerStep, ConnectionStep

LEMMA HistoryStep == Typing /\ [Next]_vars => HistoryType'
<1> SUFFICES ASSUME Typing, [Next]_vars PROVE HistoryType'
  OBVIOUS
<1>0. PoolType /\ CollectorType /\ SessionType /\ WorkerType /\ HistoryType
  BY Parts DEF Typing
<1> USE <1>0, PoolAssumption DEF HistoryType, history, Panic
<1>1. CASE Initialize
  BY <1>1 DEF Initialize
<1>2. CASE StartClose
  <2>1. rushed' \in BOOLEAN
    BY <1>2 DEF StartClose
  <2> QED
    BY <1>2, <2>1 DEF StartClose
<1>3. CASE CloseConnection
  BY <1>3 DEF CloseConnection
<1>4. CASE CloseChannel
  BY <1>4 DEF CloseChannel
<1>5. CASE Drain
  BY <1>5 DEF Drain
<1>6. ASSUME NEW w \in Workers, Borrow(w) PROVE HistoryType'
  BY <1>6 DEF Borrow
<1>7. ASSUME NEW w \in Workers, Receive(w) PROVE HistoryType'
  BY <1>7 DEF Receive
<1>8. ASSUME NEW w \in Workers, ReceiveNil(w) PROVE HistoryType'
  BY <1>8 DEF ReceiveNil
<1>9. ASSUME NEW w \in Workers, BorrowTimeout(w) PROVE HistoryType'
  BY <1>9 DEF BorrowTimeout
<1>10. ASSUME NEW w \in Workers, Reset1(w) PROVE HistoryType'
  BY <1>10 DEF Reset1
<1>11. ASSUME NEW w \in Workers, Reset2(w) PROVE HistoryType'
  BY <1>11 DEF Reset2
<1>12. ASSUME NEW w \in Workers, Reset3(w) PROVE HistoryType'
  BY <1>12 DEF Reset3
<1>13. ASSUME NEW w \in Workers, SendAudio(w) PROVE HistoryType'
  BY <1>13 DEF SendAudio
<1>14. ASSUME NEW w \in Workers, SendFails(w) PROVE HistoryType'
  BY <1>14 DEF SendFails
<1>15. ASSUME NEW w \in Workers, Wait(w) PROVE HistoryType'
  BY <1>15 DEF Wait
<1>16. ASSUME NEW w \in Workers, Return(w) PROVE HistoryType'
  BY <1>16 DEF Return
<1>17. ASSUME NEW w \in Workers, Push(w) PROVE HistoryType'
  BY <1>17 DEF Push
<1>18. ASSUME NEW w \in Workers, WaitCancelled(w) PROVE HistoryType'
  <2>1. conn[w] \in Connections
    BY <1>18, HasConn DEF WaitCancelled, At
  <2> QED
    BY <1>18, <2>1 DEF WaitCancelled
<1>19. ASSUME NEW c \in Connections, Deliver(c) PROVE HistoryType'
  BY <1>19, DeliverFacts DEF pools, workers, history
<1>20. ASSUME NEW c \in Connections, ServerFrame(c) PROVE HistoryType'
  BY <1>20 DEF ServerFrame
<1>21. ASSUME NEW c \in Connections, ServerEnds(c) PROVE HistoryType'
  BY <1>21 DEF ServerEnds
<1>22. ASSUME NEW c \in Connections, Breaks(c) PROVE HistoryType'
  BY <1>22 DEF Breaks
<1>23. ASSUME NEW c \in Connections, ReaderCloses(c) PROVE HistoryType'
  BY <1>23 DEF ReaderCloses
<1>24. ASSUME NEW c \in Connections, Callback(c) PROVE HistoryType'
  BY <1>24, CallbackFacts
<1>25. ASSUME NEW w \in Workers, WaitReads(w) PROVE HistoryType'
  BY <1>25 DEF WaitReads
<1>26. CASE UNCHANGED vars
  BY <1>26 DEF vars, pools, sessions, workers, history
<1> QED
  BY <1>1, <1>2, <1>3, <1>4, <1>5, <1>6, <1>7, <1>8, <1>9, <1>10, <1>11, <1>12, <1>13,
     <1>14, <1>15, <1>16, <1>17, <1>18, <1>19, <1>20, <1>21, <1>22, <1>23, <1>24, <1>25, <1>26
     DEF Next, UserNext, Close, WorkerStep, ConnectionStep

LEMMA HoldsStep == Typing /\ [Next]_vars => HoldsIts'
<1> SUFFICES ASSUME Typing, [Next]_vars PROVE HoldsIts'
  OBVIOUS
<1>0. PoolType /\ WorkerType /\ HoldsIts
  BY Parts DEF Typing
<1> USE <1>0, PoolAssumption DEF HoldsIts, WorkerType, workers, At, Returned, none
<1>1. CASE Initialize
  BY <1>1 DEF Initialize
<1>2. CASE StartClose
  BY <1>2 DEF StartClose
<1>3. CASE CloseConnection
  BY <1>3 DEF CloseConnection
<1>4. CASE CloseChannel
  BY <1>4 DEF CloseChannel
<1>5. CASE Drain
  BY <1>5 DEF Drain
<1>6. ASSUME NEW w \in Workers, Borrow(w) PROVE HoldsIts'
  BY <1>6 DEF Borrow
<1>7. ASSUME NEW w \in Workers, Receive(w) PROVE HoldsIts'
  <2>1. Head(available) \in Connections
    BY <1>7 DEF Receive, PoolType
  <2> QED
    BY <1>7, <2>1 DEF Receive
<1>8. ASSUME NEW w \in Workers, ReceiveNil(w) PROVE HoldsIts'
  BY <1>8 DEF ReceiveNil
<1>9. ASSUME NEW w \in Workers, BorrowTimeout(w) PROVE HoldsIts'
  BY <1>9 DEF BorrowTimeout
<1>10. ASSUME NEW w \in Workers, Reset1(w) PROVE HoldsIts'
  BY <1>10 DEF Reset1
<1>11. ASSUME NEW w \in Workers, Reset2(w) PROVE HoldsIts'
  BY <1>11 DEF Reset2
<1>12. ASSUME NEW w \in Workers, Reset3(w) PROVE HoldsIts'
  BY <1>12 DEF Reset3
<1>13. ASSUME NEW w \in Workers, SendAudio(w) PROVE HoldsIts'
  BY <1>13 DEF SendAudio
<1>14. ASSUME NEW w \in Workers, SendFails(w) PROVE HoldsIts'
  BY <1>14 DEF SendFails
<1>15. ASSUME NEW w \in Workers, Wait(w) PROVE HoldsIts'
  BY <1>15 DEF Wait
<1>16. ASSUME NEW w \in Workers, Return(w) PROVE HoldsIts'
  BY <1>16 DEF Return
<1>17. ASSUME NEW w \in Workers, Push(w) PROVE HoldsIts'
  BY <1>17 DEF Push
<1>18. ASSUME NEW w \in Workers, WaitCancelled(w) PROVE HoldsIts'
  BY <1>18 DEF WaitCancelled
<1>19. ASSUME NEW c \in Connections, Deliver(c) PROVE HoldsIts'
  BY <1>19, DeliverFacts DEF pools, workers, history
<1>20. ASSUME NEW c \in Connections, ServerFrame(c) PROVE HoldsIts'
  BY <1>20 DEF ServerFrame
<1>21. ASSUME NEW c \in Connections, ServerEnds(c) PROVE HoldsIts'
  BY <1>21 DEF ServerEnds
<1>22. ASSUME NEW c \in Connections, Breaks(c) PROVE HoldsIts'
  BY <1>22 DEF Breaks
<1>23. ASSUME NEW c \in Connections, ReaderCloses(c) PROVE HoldsIts'
  BY <1>23 DEF ReaderCloses
<1>24. ASSUME NEW c \in Connections, Callback(c) PROVE HoldsIts'
  BY <1>24, CallbackFacts DEF pools, workers, history
<1>25. ASSUME NEW w \in Workers, WaitReads(w) PROVE HoldsIts'
  BY <1>25 DEF WaitReads
<1>26. CASE UNCHANGED vars
  BY <1>26 DEF vars, pools, sessions, workers, history
<1> QED
  BY <1>1, <1>2, <1>3, <1>4, <1>5, <1>6, <1>7, <1>8, <1>9, <1>10, <1>11, <1>12, <1>13,
     <1>14, <1>15, <1>16, <1>17, <1>18, <1>19, <1>20, <1>21, <1>22, <1>23, <1>24, <1>25, <1>26
     DEF Next, UserNext, Close, WorkerStep, ConnectionStep

LEMMA TypingStep == Typing /\ [Next]_vars => Typing'
BY PoolStep, CollectorStep, SessionStep, WorkerTypeStep, HistoryStep, HoldsStep, PartsNext DEF Typing

--------------------------------------------------------------------------------
(* Exclusive                                                                  *)

\* Nobody has a connection before the pool is made.
NewIsEmpty == pool = "new" => available = <<>> /\ \A w \in Workers : pc[w] = "idle"

\* What is given back to the closed channel is lost, but the pool is over then.
ShutIsOver == channel = "closed" <=> pool \in {"draining", "closed"}

Places == NewIsEmpty /\ ShutIsOver /\ Exclusive

LEMMA PlacesInit == Init => Places
<1> SUFFICES ASSUME Init PROVE Places
  OBVIOUS
<1>1. NewIsEmpty /\ ShutIsOver
  BY DEF Init, NewIsEmpty, ShutIsOver
<1>2. IsInjective(available)
  BY DEF Init, IsInjective
<1>3. \A w \in Workers : conn[w] = none
  BY DEF Init
<1> QED
  BY <1>1, <1>2, <1>3 DEF Init, Places, Exclusive

LEMMA StageStep == Typing /\ Places /\ [Next]_vars => NewIsEmpty' /\ ShutIsOver'
<1> SUFFICES ASSUME Typing, Places, [Next]_vars PROVE (NewIsEmpty /\ ShutIsOver)'
  OBVIOUS
<1>0. PoolType /\ WorkerType /\ NewIsEmpty /\ ShutIsOver
  BY Parts DEF Typing, Places
<1> USE <1>0 DEF NewIsEmpty, ShutIsOver, PoolType, WorkerType, pools, workers, At
<1>1. CASE Initialize
  BY <1>1 DEF Initialize
<1>2. CASE StartClose
  BY <1>2 DEF StartClose
<1>3. CASE CloseConnection
  BY <1>3 DEF CloseConnection
<1>4. CASE CloseChannel
  BY <1>4 DEF CloseChannel
<1>5. CASE Drain
  BY <1>5 DEF Drain
<1>6. ASSUME NEW w \in Workers, Borrow(w) PROVE (NewIsEmpty /\ ShutIsOver)'
  BY <1>6 DEF Borrow
<1>7. ASSUME NEW w \in Workers, Receive(w) PROVE (NewIsEmpty /\ ShutIsOver)'
  BY <1>7 DEF Receive
<1>8. ASSUME NEW w \in Workers, ReceiveNil(w) PROVE (NewIsEmpty /\ ShutIsOver)'
  BY <1>8 DEF ReceiveNil
<1>9. ASSUME NEW w \in Workers, BorrowTimeout(w) PROVE (NewIsEmpty /\ ShutIsOver)'
  BY <1>9 DEF BorrowTimeout
<1>10. ASSUME NEW w \in Workers, Reset1(w) PROVE (NewIsEmpty /\ ShutIsOver)'
  BY <1>10 DEF Reset1
<1>11. ASSUME NEW w \in Workers, Reset2(w) PROVE (NewIsEmpty /\ ShutIsOver)'
  BY <1>11 DEF Reset2
<1>12. ASSUME NEW w \in Workers, Reset3(w) PROVE (NewIsEmpty /\ ShutIsOver)'
  BY <1>12 DEF Reset3
<1>13. ASSUME NEW w \in Workers, SendAudio(w) PROVE (NewIsEmpty /\ ShutIsOver)'
  BY <1>13 DEF SendAudio
<1>14. ASSUME NEW w \in Workers, SendFails(w) PROVE (NewIsEmpty /\ ShutIsOver)'
  BY <1>14 DEF SendFails
<1>15. ASSUME NEW w \in Workers, Wait(w) PROVE (NewIsEmpty /\ ShutIsOver)'
  BY <1>15 DEF Wait
<1>16. ASSUME NEW w \in Workers, Return(w) PROVE (NewIsEmpty /\ ShutIsOver)'
  BY <1>16 DEF Return
<1>17. ASSUME NEW w \in Workers, Push(w) PROVE (NewIsEmpty /\ ShutIsOver)'
  BY <1>17 DEF Push
<1>18. ASSUME NEW w \in Workers, WaitCancelled(w) PROVE (NewIsEmpty /\ ShutIsOver)'
  BY <1>18 DEF WaitCancelled
<1>19. ASSUME NEW c \in Connections, Deliver(c) PROVE (NewIsEmpty /\ ShutIsOver)'
  BY <1>19, DeliverFacts DEF pools, workers, history
<1>20. ASSUME NEW c \in Connections, ServerFrame(c) PROVE (NewIsEmpty /\ ShutIsOver)'
  BY <1>20 DEF ServerFrame
<1>21. ASSUME NEW c \in Connections, ServerEnds(c) PROVE (NewIsEmpty /\ ShutIsOver)'
  BY <1>21 DEF ServerEnds
<1>22. ASSUME NEW c \in Connections, Breaks(c) PROVE (NewIsEmpty /\ ShutIsOver)'
  BY <1>22 DEF Breaks
<1>23. ASSUME NEW c \in Connections, ReaderCloses(c) PROVE (NewIsEmpty /\ ShutIsOver)'
  BY <1>23 DEF ReaderCloses
<1>24. ASSUME NEW c \in Connections, Callback(c) PROVE (NewIsEmpty /\ ShutIsOver)'
  BY <1>24, CallbackFacts DEF pools, workers, history
<1>25. ASSUME NEW w \in Workers, WaitReads(w) PROVE (NewIsEmpty /\ ShutIsOver)'
  BY <1>25 DEF WaitReads
<1>26. CASE UNCHANGED vars
  BY <1>26 DEF vars, pools, sessions, workers, history
<1> QED
  BY <1>1, <1>2, <1>3, <1>4, <1>5, <1>6, <1>7, <1>8, <1>9, <1>10, <1>11, <1>12, <1>13,
     <1>14, <1>15, <1>16, <1>17, <1>18, <1>19, <1>20, <1>21, <1>22, <1>23, <1>24, <1>25, <1>26
     DEF Next, UserNext, Close, WorkerStep, ConnectionStep

LEMMA InConn == ASSUME Typing, NEW c PROVE c \in Range(conn) <=> \E w \in Workers : conn[w] = c
BY DEF Typing, TypeOK, Range

\* A step that moves no connection.
LEMMA QuietPlaces ==
    ASSUME Exclusive, UNCHANGED <<available, conn>>,
           pool' = "ready" => pool = "ready" /\ all' = all
    PROVE  Exclusive'
BY DEF Exclusive, Range, IsInjective

LEMMA InitializePlaces == Typing /\ Places /\ Initialize => Exclusive'
<1> SUFFICES ASSUME Typing, Places, Initialize PROVE Exclusive'
  OBVIOUS
<1>1. PICK made \in SUBSET Connections : all' = made /\ available' = SetToSeq(made)
  BY DEF Initialize
<1>2. IsFiniteSet(made)
  BY PoolAssumption, FS_Subset
<1>3. IsInjective(available') /\ Range(available') = made
  BY <1>1, <1>2, SetToSeqFacts
<1>4. \A w \in Workers : conn'[w] = none
  BY DEF Initialize, workers, Places, NewIsEmpty, Typing, HoldsIts
<1> QED
  BY <1>1, <1>3, <1>4 DEF Exclusive

LEMMA ReceivePlaces == ASSUME Typing, Places, NEW w \in Workers, Receive(w) PROVE Exclusive'
<1> DEFINE h == Head(available)
<1>1. /\ available \in Seq(Connections) /\ available # <<>> /\ available' = Tail(available)
      /\ conn \in [Workers -> Connections \cup {none}] /\ conn' = [conn EXCEPT ![w] = h]
      /\ conn[w] = none /\ UNCHANGED <<pool, all>>
  BY DEF Typing, TypeOK, HoldsIts, Receive, At
<1>2. /\ h \in Connections /\ Range(available) = Range(available') \cup {h}
      /\ IsInjective(available') /\ h \notin Range(available')
  BY <1>1, TailFacts DEF Places, Exclusive
<1>3. h # none /\ \A v \in Workers : conn[v] # none => conn[v] # h
  BY <1>2, PoolAssumption DEF none, Places, Exclusive
<1>4. \A v \in Workers : conn'[v] = IF v = w THEN h ELSE conn[v]
  BY <1>1
<1>5. Range(conn') = { conn'[v] : v \in Workers } /\ Range(conn) = { conn[v] : v \in Workers }
  BY <1>1 DEF Range
<1>6. pool' = "ready" => all' \subseteq Range(available') \cup Range(conn')
  <2>1. none \notin Connections /\ all \subseteq Connections
    BY PoolAssumption DEF none, Typing, TypeOK
  <2>2. SUFFICES ASSUME pool = "ready", NEW c \in all, c \notin Range(available')
                 PROVE  c \in Range(conn')
    BY <1>1
  <2>3. CASE c = h
    BY <2>3, <1>4, <1>5
  <2>4. CASE c # h
    <3>1. c \in Range(conn)
      BY <1>2, <2>2, <2>4 DEF Places, Exclusive
    <3>2. PICK v \in Workers : conn[v] = c
      BY <3>1, <1>5
    <3>3. v # w
      BY <1>1, <2>1, <3>2
    <3> QED
      BY <3>2, <3>3, <1>4, <1>5
  <2> QED
    BY <2>3, <2>4
<1>7. ASSUME NEW v \in Workers, conn'[v] # none
      PROVE  conn'[v] \notin Range(available') /\ \A u \in Workers : conn'[u] = conn'[v] => u = v
  BY <1>2, <1>3, <1>4, <1>7 DEF Places, Exclusive
<1> QED
  BY <1>2, <1>6, <1>7 DEF Exclusive

\* A worker without its connection: what the others hold stays theirs.
LEMMA GivesUp ==
    ASSUME Typing, Places, NEW w \in Workers, conn' = [conn EXCEPT ![w] = none]
    PROVE  \A v \in Workers : conn'[v] # none =>
              /\ v # w /\ conn'[v] = conn[v] /\ conn[v] \notin Range(available)
              /\ \A u \in Workers : conn'[u] = conn'[v] => u = v
<1>1. \A v \in Workers : conn'[v] = IF v = w THEN none ELSE conn[v]
  BY DEF Typing, TypeOK
<1> QED
  BY <1>1 DEF Places, Exclusive

LEMMA PushPlaces == ASSUME Typing, Places, NEW w \in Workers, Push(w) PROVE Exclusive'
<1>1. /\ available \in Seq(Connections) /\ conn' = [conn EXCEPT ![w] = none]
      /\ conn \in [Workers -> Connections \cup {none}] /\ UNCHANGED <<pool, all>>
  BY DEF Typing, TypeOK, Push, Returned
<1>2. conn[w] \in Connections /\ conn[w] # none
  BY HasConn, PoolAssumption DEF Push, At, none
<1>3. CASE channel = "open"
  <2>0. available' = Append(available, conn[w])
    BY <1>3 DEF Push
  <2>1. Range(available') = Range(available) \cup {conn[w]} /\ IsInjective(available')
    <3>1. IsInjective(available) /\ conn[w] \notin Range(available)
      BY <1>2 DEF Places, Exclusive
    <3> QED
      BY <1>1, <1>2, <2>0, <3>1, AppendFacts
  <2>2. ASSUME NEW v \in Workers, conn'[v] # none
        PROVE  conn'[v] \notin Range(available') /\ \A u \in Workers : conn'[u] = conn'[v] => u = v
    BY <1>1, <1>2, <2>1, <2>2, GivesUp DEF Places, Exclusive
  <2>3. pool' = "ready" => all' \subseteq Range(available') \cup Range(conn')
    <3>1. SUFFICES ASSUME pool = "ready", NEW c \in all, c \notin Range(available')
                   PROVE  c \in Range(conn')
      BY <1>1
    <3>2. c \in Range(conn)
      BY <2>1, <3>1 DEF Places, Exclusive
    <3>3. PICK v \in Workers : conn[v] = c
      BY <3>2, InConn
    <3>4. v # w
      BY <2>1, <3>1, <3>3
    <3>5. conn'[v] = c /\ DOMAIN conn' = Workers
      BY <1>1, <3>3, <3>4
    <3> QED
      BY <3>5 DEF Range
  <2> QED
    BY <2>1, <2>2, <2>3 DEF Exclusive
<1>4. CASE channel # "open"
  <2>1. pool # "ready" /\ UNCHANGED available
    BY <1>4 DEF Typing, TypeOK, Places, ShutIsOver, Push
  <2>2. ASSUME NEW v \in Workers, conn'[v] # none
        PROVE  conn'[v] \notin Range(available') /\ \A u \in Workers : conn'[u] = conn'[v] => u = v
    BY <1>1, <2>1, <2>2, GivesUp
  <2> QED
    BY <1>1, <2>1, <2>2 DEF Exclusive, Places
<1> QED
  BY <1>3, <1>4

LEMMA ReturnPlaces == ASSUME Typing, Places, NEW w \in Workers, Return(w) PROVE Exclusive'
<1>1. UNCHANGED <<available, pool, all>>
  BY DEF Return, pools
<1>2. CASE UNCHANGED conn
  BY <1>1, <1>2, QuietPlaces DEF Places
<1>3. CASE pool # "ready" /\ conn' = [conn EXCEPT ![w] = none]
  <2>1. ASSUME NEW v \in Workers, conn'[v] # none
        PROVE  conn'[v] \notin Range(available') /\ \A u \in Workers : conn'[u] = conn'[v] => u = v
    BY <1>1, <1>3, <2>1, GivesUp
  <2> QED
    BY <1>1, <1>3, <2>1 DEF Exclusive, Places
<1> QED
  BY <1>2, <1>3 DEF Return, Returned

LEMMA DrainPlaces == Typing /\ Places /\ Drain => Exclusive'
<1> SUFFICES ASSUME Typing, Places, Drain PROVE Exclusive'
  OBVIOUS
<1>1. pool # "ready" /\ pool' # "ready" /\ UNCHANGED conn
  BY DEF Drain, workers
<1>2. CASE UNCHANGED available
  BY <1>1, <1>2, QuietPlaces DEF Places
<1>3. CASE available # <<>> /\ available' = Tail(available)
  <2>1. Range(available') \subseteq Range(available) /\ IsInjective(available')
    <3>1. available \in Seq(Connections) /\ IsInjective(available)
      BY DEF Typing, TypeOK, Places, Exclusive
    <3> QED
      BY <1>3, <3>1, TailFacts
  <2> QED
    BY <1>1, <2>1 DEF Places, Exclusive
<1> QED
  BY <1>2, <1>3 DEF Drain

LEMMA ExclusiveStep == Typing /\ Places /\ [Next]_vars => Exclusive'
<1> SUFFICES ASSUME Typing, Places, [Next]_vars PROVE Exclusive'
  OBVIOUS
<1>0. Exclusive
  BY DEF Places
<1> USE <1>0 DEF pools, workers
<1>1. CASE Initialize
  BY <1>1, InitializePlaces
<1>2. CASE StartClose
  BY <1>2, QuietPlaces DEF StartClose
<1>3. CASE CloseConnection
  BY <1>3, QuietPlaces DEF CloseConnection
<1>4. CASE CloseChannel
  BY <1>4, QuietPlaces DEF CloseChannel
<1>5. CASE Drain
  BY <1>5, DrainPlaces
<1>6. ASSUME NEW w \in Workers, Borrow(w) PROVE Exclusive'
  BY <1>6, QuietPlaces DEF Borrow
<1>7. ASSUME NEW w \in Workers, Receive(w) PROVE Exclusive'
  BY <1>7, ReceivePlaces
<1>8. ASSUME NEW w \in Workers, ReceiveNil(w) PROVE Exclusive'
  BY <1>8, QuietPlaces DEF ReceiveNil
<1>9. ASSUME NEW w \in Workers, BorrowTimeout(w) PROVE Exclusive'
  <2>1. conn' = conn
    BY <1>9 DEF BorrowTimeout, At, Returned, Typing, TypeOK, HoldsIts
  <2> QED
    BY <1>9, <2>1, QuietPlaces DEF BorrowTimeout
<1>10. ASSUME NEW w \in Workers, Reset1(w) PROVE Exclusive'
  BY <1>10, QuietPlaces DEF Reset1
<1>11. ASSUME NEW w \in Workers, Reset2(w) PROVE Exclusive'
  BY <1>11, QuietPlaces DEF Reset2
<1>12. ASSUME NEW w \in Workers, Reset3(w) PROVE Exclusive'
  BY <1>12, QuietPlaces DEF Reset3
<1>13. ASSUME NEW w \in Workers, SendAudio(w) PROVE Exclusive'
  BY <1>13, QuietPlaces DEF SendAudio
<1>14. ASSUME NEW w \in Workers, SendFails(w) PROVE Exclusive'
  BY <1>14, QuietPlaces DEF SendFails
<1>15. ASSUME NEW w \in Workers, Wait(w) PROVE Exclusive'
  BY <1>15, QuietPlaces DEF Wait
<1>16. ASSUME NEW w \in Workers, Return(w) PROVE Exclusive'
  BY <1>16, ReturnPlaces
<1>17. ASSUME NEW w \in Workers, Push(w) PROVE Exclusive'
  BY <1>17, PushPlaces
<1>18. ASSUME NEW w \in Workers, WaitCancelled(w) PROVE Exclusive'
  BY <1>18, QuietPlaces DEF WaitCancelled
<1>19. ASSUME NEW c \in Connections, Deliver(c) PROVE Exclusive'
  BY <1>19, DeliverFacts, QuietPlaces
<1>20. ASSUME NEW c \in Connections, ServerFrame(c) PROVE Exclusive'
  BY <1>20, QuietPlaces DEF ServerFrame
<1>21. ASSUME NEW c \in Connections, ServerEnds(c) PROVE Exclusive'
  BY <1>21, QuietPlaces DEF ServerEnds
<1>22. ASSUME NEW c \in Connections, Breaks(c) PROVE Exclusive'
  BY <1>22, QuietPlaces DEF Breaks
<1>23. ASSUME NEW c \in Connections, ReaderCloses(c) PROVE Exclusive'
  BY <1>23, QuietPlaces DEF ReaderCloses
<1>24. ASSUME NEW c \in Connections, Callback(c) PROVE Exclusive'
  BY <1>24, CallbackFacts, QuietPlaces
<1>25. ASSUME NEW w \in Workers, WaitReads(w) PROVE Exclusive'
  BY <1>25, QuietPlaces DEF WaitReads
<1>26. CASE UNCHANGED vars
  BY <1>26, QuietPlaces DEF vars, pools, sessions, workers, history
<1> QED
  BY <1>1, <1>2, <1>3, <1>4, <1>5, <1>6, <1>7, <1>8, <1>9, <1>10, <1>11, <1>12, <1>13,
     <1>14, <1>15, <1>16, <1>17, <1>18, <1>19, <1>20, <1>21, <1>22, <1>23, <1>24, <1>25, <1>26
     DEF Next, UserNext, Close, WorkerStep, ConnectionStep

LEMMA PlacesStep == Typing /\ Places /\ [Next]_vars => Places'
BY StageStep, ExclusiveStep DEF Places

--------------------------------------------------------------------------------
(* Waiters                                                                    *)

Ends(f) == f.last \/ f.kind = "error"

\* A callback has still to close done.
Finishing(c) == \E k \in Callers : stage[c][k] \in Finishes

\* What ends the wait of v: its channel, the server, or a callback.
Ending(v) ==
    LET c == conn[v] IN
    \/ collector[c].done = "closed"
    \/ reader[c] = "run" /\ req[v] \in Range(pending[c])
    \/ \E f \in Range(queue[c]) : Ends(f)
    \/ Finishing(c)

Woken(v) == pc[v] = "wait" /\ Running /\ reader[conn[v]] \notin {"closing", "silent"} => Ending(v)

\* The next callback that calls the Once of c closes done, unless that is done
\* already or a callback is about to do it.
Armed(c) ==
    \/ collector[c].once = "fresh" /\ ~collector[c].lock
    \/ collector[c].done = "closed"
    \/ \E k \in Callers : stage[c][k] = "close"

Wakeable(v) == pc[v] \in {"send", "wait"} => Armed(conn[v])

\* OnClose goroutines that were not started yet, and connections of a new pool.
Unused(c) ==
    /\ pool = "new" \/ c \in all => stage[c]["pool"] = "none"
    /\ pool = "new" \/ reader[c] \in {"run", "closing"} => stage[c]["reader"] = "none"
    /\ reader[c] \in {"ended", "silent"} => ~session[c]
    /\ pool = "new" => /\ reader[c] = "ended" /\ stage[c]["dispatcher"] = "none"
                       /\ queue[c] = <<>> /\ pending[c] = <<>>

Wake ==
    /\ \A v \in Workers : Wakeable(v) /\ Woken(v)
    /\ \A c \in Connections : Unused(c)

LEMMA InQueue ==
    ASSUME NEW S, NEW q \in Seq(S)
    PROVE  (\E f \in Range(q) : Ends(f)) <=> \E i \in DOMAIN q : q[i].last \/ q[i].kind = "error"
BY DEF Range, Ends

LEMMA WakeIsEnough == Typing /\ Wake => WaitersWoken
<1> SUFFICES ASSUME Typing, Wake, NEW w \in Workers, pc[w] = "wait", Running,
                    reader[conn[w]] \notin {"closing", "silent"}
             PROVE  \/ collector[conn[w]].done = "closed"
                    \/ reader[conn[w]] = "run" /\ req[w] \in Range(pending[conn[w]])
                    \/ \E i \in DOMAIN queue[conn[w]] :
                          queue[conn[w]][i].last \/ queue[conn[w]][i].kind = "error"
                    \/ \E k \in Callers : stage[conn[w]][k] \in Finishes
  BY DEF WaitersWoken
<1>1. Ending(w)
  BY DEF Wake, Woken
<1>2. queue[conn[w]] \in Seq(Frames)
  BY HasConn DEF Typing, TypeOK
<1> QED
  BY <1>1, <1>2, InQueue DEF Ending, Finishing

LEMMA WakeInit == Init => Wake
<1> SUFFICES ASSUME Init PROVE Wake
  OBVIOUS
<1>1. \A v \in Workers : Wakeable(v) /\ Woken(v)
  BY DEF Init, Wakeable, Woken
<1>2. \A c \in Connections : Unused(c)
  BY DEF Init, Unused, Callers
<1> QED
  BY <1>1, <1>2 DEF Wake

\* A waiting worker's connection is its own.
LEMMA Alone ==
    ASSUME Typing, Places, NEW v \in Workers, NEW w \in Workers, v # w,
           pc[v] \in {"send", "wait"}
    PROVE  conn[v] \in Connections /\ conn[w] # conn[v]
<1>1. conn[v] \in Connections
  BY HasConn
<1>2. conn[v] # none
  BY <1>1, PoolAssumption DEF none
<1> QED
  BY <1>1, <1>2 DEF Places, Exclusive

\* A step that does not concern v.
LEMMA KeepsWake ==
    ASSUME NEW v \in Workers, Wakeable(v) /\ Woken(v), UNCHANGED <<panicked, conn[v], req[v]>>,
           pc'[v] = pc[v] \/ pc'[v] \notin {"send", "wait"},
           pc[v] \in {"send", "wait"} =>
              /\ collector'[conn[v]] = collector[conn[v]] /\ reader'[conn[v]] = reader[conn[v]]
              /\ pending'[conn[v]] = pending[conn[v]] /\ queue'[conn[v]] = queue[conn[v]]
              /\ stage'[conn[v]] = stage[conn[v]]
    PROVE  (Wakeable(v) /\ Woken(v))'
BY DEF Wakeable, Woken, Armed, Running, Ending, Finishing

LEMMA DeliverWakes ==
    ASSUME Typing, Places, NEW v \in Workers, Wakeable(v) /\ Woken(v),
           NEW c \in Connections, Deliver(c)
    PROVE  (Wakeable(v) /\ Woken(v))'
<1> DEFINE f == Head(queue[c])
<1>1. /\ UNCHANGED <<pc, conn, req, reader, pending, panicked>> /\ Running
      /\ queue \in [Connections -> Seq(Frames)]
      /\ queue[c] # <<>> /\ queue' = [queue EXCEPT ![c] = Tail(@)]
      /\ \A d \in Connections : d # c => stage'[d] = stage[d] /\ collector'[d] = collector[d]
      /\ \A j \in Callers : j # "dispatcher" => stage'[c][j] = stage[c][j]
      /\ stage[c]["dispatcher"] = "none"
      /\ collector'[c].done = collector[c].done /\ collector'[c].once = collector[c].once
      /\ collector'[c].lock = collector[c].lock
      /\ \/ f.kind = "frame" /\ stage'[c]["dispatcher"] = (IF f.last THEN "do" ELSE "none")
         \/ f.kind = "error" /\ stage'[c]["dispatcher"] \in {"do", "set"}
  BY DeliverFacts DEF workers, Typing, TypeOK
<1>2. SUFFICES ASSUME pc[v] \in {"send", "wait"} PROVE (Wakeable(v) /\ Woken(v))'
  BY <1>1 DEF Wakeable, Woken
<1>3. conn[v] \in Connections /\ Armed(conn[v])
  BY <1>2, HasConn DEF Wakeable
<1>4. CASE conn[v] # c
  <2>1. collector'[conn[v]] = collector[conn[v]] /\ queue'[conn[v]] = queue[conn[v]] /\ stage'[conn[v]] = stage[conn[v]]
    BY <1>1, <1>3, <1>4
  <2> QED
    BY <1>1, <2>1, KeepsWake
<1>5. CASE conn[v] = c
  <2>1. Wakeable(v)'
    <3>1. \A k \in Callers : stage[c][k] = "close" => stage'[c][k] = "close"
      BY <1>1
    <3> QED
      BY <1>1, <1>3, <1>5, <3>1 DEF Wakeable, Armed
  <2>2. CASE Ends(f)
    <3>1. stage'[c]["dispatcher"] \in Finishes /\ "dispatcher" \in Callers
      BY <1>1, <2>2 DEF Ends, Finishes, Callers
    <3> QED
      BY <1>1, <1>5, <2>1, <3>1 DEF Woken, Ending, Finishing
  <2>3. CASE ~Ends(f)
    <3>1. f.kind = "frame" /\ stage'[c]["dispatcher"] = "none"
      BY <1>1, <2>3 DEF Ends
    <3>2. SUFFICES ASSUME pc[v] = "wait", reader[c] \notin {"closing", "silent"} PROVE Ending(v)'
      BY <1>1, <1>5, <2>1 DEF Woken
    <3>3. Ending(v)
      BY <1>1, <1>5, <3>2 DEF Woken
    <3>4. CASE collector[c].done = "closed" \/ (reader[c] = "run" /\ req[v] \in Range(pending[c]))
      BY <3>4, <1>1, <1>5 DEF Ending
    <3>5. CASE \E g \in Range(queue[c]) : Ends(g)
      <4>1. PICK g \in Range(queue[c]) : Ends(g)
        BY <3>5
      <4>2. g \in Range(queue'[c])
        <5>1. PICK q \in Seq(Frames) : q = queue[c]
          BY <1>1
        <5>2. Range(q) = Range(Tail(q)) \cup {Head(q)} /\ queue'[c] = Tail(q)
          BY <1>1, <5>1, TailFacts
        <5> QED
          BY <2>3, <4>1, <5>1, <5>2
      <4> QED
        BY <4>1, <4>2, <1>1, <1>5 DEF Ending
    <3>6. CASE Finishing(c)
      <4>1. PICK k \in Callers : stage[c][k] \in Finishes
        BY <3>6 DEF Finishing
      <4>2. k # "dispatcher"
        BY <1>1, <4>1 DEF Finishes
      <4> QED
        BY <1>1, <1>5, <4>1, <4>2 DEF Ending, Finishing
    <3> QED
      BY <3>3, <3>4, <3>5, <3>6, <1>5 DEF Ending
  <2> QED
    BY <2>2, <2>3
<1> QED
  BY <1>4, <1>5

\* A callback of c that runs leaves the collector armed, and still closes done.
LEMMA CallbackArms ==
    ASSUME Typing, NEW c \in Connections, Callback(c), Armed(c)
    PROVE  /\ Armed(c)'
           /\ collector[c].done = "closed" => collector'[c].done = "closed"
           /\ Finishing(c) => collector'[c].done = "closed" \/ Finishing(c)'
<1>1. PICK k \in Callers : Did(c, k) /\ \A j \in Callers : j # k => stage'[c][j] = stage[c][j]
  BY CallbackFacts
<1>2. collector[c].done = "closed" => collector'[c].done = "closed"
  BY <1>1 DEF Did
<1>3. Armed(c)'
  <2>1. CASE collector[c].done = "closed"
    BY <1>2, <2>1 DEF Armed
  <2>2. CASE \E j \in Callers : stage[c][j] = "close"
    <3>1. PICK j \in Callers : stage[c][j] = "close"
      BY <2>2
    <3>2. CASE j # k
      BY <1>1, <3>1, <3>2 DEF Armed
    <3>3. CASE j = k
      <4>1. collector'[c].done = "closed"
        BY <1>1, <3>1, <3>3 DEF Did
      <4> QED
        BY <4>1 DEF Armed
    <3> QED
      BY <3>2, <3>3
  <2>3. CASE collector[c].once = "fresh" /\ ~collector[c].lock
    <3>1. \/ collector'[c].once = "fresh" /\ ~collector'[c].lock
          \/ collector'[c].done = "closed"
          \/ stage'[c][k] = "close"
      BY <1>1, <2>3 DEF Did
    <3> QED
      BY <3>1 DEF Armed
  <2> QED
    BY <2>1, <2>2, <2>3 DEF Armed
<1>4. ASSUME Finishing(c) PROVE collector'[c].done = "closed" \/ Finishing(c)'
  <2>1. PICK j \in Callers : stage[c][j] \in Finishes
    BY <1>4 DEF Finishing
  <2>2. CASE j # k
    BY <1>1, <2>1, <2>2 DEF Finishing
  <2>3. CASE j = k
    <3>1. CASE stage'[c][k] \in Finishes
      BY <3>1 DEF Finishing
    <3>2. CASE stage[c][k] = "close"
      BY <1>1, <3>2 DEF Did
    <3>3. CASE stage[c][k] = "do" /\ stage'[c][k] \notin Finishes
      <4>1. collector[c].once = "spent"
        BY <1>1, <3>3 DEF Did, Finishes
      <4>2. CASE collector[c].done = "closed"
        BY <1>2, <4>2
      <4>3. CASE \E i \in Callers : stage[c][i] = "close"
        <5>1. PICK i \in Callers : stage[c][i] = "close"
          BY <4>3
        <5>2. stage'[c][i] = "close"
          BY <1>1, <3>3, <5>1
        <5> QED
          BY <5>2 DEF Finishing, Finishes
      <4> QED
        BY <4>1, <4>2, <4>3 DEF Armed
    <3> QED
      BY <1>1, <2>1, <2>3, <3>1, <3>2, <3>3 DEF Did, Finishes
  <2> QED
    BY <2>2, <2>3
<1> QED
  BY <1>2, <1>3, <1>4

LEMMA CallbackWakes ==
    ASSUME Typing, NEW v \in Workers, Wakeable(v) /\ Woken(v),
           NEW c \in Connections, Callback(c)
    PROVE  (Wakeable(v) /\ Woken(v))'
<1>1. /\ UNCHANGED <<pc, conn, req, reader, pending, queue>> /\ Running
      /\ \A d \in Connections : d # c => stage'[d] = stage[d] /\ collector'[d] = collector[d]
  BY CallbackFacts DEF workers
<1>2. SUFFICES ASSUME pc[v] \in {"send", "wait"} PROVE (Wakeable(v) /\ Woken(v))'
  BY <1>1 DEF Wakeable, Woken
<1>3. conn[v] \in Connections /\ Armed(conn[v])
  BY <1>2, HasConn DEF Wakeable
<1>4. CASE conn[v] # c
  <2>1. collector'[conn[v]] = collector[conn[v]] /\ stage'[conn[v]] = stage[conn[v]]
    BY <1>1, <1>3, <1>4
  <2> QED
    BY <1>1, <2>1 DEF Wakeable, Woken, Ending, Armed, Running, Finishing
<1>5. CASE conn[v] = c
  <2>1. /\ Armed(c)' /\ (collector[c].done = "closed" => collector'[c].done = "closed")
        /\ Finishing(c) => collector'[c].done = "closed" \/ Finishing(c)'
    BY <1>3, <1>5, CallbackArms
  <2>2. Wakeable(v)'
    BY <1>1, <1>5, <2>1 DEF Wakeable, Armed
  <2>3. Woken(v)'
    BY <1>1, <1>5, <2>1 DEF Woken, Ending, Finishing
  <2> QED
    BY <2>2, <2>3
<1> QED
  BY <1>4, <1>5

\* A callback is queued for c, and perhaps the first request of c answered by it.
LEMMA QueueWakes ==
    ASSUME Typing, NEW v \in Workers, Wakeable(v) /\ Woken(v), NEW c \in Connections,
           ServerFrame(c) \/ ServerEnds(c)
    PROVE  (Wakeable(v) /\ Woken(v))'
<1>1. /\ UNCHANGED <<pc, conn, req, reader, collector, stage>> /\ Running
      /\ queue \in [Connections -> Seq(Frames)] /\ pending \in [Connections -> Seq(1..MaxReqs)]
  BY DEF ServerFrame, ServerEnds, workers, Typing, TypeOK
<1>2. SUFFICES ASSUME pc[v] = "wait", reader[conn[v]] \notin {"closing", "silent"} PROVE Ending(v)'
  BY <1>1 DEF Wakeable, Armed, Woken
<1>3. conn[v] \in Connections /\ Ending(v)
  BY <1>1, <1>2, HasConn DEF Woken
<1>4. CASE conn[v] # c
  <2>1. pending'[conn[v]] = pending[conn[v]] /\ queue'[conn[v]] = queue[conn[v]]
    BY <1>1, <1>3, <1>4 DEF ServerFrame, ServerEnds
  <2> QED
    BY <1>1, <1>3, <2>1 DEF Ending, Finishing
<1>5. CASE conn[v] = c /\ ServerFrame(c)
  <2> DEFINE f == Frame(Head(pending[c]), FALSE)
  <2>1. Head(pending[c]) \in 0..MaxReqs
    BY <1>1, <1>5, PoolAssumption DEF ServerFrame
  <2>2. f \in Frames
    BY <2>1 DEF Frame, Frames
  <2>3. Range(queue'[c]) = Range(queue[c]) \cup {f} /\ UNCHANGED pending
    <3>1. queue'[c] = Append(queue[c], f) /\ queue[c] \in Seq(Frames) /\ UNCHANGED pending
      BY <1>1, <1>5 DEF ServerFrame
    <3>2. PICK q \in Seq(Frames), g \in Frames : q = queue[c] /\ g = f
      BY <3>1, <2>2
    <3>3. Range(Append(q, g)) = Range(q) \cup {g}
      BY AppendFacts
    <3> QED
      BY <3>1, <3>2, <3>3
  <2> QED
    BY <2>3, <1>1, <1>3, <1>5 DEF Ending, Finishing
<1>6. CASE conn[v] = c /\ ServerEnds(c)
  <2>1. PICK f \in {Frame(Head(pending[c]), TRUE), Error} : queue' = [queue EXCEPT ![c] = Append(@, f)]
    BY <1>6 DEF ServerEnds
  <2>2. Head(pending[c]) \in 0..MaxReqs
    BY <1>1, <1>6, PoolAssumption DEF ServerEnds
  <2>3. f \in Frames /\ Ends(f)
    <3>1. Frame(Head(pending[c]), TRUE) \in Frames /\ Frame(Head(pending[c]), TRUE).last
      BY <2>2 DEF Frame, Frames
    <3>2. Error \in Frames /\ Error.kind = "error"
      BY PoolAssumption DEF Error, Frames
    <3> QED
      BY <2>1, <3>1, <3>2 DEF Ends
  <2>4. f \in Range(queue'[c])
    BY <2>1, <2>3, <1>1, AppendFacts
  <2> QED
    BY <2>3, <2>4, <1>1, <1>6 DEF Ending
<1> QED
  BY <1>4, <1>5, <1>6

LEMMA SendWakes ==
    ASSUME Typing, Places, Wake, NEW v \in Workers, Wakeable(v) /\ Woken(v),
           NEW w \in Workers, SendAudio(w)
    PROVE  (Wakeable(v) /\ Woken(v))'
<1>1. /\ UNCHANGED <<collector, queue, reader, stage, conn, panicked>>
      /\ pc' = [pc EXCEPT ![w] = "wait"] /\ pc[w] = "send"
      /\ pc \in [Workers -> PCs] /\ req \in [Workers -> 0..MaxReqs]
      /\ req' = [req EXCEPT ![w] = reqs'] /\ pending \in [Connections -> Seq(1..MaxReqs)]
      /\ reqs' \in 1..MaxReqs /\ conn[w] \in Connections
  <2>1. reqs' \in 1..MaxReqs
    <3>1. reqs \in 0..MaxReqs /\ reqs < MaxReqs /\ reqs' = reqs + 1
      BY DEF SendAudio, Typing, TypeOK
    <3> QED
      BY <3>1, PoolAssumption
  <2>2. conn[w] \in Connections
    BY HasConn DEF SendAudio, At
  <2> QED
    BY <2>1, <2>2 DEF SendAudio, At, Typing, TypeOK
<1>2. CASE v # w
  <2>1. pc'[v] = pc[v] /\ req'[v] = req[v]
    BY <1>1, <1>2
  <2>2. pc[v] \in {"send", "wait"} => pending'[conn[v]] = pending[conn[v]]
    BY <1>1, <1>2, Alone DEF SendAudio
  <2> QED
    BY <1>1, <2>1, <2>2, KeepsWake
<1>3. CASE v = w
  <2>1. Wakeable(v)'
    BY <1>1, <1>3 DEF Wakeable, Armed
  <2>3. reader[conn[w]] \in {"run", "closing"}
    <3>1. session[conn[w]] /\ Unused(conn[w]) /\ reader \in [Connections -> {"run", "closing", "ended", "silent"}]
      BY <1>1 DEF SendAudio, Wake, Typing, TypeOK
    <3> QED
      BY <1>1, <3>1 DEF Unused
  <2>2. ASSUME reader[conn[w]] = "run" PROVE Ending(v)'
    <3>1. pending'[conn[w]] = Append(pending[conn[w]], reqs')
      BY <1>1, <2>2 DEF SendAudio
    <3>2. pending[conn[w]] \in Seq(1..MaxReqs)
      BY <1>1
    <3>3. reqs' \in Range(pending'[conn[w]])
      <4>1. PICK Ids : Ids = 1..MaxReqs
        OBVIOUS
      <4>2. PICK q \in Seq(Ids), n \in Ids : q = pending[conn[w]] /\ n = reqs'
        BY <1>1, <3>2, <4>1
      <4>3. Range(Append(q, n)) = Range(q) \cup {n}
        BY AppendFacts
      <4> QED
        BY <3>1, <4>2, <4>3
    <3> QED
      BY <1>1, <1>3, <2>2, <3>3 DEF Ending
  <2> QED
    BY <1>1, <1>3, <2>1, <2>2, <2>3 DEF Woken
<1> QED
  BY <1>2, <1>3

LEMMA ResetWakes ==
    ASSUME Typing, Places, NEW v \in Workers, Wakeable(v) /\ Woken(v),
           NEW w \in Workers, Reset1(w) \/ Reset2(w) \/ Reset3(w)
    PROVE  (Wakeable(v) /\ Woken(v))'
<1>1. /\ UNCHANGED <<queue, reader, stage, pending, conn, req, panicked>>
      /\ pc' \in {[pc EXCEPT ![w] = l] : l \in {"done", "once", "send"}}
      /\ pc[w] \in {"clear", "done", "once"} /\ pc \in [Workers -> PCs]
      /\ collector \in [Connections -> Collectors]
      /\ \A c \in Connections : c # conn[w] => collector'[c] = collector[c]
  BY DEF Reset1, Reset2, Reset3, At, sessions, Typing, TypeOK
<1>2. conn[w] \in Connections
  BY <1>1, HasConn
<1>3. CASE v # w
  <2>1. pc'[v] = pc[v]
    BY <1>1, <1>3
  <2>2. pc[v] \in {"send", "wait"} => collector'[conn[v]] = collector[conn[v]]
    BY <1>1, <1>3, Alone
  <2> QED
    BY <1>1, <2>1, <2>2, KeepsWake
<1>4. CASE v = w
  <2>1. pc'[v] # "wait" /\ (pc'[v] = "send" => Reset3(w))
    BY <1>1, <1>4 DEF Reset1, Reset2, Reset3, At
  <2>2. Reset3(w) => collector'[conn[w]].once = "fresh" /\ ~collector'[conn[w]].lock
    BY <1>1, <1>2 DEF Reset3, Collectors
  <2> QED
    BY <1>1, <1>4, <2>1, <2>2 DEF Wakeable, Woken, Armed
<1> QED
  BY <1>3, <1>4

\* A step of the read loop that ends it.
LEMMA LoopWakes ==
    ASSUME Typing, Wake, NEW v \in Workers, Wakeable(v) /\ Woken(v), NEW c \in Connections,
           Breaks(c) \/ ReaderCloses(c)
    PROVE  (Wakeable(v) /\ Woken(v))'
<1>1. /\ UNCHANGED <<pc, conn, req, collector, panicked>>
      /\ \A d \in Connections : d # c =>
            pending'[d] = pending[d] /\ queue'[d] = queue[d] /\ reader'[d] = reader[d]
      /\ reader \in [Connections -> {"run", "closing", "ended", "silent"}]
      /\ stage \in [Connections -> [Callers -> Stages]] /\ "reader" \in Callers
  BY DEF Breaks, ReaderCloses, workers, Typing, TypeOK, Callers
<1>2. SUFFICES ASSUME pc[v] \in {"send", "wait"} PROVE (Wakeable(v) /\ Woken(v))'
  BY <1>1 DEF Wakeable, Woken
<1>3. conn[v] \in Connections /\ Armed(conn[v])
  BY <1>2, HasConn DEF Wakeable
<1>4. CASE conn[v] # c
  <2>1. stage'[conn[v]] = stage[conn[v]]
    BY <1>1, <1>3, <1>4 DEF Breaks, ReaderCloses, SessionClose
  <2> QED
    BY <1>1, <1>3, <1>4, <2>1, KeepsWake
<1>5. CASE conn[v] = c /\ Breaks(c)
  <2>1. reader'[c] = "closing" /\ UNCHANGED stage
    BY <1>1, <1>5 DEF Breaks
  <2> QED
    BY <1>1, <1>3, <1>5, <2>1 DEF Wakeable, Woken, Armed
<1>6. CASE conn[v] = c /\ ReaderCloses(c)
  <2>1. stage[c]["reader"] = "none"
    BY <1>6 DEF ReaderCloses, Wake, Unused
  <2>2. /\ stage'[c]["reader"] \in {"none", "begin"}
        /\ \A k \in Callers : k # "reader" => stage'[c][k] = stage[c][k]
    BY <1>1, <1>6, <2>1 DEF ReaderCloses, SessionClose
  <2>3. Armed(c)'
    BY <1>1, <1>3, <1>6, <2>1, <2>2 DEF Armed
  <2>4. reader'[c] # "silent" => stage'[c]["reader"] \in Finishes
    BY <1>1, <1>6, <2>2 DEF ReaderCloses, Finishes
  <2> QED
    BY <1>1, <1>6, <2>3, <2>4 DEF Wakeable, Woken, Ending, Finishing, Armed
<1> QED
  BY <1>4, <1>5, <1>6

\* A step that leaves alone what Unused is about.
LEMMA KeepsUnused ==
    ASSUME NEW c \in Connections, Unused(c),
           UNCHANGED <<queue[c], session[c], stage[c], reader[c], pending[c]>>,
           pool' = "new" => pool = "new", c \in all' => c \in all
    PROVE  Unused(c)'
BY DEF Unused

\* What no worker changes.
LEMMA WorkerKeeps ==
    ASSUME NEW w \in Workers, Borrow(w) \/ WorkerStep(w) \/ WaitCancelled(w)
    PROVE  /\ UNCHANGED <<pool, all, queue, session, stage, reader, sent>>
           /\ UNCHANGED pending \/ SendAudio(w)
<1> USE DEF pools, sessions
<1>1. CASE SendAudio(w)
  BY <1>1 DEF SendAudio
<1>2. CASE Borrow(w) \/ WaitCancelled(w) \/ Receive(w) \/ ReceiveNil(w) \/ BorrowTimeout(w)
  BY <1>2 DEF Borrow, WaitCancelled, Receive, ReceiveNil, BorrowTimeout
<1>3. CASE Reset1(w) \/ Reset2(w) \/ Reset3(w) \/ SendFails(w) \/ Wait(w) \/ WaitReads(w)
  BY <1>3 DEF Reset1, Reset2, Reset3, SendFails, Wait, WaitReads
<1>4. CASE Return(w) \/ Push(w)
  BY <1>4 DEF Return, Push
<1> QED
  BY <1>1, <1>2, <1>3, <1>4 DEF WorkerStep

\* A callback of c starts or runs: which of its callers have none does not change
\* but for the dispatcher's.
LEMMA StagesKeep ==
    ASSUME Typing, NEW c \in Connections, Callback(c) \/ Deliver(c), NEW d \in Connections,
           NEW k \in Callers, stage[d][k] = "none", k # "dispatcher" \/ queue[d] = <<>>
    PROVE  stage'[d][k] = "none"
<1>1. CASE d # c
  BY <1>1, CallbackFacts, DeliverFacts
<1>2. CASE d = c /\ Deliver(c)
  BY <1>2, DeliverFacts
<1>3. CASE d = c /\ Callback(c)
  <2>1. PICK j \in Callers : Did(c, j) /\ \A i \in Callers : i # j => stage'[c][i] = stage[c][i]
    BY <1>3, CallbackFacts
  <2>2. stage[c][j] # "none"
    BY <2>1 DEF Did
  <2> QED
    BY <1>3, <2>1, <2>2
<1> QED
  BY <1>1, <1>2, <1>3

LEMMA UnusedStep ==
    ASSUME Typing, Places, Wake, Next, NEW c \in Connections
    PROVE  Unused(c)'
<1>0. /\ Unused(c) /\ {"dispatcher", "reader", "pool"} = Callers
      /\ queue \in [Connections -> Seq(Frames)] /\ session \in [Connections -> BOOLEAN]
      /\ stage \in [Connections -> [Callers -> Stages]]
      /\ reader \in [Connections -> {"run", "closing", "ended", "silent"}]
      /\ pending \in [Connections -> Seq(1..MaxReqs)]
  BY DEF Wake, Typing, TypeOK, Callers
<1>1. CASE Initialize
  BY <1>0, <1>1 DEF Initialize, Unused
<1>2. CASE StartClose
  BY <1>0, <1>2, KeepsUnused DEF StartClose, sessions
<1>3. CASE CloseConnection
  <2>1. PICK d \in all : SessionClose(d, "pool") /\ all' = all \ {d}
    BY <1>3 DEF CloseConnection
  <2>2. UNCHANGED <<pool, queue, reader, pending>> /\ pool = "closing"
    BY <1>3 DEF CloseConnection
  <2>3. CASE d # c
    <3>1. stage'[c] = stage[c] /\ session'[c] = session[c]
      BY <1>0, <2>1, <2>3 DEF SessionClose
    <3> QED
      BY <1>0, <2>1, <2>2, <3>1, KeepsUnused
  <2>4. CASE d = c
    <3>1. ~session'[c] /\ stage'[c]["reader"] = stage[c]["reader"] /\ c \notin all'
      BY <1>0, <2>1, <2>4 DEF SessionClose
    <3> QED
      BY <1>0, <2>2, <3>1 DEF Unused
  <2> QED
    BY <2>3, <2>4
<1>4. CASE CloseChannel \/ Drain
  BY <1>0, <1>4, KeepsUnused DEF CloseChannel, Drain, sessions
<1>5. ASSUME NEW w \in Workers, Borrow(w) \/ WorkerStep(w) \/ WaitCancelled(w) PROVE Unused(c)'
  <2>1. /\ UNCHANGED <<pool, all, queue, session, stage, reader, sent>>
        /\ UNCHANGED pending \/ SendAudio(w)
    BY <1>5, WorkerKeeps
  <2>2. CASE UNCHANGED pending
    BY <1>0, <2>1, <2>2, KeepsUnused
  <2>3. CASE SendAudio(w)
    <3>1. pool # "new"
      BY <2>3 DEF SendAudio, At, Places, NewIsEmpty
    <3> QED
      BY <1>0, <2>1, <3>1 DEF Unused
  <2> QED
    BY <2>1, <2>2, <2>3
<1>6. ASSUME NEW d \in Connections, Callback(d) \/ Deliver(d) PROVE Unused(c)'
  <2>1. UNCHANGED <<pool, all, session, reader, pending>>
    BY <1>6, CallbackFacts, DeliverFacts DEF pools
  <2>2. queue[c] = <<>> => queue'[c] = <<>>
    BY <1>6, CallbackFacts, DeliverFacts
  <2>3. /\ stage[c]["pool"] = "none" => stage'[c]["pool"] = "none"
        /\ stage[c]["reader"] = "none" => stage'[c]["reader"] = "none"
        /\ stage[c]["dispatcher"] = "none" /\ queue[c] = <<>> => stage'[c]["dispatcher"] = "none"
    BY <1>0, <1>6, StagesKeep
  <2> QED
    BY <1>0, <2>1, <2>2, <2>3 DEF Unused
<1>7. ASSUME NEW d \in Connections, ServerFrame(d) \/ ServerEnds(d) \/ Breaks(d) PROVE Unused(c)'
  <2>1. /\ UNCHANGED <<pool, all, session, stage>> /\ reader[d] = "run"
        /\ c # d => UNCHANGED <<queue[c], reader[c], pending[c]>>
        /\ reader'[d] \in {"run", "closing"}
    BY <1>0, <1>7 DEF ServerFrame, ServerEnds, Breaks, pools
  <2>2. CASE c # d
    BY <1>0, <2>1, <2>2, KeepsUnused
  <2>3. CASE c = d
    BY <1>0, <2>1, <2>3 DEF Unused
  <2> QED
    BY <2>2, <2>3
<1>8. ASSUME NEW d \in Connections, ReaderCloses(d) PROVE Unused(c)'
  <2>1. /\ UNCHANGED <<pool, all, queue, pending>> /\ reader[d] = "closing"
        /\ c # d => UNCHANGED <<stage[c], reader[c], session[c]>>
        /\ reader'[d] \in {"ended", "silent"} /\ ~session'[d]
        /\ stage'[d]["pool"] = stage[d]["pool"]
    BY <1>0, <1>8 DEF ReaderCloses, SessionClose, pools
  <2>2. CASE c # d
    BY <1>0, <2>1, <2>2, KeepsUnused
  <2>3. CASE c = d
    BY <1>0, <2>1, <2>3 DEF Unused
  <2> QED
    BY <2>2, <2>3
<1> QED
  BY <1>1, <1>2, <1>3, <1>4, <1>5, <1>6, <1>7, <1>8 DEF Next, UserNext, Close, ConnectionStep

LEMMA WakeStep == Typing /\ Places /\ Wake /\ [Next]_vars => Wake'
<1>a. ASSUME Typing, Places, Wake, [Next]_vars PROVE \A c \in Connections : Unused(c)'
  <2>1. CASE Next
    BY <1>a, <2>1, UnusedStep
  <2>2. CASE UNCHANGED vars
    BY <1>a, <2>2, KeepsUnused DEF Wake, vars, pools, sessions
  <2> QED
    BY <1>a, <2>1, <2>2
<1> SUFFICES ASSUME Typing, Places, Wake, [Next]_vars, NEW v \in Workers
             PROVE  (Wakeable(v) /\ Woken(v))'
  BY <1>a DEF Wake
<1>0. /\ Wakeable(v) /\ Woken(v) /\ pc \in [Workers -> PCs]
      /\ conn \in [Workers -> Connections \cup {none}] /\ req \in [Workers -> 0..MaxReqs]
  BY DEF Wake, Typing, TypeOK
<1> USE <1>0 DEF workers, sessions
<1>1. CASE Initialize
  <2>1. pc[v] = "idle" /\ pc'[v] = "idle"
    BY <1>1 DEF Initialize, Places, NewIsEmpty
  <2> QED
    BY <2>1 DEF Wakeable, Woken
<1>2. CASE StartClose
  BY <1>2, KeepsWake DEF StartClose
<1>3. CASE CloseConnection
  <2>1. PICK d \in all : SessionClose(d, "pool") /\ UNCHANGED <<collector, queue, reader, pending, workers, panicked>>
    BY <1>3 DEF CloseConnection
  <2>2. /\ stage[d]["pool"] = "none" /\ d \in Connections /\ "pool" \in Callers
        /\ stage \in [Connections -> [Callers -> Stages]]
    BY <2>1 DEF Wake, Unused, Typing, TypeOK, Callers
  <2>3. \A c \in Connections, k \in Callers : stage[c][k] # "none" => stage'[c][k] = stage[c][k]
    BY <2>1, <2>2 DEF SessionClose
  <2>4. CASE pc[v] \in {"send", "wait"}
    <3>1. conn[v] \in Connections
      BY <2>4, HasConn
    <3>2. Wakeable(v)'
      BY <2>1, <2>3, <2>4, <3>1 DEF Wakeable, Armed
    <3>3. Woken(v)'
      <4>1. Finishing(conn[v]) => \E k \in Callers : stage'[conn[v]][k] \in Finishes
        BY <2>3, <3>1 DEF Finishing, Finishes
      <4> QED
        BY <2>1, <4>1 DEF Woken, Ending, Finishing, Running
    <3> QED
      BY <3>2, <3>3
  <2>5. CASE pc[v] \notin {"send", "wait"}
    BY <2>1, <2>5 DEF Wakeable, Woken
  <2> QED
    BY <2>4, <2>5
<1>4. CASE CloseChannel
  BY <1>4, KeepsWake DEF CloseChannel
<1>5. CASE Drain
  BY <1>5, KeepsWake DEF Drain
<1>6. ASSUME NEW w \in Workers, Borrow(w) PROVE (Wakeable(v) /\ Woken(v))'
  <2>1. pc'[v] = pc[v] \/ pc'[v] \notin {"send", "wait"}
    BY <1>6 DEF Borrow, At
  <2> QED
    BY <1>6, <2>1, KeepsWake DEF Borrow
<1>7. ASSUME NEW w \in Workers, Receive(w) PROVE (Wakeable(v) /\ Woken(v))'
  <2>1. CASE v = w
    BY <1>7, <2>1 DEF Receive, At, Returned, Wakeable, Woken
  <2>2. CASE v # w
    <3>1. pc'[v] = pc[v] /\ conn'[v] = conn[v] /\ req'[v] = req[v]
      BY <1>7, <2>2 DEF Receive, At, Returned
    <3> QED
      BY <1>7, <3>1 DEF Receive, Panic, Wakeable, Woken, Running, Ending, Armed, Finishing
  <2> QED
    BY <2>1, <2>2
<1>8. ASSUME NEW w \in Workers, ReceiveNil(w) PROVE (Wakeable(v) /\ Woken(v))'
  <2>1. CASE v = w
    BY <1>8, <2>1 DEF ReceiveNil, At, Returned, Wakeable, Woken
  <2>2. CASE v # w
    <3>1. pc'[v] = pc[v] /\ conn'[v] = conn[v] /\ req'[v] = req[v]
      BY <1>8, <2>2 DEF ReceiveNil, At, Returned
    <3> QED
      BY <1>8, <3>1 DEF ReceiveNil, Panic, Wakeable, Woken, Running, Ending, Armed, Finishing
  <2> QED
    BY <2>1, <2>2
<1>9. ASSUME NEW w \in Workers, BorrowTimeout(w) PROVE (Wakeable(v) /\ Woken(v))'
  <2>1. CASE v = w
    BY <1>9, <2>1 DEF BorrowTimeout, At, Returned, Wakeable, Woken
  <2>2. CASE v # w
    <3>1. pc'[v] = pc[v] /\ conn'[v] = conn[v] /\ req'[v] = req[v]
      BY <1>9, <2>2 DEF BorrowTimeout, At, Returned
    <3> QED
      BY <1>9, <3>1 DEF BorrowTimeout, Panic, Wakeable, Woken, Running, Ending, Armed, Finishing
  <2> QED
    BY <2>1, <2>2
<1>10. ASSUME NEW w \in Workers, Reset1(w) PROVE (Wakeable(v) /\ Woken(v))'
  BY <1>10, ResetWakes
<1>11. ASSUME NEW w \in Workers, Reset2(w) PROVE (Wakeable(v) /\ Woken(v))'
  BY <1>11, ResetWakes
<1>12. ASSUME NEW w \in Workers, Reset3(w) PROVE (Wakeable(v) /\ Woken(v))'
  BY <1>12, ResetWakes
<1>13. ASSUME NEW w \in Workers, SendAudio(w) PROVE (Wakeable(v) /\ Woken(v))'
  BY <1>13, SendWakes
<1>14. ASSUME NEW w \in Workers, SendFails(w) PROVE (Wakeable(v) /\ Woken(v))'
  <2>1. pc'[v] = pc[v] \/ pc'[v] \notin {"send", "wait"}
    BY <1>14 DEF SendFails, At
  <2> QED
    BY <1>14, <2>1, KeepsWake DEF SendFails
<1>15. ASSUME NEW w \in Workers, Wait(w) PROVE (Wakeable(v) /\ Woken(v))'
  <2>1. pc'[v] = pc[v] \/ pc'[v] \notin {"send", "wait"}
    BY <1>15 DEF Wait, At
  <2> QED
    BY <1>15, <2>1, KeepsWake DEF Wait
<1>16. ASSUME NEW w \in Workers, Return(w) PROVE (Wakeable(v) /\ Woken(v))'
  <2>1. CASE v = w
    BY <1>16, <2>1 DEF Return, At, Returned, Wakeable, Woken
  <2>2. CASE v # w
    <3>1. pc'[v] = pc[v] /\ conn'[v] = conn[v] /\ req'[v] = req[v]
      BY <1>16, <2>2 DEF Return, At, Returned
    <3> QED
      BY <1>16, <3>1 DEF Return, Panic, Wakeable, Woken, Running, Ending, Armed, Finishing
  <2> QED
    BY <2>1, <2>2
<1>17. ASSUME NEW w \in Workers, Push(w) PROVE (Wakeable(v) /\ Woken(v))'
  <2>1. CASE v = w
    BY <1>17, <2>1 DEF Push, At, Returned, Wakeable, Woken
  <2>2. CASE v # w
    <3>1. pc'[v] = pc[v] /\ conn'[v] = conn[v] /\ req'[v] = req[v]
      BY <1>17, <2>2 DEF Push, At, Returned
    <3> QED
      BY <1>17, <3>1 DEF Push, Panic, Wakeable, Woken, Running, Ending, Armed, Finishing
  <2> QED
    BY <2>1, <2>2
<1>18. ASSUME NEW w \in Workers, WaitCancelled(w) PROVE (Wakeable(v) /\ Woken(v))'
  <2>1. pc'[v] = pc[v] \/ pc'[v] \notin {"send", "wait"}
    BY <1>18 DEF WaitCancelled, At
  <2> QED
    BY <1>18, <2>1, KeepsWake DEF WaitCancelled
<1>19. ASSUME NEW c \in Connections, Deliver(c) PROVE (Wakeable(v) /\ Woken(v))'
  BY <1>19, DeliverWakes
<1>20. ASSUME NEW c \in Connections, ServerFrame(c) PROVE (Wakeable(v) /\ Woken(v))'
  BY <1>20, QueueWakes
<1>21. ASSUME NEW c \in Connections, ServerEnds(c) PROVE (Wakeable(v) /\ Woken(v))'
  BY <1>21, QueueWakes
<1>22. ASSUME NEW c \in Connections, Breaks(c) PROVE (Wakeable(v) /\ Woken(v))'
  BY <1>22, LoopWakes
<1>23. ASSUME NEW c \in Connections, ReaderCloses(c) PROVE (Wakeable(v) /\ Woken(v))'
  BY <1>23, LoopWakes
<1>24. ASSUME NEW c \in Connections, Callback(c) PROVE (Wakeable(v) /\ Woken(v))'
  BY <1>24, CallbackWakes
<1>25. ASSUME NEW w \in Workers, WaitReads(w) PROVE (Wakeable(v) /\ Woken(v))'
  <2>1. pc'[v] = pc[v] \/ pc'[v] \notin {"send", "wait"}
    BY <1>25 DEF WaitReads, At
  <2> QED
    BY <1>25, <2>1, KeepsWake DEF WaitReads
<1>26. CASE UNCHANGED vars
  BY <1>26, KeepsWake DEF vars, pools, sessions, workers, history
<1> QED
  BY <1>1, <1>2, <1>3, <1>4, <1>5, <1>6, <1>7, <1>8, <1>9, <1>10, <1>11, <1>12, <1>13,
     <1>14, <1>15, <1>16, <1>17, <1>18, <1>19, <1>20, <1>21, <1>22, <1>23, <1>24, <1>25, <1>26
     DEF Next, UserNext, Close, WorkerStep, ConnectionStep

--------------------------------------------------------------------------------
(* The channel of the pool                                                    *)

\* A program that was not in a hurry has no request left when it closes the pool.
Calm ==
    ~rushed => /\ panicked \notin {"send on closed", "nil connection"}
               /\ pool \notin {"new", "ready"} => \A w \in Workers : pc[w] = "idle"

LEMMA CalmInit == Init => Calm
BY DEF Init, Calm

LEMMA CalmStep == Typing /\ Places /\ Calm /\ [Next]_vars => Calm'
<1> SUFFICES ASSUME Typing, Places, Calm, [Next]_vars PROVE Calm'
  OBVIOUS
<1>0. /\ PoolType /\ pc \in [Workers -> PCs] /\ ShutIsOver /\ Calm
  BY Parts DEF Typing, Places, WorkerType
<1> USE <1>0 DEF Calm, ShutIsOver, PoolType, pools, workers, history, At, Panic
<1>1. CASE Initialize
  BY <1>1 DEF Initialize
<1>2. CASE StartClose
  <2>1. ~rushed' => \A w \in Workers : pc[w] = "idle"
    BY <1>2 DEF StartClose
  <2>2. ~rushed' => panicked \notin {"send on closed", "nil connection"}
    BY <1>2 DEF StartClose, Running
  <2> QED
    BY <1>2, <2>1, <2>2 DEF StartClose
<1>3. CASE CloseConnection
  BY <1>3 DEF CloseConnection
<1>4. CASE CloseChannel
  BY <1>4 DEF CloseChannel
<1>5. CASE Drain
  BY <1>5 DEF Drain
<1>6. ASSUME NEW w \in Workers, Borrow(w) PROVE Calm'
  BY <1>6 DEF Borrow
<1>7. ASSUME NEW w \in Workers, Receive(w) PROVE Calm'
  BY <1>7 DEF Receive
<1>8. ASSUME NEW w \in Workers, ReceiveNil(w) PROVE Calm'
  BY <1>8 DEF ReceiveNil
<1>9. ASSUME NEW w \in Workers, BorrowTimeout(w) PROVE Calm'
  BY <1>9 DEF BorrowTimeout
<1>10. ASSUME NEW w \in Workers, Reset1(w) PROVE Calm'
  BY <1>10 DEF Reset1
<1>11. ASSUME NEW w \in Workers, Reset2(w) PROVE Calm'
  BY <1>11 DEF Reset2
<1>12. ASSUME NEW w \in Workers, Reset3(w) PROVE Calm'
  BY <1>12 DEF Reset3
<1>13. ASSUME NEW w \in Workers, SendAudio(w) PROVE Calm'
  BY <1>13 DEF SendAudio
<1>14. ASSUME NEW w \in Workers, SendFails(w) PROVE Calm'
  BY <1>14 DEF SendFails
<1>15. ASSUME NEW w \in Workers, Wait(w) PROVE Calm'
  BY <1>15 DEF Wait
<1>16. ASSUME NEW w \in Workers, Return(w) PROVE Calm'
  BY <1>16 DEF Return
<1>17. ASSUME NEW w \in Workers, Push(w) PROVE Calm'
  BY <1>17 DEF Push
<1>18. ASSUME NEW w \in Workers, WaitCancelled(w) PROVE Calm'
  BY <1>18 DEF WaitCancelled
<1>19. ASSUME NEW c \in Connections, Deliver(c) PROVE Calm'
  <2>1. UNCHANGED <<pools, workers, history, panicked>>
    BY <1>19, DeliverFacts
  <2> QED
    BY <2>1
<1>20. ASSUME NEW c \in Connections, ServerFrame(c) PROVE Calm'
  BY <1>20 DEF ServerFrame
<1>21. ASSUME NEW c \in Connections, ServerEnds(c) PROVE Calm'
  BY <1>21 DEF ServerEnds
<1>22. ASSUME NEW c \in Connections, Breaks(c) PROVE Calm'
  BY <1>22 DEF Breaks
<1>23. ASSUME NEW c \in Connections, ReaderCloses(c) PROVE Calm'
  BY <1>23 DEF ReaderCloses
<1>24. ASSUME NEW c \in Connections, Callback(c) PROVE Calm'
  BY <1>24, CallbackFacts DEF pools, workers, history
<1>25. ASSUME NEW w \in Workers, WaitReads(w) PROVE Calm'
  BY <1>25 DEF WaitReads
<1>26. CASE UNCHANGED vars
  BY <1>26 DEF vars, pools, sessions, workers, history
<1> QED
  BY <1>1, <1>2, <1>3, <1>4, <1>5, <1>6, <1>7, <1>8, <1>9, <1>10, <1>11, <1>12, <1>13,
     <1>14, <1>15, <1>16, <1>17, <1>18, <1>19, <1>20, <1>21, <1>22, <1>23, <1>24, <1>25, <1>26
     DEF Next, UserNext, Close, WorkerStep, ConnectionStep

--------------------------------------------------------------------------------
(* The rounds                                                                 *)

\* What a program of PoolRounds does to the pool, any user may do.
LEMMA RoundsArePool == [RoundsNext]_pvars => [Next]_vars
<1> SUFFICES ASSUME [RoundsNext]_pvars PROVE [Next]_vars
  OBVIOUS
<1>1. CASE MainInitializes
  BY <1>1 DEF MainInitializes, Next, UserNext
<1>2. CASE Launch
  BY <1>2 DEF Launch
<1>3. CASE CloseResults
  BY <1>3 DEF CloseResults
<1>4. CASE Collect
  BY <1>4 DEF Collect
<1>5. CASE RoundEnds
  BY <1>5 DEF RoundEnds
<1>6. CASE MainCloses
  BY <1>6 DEF MainCloses, Next, UserNext
<1>7. CASE MainExits
  BY <1>7 DEF MainExits
<1>8. ASSUME NEW w \in Workers, Request(w) PROVE Next
  BY <1>8 DEF Request, Next, UserNext
<1>9. ASSUME NEW w \in Workers, SendResult(w) PROVE UNCHANGED vars
  BY <1>9 DEF SendResult
<1>10. ASSUME NEW w \in Workers, WaitGroupDone(w) PROVE UNCHANGED vars
  BY <1>10 DEF WaitGroupDone
<1>11. CASE OtherNext
  BY <1>11 DEF OtherNext, Next
<1>12. CASE ConnectionNext
  BY <1>12 DEF ConnectionNext, Next
<1>13. CASE Rest
  BY <1>13 DEF Rest, pvars
<1>14. CASE UNCHANGED pvars
  BY <1>14 DEF pvars
<1> QED
  BY <1>1, <1>2, <1>3, <1>4, <1>5, <1>6, <1>7, <1>8, <1>9, <1>10, <1>11, <1>12, <1>13, <1>14
     DEF RoundsNext, MainNext

\* The example's program, and every other one, is a user of the pool: what holds
\* of ConnectionPool holds of it.
THEOREM RoundsUseThePool == RoundsSpec => Spec
<1>1. RoundsInit => Init
  BY DEF RoundsInit
<1> QED
  BY RoundsArePool, <1>1, PTL DEF RoundsSpec, Spec

LEMMA PoolHolds == Spec => [](Typing /\ Places /\ Wake /\ Calm)
<1>1. Init => Typing /\ Places /\ Wake /\ Calm
  BY TypingInit, PlacesInit, WakeInit, CalmInit
<1>2. (Typing /\ Places /\ Wake /\ Calm) /\ [Next]_vars => (Typing /\ Places /\ Wake /\ Calm)'
  BY TypingStep, PlacesStep, WakeStep, CalmStep
<1> QED
  BY <1>1, <1>2, PTL DEF Spec

\* A connection of the pool is with one request at a time, and until the pool is
\* closed it is lost by none of them, whatever fails.
THEOREM ConnectionsExclusive == RoundsSpec => []Exclusive
<1>1. Places => Exclusive
  BY DEF Places
<1> QED
  BY RoundsUseThePool, PoolHolds, <1>1, PTL

\* No wake-up of a waiting request is lost, whatever steps of callbacks came between
\* the steps of reset: done is closed, or an answer of the server, a queued callback
\* or a callback that runs is still to close it.  The one exception is a connection
\* whose read loop is in its Close, or left it without starting an OnClose because
\* the close message could not be written.
THEOREM WaitersAreWoken == RoundsSpec => []WaitersWoken
BY RoundsUseThePool, PoolHolds, WakeIsEnough, PTL

Unsent == { w \in Workers : task[w] \in {"request", "result"} }

RoundTypes ==
    /\ program \in {"main", "other"}
    /\ main \in {"init", "launch", "collect", "close", "exited"} /\ round \in 0..Rounds
    /\ task \in [Workers -> {"request", "result", "done", "gone"}]
    /\ results \in [count : Nat, closed : BOOLEAN] /\ tally \in Nat

\* Main leaves the pool alone until its requests are done, and these call it
\* only while they are requests.
Orderly ==
    program = "main" =>
       /\ ~rushed
       /\ pool \in {"new", "ready"} \/ main \in {"close", "exited"}
       /\ \A w \in Workers : task[w] # "request" => pc[w] = "idle"

\* A result of the round is collected, in the channel, or still to be sent.
Counted ==
    IF main = "collect"
    THEN /\ results.count + tally + Cardinality(Unsent) = Cardinality(Workers)
         /\ results.closed => \A w \in Workers : task[w] = "gone"
    ELSE /\ \A w \in Workers : task[w] = "gone"
         /\ results.count = 0 /\ tally \in {0, Cardinality(Workers)}
         /\ main \in {"launch", "close"} /\ round > 0 => tally = Cardinality(Workers)
         /\ main = "init" => round = 0

\* Another program has no rounds.
NoRounds == program = "other" => main = "init"

RoundInv == RoundTypes /\ Orderly /\ Counted /\ NoRounds

LEMMA UnsentFinite ==
    /\ IsFiniteSet(Unsent) /\ Cardinality(Unsent) \in Nat /\ Cardinality(Workers) \in Nat
    /\ Cardinality(Unsent) <= Cardinality(Workers)
BY RoundsAssumption, FS_Subset, FS_CardinalityType DEF Unsent

LEMMA RoundInvInit == RoundsInit => RoundInv
<1> SUFFICES ASSUME RoundsInit PROVE RoundInv
  OBVIOUS
<1>1. Cardinality(Workers) \in Nat
  BY UnsentFinite
<1>2. RoundTypes
  BY RoundsAssumption DEF RoundsInit, RoundTypes
<1>3. Orderly /\ NoRounds
  BY DEF RoundsInit, Init, Orderly, NoRounds
<1>4. Counted
  BY <1>1 DEF RoundsInit, Counted
<1> QED
  BY <1>2, <1>3, <1>4 DEF RoundInv

\* What the steps of a worker, of a connection and of Close leave alone.
LEMMA WorkerLeaves ==
    ASSUME Typing, NEW w \in Workers, Borrow(w) \/ WorkerStep(w)
    PROVE  UNCHANGED <<pool, rushed>> /\ \A v \in Workers : v # w => pc'[v] = pc[v]
<1> USE DEF Typing, TypeOK, At, history
<1>1. UNCHANGED pool
  BY WorkerKeeps
<1>2. CASE Borrow(w) \/ Receive(w) \/ ReceiveNil(w) \/ BorrowTimeout(w)
  BY <1>1, <1>2 DEF Borrow, Receive, ReceiveNil, BorrowTimeout
<1>3. CASE Reset1(w) \/ Reset2(w) \/ Reset3(w) \/ SendAudio(w) \/ SendFails(w)
  BY <1>1, <1>3 DEF Reset1, Reset2, Reset3, SendAudio, SendFails
<1>4. CASE Wait(w) \/ WaitReads(w) \/ Return(w) \/ Push(w)
  BY <1>1, <1>4 DEF Wait, WaitReads, Return, Push
<1> QED
  BY <1>2, <1>3, <1>4 DEF WorkerStep

LEMMA ConnectionLeaves ==
    ASSUME Typing, NEW c \in Connections, ConnectionStep(c)
    PROVE  UNCHANGED <<pool, rushed, pc>>
<1> USE DEF pools, history, workers
<1>1. CASE Deliver(c)
  BY <1>1, DeliverFacts
<1>2. CASE Callback(c)
  BY <1>2, CallbackFacts
<1>3. CASE ServerFrame(c) \/ ServerEnds(c) \/ Breaks(c) \/ ReaderCloses(c)
  BY <1>3 DEF ServerFrame, ServerEnds, Breaks, ReaderCloses
<1> QED
  BY <1>1, <1>2, <1>3 DEF ConnectionStep

LEMMA CloseLeaves ==
    ASSUME Typing, StartClose \/ Close
    PROVE  /\ UNCHANGED pc
           /\ rushed' = rushed \/ rushed' = \E w \in Workers : pc[w] # "idle"
BY DEF StartClose, Close, CloseConnection, CloseChannel, Drain, history, workers

LEMMA RoundInvStep == Typing /\ RoundInv /\ [RoundsNext]_pvars => RoundInv'
<1> SUFFICES ASSUME Typing, RoundInv, [RoundsNext]_pvars PROVE RoundInv'
  OBVIOUS
<1>0. /\ RoundTypes /\ Orderly /\ Counted /\ NoRounds
      /\ IsFiniteSet(Unsent) /\ Cardinality(Unsent) \in Nat /\ Cardinality(Workers) \in Nat
      /\ Rounds \in Nat
  BY UnsentFinite, RoundsAssumption DEF RoundInv
<1> USE <1>0 DEF RoundInv, RoundTypes, Orderly, Counted, NoRounds, Main
<1>1. CASE MainInitializes
  <2>1. UNCHANGED <<pc, rushed>> /\ pool' = "ready" /\ main' = "launch"
    BY <1>1 DEF MainInitializes, Initialize, workers, history
  <2> QED
    BY <1>1, <2>1 DEF MainInitializes
<1>2. CASE Launch
  <2>1. Unsent' = Workers
    BY <1>2 DEF Launch, Unsent
  <2>2. RoundTypes'
    BY <1>2 DEF Launch
  <2>3. Counted'
    BY <1>2, <2>1 DEF Launch
  <2>4. (Orderly /\ NoRounds)'
    BY <1>2 DEF Launch, vars, pools, workers, history
  <2> QED
    BY <2>2, <2>3, <2>4
<1>3. ASSUME NEW w \in Workers, Request(w) PROVE RoundInv'
  <2>1. /\ UNCHANGED <<pool, rushed>> /\ \A v \in Workers : v # w => pc'[v] = pc[v]
        /\ task[w] = "request" /\ UNCHANGED <<program, main, round, results, tally>>
        /\ \A v \in Workers : task'[v] = IF v = w THEN (IF pc'[w] = "idle" THEN "result" ELSE "request")
                                         ELSE task[v]
        /\ task' \in [Workers -> {"request", "result", "done", "gone"}]
    BY <1>3, WorkerLeaves DEF Request
  <2>2. Unsent' = Unsent
    BY <2>1 DEF Unsent
  <2>3. (RoundTypes /\ Orderly /\ NoRounds)'
    BY <2>1
  <2>4. Counted'
    BY <2>1, <2>2
  <2> QED
    BY <2>3, <2>4
<1>4. ASSUME NEW w \in Workers, SendResult(w) PROVE RoundInv'
  <2>1. /\ task[w] = "result" /\ task' = [task EXCEPT ![w] = "done"]
        /\ results' = [results EXCEPT !.count = @ + 1]
        /\ UNCHANGED <<program, main, round, tally, pool, rushed, pc>>
    BY <1>4 DEF SendResult, vars, pools, workers, history
  <2>2. Unsent' = Unsent \ {w} /\ w \in Unsent
    BY <2>1 DEF Unsent
  <2>3. Cardinality(Unsent') = Cardinality(Unsent) - 1
    BY <2>2, FS_RemoveElement
  <2>4. results'.count = results.count + 1 /\ results'.closed = results.closed
    BY <2>1
  <2>5. main = "collect" /\ ~results.closed
    BY <2>1
  <2>6. Counted'
    BY <2>1, <2>3, <2>4, <2>5
  <2>7. (RoundTypes /\ Orderly /\ NoRounds)'
    BY <2>1
  <2> QED
    BY <2>6, <2>7
<1>5. ASSUME NEW w \in Workers, WaitGroupDone(w) PROVE RoundInv'
  <2>1. /\ task[w] = "done" /\ task' = [task EXCEPT ![w] = "gone"]
        /\ UNCHANGED <<program, main, round, results, tally, pool, rushed, pc>>
    BY <1>5 DEF WaitGroupDone, vars, pools, workers, history
  <2>2. Unsent' = Unsent
    BY <2>1 DEF Unsent
  <2> QED
    BY <2>1, <2>2
<1>6. CASE CloseResults
  <2>1. /\ results'.closed /\ results'.count = results.count
        /\ results' \in [count : Nat, closed : BOOLEAN]
        /\ UNCHANGED <<program, main, round, task, tally, pool, rushed, pc>>
        /\ main = "collect" /\ \A w \in Workers : task[w] = "gone"
    BY <1>6 DEF CloseResults, vars, pools, workers, history
  <2>2. Unsent' = Unsent
    BY <2>1 DEF Unsent
  <2> QED
    BY <2>1, <2>2
<1>7. CASE Collect
  <2>1. /\ results'.closed = results.closed /\ results'.count = results.count - 1
        /\ results' \in [count : Nat, closed : BOOLEAN] /\ tally' = tally + 1
        /\ UNCHANGED <<program, main, round, task, pool, rushed, pc>> /\ main = "collect"
    BY <1>7 DEF Collect, vars, pools, workers, history
  <2>2. Unsent' = Unsent
    BY <2>1 DEF Unsent
  <2> QED
    BY <2>1, <2>2
<1>8. CASE RoundEnds
  <2>1. /\ UNCHANGED <<program, round, task, results, tally, pool, rushed, pc>>
        /\ main = "collect" /\ main' \in {"launch", "close"} /\ results.count = 0
        /\ \A w \in Workers : task[w] = "gone"
    BY <1>8 DEF RoundEnds, vars, pools, workers, history
  <2>2. Unsent = {}
    BY <2>1 DEF Unsent
  <2>3. tally = Cardinality(Workers)
    BY <2>1, <2>2, FS_EmptySet
  <2> QED
    BY <2>1, <2>3, <1>8 DEF RoundEnds
<1>9. CASE MainCloses
  <2>1. /\ UNCHANGED <<pc, program, main, round, task, results, tally>>
        /\ main = "close" /\ program = "main"
        /\ rushed' = rushed \/ rushed' = \E w \in Workers : pc[w] # "idle"
    BY <1>9, CloseLeaves DEF MainCloses
  <2>2. ~rushed'
    BY <2>1
  <2> QED
    BY <2>1, <2>2
<1>10. CASE MainExits
  BY <1>10 DEF MainExits, vars, pools, workers, history
<1>11. CASE OtherNext
  <2>1. UNCHANGED <<program, main, round, task, results, tally>> /\ program = "other"
    BY <1>11 DEF OtherNext, rounds
  <2> QED
    BY <2>1
<1>12. CASE ConnectionNext
  <2>1. UNCHANGED <<program, main, round, task, results, tally, pool, rushed, pc>>
    BY <1>12, ConnectionLeaves DEF ConnectionNext, rounds
  <2>2. Unsent' = Unsent
    BY <2>1 DEF Unsent
  <2> QED
    BY <2>1, <2>2
<1>13. CASE UNCHANGED pvars
  <2>1. UNCHANGED <<program, main, round, task, results, tally, pool, rushed, pc>>
    BY <1>13 DEF pvars, vars, pools, workers, history, rounds
  <2>2. Unsent' = Unsent
    BY <2>1 DEF Unsent
  <2> QED
    BY <2>1, <2>2
<1> QED
  BY <1>1, <1>2, <1>3, <1>4, <1>5, <1>6, <1>7, <1>8, <1>9, <1>10, <1>11, <1>12, <1>13
     DEF RoundsNext, MainNext, Rest

LEMMA RoundsHold == RoundsSpec => [](Typing /\ Calm /\ RoundInv)
<1>1. RoundsInit => RoundInv
  BY RoundInvInit
<1>2. Typing /\ RoundInv /\ [RoundsNext]_pvars => RoundInv'
  BY RoundInvStep
<1> QED
  BY <1>1, <1>2, RoundsUseThePool, PoolHolds, PTL DEF RoundsSpec

\* Every variable of the pool, its connections, its workers and its rounds keeps
\* its type; no result channel overflows.
THEOREM TypeCorrect == RoundsSpec => []RoundsTypeOK
<1>1. Typing /\ RoundInv => RoundsTypeOK
  <2> SUFFICES ASSUME Typing, RoundInv PROVE RoundsTypeOK
    OBVIOUS
  <2>1. Cardinality(Unsent) \in Nat /\ Cardinality(Workers) \in Nat
    BY UnsentFinite
  <2>2. results.count \in 0..Cardinality(Workers) /\ tally \in 0..Cardinality(Workers)
    BY <2>1 DEF RoundInv, RoundTypes, Counted
  <2>3. results \in [count : 0..Cardinality(Workers), closed : BOOLEAN]
    BY <2>2 DEF RoundInv, RoundTypes
  <2> QED
    BY <2>2, <2>3 DEF RoundsTypeOK, Typing, RoundInv, RoundTypes
<1> QED
  BY RoundsHold, <1>1, PTL

\* Main, like any program that closes the pool after its last request, never sends
\* to the closed channel or uses the nil connection it yields, and a round of it
\* ends only when every result of the round has been counted.
THEOREM ChannelIsSafe == RoundsSpec => []ChannelSafe
<1>1. Typing /\ Calm /\ RoundInv => ChannelSafe
  BY DEF Calm, RoundInv, Orderly, Counted, ChannelSafe
<1> QED
  BY RoundsHold, <1>1, PTL

--------------------------------------------------------------------------------
(* The frames of a request                                                    *)

\* The server works on nothing for c, and no frame is on its way.
Quiet(c) ==
    /\ pending[c] = <<>>
    /\ \A i \in DOMAIN queue[c] : queue[c][i].kind = "error"
    /\ queue[c] # <<>> => reader[c] # "run"

\* And the dispatcher runs no callback, but for those of a break.
Settled(c) == Quiet(c) /\ (stage[c]["dispatcher"] \in Finishes => reader[c] # "run")

\* What is on its way belongs to request r, up to what ends it; an error that
\* the read loop adds may follow.
Serving(c, r) ==
    /\ pending[c] \in {<<>>, <<r>>}
    /\ \A i \in DOMAIN queue[c] :
         /\ queue[c][i].kind = "frame" => queue[c][i].req = r
         /\ Ends(queue[c][i]) =>
              /\ pending[c] = <<>>
              /\ \A j \in DOMAIN queue[c] : i < j => queue[c][j].kind = "error" /\ reader[c] # "run"

\* A connection whose session is open and that no cancelled request has used.
Sound(c) == session[c] /\ c \notin cancelled

Awaited(c) == \E w \in Workers : conn[w] = c /\ pc[w] = "wait"

\* The collector takes the frames of w's request, and whoever finishes it has
\* its error or its last frame.
Answering(c, w) ==
    /\ Serving(c, req[w]) /\ Range(collector[c].frames) \subseteq {req[w]}
    /\ collector[c].last \/ (session[c] /\ collector[c].err) \/ stage[c]["dispatcher"] \in Finishes => Quiet(c)
    /\ collector[c].done = "closed" \/ (\E k \in Callers : stage[c][k] \in {"do", "close"}) =>
         collector[c].err \/ collector[c].last
    /\ session[c] /\ reader[c] = "run" /\ collector[c].done = "closed" => stage[c]["dispatcher"] \notin Finishes

\* The connection broke before the request: nothing answers it.
Unheard(c) == reader[c] # "run" /\ Quiet(c) /\ collector[c].frames = <<>>

\* The collector of c and its worker w, from the reset on.
Collects(c, w) ==
    /\ pc[w] \in {"done", "once", "send"} /\ Sound(c) =>
         collector[c].frames = <<>> /\ (reader[c] = "run" => ~collector[c].err)
    /\ pc[w] \in {"once", "send"} /\ Sound(c) /\ collector[c].done = "closed" => reader[c] # "run"
    /\ pc[w] \in {"wait", "read"} /\ c \notin cancelled => Answering(c, w) \/ Unheard(c)
    /\ pc[w] = "read" => collector[c].done = "closed"
    /\ pc[w] = "return" /\ success[w] /\ c \notin cancelled =>
         /\ Quiet(c)
         /\ \/ collector[c].last /\ Range(collector[c].frames) = {req[w]}
            \/ collector[c].frames = <<>> /\ reader[c] # "run"

Served(c) ==
    /\ reader[c] # "run" => pending[c] = <<>>
    /\ \A k \in {"reader", "pool"} : stage[c][k] # "none" => ~session[c]
    /\ collector[c].last => collector[c].frames # <<>>
    /\ Sound(c) /\ ~Awaited(c) => Settled(c)
    /\ \A w \in Workers : conn[w] = c => Collects(c, w)

LEMMA ServedInit == Init => \A c \in Connections : Served(c)
<1> SUFFICES ASSUME Init, NEW c \in Connections PROVE Served(c)
  OBVIOUS
<1>1. c # none
  BY PoolAssumption DEF none
<1>2. "reader" \in Callers /\ "pool" \in Callers
  BY DEF Callers
<1> QED
  BY <1>1, <1>2 DEF Init, Served, Fresh, Sound

\* A connection that its worker does not wait on is awaited by nobody.
LEMMA Sole ==
    ASSUME Typing, Places, NEW w \in Workers, conn[w] \in Connections
    PROVE  /\ \A v \in Workers : conn[v] = conn[w] => v = w
           /\ pc[w] # "wait" => ~Awaited(conn[w])
<1>1. conn[w] # none
  BY PoolAssumption DEF none
<1> QED
  BY <1>1 DEF Places, Exclusive, Awaited

\* Serving speaks of the queue, the server and the read loop.
LEMMA ServingKept ==
    ASSUME NEW c, UNCHANGED <<queue[c], pending[c]>>, reader'[c] = "run" <=> reader[c] = "run", NEW r
    PROVE  (Serving(c, r)' <=> Serving(c, r)) /\ (Quiet(c)' <=> Quiet(c))
BY DEF Serving, Quiet

\* A step that does not touch c, and workers that leave c or go on.
LEMMA ServedKept ==
    ASSUME NEW c \in Connections, Served(c),
           UNCHANGED <<collector[c], queue[c], pending[c], reader[c], session[c], stage[c]>>,
           c \in cancelled => c \in cancelled',
           \A w \in Workers : conn'[w] = c =>
              \/ pc'[w] \notin {"done", "once", "send", "wait", "read"} /\ (pc'[w] = "return" => ~success'[w])
              \/ conn[w] = c /\ pc'[w] = pc[w] /\ req'[w] = req[w] /\ success'[w] = success[w],
           c \in cancelled' \/ \A w \in Workers : conn[w] = c /\ pc[w] = "wait" => conn'[w] = c /\ pc'[w] = "wait"
    PROVE  Served(c)'
<1>1. /\ Quiet(c)' <=> Quiet(c)
      /\ Settled(c)' <=> Settled(c)
      /\ Sound(c)' => Sound(c)
      /\ Unheard(c)' <=> Unheard(c)
  BY DEF Quiet, Sound, Settled, Unheard
<1>2. Sound(c)' /\ ~Awaited(c)' => Settled(c)'
  BY <1>1 DEF Served, Sound, Awaited
<1>3. ASSUME NEW w \in Workers, conn'[w] = c PROVE Collects(c, w)'
  <2>1. CASE pc'[w] \notin {"done", "once", "send", "wait", "read"} /\ (pc'[w] = "return" => ~success'[w])
    BY <2>1 DEF Collects
  <2>2. CASE conn[w] = c /\ pc'[w] = pc[w] /\ req'[w] = req[w] /\ success'[w] = success[w]
    <3>1. Collects(c, w)
      BY <2>2 DEF Served
    <3>2. Answering(c, w)' <=> Answering(c, w)
      <4>1. Serving(c, req[w])' <=> Serving(c, req[w])
        BY <2>2 DEF Serving
      <4> QED
        BY <1>1, <2>2, <4>1 DEF Answering
    <3> QED
      BY <1>1, <2>2, <3>1, <3>2 DEF Collects
  <2> QED
    BY <1>3, <2>1, <2>2
<1> QED
  BY <1>2, <1>3 DEF Served

\* The server or the read loop adds to the queue of c.
LEMMA ServedQueue ==
    ASSUME NEW c \in Connections, Served(c),
           UNCHANGED <<pc, conn, req, success, cancelled, collector[c], session[c], stage[c]>>,
           reader'[c] # "run" => pending'[c] = <<>>, reader[c] # "run" => reader'[c] # "run",
           Quiet(c) => Quiet(c)', \A r \in 0..MaxReqs : Serving(c, r) => Serving(c, r)',
           req \in [Workers -> 0..MaxReqs]
    PROVE  Served(c)'
<1>1. (Sound(c)' <=> Sound(c)) /\ (Awaited(c)' <=> Awaited(c)) /\ (Settled(c) => Settled(c)')
  BY DEF Sound, Awaited, Settled
<1>2. ASSUME NEW w \in Workers, conn[w] = c PROVE Collects(c, w)'
  <2>1. Collects(c, w)
    BY <1>2 DEF Served
  <2>2. Serving(c, req[w]) => Serving(c, req[w])'
    <3>1. req[w] \in 0..MaxReqs
      OBVIOUS
    <3>2. ASSUME NEW r \in 0..MaxReqs, r = req[w], Serving(c, r)' PROVE Serving(c, req[w])'
      BY <3>2 DEF Serving
    <3> QED
      BY <3>1, <3>2
  <2>3. (Answering(c, w) => Answering(c, w)') /\ (Unheard(c) => Unheard(c)')
    BY <1>1, <2>2 DEF Answering, Unheard
  <2> QED
    BY <1>1, <2>1, <2>3 DEF Collects
<1> QED
  BY <1>1, <1>2 DEF Served

\* The session of c is closed, by k.
LEMMA ServedFalls ==
    ASSUME NEW c \in Connections, Served(c), NEW k \in {"reader", "pool"},
           UNCHANGED <<pc, conn, req, success, cancelled, collector[c], queue[c], pending[c]>>,
           ~session'[c], reader'[c] = "run" <=> reader[c] = "run",
           stage'[c] = stage[c] \/ stage'[c][k] = "begin",
           \A j \in Callers : j # k => stage'[c][j] = stage[c][j]
    PROVE  Served(c)'
<1>0. "dispatcher" \in Callers
  BY DEF Callers
<1>1. ~Sound(c)' /\ (Quiet(c)' <=> Quiet(c)) /\ (Unheard(c) => Unheard(c)')
      /\ \A r : Serving(c, r)' <=> Serving(c, r)
  BY ServingKept DEF Sound, Unheard
<1>2. ASSUME NEW w \in Workers, conn[w] = c PROVE Collects(c, w)'
  <2>1. Serving(c, req[w])' <=> Serving(c, req[w])
    BY DEF Serving
  <2>2. Answering(c, w) => Answering(c, w)'
    <3>1. stage'[c]["dispatcher"] = stage[c]["dispatcher"]
      BY <1>0
    <3>2. (\E j \in Callers : stage'[c][j] \in {"do", "close"}) => \E j \in Callers : stage[c][j] \in {"do", "close"}
      OBVIOUS
    <3> QED
      BY <1>1, <2>1, <3>1, <3>2 DEF Answering
  <2> QED
    BY <1>1, <1>2, <2>2 DEF Collects, Served
<1> QED
  BY <1>1, <1>2 DEF Served

LEMMA Appended ==
    ASSUME NEW S, NEW s \in Seq(S), NEW x \in S
    PROVE  /\ Len(s) \in Nat /\ DOMAIN s = 1..Len(s) /\ DOMAIN Append(s, x) = 1..(Len(s) + 1)
           /\ Append(s, x)[Len(s) + 1] = x /\ \A i \in 1..Len(s) : Append(s, x)[i] = s[i]
           /\ Append(s, x) # <<>> /\ Append(s, x) \in Seq(S)
           /\ \A i \in DOMAIN Append(s, x) : i = Len(s) + 1 \/ i \in DOMAIN s
<1>1. /\ Len(s) \in Nat /\ DOMAIN s = 1..Len(s) /\ DOMAIN Append(s, x) = 1..(Len(s) + 1)
      /\ Append(s, x)[Len(s) + 1] = x /\ \A i \in 1..Len(s) : Append(s, x)[i] = s[i]
      /\ Append(s, x) \in Seq(S)
  OBVIOUS
<1>2. Append(s, x) # <<>>
  <2>1. 1 \in DOMAIN Append(s, x) /\ DOMAIN <<>> = {}
    BY <1>1
  <2> QED
    BY <2>1
<1> QED
  BY <1>1, <1>2

LEMMA Shifted ==
    ASSUME NEW S, NEW s \in Seq(S), s # <<>>
    PROVE  /\ 1 \in DOMAIN s /\ Head(s) = s[1]
           /\ \A i \in DOMAIN Tail(s) : i \in Nat /\ i + 1 \in DOMAIN s /\ 1 < i + 1 /\ Tail(s)[i] = s[i + 1]
           /\ Tail(s) # <<>> => 1 \in DOMAIN Tail(s)
<1>1. /\ Len(s) \in Nat \ {0} /\ DOMAIN s = 1..Len(s)
      /\ Tail(s) \in Seq(S) /\ DOMAIN Tail(s) = 1..(Len(s) - 1) /\ Len(Tail(s)) = Len(s) - 1
      /\ Head(s) = s[1] /\ \A i \in 1..(Len(s) - 1) : Tail(s)[i] = s[i + 1]
  OBVIOUS
<1>2. Tail(s) # <<>> => Len(Tail(s)) # 0
  BY <1>1
<1> QED
  BY <1>1, <1>2

\* The first request of c, and what the server sends it.
LEMMA Heads ==
    ASSUME Typing, NEW c \in Connections, pending[c] # <<>>
    PROVE  /\ Head(pending[c]) \in 0..MaxReqs /\ queue[c] \in Seq(Frames)
           /\ Frame(Head(pending[c]), FALSE) \in Frames /\ Frame(Head(pending[c]), TRUE) \in Frames
           /\ Error \in Frames
<1>1. pending[c] \in Seq(1..MaxReqs) /\ queue[c] \in Seq(Frames)
  BY DEF Typing, TypeOK
<1>2. Head(pending[c]) \in 0..MaxReqs
  BY <1>1, PoolAssumption
<1> QED
  BY <1>1, <1>2, PoolAssumption DEF Frame, Error, Frames

LEMMA ServerFrameServes == ASSUME Typing, NEW c \in Connections, Served(c), ServerFrame(c) PROVE Served(c)'
<1>1. /\ pending[c] # <<>> /\ reader[c] = "run"
      /\ UNCHANGED <<pc, conn, req, success, cancelled, collector, session, stage, reader, pending>>
  BY DEF ServerFrame, workers, history
<1>2. PICK f \in Frames : /\ f = Frame(Head(pending[c]), FALSE)
                          /\ queue'[c] = Append(queue[c], f) /\ queue[c] \in Seq(Frames)
  BY <1>1, Heads DEF ServerFrame, Typing, TypeOK
<1>0. f \in Frames /\ queue'[c] = Append(queue[c], f) /\ queue[c] \in Seq(Frames)
  BY <1>2
<1>3. ~Quiet(c)
  BY <1>1 DEF Quiet
<1>4. ASSUME NEW r \in 0..MaxReqs, Serving(c, r) PROVE Serving(c, r)'
  <2>1. pending[c] = <<r>> /\ Head(pending[c]) = r
    BY <1>1, <1>4 DEF Serving
  <2>2. f.req = r /\ ~Ends(f)
    BY <1>2, <2>1 DEF Frame, Ends
  <2>3. \A i \in DOMAIN queue[c] : queue'[c][i] = queue[c][i]
    BY <1>0, Appended
  <2>4. \A i \in DOMAIN queue'[c] : i \in DOMAIN queue[c] \/ queue'[c][i] = f
    BY <1>0, Appended
  <2>5. \A i \in DOMAIN queue'[c] : ~Ends(queue'[c][i])
    BY <1>1, <1>4, <2>2, <2>3, <2>4 DEF Serving
  <2> QED
    BY <1>1, <1>4, <2>1, <2>2, <2>3, <2>4, <2>5 DEF Serving
<1>5. req \in [Workers -> 0..MaxReqs]
  BY DEF Typing, TypeOK
<1> QED
  BY <1>1, <1>3, <1>4, <1>5, ServedQueue

LEMMA ServerEndsServes == ASSUME Typing, NEW c \in Connections, Served(c), ServerEnds(c) PROVE Served(c)'
<1>1. /\ pending[c] # <<>> /\ reader[c] = "run"
      /\ UNCHANGED <<pc, conn, req, success, cancelled, collector, session, stage, reader>>
      /\ pending'[c] = Tail(pending[c])
  BY DEF ServerEnds, workers, history, Typing, TypeOK
<1>2. PICK f \in {Frame(Head(pending[c]), TRUE), Error} : queue' = [queue EXCEPT ![c] = Append(@, f)]
  BY DEF ServerEnds
<1>3. queue'[c] = Append(queue[c], f) /\ f \in Frames /\ queue[c] \in Seq(Frames)
  BY <1>1, <1>2, Heads DEF Typing, TypeOK
<1>4. ~Quiet(c)
  BY <1>1 DEF Quiet
<1>5. ASSUME NEW r \in 0..MaxReqs, Serving(c, r) PROVE Serving(c, r)'
  <2>1. pending[c] = <<r>> /\ Head(pending[c]) = r /\ pending'[c] = <<>>
    <3>1. pending[c] = <<r>>
      BY <1>1, <1>5 DEF Serving
    <3>2. Head(<<r>>) = r /\ Tail(<<r>>) = <<>>
      OBVIOUS
    <3> QED
      BY <1>1, <3>1, <3>2
  <2>2. f.kind = "frame" => f.req = r
    BY <1>2, <2>1 DEF Frame, Error
  <2>3. /\ \A i \in DOMAIN queue[c] : queue'[c][i] = queue[c][i] /\ i <= Len(queue[c])
        /\ \A i \in DOMAIN queue'[c] : i \in DOMAIN queue[c] \/ (i = Len(queue[c]) + 1 /\ queue'[c][i] = f)
        /\ Len(queue[c]) \in Nat
    BY <1>3, Appended
  <2>4. \A i \in DOMAIN queue[c] : ~Ends(queue[c][i])
    BY <1>1, <1>5 DEF Serving
  <2>5. \A i, j \in DOMAIN queue'[c] : i < j => ~Ends(queue'[c][i])
    BY <1>3, <2>3, <2>4, Appended
  <2> QED
    BY <1>5, <2>1, <2>2, <2>3, <2>5 DEF Serving
<1>6. req \in [Workers -> 0..MaxReqs]
  BY DEF Typing, TypeOK
<1> QED
  BY <1>1, <1>4, <1>5, <1>6, ServedQueue

LEMMA BreaksServes == ASSUME Typing, NEW c \in Connections, Served(c), Breaks(c) PROVE Served(c)'
<1>1. /\ UNCHANGED <<pc, conn, req, success, cancelled, collector, session, stage>>
      /\ reader'[c] = "closing" /\ pending'[c] = <<>> /\ queue'[c] = Append(queue[c], Error)
      /\ queue[c] \in Seq(Frames)
  BY DEF Breaks, workers, history, Typing, TypeOK
<1>0. Error \in Frames
  BY PoolAssumption DEF Error, Frames
<1>2. /\ \A i \in DOMAIN queue[c] : queue'[c][i] = queue[c][i] /\ i <= Len(queue[c])
      /\ \A i \in DOMAIN queue'[c] : i \in DOMAIN queue[c] \/ (i = Len(queue[c]) + 1 /\ queue'[c][i] = Error)
      /\ Len(queue[c]) \in Nat /\ DOMAIN queue'[c] = 1..Len(queue[c]) + 1
  BY <1>0, <1>1, Appended
<1>3. Error.kind = "error"
  BY DEF Error
<1>4. Quiet(c) => Quiet(c)'
  BY <1>1, <1>2, <1>3 DEF Quiet
<1>5. ASSUME NEW r \in 0..MaxReqs, Serving(c, r) PROVE Serving(c, r)'
  <2>1. ASSUME NEW i \in DOMAIN queue'[c], queue'[c][i].kind = "frame" PROVE queue'[c][i].req = r
    BY <1>2, <1>3, <1>5, <2>1 DEF Serving
  <2>2. ASSUME NEW i \in DOMAIN queue'[c], NEW j \in DOMAIN queue'[c], i < j, Ends(queue'[c][i])
        PROVE  queue'[c][j].kind = "error"
    <3>1. CASE j \in DOMAIN queue[c]
      <4>1. i \in DOMAIN queue[c]
        BY <1>2, <2>2, <3>1
      <4> QED
        BY <1>2, <1>5, <2>2, <3>1, <4>1 DEF Serving
    <3>2. CASE j \notin DOMAIN queue[c]
      BY <1>2, <1>3, <3>2
    <3> QED
      BY <3>1, <3>2
  <2> QED
    BY <1>1, <2>1, <2>2 DEF Serving
<1>6. req \in [Workers -> 0..MaxReqs]
  BY DEF Typing, TypeOK
<1> QED
  BY <1>1, <1>4, <1>5, <1>6, ServedQueue

\* A callback of c leaves the queue.
LEMMA DeliverQueue ==
    ASSUME NEW c \in Connections, queue[c] \in Seq(Frames), queue[c] # <<>>, queue'[c] = Tail(queue[c]),
           UNCHANGED <<pending, reader>>
    PROVE  /\ Quiet(c) => Quiet(c)' /\ Head(queue[c]).kind = "error"
           /\ \A r : Serving(c, r) => /\ Serving(c, r)'
                                      /\ Ends(Head(queue[c])) => Quiet(c)'
                                      /\ Head(queue[c]).kind = "frame" => Head(queue[c]).req = r
<1>1. /\ 1 \in DOMAIN queue[c] /\ Head(queue[c]) = queue[c][1]
      /\ \A i \in DOMAIN queue'[c] : i \in Nat /\ i + 1 \in DOMAIN queue[c] /\ 1 < i + 1
                                     /\ queue'[c][i] = queue[c][i + 1]
      /\ queue'[c] # <<>> => 1 \in DOMAIN queue'[c]
  BY Shifted
<1>2. ASSUME NEW r, Serving(c, r) PROVE Serving(c, r)'
  <2>1. ASSUME NEW i \in DOMAIN queue'[c]
        PROVE  /\ queue'[c][i].kind = "frame" => queue'[c][i].req = r
               /\ Ends(queue'[c][i]) => pending[c] = <<>>
    BY <1>1, <1>2 DEF Serving
  <2>2. ASSUME NEW i \in DOMAIN queue'[c], NEW j \in DOMAIN queue'[c], i < j, Ends(queue'[c][i])
        PROVE  queue'[c][j].kind = "error" /\ reader[c] # "run"
    <3>1. i + 1 < j + 1
      BY <1>1, <2>2
    <3> QED
      BY <1>1, <1>2, <2>2, <3>1 DEF Serving
  <2> QED
    BY <1>2, <2>1, <2>2 DEF Serving
<1>3. ASSUME NEW r, Serving(c, r), Ends(Head(queue[c])) PROVE Quiet(c)'
  <2>1. pending[c] = <<>>
    BY <1>1, <1>3 DEF Serving
  <2>2. \A i \in DOMAIN queue'[c] : queue'[c][i].kind = "error" /\ reader[c] # "run"
    BY <1>1, <1>3 DEF Serving
  <2> QED
    BY <1>1, <2>1, <2>2 DEF Quiet
<1> QED
  BY <1>1, <1>2, <1>3 DEF Quiet, Serving

LEMMA DeliverServes ==
    ASSUME Typing, Places, NEW c \in Connections, Served(c), Deliver(c)
    PROVE  Served(c)'
<1> DEFINE col == collector[c]
           next == collector'[c]
<1>1. /\ UNCHANGED <<pc, conn, req, success, cancelled, session, reader, pending>>
      /\ queue[c] \in Seq(Frames) /\ queue[c] # <<>> /\ queue'[c] = Tail(queue[c])
      /\ \A j \in Callers : j # "dispatcher" => stage'[c][j] = stage[c][j]
      /\ stage[c]["dispatcher"] = "none"
  <2>1. UNCHANGED <<workers, history, session, reader, pending>>
    BY DeliverFacts
  <2>2. queue \in [Connections -> Seq(Frames)]
    BY DEF Typing, TypeOK
  <2>3. queue' = [queue EXCEPT ![c] = Tail(@)] /\ queue[c] # <<>>
    BY DeliverFacts
  <2>4. stage[c]["dispatcher"] = "none" /\ \A j \in Callers : j # "dispatcher" => stage'[c][j] = stage[c][j]
    BY DeliverFacts
  <2> QED
    BY <2>1, <2>2, <2>3, <2>4 DEF workers, history
<1>2. PICK f \in Frames : f = Head(queue[c])
  BY DeliverFacts
<1>3. \/ /\ f.kind = "frame" /\ stage'[c]["dispatcher"] = (IF f.last THEN "do" ELSE "none")
         /\ next.frames = Append(col.frames, f.req) /\ next.last = (col.last \/ f.last)
         /\ next.err = col.err /\ next.done = col.done
      \/ /\ f.kind = "error" /\ stage'[c]["dispatcher"] \in {"do", "set"} /\ next = col
         /\ stage'[c]["dispatcher"] = "do" => col.err
  BY <1>2, DeliverFacts
<1>4. /\ Quiet(c) => Quiet(c)' /\ f.kind = "error" /\ reader[c] # "run"
      /\ \A r : Serving(c, r) => /\ Serving(c, r)'
                                 /\ Ends(f) => Quiet(c)'
                                 /\ f.kind = "frame" => f.req = r
  BY <1>1, <1>2, DeliverQueue DEF Quiet
<1>5. /\ (Sound(c)' <=> Sound(c)) /\ (Awaited(c)' <=> Awaited(c))
      /\ Settled(c) => Settled(c)' /\ next = col /\ reader[c] # "run"
  BY <1>1, <1>3, <1>4 DEF Sound, Awaited, Settled
<1>6. col \in Collectors /\ f.req \in 0..MaxReqs /\ f.last \in BOOLEAN
  BY <1>2 DEF Typing, TypeOK, Frames
<1>7. next.last => next.frames # <<>>
  <2>1. CASE f.kind = "frame"
    <3>0. PICK Ids : Ids = 0..MaxReqs
      OBVIOUS
    <3>1. PICK s \in Seq(Ids), r \in Ids : s = col.frames /\ r = f.req
      BY <1>6, <3>0 DEF Collectors
    <3>2. Append(s, r) # <<>>
      BY Appended
    <3> QED
      BY <1>3, <2>1, <3>1, <3>2
  <2>2. CASE f.kind # "frame"
    BY <1>3, <2>2 DEF Served
  <2> QED
    BY <2>1, <2>2
<1>8. ASSUME NEW w \in Workers, conn[w] = c PROVE Collects(c, w)'
  <2>1. Collects(c, w)
    BY <1>8 DEF Served
  <2>2. pc[w] \in {"done", "once", "send"} /\ Sound(c) => Settled(c)
    BY <1>8, Sole DEF Served
  <2>3. Unheard(c) => Unheard(c)'
    BY <1>1, <1>3, <1>4 DEF Unheard
  <2>4. ASSUME Answering(c, w) PROVE Answering(c, w)'
    <3>1. Serving(c, req[w]) /\ Serving(c, req[w])' /\ (Ends(f) => Quiet(c)') /\ (f.kind = "frame" => f.req = req[w])
      <4>1. PICK r : r = req[w]
        OBVIOUS
      <4>2. Serving(c, r) /\ Serving(c, r)' /\ (Ends(f) => Quiet(c)') /\ (f.kind = "frame" => f.req = r)
        BY <1>4, <2>4, <4>1 DEF Answering
      <4> QED
        BY <1>1, <4>1, <4>2 DEF Serving
    <3>2. Range(next.frames) \subseteq {req[w]}
      <4>1. CASE f.kind = "frame"
        <5>0. PICK Ids : Ids = 0..MaxReqs
          OBVIOUS
        <5>1. PICK s \in Seq(Ids), r \in Ids : s = col.frames /\ r = f.req
          BY <1>6, <5>0 DEF Collectors
        <5>2. Range(Append(s, r)) = Range(s) \cup {r}
          BY AppendFacts
        <5> QED
          BY <1>3, <2>4, <3>1, <4>1, <5>1, <5>2 DEF Answering
      <4>2. CASE f.kind # "frame"
        BY <1>3, <2>4, <4>2 DEF Answering
      <4> QED
        BY <4>1, <4>2
    <3>3. next.last \/ (session[c] /\ next.err) \/ stage'[c]["dispatcher"] \in Finishes => Quiet(c)'
      <4>1. CASE Ends(f)
        BY <3>1, <4>1
      <4>2. CASE ~Ends(f)
        <5>1. f.kind = "frame" /\ ~f.last /\ stage'[c]["dispatcher"] = "none"
          BY <1>3, <4>2 DEF Ends
        <5>2. next.last = (col.last \/ f.last) /\ next.err = col.err /\ "none" \notin Finishes
          BY <1>3, <5>1 DEF Finishes
        <5> QED
          BY <1>4, <2>4, <5>1, <5>2 DEF Answering
      <4> QED
        BY <4>1, <4>2
    <3>4. next.done = "closed" \/ (\E k \in Callers : stage'[c][k] \in {"do", "close"}) => next.err \/ next.last
      <4>1. (col.err => next.err) /\ (col.last => next.last) /\ next.done = col.done
        BY <1>3
      <4>2. CASE col.err \/ col.last
        BY <4>1, <4>2
      <4>3. CASE ~(col.err \/ col.last)
        <5>1. col.done # "closed" /\ \A k \in Callers : stage[c][k] \notin {"do", "close"}
          BY <2>4, <4>3 DEF Answering
        <5>2. stage'[c]["dispatcher"] \in {"do", "close"} => next.last
          BY <1>3, <1>6, <4>3
        <5> QED
          BY <1>1, <4>1, <5>1, <5>2
      <4> QED
        BY <4>2, <4>3
    <3>5. session[c] /\ reader[c] = "run" /\ next.done = "closed" => stage'[c]["dispatcher"] \notin Finishes
      <4>1. next.done = col.done
        BY <1>3
      <4>2. ASSUME session[c], reader[c] = "run", col.done = "closed" PROVE FALSE
        <5>1. Quiet(c)
          BY <2>4, <4>2 DEF Answering
        <5> QED
          BY <1>4, <4>2, <5>1
      <4> QED
        BY <4>1, <4>2
    <3> QED
      BY <1>1, <3>1, <3>2, <3>3, <3>4, <3>5 DEF Answering
  <2>5. pc[w] \in {"done", "once", "send"} /\ Sound(c) => next = col /\ reader[c] # "run"
    BY <1>5, <2>2
  <2>6. next.done = col.done
    BY <1>3
  <2>7. pc[w] = "return" /\ success[w] /\ c \notin cancelled => Quiet(c)' /\ next = col
    BY <1>3, <1>4, <2>1 DEF Collects
  <2> QED
    BY <1>1, <1>5, <2>1, <2>3, <2>4, <2>5, <2>6, <2>7 DEF Collects
<1>9. \A k \in {"reader", "pool"} : stage'[c][k] # "none" => ~session'[c]
  BY <1>1 DEF Served, Callers
<1> QED
  BY <1>1, <1>5, <1>7, <1>8, <1>9 DEF Served

LEMMA CallbackServes ==
    ASSUME Typing, Places, NEW c \in Connections, Served(c), Callback(c)
    PROVE  Served(c)'
<1> DEFINE col == collector[c]
           next == collector'[c]
<1>1. UNCHANGED <<pc, conn, req, success, cancelled, session, queue, reader, pending>>
  BY CallbackFacts DEF workers, history
<1>2. PICK k \in Callers : Did(c, k) /\ \A j \in Callers : j # k => stage'[c][j] = stage[c][j]
  BY CallbackFacts
<1>3. /\ next.frames = col.frames /\ next.last = col.last
      /\ col.done = "closed" => next.done = "closed"
      /\ col.err => next.err
  BY <1>2 DEF Did
<1>4. /\ stage[c][k] # "none"
      /\ stage'[c][k] \in Finishes => stage[c][k] \in Finishes
      /\ next.err # col.err => stage[c][k] \in Finishes
      /\ next.done # col.done => stage[c][k] = "close" /\ stage'[c][k] = "release"
  BY <1>2 DEF Did, Finishes
<1>5. session[c] => k = "dispatcher"
  BY <1>4 DEF Served, Callers
<1>6. /\ stage'[c]["dispatcher"] \in Finishes => stage[c]["dispatcher"] \in Finishes
      /\ "dispatcher" \in Callers /\ "reader" \in Callers /\ "pool" \in Callers
  BY <1>2, <1>4 DEF Callers
<1>7. /\ (Sound(c)' <=> Sound(c)) /\ (Awaited(c)' <=> Awaited(c)) /\ (Quiet(c)' <=> Quiet(c))
      /\ Settled(c) => Settled(c)'
      /\ \A r : Serving(c, r)' <=> Serving(c, r)
  BY <1>1, <1>6 DEF Sound, Awaited, Quiet, Settled, Serving
<1>8. ASSUME NEW w \in Workers, conn[w] = c PROVE Collects(c, w)'
  <2>1. Collects(c, w)
    BY <1>8 DEF Served
  <2>2. pc[w] \in {"done", "once", "send"} /\ Sound(c) => Settled(c)
    BY <1>8, Sole DEF Served
  <2>3. ASSUME pc[w] \in {"done", "once", "send"}, Sound(c), reader[c] = "run"
        PROVE  next.err = col.err /\ next.done = col.done
    <3>1. stage[c][k] \notin Finishes
      BY <1>5, <2>2, <2>3 DEF Settled, Sound
    <3> QED
      BY <1>4, <3>1 DEF Finishes
  <2>4. Unheard(c) => Unheard(c)'
    BY <1>1, <1>3, <1>7 DEF Unheard
  <2>5. ASSUME Answering(c, w) PROVE Answering(c, w)'
    <3>1. Serving(c, req[w])' /\ Range(next.frames) \subseteq {req[w]}
      BY <1>1, <1>3, <2>5 DEF Answering, Serving
    <3>2. next.last \/ (session[c] /\ next.err) \/ stage'[c]["dispatcher"] \in Finishes => Quiet(c)
      <4>1. CASE next.last \/ stage'[c]["dispatcher"] \in Finishes
        BY <1>3, <1>6, <2>5, <4>1 DEF Answering
      <4>2. CASE session[c] /\ next.err
        <5>1. CASE next.err = col.err
          BY <2>5, <4>2, <5>1 DEF Answering
        <5>2. CASE next.err # col.err
          BY <1>4, <1>5, <2>5, <4>2, <5>2 DEF Answering
        <5> QED
          BY <5>1, <5>2
      <4> QED
        BY <4>1, <4>2
    <3>3. ASSUME next.done = "closed" \/ \E j \in Callers : stage'[c][j] \in {"do", "close"}
          PROVE  next.err \/ next.last
      <4>1. col.err \/ col.last => next.err \/ next.last
        BY <1>3
      <4>2. CASE next.done = "closed"
        <5>1. col.done = "closed" \/ stage[c][k] = "close"
          BY <1>4, <4>2
        <5> QED
          BY <2>5, <4>1, <5>1 DEF Answering
      <4>3. CASE \E j \in Callers : stage'[c][j] \in {"do", "close"}
        <5>1. PICK j \in Callers : stage'[c][j] \in {"do", "close"}
          BY <4>3
        <5>2. CASE j # k
          BY <1>2, <2>5, <4>1, <5>1, <5>2 DEF Answering
        <5>3. CASE j = k
          <6>1. next.err \/ col.last \/ col.err \/ stage[c][k] = "do"
            BY <1>2, <5>1, <5>3 DEF Did
          <6> QED
            BY <1>3, <2>5, <4>1, <6>1 DEF Answering
        <5> QED
          BY <5>2, <5>3
      <4> QED
        BY <3>3, <4>2, <4>3
    <3>4. session[c] /\ reader[c] = "run" /\ next.done = "closed" => stage'[c]["dispatcher"] \notin Finishes
      <4>1. CASE next.done = col.done
        BY <1>6, <2>5, <4>1 DEF Answering
      <4>2. CASE next.done # col.done
        BY <1>4, <1>5, <4>2 DEF Finishes
      <4> QED
        BY <4>1, <4>2
    <3> QED
      BY <1>1, <1>7, <3>1, <3>2, <3>3, <3>4 DEF Answering
  <2> QED
    BY <1>1, <1>3, <1>7, <2>1, <2>3, <2>4, <2>5 DEF Collects
<1>9. \A j \in {"reader", "pool"} : stage'[c][j] # "none" => ~session'[c]
  BY <1>1, <1>2, <1>4, <1>6 DEF Served
<1> QED
  BY <1>1, <1>3, <1>7, <1>8, <1>9 DEF Served

\* A step of w within reset, on its connection.
LEMMA ResetServes ==
    ASSUME Typing, Places, NEW w \in Workers, NEW c \in Connections, conn[w] = c, Served(c), Reset1(w) \/ Reset2(w) \/ Reset3(w)
    PROVE  Served(c)'
<1>1. /\ UNCHANGED <<conn, req, success, cancelled, session, stage, queue, reader, pending>>
      /\ pc[w] \in {"clear", "done", "once"} /\ pc \in [Workers -> PCs]
      /\ collector \in [Connections -> Collectors]
  BY DEF Reset1, Reset2, Reset3, At, sessions, history, Typing, TypeOK
<1>3. /\ ~Awaited(c) /\ \A v \in Workers : conn[v] = c => v = w
  BY <1>1, Sole
<1>4. /\ Sound(c)' <=> Sound(c)
      /\ Settled(c)' <=> Settled(c)
  BY <1>1 DEF Sound, Quiet, Settled
<1>5. collector[c] \in Collectors /\ Collects(c, w)
  BY <1>1 DEF Served
<1>6. ASSUME collector'[c].last => collector'[c].frames # <<>>, Collects(c, w)' PROVE Served(c)'
  BY <1>1, <1>3, <1>4, <1>6 DEF Served
<1>7. CASE Reset1(w)
  <2>1. /\ collector'[c].frames = <<>> /\ ~collector'[c].last /\ ~collector'[c].err /\ pc'[w] = "done"
    BY <1>1, <1>5, <1>7 DEF Reset1, At, Collectors
  <2>2. Collects(c, w)'
    BY <2>1 DEF Collects
  <2> QED
    BY <1>6, <2>1, <2>2
<1>8. CASE Reset2(w)
  <2>1. /\ collector'[c].frames = collector[c].frames /\ collector'[c].last = collector[c].last
        /\ collector'[c].err = collector[c].err /\ collector'[c].done = "open" /\ pc[w] = "done" /\ pc'[w] = "once"
    BY <1>1, <1>5, <1>8 DEF Reset2, At, Collectors
  <2>2. Collects(c, w)'
    BY <1>1, <1>4, <1>5, <2>1 DEF Collects
  <2> QED
    BY <1>6, <2>1, <2>2 DEF Served
<1>9. CASE Reset3(w)
  <2>1. /\ collector'[c].frames = collector[c].frames /\ collector'[c].last = collector[c].last
        /\ collector'[c].done = collector[c].done /\ collector'[c].err = collector[c].err
        /\ pc[w] = "once" /\ pc'[w] = "send"
    BY <1>1, <1>5, <1>9 DEF Reset3, At, Collectors
  <2>2. Collects(c, w)'
    BY <1>1, <1>4, <1>5, <2>1 DEF Collects
  <2> QED
    BY <1>6, <2>1, <2>2 DEF Served
<1> QED
  BY <1>7, <1>8, <1>9

LEMMA SendServes ==
    ASSUME Typing, Places, NEW w \in Workers, NEW c \in Connections, conn[w] = c, Served(c), SendAudio(w)
    PROVE  Served(c)'
<1>1. /\ UNCHANGED <<conn, success, cancelled, session, stage, queue, reader, collector>>
      /\ pc[w] = "send" /\ pc' = [pc EXCEPT ![w] = "wait"] /\ pc \in [Workers -> PCs] /\ session[c]
      /\ req' = [req EXCEPT ![w] = reqs'] /\ req \in [Workers -> 0..MaxReqs]
      /\ pending \in [Connections -> Seq(1..MaxReqs)]
  BY DEF SendAudio, At, sessions, history, Typing, TypeOK
<1>3. /\ ~Awaited(c) /\ \A v \in Workers : conn[v] = c => v = w
  BY <1>1, Sole
<1>4. pending'[c] = IF reader[c] = "run" THEN Append(pending[c], reqs') ELSE pending[c]
  BY <1>1 DEF SendAudio
<1>5. Collects(c, w) /\ pc'[w] = "wait" /\ req'[w] = reqs'
  BY <1>1 DEF Served
<1>6. reader[c] # "run" => pending'[c] = <<>>
  BY <1>1, <1>4 DEF Served
<1>7. Awaited(c)'
  BY <1>1, <1>5 DEF Awaited
<1>8. ASSUME c \notin cancelled PROVE Answering(c, w)' \/ Unheard(c)'
  <2>1. Sound(c) /\ Settled(c)
    BY <1>1, <1>3, <1>8 DEF Sound, Served
  <2>2. /\ collector[c].frames = <<>> /\ (collector[c].done = "closed" => reader[c] # "run")
        /\ reader[c] = "run" => ~collector[c].err
    BY <1>1, <1>5, <2>1 DEF Collects
  <2>3. CASE reader[c] = "run"
    <3>1. queue[c] = <<>> /\ pending'[c] = <<reqs'>> /\ DOMAIN <<>> = {}
      BY <1>4, <2>1, <2>3 DEF Settled, Quiet
    <3>2. Serving(c, req[w])'
      BY <1>1, <1>5, <3>1 DEF Serving
    <3>3. \A k \in Callers : stage[c][k] \notin {"do", "close"}
      BY <1>1, <2>1, <2>3 DEF Settled, Served, Callers, Finishes
    <3>4. ~collector[c].err /\ ~collector[c].last /\ collector[c].done # "closed" /\ stage[c]["dispatcher"] \notin Finishes
      BY <2>1, <2>2, <2>3 DEF Settled, Served
    <3>5. Range(collector[c].frames) \subseteq {reqs'}
      BY <2>2, <3>1 DEF Range
    <3> QED
      BY <1>1, <1>5, <3>2, <3>3, <3>4, <3>5 DEF Answering
  <2>4. CASE reader[c] # "run"
    BY <1>1, <1>4, <2>1, <2>2, <2>4 DEF Settled, Unheard, Quiet
  <2> QED
    BY <2>3, <2>4
<1>9. Collects(c, w)'
  BY <1>1, <1>5, <1>8 DEF Collects
<1> QED
  BY <1>1, <1>3, <1>6, <1>7, <1>9 DEF Served

LEMMA WaitServes ==
    ASSUME Typing, Places, NEW w \in Workers, NEW c \in Connections, conn[w] = c, Served(c), Wait(w)
    PROVE  Served(c)'
<1>1. /\ UNCHANGED <<conn, req, success, cancelled, session, stage, queue, reader, pending, collector>>
      /\ pc[w] = "wait" /\ pc'[w] = "read" /\ collector[c].done = "closed"
  BY DEF Wait, At, sessions, history, Typing, TypeOK
<1>3. \A v \in Workers : conn[v] = c => v = w
  BY <1>1, Sole
<1>4. Collects(c, w)
  BY DEF Served
<1>5. Sound(c) => Settled(c)
  <2>1. SUFFICES ASSUME Sound(c) PROVE Settled(c)
    OBVIOUS
  <2>2. CASE Answering(c, w)
    BY <1>1, <2>1, <2>2 DEF Answering, Settled, Sound
  <2>3. CASE Unheard(c)
    BY <2>3 DEF Unheard, Settled
  <2> QED
    BY <1>1, <1>4, <2>1, <2>2, <2>3 DEF Collects, Sound
<1>6. /\ (Sound(c)' <=> Sound(c)) /\ (Settled(c)' <=> Settled(c))
      /\ (Answering(c, w)' <=> Answering(c, w)) /\ (Unheard(c)' <=> Unheard(c))
  BY <1>1 DEF Sound, Quiet, Settled, Answering, Unheard, Serving
<1>7. Collects(c, w)'
  BY <1>1, <1>4, <1>6 DEF Collects
<1> QED
  BY <1>1, <1>3, <1>5, <1>6, <1>7 DEF Served

LEMMA WaitReadsServes ==
    ASSUME Typing, Places, NEW w \in Workers, NEW c \in Connections, conn[w] = c, Served(c), WaitReads(w)
    PROVE  Served(c)'
<1>1. /\ UNCHANGED <<conn, req, cancelled, session, stage, queue, reader, pending, collector>>
      /\ pc[w] = "read" /\ pc'[w] = "return" /\ success'[w] = ~collector[c].err
  BY DEF WaitReads, At, sessions, history, Typing, TypeOK
<1>3. ~Awaited(c) /\ \A v \in Workers : conn[v] = c => v = w
  BY <1>1, Sole
<1>4. Collects(c, w)
  BY DEF Served
<1>5. ASSUME success'[w], c \notin cancelled
      PROVE  /\ Quiet(c)
             /\ \/ collector[c].last /\ Range(collector[c].frames) = {req[w]}
                \/ collector[c].frames = <<>> /\ reader[c] # "run"
  <2>1. CASE Unheard(c)
    BY <2>1 DEF Unheard
  <2>2. CASE Answering(c, w)
    <3>1. collector[c].done = "closed" /\ ~collector[c].err
      BY <1>1, <1>4, <1>5 DEF Collects
    <3>2. collector[c].last /\ Quiet(c) /\ Range(collector[c].frames) \subseteq {req[w]}
      BY <2>2, <3>1 DEF Answering
    <3>3. Range(collector[c].frames) # {}
      <4>0. PICK Ids : Ids = 0..MaxReqs
        OBVIOUS
      <4>1. PICK q \in Seq(Ids) : q = collector[c].frames
        BY <4>0 DEF Typing, TypeOK, Collectors
      <4>2. q # <<>>
        BY <3>2, <4>1 DEF Served
      <4>3. 1 \in DOMAIN q
        BY <4>2, Shifted
      <4>4. q[1] \in Range(q)
        BY <4>3 DEF Range
      <4> QED
        BY <4>1, <4>4
    <3> QED
      BY <3>2, <3>3
  <2> QED
    BY <1>1, <1>4, <1>5, <2>1, <2>2 DEF Collects
<1>6. (Sound(c)' <=> Sound(c)) /\ (Settled(c)' <=> Settled(c)) /\ (Quiet(c)' <=> Quiet(c))
  BY <1>1 DEF Sound, Quiet, Settled
<1>7. Collects(c, w)'
  BY <1>1, <1>5, <1>6 DEF Collects
<1> QED
  BY <1>1, <1>3, <1>6, <1>7 DEF Served

\* A worker's step and its connection; the others' are left alone.
LEMMA WorkerServes ==
    ASSUME Typing, Places, NEW w \in Workers, NEW c \in Connections, Served(c),
           Reset1(w) \/ Reset2(w) \/ Reset3(w) \/ SendAudio(w) \/ Wait(w) \/ WaitReads(w)
    PROVE  Served(c)'
<1>1. CASE conn[w] = c
  BY <1>1, ResetServes, SendServes, WaitServes, WaitReadsServes
<1>2. CASE conn[w] # c
  <2> USE DEF At, sessions, history, Typing, TypeOK
  <2>1. /\ UNCHANGED <<conn, cancelled, session, stage, queue, reader>>
        /\ \A v \in Workers : v # w => pc'[v] = pc[v] /\ req'[v] = req[v] /\ success'[v] = success[v]
        /\ collector'[c] = collector[c] /\ pending'[c] = pending[c]
    <3>1. CASE Reset1(w) \/ Reset2(w) \/ Reset3(w)
      BY <1>2, <3>1 DEF Reset1, Reset2, Reset3
    <3>2. CASE SendAudio(w)
      BY <1>2, <3>2 DEF SendAudio
    <3>3. CASE Wait(w) \/ WaitReads(w)
      BY <1>2, <3>3 DEF Wait, WaitReads
    <3> QED
      BY <3>1, <3>2, <3>3
  <2> HIDE DEF At, sessions, history, Typing, TypeOK
  <2> QED
    BY <1>2, <2>1, ServedKept
<1> QED
  BY <1>1, <1>2

LEMMA InitializeServes ==
    ASSUME Typing, Places, NEW c \in Connections, Served(c), Unused(c), Initialize
    PROVE  Served(c)'
<1>1. /\ pool = "new" /\ UNCHANGED <<collector, queue, stage, pending, workers, history>>
  BY DEF Initialize
<1>2. \A w \in Workers : conn[w] # c
  <2>1. \A w \in Workers : conn[w] = none
    BY <1>1 DEF Places, NewIsEmpty, Typing, HoldsIts
  <2> QED
    BY <2>1, PoolAssumption DEF none
<1>3. /\ queue[c] = <<>> /\ pending[c] = <<>>
      /\ stage[c]["dispatcher"] = "none" /\ stage[c]["reader"] = "none" /\ stage[c]["pool"] = "none"
  BY <1>1 DEF Unused
<1>4. Settled(c)'
  BY <1>1, <1>3 DEF Settled, Quiet, Finishes
<1> QED
  BY <1>1, <1>2, <1>3, <1>4 DEF Served, workers

LEMMA CloseServes ==
    ASSUME Typing, NEW c \in Connections, Served(c), NEW d \in Connections, NEW k \in {"reader", "pool"},
           SessionClose(d, k), UNCHANGED <<pc, conn, req, success, cancelled, collector, queue, pending>>,
           \A e \in Connections : reader'[e] = reader[e] \/ (e = d /\ reader[e] # "run" /\ reader'[e] # "run")
    PROVE  Served(c)'
<1>1. session \in [Connections -> BOOLEAN] /\ stage \in [Connections -> [Callers -> Stages]] /\ k \in Callers
  BY DEF Typing, TypeOK, Callers
<1>2. CASE c = d
  <2>1. /\ ~session'[c] /\ (stage'[c] = stage[c] \/ stage'[c][k] = "begin")
        /\ \A j \in Callers : j # k => stage'[c][j] = stage[c][j]
    BY <1>1, <1>2 DEF SessionClose
  <2> QED
    BY <1>2, <2>1, ServedFalls
<1>3. CASE c # d
  <2>1. session'[c] = session[c] /\ stage'[c] = stage[c] /\ reader'[c] = reader[c]
    BY <1>1, <1>3 DEF SessionClose
  <2> QED
    BY <2>1, ServedKept
<1> QED
  BY <1>2, <1>3

\* The steps of a connection, for itself and the others.
LEMMA ConnectionServes ==
    ASSUME Typing, Places, NEW c \in Connections, Served(c), NEW d \in Connections, Served(d), ConnectionStep(d)
    PROVE  Served(c)'
<1>1. CASE ReaderCloses(d)
  <2>1. /\ SessionClose(d, "reader") /\ UNCHANGED <<pc, conn, req, success, cancelled, collector, queue, pending>>
        /\ reader[d] = "closing" /\ reader'[d] # "run" /\ \A e \in Connections : e # d => reader'[e] = reader[e]
    BY <1>1 DEF ReaderCloses, workers, history, Typing, TypeOK
  <2> QED
    BY <2>1, CloseServes
<1>2. CASE c = d /\ ~ReaderCloses(d)
  BY <1>2, DeliverServes, ServerFrameServes, ServerEndsServes, BreaksServes, CallbackServes DEF ConnectionStep
<1>3. CASE c # d /\ ~ReaderCloses(d)
  <2>1. /\ UNCHANGED <<pc, conn, req, success, cancelled, session>>
        /\ UNCHANGED <<collector[c], queue[c], pending[c], reader[c], stage[c]>>
    <3>1. CASE Deliver(d)
      <4>1. UNCHANGED <<workers, history, session, pending, reader>> /\ queue' = [queue EXCEPT ![d] = Tail(@)]
        BY <3>1, DeliverFacts
      <4>2. collector'[c] = collector[c] /\ stage'[c] = stage[c]
        BY <1>3, <3>1, DeliverFacts
      <4> QED
        BY <1>3, <4>1, <4>2 DEF workers, history, Typing, TypeOK
    <3>2. CASE Callback(d)
      <4>1. UNCHANGED <<workers, history, session, pending, reader, queue>>
        BY <3>2, CallbackFacts
      <4>2. collector'[c] = collector[c] /\ stage'[c] = stage[c]
        BY <1>3, <3>2, CallbackFacts
      <4> QED
        BY <4>1, <4>2 DEF workers, history
    <3>3. CASE ServerFrame(d) \/ ServerEnds(d) \/ Breaks(d)
      BY <1>3, <3>3 DEF ServerFrame, ServerEnds, Breaks, workers, history, Typing, TypeOK
    <3> QED
      BY <1>3, <3>1, <3>2, <3>3 DEF ConnectionStep
  <2> QED
    BY <2>1, ServedKept
<1> QED
  BY <1>1, <1>2, <1>3

AllServed == \A c \in Connections : Served(c)

LEMMA ServedStep == Typing /\ Places /\ Wake /\ AllServed /\ [Next]_vars => AllServed'
<1> SUFFICES ASSUME Typing, Places, Wake, AllServed, [Next]_vars, NEW c \in Connections PROVE Served(c)'
  BY DEF AllServed
<1>0. Served(c) /\ pc \in [Workers -> PCs] /\ conn \in [Workers -> Connections \cup {none}]
      /\ req \in [Workers -> 0..MaxReqs] /\ success \in [Workers -> BOOLEAN]
      /\ \A w \in Workers : success[w] => pc[w] = "return"
  BY DEF AllServed, Typing, TypeOK, HoldsIts
<1> USE <1>0
<1>1. CASE Initialize
  BY <1>1, InitializeServes DEF Wake
<1>2. CASE StartClose \/ CloseChannel \/ Drain \/ UNCHANGED vars
  BY <1>2, ServedKept DEF StartClose, CloseChannel, Drain, vars, pools, sessions, workers, history
<1>3. CASE CloseConnection
  <2>1. /\ UNCHANGED <<pc, conn, req, success, cancelled, collector, queue, pending, reader>>
        /\ \E d \in all : SessionClose(d, "pool")
    BY <1>3 DEF CloseConnection, workers, history
  <2>2. all \subseteq Connections
    BY DEF Typing, TypeOK
  <2> QED
    BY <2>1, <2>2, CloseServes
<1>4. ASSUME NEW w \in Workers, Borrow(w) \/ SendFails(w) PROVE Served(c)'
  <2>1. /\ UNCHANGED <<collector, sessions, conn, req, success, cancelled>>
        /\ pc[w] \in {"idle", "send"} /\ pc' \in {[pc EXCEPT ![w] = l] : l \in {"borrow", "return"}}
    BY <1>4 DEF Borrow, SendFails, At, history
  <2>2. ~success[w]
    BY <2>1
  <2> QED
    BY <2>1, <2>2, ServedKept DEF sessions
<1>5. ASSUME NEW w \in Workers, Receive(w) \/ ReceiveNil(w) \/ BorrowTimeout(w) PROVE Served(c)'
  <2>1. /\ UNCHANGED <<collector, sessions, req, success, cancelled>> /\ pc[w] # "wait"
        /\ pc' \in {[pc EXCEPT ![w] = l] : l \in {"clear", "idle"}}
        /\ \A v \in Workers : v # w => conn'[v] = conn[v]
    BY <1>5 DEF Receive, ReceiveNil, BorrowTimeout, At, history
  <2> QED
    BY <2>1, ServedKept DEF sessions
<1>6. ASSUME NEW w \in Workers,
             Reset1(w) \/ Reset2(w) \/ Reset3(w) \/ SendAudio(w) \/ Wait(w) \/ WaitReads(w)
      PROVE  Served(c)'
  BY <1>6, WorkerServes
<1>7. ASSUME NEW w \in Workers, Return(w) \/ Push(w) PROVE Served(c)'
  <2>1. /\ UNCHANGED <<collector, sessions, cancelled>> /\ pc[w] # "wait"
        /\ pc' \in {[pc EXCEPT ![w] = l] : l \in {"push", "idle"}}
        /\ \A v \in Workers : v # w => conn'[v] = conn[v] /\ req'[v] = req[v] /\ success'[v] = success[v]
    BY <1>7 DEF Return, Push, Returned, At, history
  <2> QED
    BY <2>1, ServedKept DEF sessions
<1>8. ASSUME NEW w \in Workers, WaitCancelled(w) PROVE Served(c)'
  <2>1. /\ UNCHANGED <<collector, sessions, conn, req, success>> /\ pc' = [pc EXCEPT ![w] = "return"]
        /\ cancelled' = cancelled \cup {conn[w]} /\ pc[w] = "wait"
    BY <1>8 DEF WaitCancelled, At
  <2>2. ~success[w]
    BY <2>1
  <2> QED
    BY <2>1, <2>2, ServedKept DEF sessions
<1>9. ASSUME NEW d \in Connections, ConnectionStep(d) PROVE Served(c)'
  BY <1>9, ConnectionServes DEF AllServed
<1> QED
  BY <1>1, <1>2, <1>3, <1>4, <1>5, <1>6, <1>7, <1>8, <1>9 DEF Next, UserNext, Close, WorkerStep

\* A request that succeeds has its last frame and no frame of another request, on a
\* connection that no cancelled request used; or, on one that had broken before its
\* reset, no frame at all.
THEOREM FramesAreOwn == RoundsSpec => []OwnFrames
<1>1. Init => AllServed
  BY ServedInit DEF AllServed
<1>2. Spec => [](Typing /\ AllServed)
  BY <1>1, PoolHolds, ServedStep, PTL DEF Spec
<1>3. Typing /\ AllServed => OwnFrames
  <2> SUFFICES ASSUME Typing, AllServed, NEW w \in Workers,
                      pc[w] = "return", success[w], conn[w] \notin cancelled
               PROVE  \/ collector[conn[w]].last /\ Range(collector[conn[w]].frames) = {req[w]}
                      \/ collector[conn[w]].frames = <<>> /\ reader[conn[w]] # "run"
    BY DEF OwnFrames
  <2>1. conn[w] \in Connections
    BY HasConn
  <2>2. Collects(conn[w], w)
    BY <2>1 DEF AllServed, Served
  <2> QED
    BY <2>2 DEF Collects
<1> QED
  BY <1>2, <1>3, RoundsUseThePool, PTL
================================================================================
