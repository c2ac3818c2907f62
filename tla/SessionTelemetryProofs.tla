----------------------- MODULE SessionTelemetryProofs --------------------------
(***************************************************************************)
(* Theorems about SessionTelemetry, for any bounds.  A span that has not   *)
(* ended is in exactly one place: an entry of the table, or the hands of   *)
(* the goroutine that took it out.  That is what SpanEndedOnce and         *)
(* NoSpanLost need to be inductive.                                        *)
(***************************************************************************)
EXTENDS SessionTelemetry, TLAPS

\* Between `go s.readLoop` and the store of sessionStartedAt there is a session.
MarksASession == pc[User] = "marks" => starts > 0

\* Spans not started yet are nowhere.
Fresh ==
    \A s \in Spans : s > spans =>
       /\ ends[s] = 0
       /\ \A r \in Reqs : table[r] # s
       /\ \A p \in Procs : held[p] # s

\* A span in a place has not ended.
Unended ==
    /\ \A r \in Reqs : table[r] # none => ends[table[r]] = 0
    /\ \A p \in Procs : held[p] # none => ends[held[p]] = 0

\* No span is in two places.
Apart ==
    /\ \A r, q \in Reqs : table[r] # none /\ table[r] = table[q] => r = q
    /\ \A p, q \in Procs : held[p] # none /\ held[p] = held[q] => p = q
    /\ \A r \in Reqs, p \in Procs : table[r] # none => table[r] # held[p]

\* A goroutine holds a span only between taking and ending it.
HoldsAtEnd == \A p \in Procs : pc[p] # "end" => held[p] = none

\* Only the user adds entries, so the answer of CheckSpan stays true.
InsertsFree == pc[User] = "insert" => table[req[User]] = none

Typing == TypeOK /\ MarksASession

Places == Fresh /\ Unended /\ Apart /\ HoldsAtEnd /\ InsertsFree
            /\ SpanEndedOnce /\ NoSpanLost

LEMMA ProcFacts == User \in Procs /\ Reader \in Procs /\ User # Reader
BY DEF Procs, User, Reader

--------------------------------------------------------------------------------
(* Types                                                                      *)

LEMMA Labels ==
    /\ \A l \in {"idle", "marks", "clears", "check", "insert", "write", "reads", "take",
                 "end", "snapshot", "each", "metric", "record", "flag", "shut"} : l \in PCs
    /\ \A o \in {"none", "send", "first", "interrupt", "frame", "close"} : o \in Ops
BY DEF PCs, Ops

LEMMA TypingInit == Init => Typing
<1> SUFFICES ASSUME Init PROVE Typing
  OBVIOUS
<1> USE BoundsAssumption DEF Init, none
<1>0. open \in BOOLEAN /\ finished \in BOOLEAN
  OBVIOUS
<1>1. /\ starts \in 0..MaxStarts /\ closes \in 0..MaxCloses
      /\ reqs \in 0..MaxReqs /\ current \in 0..MaxReqs
      /\ spans \in 0..MaxSpans /\ started \in 0..MaxStarts
  OBVIOUS
<1>2. /\ table \in [Reqs -> 0..MaxSpans] /\ ends \in [Spans -> Nat]
      /\ traced \in [Reqs -> Nat] /\ durations \in [Starts -> Nat]
  OBVIOUS
<1>3. /\ pc \in [Procs -> PCs] /\ op \in [Procs -> Ops]
      /\ req \in [Procs -> 0..MaxReqs] /\ held \in [Procs -> 0..MaxSpans]
      /\ todo \in [Procs -> SUBSET Reqs]
  BY DEF PCs, Ops
<1>4. \A p \in Procs : pc[p] = "idle"
  OBVIOUS
<1> QED
  BY <1>0, <1>1, <1>2, <1>3, <1>4, ProcFacts DEF Typing, TypeOK, DataType, IndexType, MarksASession

\* DataType in three parts.
Scalars ==
    /\ open \in BOOLEAN
    /\ finished \in BOOLEAN
    /\ starts \in 0..MaxStarts /\ closes \in 0..MaxCloses
    /\ reqs \in 0..MaxReqs /\ current \in 0..MaxReqs
    /\ spans \in 0..MaxSpans /\ started \in 0..MaxStarts
Tables ==
    /\ table \in [Reqs -> 0..MaxSpans]
    /\ ends \in [Spans -> Nat]
    /\ traced \in [Reqs -> Nat]
    /\ durations \in [Starts -> Nat]
Locals ==
    /\ pc \in [Procs -> PCs]
    /\ op \in [Procs -> Ops]
    /\ req \in [Procs -> 0..MaxReqs]
    /\ held \in [Procs -> 0..MaxSpans]
    /\ todo \in [Procs -> SUBSET Reqs]

LEMMA Update == ASSUME NEW S, NEW T, NEW f \in [S -> T], NEW x, NEW v \in T
                PROVE  [f EXCEPT ![x] = v] \in [S -> T]
OBVIOUS

LEMMA Parts == DataType <=> Scalars /\ Tables /\ Locals
BY DEF DataType, Scalars, Tables, Locals

LEMMA DataStep == Typing /\ [Next]_vars => DataType'
<1> SUFFICES ASSUME Typing, [Next]_vars PROVE DataType'
  OBVIOUS
<1> USE BoundsAssumption, ProcFacts, Labels DEF Typing, TypeOK, DataType, IndexType, Goto, Step,
        none, Starts, Reqs, Spans, counters, requests, records, session, locals
<1>1. CASE SpawnReadLoop
  <2> USE <1>1 DEF SpawnReadLoop
  <2>1. Scalars'
    BY DEF Scalars
  <2>2. Tables'
    BY DEF Tables
  <2>3. Locals'
    BY DEF Locals
  <2> QED
    BY <2>1, <2>2, <2>3, Parts DEF DataType, Scalars, Tables, Locals
<1>2. CASE MarkStarted
  BY <1>2 DEF MarkStarted
<1>3. CASE ClearFinished
  BY <1>3 DEF ClearFinished
<1>4. CASE SendBegins
  <2> USE <1>4 DEF SendBegins
  <2>1. Scalars'
    BY DEF Scalars
  <2>2. Tables'
    BY DEF Tables
  <2>3. Locals'
    <3>1. current' \in 0..MaxReqs
      OBVIOUS
    <3>2. req' \in [Procs -> 0..MaxReqs]
      BY <3>1, Update
    <3> QED
      BY <3>2 DEF Locals
  <2> QED
    BY <2>1, <2>2, <2>3, Parts DEF DataType, Scalars, Tables, Locals
<1>5. CASE CheckSpan
  BY <1>5 DEF CheckSpan
<1>6. CASE InsertSpan
  <2> USE <1>6 DEF InsertSpan
  <2>1. Scalars'
    BY DEF Scalars
  <2>2. Tables'
    <3>1. spans + 1 \in 0..MaxSpans
      OBVIOUS
    <3>2. table' \in [Reqs -> 0..MaxSpans]
      BY <3>1, Update
    <3> QED
      BY <3>2 DEF Tables
  <2>3. Locals'
    BY DEF Locals
  <2> QED
    BY <2>1, <2>2, <2>3, Parts DEF DataType, Scalars, Tables, Locals
<1>7. CASE SendWritten
  <2> USE <1>7 DEF SendWritten
  <2>1. Scalars'
    BY DEF Scalars
  <2>2. Tables'
    <3>1. traced[req[User]] + 1 \in Nat /\ traced[req[User]] \in Nat
      OBVIOUS
    <3>2. traced' \in [Reqs -> Nat]
      BY <3>1, Update
    <3> QED
      BY <3>2 DEF Tables
  <2>3. Locals'
    BY DEF Locals
  <2> QED
    BY <2>1, <2>2, <2>3, Parts DEF DataType, Scalars, Tables, Locals
<1>8. CASE SendFails
  BY <1>8 DEF SendFails
<1>9. CASE Interrupt
  BY <1>9 DEF Interrupt
<1>10. CASE CallClose
  <2> USE <1>10 DEF CallClose
  <2>1. Scalars'
    BY DEF Scalars
  <2>2. Tables'
    BY DEF Tables
  <2>3. Locals'
    BY DEF Locals
  <2> QED
    BY <2>1, <2>2, <2>3, Parts DEF DataType, Scalars, Tables, Locals
<1>11. ASSUME NEW p \in Procs, Take(p) PROVE DataType'
  <2> USE <1>11 DEF Take
  <2>1. Scalars'
    BY DEF Scalars
  <2>2. Tables'
    <3>1. none \in 0..MaxSpans
      OBVIOUS
    <3>2. table' \in [Reqs -> 0..MaxSpans]
      BY <3>1, Update
    <3> QED
      BY <3>2 DEF Tables
  <2>3. Locals'
    BY DEF Locals
  <2> QED
    BY <2>1, <2>2, <2>3, Parts DEF DataType, Scalars, Tables, Locals
<1>12. ASSUME NEW p \in Procs, End(p) PROVE DataType'
  <2> USE <1>12 DEF End, Resumes
  <2>1. Scalars'
    BY DEF Scalars
  <2>2. Tables'
    BY DEF Tables
  <2>3. Locals'
    BY DEF Locals
  <2> QED
    BY <2>1, <2>2, <2>3, Parts DEF DataType, Scalars, Tables, Locals
<1>13. ASSUME NEW p \in Procs, Snapshot(p) PROVE DataType'
  BY <1>13 DEF Snapshot
<1>14. ASSUME NEW p \in Procs, Each(p) PROVE DataType'
  <2> USE <1>14 DEF Each
  <2>1. Scalars'
    BY DEF Scalars
  <2>2. Tables'
    BY DEF Tables
  <2>3. Locals'
    <3>1. PICK r \in todo[p] : /\ req' = [req EXCEPT ![p] = r]
                              /\ todo' = [todo EXCEPT ![p] = @ \ {r}]
      OBVIOUS
    <3>2. r \in 0..MaxReqs /\ todo[p] \ {r} \in SUBSET Reqs
      OBVIOUS
    <3>3. req' \in [Procs -> 0..MaxReqs]
      BY <3>1, <3>2, Update
    <3>4. todo' \in [Procs -> SUBSET Reqs]
      BY <3>1, <3>2, Update
    <3> QED
      BY <3>3, <3>4 DEF Locals
  <2> QED
    BY <2>1, <2>2, <2>3, Parts DEF DataType, Scalars, Tables, Locals
<1>15. ASSUME NEW p \in Procs, EachDone(p) PROVE DataType'
  BY <1>15 DEF EachDone
<1>16. ASSUME NEW p \in Procs, MetricCheck(p) PROVE DataType'
  BY <1>16 DEF MetricCheck
<1>17. ASSUME NEW p \in Procs, MetricRecord(p) PROVE DataType'
  <2> USE <1>17 DEF MetricRecord
  <2>1. Scalars'
    BY DEF Scalars
  <2>2. Tables'
    <3>1. durations[started] + 1 \in Nat
      OBVIOUS
    <3>2. durations' \in [Starts -> Nat]
      BY <3>1, Update
    <3> QED
      BY <3>2 DEF Tables
  <2>3. Locals'
    BY DEF Locals
  <2> QED
    BY <2>1, <2>2, <2>3, Parts DEF DataType, Scalars, Tables, Locals
<1>18. ASSUME NEW p \in Procs, MetricFlag(p) PROVE DataType'
  BY <1>18 DEF MetricFlag
<1>19. ASSUME NEW p \in Procs, Shut(p) PROVE DataType'
  BY <1>19 DEF Shut
<1>20. CASE FrameFinishes
  <2> USE <1>20 DEF FrameFinishes
  <2>1. Scalars'
    BY DEF Scalars
  <2>2. Tables'
    BY DEF Tables
  <2>3. Locals'
    BY DEF Locals
  <2> QED
    BY <2>1, <2>2, <2>3, Parts DEF DataType, Scalars, Tables, Locals
<1>21. CASE ReadBreaks
  BY <1>21 DEF ReadBreaks
<1>22. CASE ReadLeaves
  BY <1>22 DEF ReadLeaves
<1>23. CASE UNCHANGED vars
  BY <1>23 DEF vars
<1> QED
  BY <1>1, <1>2, <1>3, <1>4, <1>5, <1>6, <1>7, <1>8, <1>9, <1>10, <1>11, <1>12,
     <1>13, <1>14, <1>15, <1>16, <1>17, <1>18, <1>19, <1>20, <1>21, <1>22, <1>23
     DEF Next, Finish, Close, Rest

LEMMA IndexStep == Typing /\ [Next]_vars => (IndexType /\ MarksASession)'
<1> SUFFICES ASSUME Typing, [Next]_vars PROVE (IndexType /\ MarksASession)'
  OBVIOUS
<1> USE BoundsAssumption, ProcFacts DEF Typing, TypeOK, DataType, IndexType, MarksASession, Goto,
        Step, none, Starts, Reqs, counters, requests, records, session, locals
<1>1. CASE SpawnReadLoop
  BY <1>1 DEF SpawnReadLoop
<1>2. CASE MarkStarted
  BY <1>2 DEF MarkStarted
<1>3. CASE ClearFinished
  BY <1>3 DEF ClearFinished
<1>4. CASE SendBegins
  BY <1>4 DEF SendBegins
<1>5. CASE CheckSpan
  BY <1>5 DEF CheckSpan
<1>6. CASE InsertSpan
  BY <1>6 DEF InsertSpan
<1>7. CASE SendWritten
  BY <1>7 DEF SendWritten
<1>8. CASE SendFails
  BY <1>8 DEF SendFails
<1>9. CASE Interrupt
  BY <1>9 DEF Interrupt
<1>10. CASE CallClose
  BY <1>10 DEF CallClose
<1>11. ASSUME NEW p \in Procs, Take(p) PROVE (IndexType /\ MarksASession)'
  BY <1>11 DEF Take
<1>12. ASSUME NEW p \in Procs, End(p) PROVE (IndexType /\ MarksASession)'
  BY <1>12 DEF End, Resumes
<1>13. ASSUME NEW p \in Procs, Snapshot(p) PROVE (IndexType /\ MarksASession)'
  BY <1>13 DEF Snapshot
<1>14. ASSUME NEW p \in Procs, Each(p) PROVE (IndexType /\ MarksASession)'
  BY <1>14 DEF Each
<1>15. ASSUME NEW p \in Procs, EachDone(p) PROVE (IndexType /\ MarksASession)'
  BY <1>15 DEF EachDone
<1>16. ASSUME NEW p \in Procs, MetricCheck(p) PROVE (IndexType /\ MarksASession)'
  BY <1>16 DEF MetricCheck
<1>17. ASSUME NEW p \in Procs, MetricRecord(p) PROVE (IndexType /\ MarksASession)'
  BY <1>17 DEF MetricRecord
<1>18. ASSUME NEW p \in Procs, MetricFlag(p) PROVE (IndexType /\ MarksASession)'
  BY <1>18 DEF MetricFlag
<1>19. ASSUME NEW p \in Procs, Shut(p) PROVE (IndexType /\ MarksASession)'
  BY <1>19 DEF Shut
<1>20. CASE FrameFinishes
  BY <1>20 DEF FrameFinishes
<1>21. CASE ReadBreaks
  BY <1>21 DEF ReadBreaks
<1>22. CASE ReadLeaves
  BY <1>22 DEF ReadLeaves
<1>23. CASE UNCHANGED vars
  BY <1>23 DEF vars
<1> QED
  BY <1>1, <1>2, <1>3, <1>4, <1>5, <1>6, <1>7, <1>8, <1>9, <1>10, <1>11, <1>12,
     <1>13, <1>14, <1>15, <1>16, <1>17, <1>18, <1>19, <1>20, <1>21, <1>22, <1>23
     DEF Next, Finish, Close, Rest

LEMMA TypingStep == Typing /\ [Next]_vars => Typing'
BY DataStep, IndexStep DEF Typing, TypeOK

\* Type correctness: every variable keeps its type, and a step that indexes by a
\* request or by a session always has one.
THEOREM TypeCorrect == Spec => []TypeOK
<1>1. Typing => TypeOK
  BY DEF Typing
<1> QED
  BY TypingInit, TypingStep, <1>1, PTL DEF Spec

--------------------------------------------------------------------------------
(* Places                                                                     *)

LEMMA PlacesInit == Init => Places
BY BoundsAssumption, ProcFacts
   DEF Init, none, Spans, Places, Fresh, Unended, Apart, HoldsAtEnd, InsertsFree,
       SpanEndedOnce, NoSpanLost

\* A step that touches no span and keeps the two facts about pc.
LEMMA QuietStep ==
    ASSUME Places, UNCHANGED <<table, spans, ends, held>>, HoldsAtEnd', InsertsFree'
    PROVE  Places'
BY DEF Places, Fresh, Unended, Apart, SpanEndedOnce, NoSpanLost

LEMMA InsertPlaces == Typing /\ Places /\ InsertSpan => Places'
<1> SUFFICES ASSUME Typing, Places, InsertSpan PROVE Places'
  OBVIOUS
<1> DEFINE s == spans + 1
           r == req[User]
<1> USE ProcFacts DEF none, Places
<1>1. /\ s \in Spans /\ r \in Reqs /\ spans' = s /\ spans \in Nat
      /\ \A q \in Reqs : table'[q] = IF q = r THEN s ELSE table[q]
      /\ UNCHANGED <<ends, held>>
  BY BoundsAssumption DEF InsertSpan, Step, Typing, TypeOK, DataType, IndexType, Spans
<1>2. /\ ends[s] = 0 /\ table[r] = none
      /\ \A q \in Reqs : table[q] # s
      /\ \A p \in Procs : held[p] # s
  BY <1>1 DEF Fresh, InsertsFree, InsertSpan, Step, Spans
<1>3. Fresh' /\ Unended' /\ SpanEndedOnce'
  BY <1>1, <1>2 DEF Fresh, Unended, SpanEndedOnce, Spans
<1>4. Apart'
  BY <1>1, <1>2 DEF Apart
<1>5. HoldsAtEnd' /\ InsertsFree'
  BY <1>1, <1>2 DEF HoldsAtEnd, InsertsFree, InsertSpan, Step, Goto, Typing, TypeOK, DataType
<1>6. NoSpanLost'
  <2> SUFFICES ASSUME NEW t \in 1..spans'
               PROVE  (ends[t] > 0 \/ (\E q \in Reqs : table'[q] = t) \/ \E p \in Procs : held[p] = t)
    BY <1>1 DEF NoSpanLost
  <2>1. CASE t = s
    BY <2>1, <1>1
  <2>2. CASE t # s
    BY <2>2, <1>1, <1>2 DEF NoSpanLost
  <2> QED
    BY <2>1, <2>2
<1> QED
  BY <1>3, <1>4, <1>5, <1>6

LEMMA TakePlaces ==
    ASSUME Typing, Places, NEW p \in Procs, Take(p)
    PROVE  Places'
<1> DEFINE r == req[p]
<1> USE ProcFacts DEF none, Places
<1>1. /\ r \in Reqs /\ held[p] = none /\ pc'[p] = "end"
      /\ \A q \in Reqs : table'[q] = IF q = r THEN none ELSE table[q]
      /\ \A q \in Procs : held'[q] = IF q = p THEN table[r] ELSE held[q]
      /\ \A q \in Procs : q # p => pc'[q] = pc[q]
      /\ UNCHANGED <<spans, ends, req>>
  BY DEF Take, Step, Goto, Typing, TypeOK, DataType, IndexType, HoldsAtEnd
<1>2. Fresh' /\ Unended' /\ SpanEndedOnce'
  BY <1>1 DEF Fresh, Unended, SpanEndedOnce, Spans
<1>3. Apart'
  BY <1>1 DEF Apart
<1>4. HoldsAtEnd' /\ InsertsFree'
  BY <1>1 DEF HoldsAtEnd, InsertsFree, Typing, TypeOK, DataType, IndexType
<1>5. NoSpanLost'
  BY <1>1 DEF NoSpanLost, Typing, TypeOK, DataType
<1> QED
  BY <1>2, <1>3, <1>4, <1>5

LEMMA EndPlaces ==
    ASSUME Typing, Places, NEW p \in Procs, End(p)
    PROVE  Places'
<1> USE ProcFacts DEF none, Places
<1>1. /\ \A s \in Spans : ends'[s] = IF s = held[p] THEN ends[s] + 1 ELSE ends[s]
      /\ \A q \in Procs : held'[q] = IF q = p THEN none ELSE held[q]
      /\ \A q \in Procs : q # p => pc'[q] = pc[q]
      /\ pc'[p] # "insert"
      /\ UNCHANGED <<spans, table, req>>
      /\ \A s \in Spans : s # 0 /\ ends[s] \in Nat
      /\ \A q \in Procs : held[q] # none => held[q] \in Spans
      /\ \A q \in Reqs : table[q] # none => table[q] \in Spans
      /\ spans \in 0..MaxSpans
  BY BoundsAssumption DEF End, Resumes, Step, Goto, Typing, TypeOK, DataType, Spans
<1>2. Fresh'
  BY <1>1 DEF Fresh
<1>3. Unended'
  BY <1>1 DEF Unended, Apart
<1>4. Apart'
  BY <1>1 DEF Apart
<1>5. SpanEndedOnce'
  BY <1>1 DEF SpanEndedOnce, Unended
<1>6. HoldsAtEnd' /\ InsertsFree'
  BY <1>1 DEF HoldsAtEnd, InsertsFree
<1>7. NoSpanLost'
  BY <1>1, BoundsAssumption DEF NoSpanLost, Spans
<1> QED
  BY <1>2, <1>3, <1>4, <1>5, <1>6, <1>7

LEMMA PlacesStep == Typing /\ Places /\ [Next]_vars => Places'
<1> SUFFICES ASSUME Typing, Places, [Next]_vars PROVE Places'
  OBVIOUS
<1>0. /\ HoldsAtEnd /\ InsertsFree
      /\ pc \in [Procs -> PCs] /\ req \in [Procs -> 0..MaxReqs]
  BY DEF Places, Typing, TypeOK, DataType
<1> USE <1>0, ProcFacts DEF HoldsAtEnd, InsertsFree, Goto, Step, counters, requests,
        records, session, locals
<1>1. CASE SpawnReadLoop
  BY <1>1, QuietStep DEF SpawnReadLoop
<1>2. CASE MarkStarted
  BY <1>2, QuietStep DEF MarkStarted
<1>3. CASE ClearFinished
  BY <1>3, QuietStep DEF ClearFinished
<1>4. CASE SendBegins
  BY <1>4, QuietStep DEF SendBegins
<1>5. CASE CheckSpan
  BY <1>5, QuietStep DEF CheckSpan
<1>6. CASE SendWritten
  BY <1>6, QuietStep DEF SendWritten
<1>7. CASE SendFails
  BY <1>7, QuietStep DEF SendFails
<1>8. CASE Interrupt
  BY <1>8, QuietStep DEF Interrupt
<1>9. CASE CallClose
  BY <1>9, QuietStep DEF CallClose
<1>10. ASSUME NEW p \in Procs, Snapshot(p) PROVE Places'
  BY <1>10, QuietStep DEF Snapshot
<1>11. ASSUME NEW p \in Procs, Each(p) PROVE Places'
  BY <1>11, QuietStep DEF Each
<1>12. ASSUME NEW p \in Procs, EachDone(p) PROVE Places'
  BY <1>12, QuietStep DEF EachDone
<1>13. ASSUME NEW p \in Procs, MetricCheck(p) PROVE Places'
  BY <1>13, QuietStep DEF MetricCheck
<1>14. ASSUME NEW p \in Procs, MetricRecord(p) PROVE Places'
  BY <1>14, QuietStep DEF MetricRecord
<1>15. ASSUME NEW p \in Procs, MetricFlag(p) PROVE Places'
  BY <1>15, QuietStep DEF MetricFlag
<1>16. ASSUME NEW p \in Procs, Shut(p) PROVE Places'
  BY <1>16, QuietStep DEF Shut
<1>17. CASE FrameFinishes
  BY <1>17, QuietStep DEF FrameFinishes
<1>18. CASE ReadBreaks
  BY <1>18, QuietStep DEF ReadBreaks
<1>19. CASE ReadLeaves
  BY <1>19, QuietStep DEF ReadLeaves
<1>20. CASE InsertSpan
  BY <1>20, InsertPlaces
<1>21. ASSUME NEW p \in Procs, Take(p) PROVE Places'
  BY <1>21, TakePlaces
<1>22. ASSUME NEW p \in Procs, End(p) PROVE Places'
  BY <1>22, EndPlaces
<1>23. CASE UNCHANGED vars
  BY <1>23, QuietStep DEF vars
<1> QED
  BY <1>1, <1>2, <1>3, <1>4, <1>5, <1>6, <1>7, <1>8, <1>9, <1>10, <1>11, <1>12,
     <1>13, <1>14, <1>15, <1>16, <1>17, <1>18, <1>19, <1>20, <1>21, <1>22, <1>23
     DEF Next, Finish, Close, Rest

\* The places of a span, for any number of requests, spans, Starts and Closes.
LEMMA PlacesHold == Spec => []Places
<1>1. Init => Typing /\ Places
  BY TypingInit, PlacesInit
<1>2. (Typing /\ Places) /\ [Next]_vars => (Typing /\ Places)'
  BY TypingStep, PlacesStep
<1> QED
  BY <1>1, <1>2, PTL DEF Spec

\* finishRequestTelemetry ends a span at most once, however the read loop, the
\* user and their Closes interleave; and a started span has ended, is in
\* requestTelemetry, or is being ended.
THEOREM SpansAreAccounted == Spec => []SpansAccounted
<1>1. Places => SpansAccounted
  BY DEF Places, SpansAccounted
<1> QED
  BY PlacesHold, <1>1, PTL

--------------------------------------------------------------------------------
(* What Close leaves behind                                                   *)

\* A Close of the user: what is still in the table is on its list, or is the
\* request it works on; past the list there is nothing.  A send is no Close.
ClearsTable ==
    op[User] = "close" =>
       /\ pc[User] \notin {"check", "write"}
       /\ pc[User] \in {"each", "end"} =>
             \A r \in Reqs : table[r] # none => r \in todo[User]
       /\ pc[User] = "take" =>
             \A r \in Reqs : table[r] # none => r \in todo[User] \/ r = req[User]
       /\ pc[User] \in {"metric", "record", "flag", "shut"} =>
             \A r \in Reqs : table[r] = none

\* The first session: its fields are set once the user has left Start, and the
\* flag, which either Close may find set, comes after the metric.
FirstRecorded ==
    /\ started <= starts
    /\ starts = 0 => ~finished
    /\ starts = 1 =>
         /\ pc[User] # "marks" => started = 1
         /\ finished => durations[1] > 0
         /\ \A p \in Procs : pc[p] = "flag" => durations[1] > 0
         /\ pc[User] = "shut" => durations[1] > 0

LEMMA ClosingInit == Init => ClearsTable /\ FirstRecorded
BY ProcFacts DEF Init, none, ClearsTable, FirstRecorded

LEMMA ClearsStep == Typing /\ ClearsTable /\ [Next]_vars => ClearsTable'
<1> SUFFICES ASSUME Typing, ClearsTable, [Next]_vars PROVE ClearsTable'
  OBVIOUS
<1>0. /\ pc \in [Procs -> PCs] /\ op \in [Procs -> Ops] /\ req \in [Procs -> 0..MaxReqs]
      /\ todo \in [Procs -> SUBSET Reqs] /\ table \in [Reqs -> 0..MaxSpans]
  BY DEF Typing, TypeOK, DataType
<1> USE <1>0, ProcFacts DEF ClearsTable, none, Goto, Step, counters, requests, records,
        session, locals
<1>1. CASE SpawnReadLoop
  BY <1>1 DEF SpawnReadLoop
<1>2. CASE MarkStarted
  BY <1>2 DEF MarkStarted
<1>3. CASE ClearFinished
  BY <1>3 DEF ClearFinished
<1>4. CASE SendBegins
  BY <1>4 DEF SendBegins
<1>5. CASE CheckSpan
  BY <1>5 DEF CheckSpan
<1>6. CASE InsertSpan
  BY <1>6 DEF InsertSpan
<1>7. CASE SendWritten
  BY <1>7 DEF SendWritten
<1>8. CASE SendFails
  BY <1>8 DEF SendFails
<1>9. CASE Interrupt
  BY <1>9 DEF Interrupt
<1>10. CASE CallClose
  BY <1>10 DEF CallClose
<1>11. ASSUME NEW p \in Procs, Take(p) PROVE ClearsTable'
  BY <1>11 DEF Take
<1>12. ASSUME NEW p \in Procs, End(p) PROVE ClearsTable'
  BY <1>12 DEF End, Resumes
<1>13. ASSUME NEW p \in Procs, Snapshot(p) PROVE ClearsTable'
  BY <1>13 DEF Snapshot
<1>14. ASSUME NEW p \in Procs, Each(p) PROVE ClearsTable'
  BY <1>14 DEF Each
<1>15. ASSUME NEW p \in Procs, EachDone(p) PROVE ClearsTable'
  BY <1>15 DEF EachDone
<1>16. ASSUME NEW p \in Procs, MetricCheck(p) PROVE ClearsTable'
  BY <1>16 DEF MetricCheck
<1>17. ASSUME NEW p \in Procs, MetricRecord(p) PROVE ClearsTable'
  BY <1>17 DEF MetricRecord
<1>18. ASSUME NEW p \in Procs, MetricFlag(p) PROVE ClearsTable'
  BY <1>18 DEF MetricFlag
<1>19. ASSUME NEW p \in Procs, Shut(p) PROVE ClearsTable'
  BY <1>19 DEF Shut
<1>20. CASE FrameFinishes
  BY <1>20 DEF FrameFinishes
<1>21. CASE ReadBreaks
  BY <1>21 DEF ReadBreaks
<1>22. CASE ReadLeaves
  BY <1>22 DEF ReadLeaves
<1>23. CASE UNCHANGED vars
  BY <1>23 DEF vars
<1> QED
  BY <1>1, <1>2, <1>3, <1>4, <1>5, <1>6, <1>7, <1>8, <1>9, <1>10, <1>11, <1>12,
     <1>13, <1>14, <1>15, <1>16, <1>17, <1>18, <1>19, <1>20, <1>21, <1>22, <1>23
     DEF Next, Finish, Close, Rest

LEMMA RecordedStep == Typing /\ FirstRecorded /\ [Next]_vars => FirstRecorded'
<1> SUFFICES ASSUME Typing, FirstRecorded, [Next]_vars PROVE FirstRecorded'
  OBVIOUS
<1>0. /\ pc \in [Procs -> PCs] /\ durations \in [Starts -> Nat]
      /\ starts \in Nat /\ started \in Nat /\ MaxStarts \in Nat
      /\ starts <= MaxStarts /\ finished \in BOOLEAN
      /\ \A p \in Procs : pc[p] \in {"record", "flag"} => started \in Starts
  BY BoundsAssumption DEF Typing, TypeOK, DataType, IndexType
<1> USE <1>0, ProcFacts DEF FirstRecorded, none, Starts, Goto, Step, counters, requests,
        records, session, locals
<1>1. CASE SpawnReadLoop
  BY <1>1 DEF SpawnReadLoop
<1>2. CASE MarkStarted
  BY <1>2 DEF MarkStarted
<1>3. CASE ClearFinished
  BY <1>3 DEF ClearFinished
<1>4. CASE SendBegins
  BY <1>4 DEF SendBegins
<1>5. CASE CheckSpan
  BY <1>5 DEF CheckSpan
<1>6. CASE InsertSpan
  BY <1>6 DEF InsertSpan
<1>7. CASE SendWritten
  BY <1>7 DEF SendWritten
<1>8. CASE SendFails
  BY <1>8 DEF SendFails
<1>9. CASE Interrupt
  BY <1>9 DEF Interrupt
<1>10. CASE CallClose
  BY <1>10 DEF CallClose
<1>11. ASSUME NEW p \in Procs, Take(p) PROVE FirstRecorded'
  BY <1>11 DEF Take
<1>12. ASSUME NEW p \in Procs, End(p) PROVE FirstRecorded'
  BY <1>12 DEF End, Resumes
<1>13. ASSUME NEW p \in Procs, Snapshot(p) PROVE FirstRecorded'
  BY <1>13 DEF Snapshot
<1>14. ASSUME NEW p \in Procs, Each(p) PROVE FirstRecorded'
  BY <1>14 DEF Each
<1>15. ASSUME NEW p \in Procs, EachDone(p) PROVE FirstRecorded'
  BY <1>15 DEF EachDone
<1>16. ASSUME NEW p \in Procs, MetricCheck(p) PROVE FirstRecorded'
  BY <1>16 DEF MetricCheck
<1>17. ASSUME NEW p \in Procs, MetricRecord(p) PROVE FirstRecorded'
  BY <1>17 DEF MetricRecord
<1>18. ASSUME NEW p \in Procs, MetricFlag(p) PROVE FirstRecorded'
  BY <1>18 DEF MetricFlag
<1>19. ASSUME NEW p \in Procs, Shut(p) PROVE FirstRecorded'
  BY <1>19 DEF Shut
<1>20. CASE FrameFinishes
  BY <1>20 DEF FrameFinishes
<1>21. CASE ReadBreaks
  BY <1>21 DEF ReadBreaks
<1>22. CASE ReadLeaves
  BY <1>22 DEF ReadLeaves
<1>23. CASE UNCHANGED vars
  BY <1>23 DEF vars
<1> QED
  BY <1>1, <1>2, <1>3, <1>4, <1>5, <1>6, <1>7, <1>8, <1>9, <1>10, <1>11, <1>12,
     <1>13, <1>14, <1>15, <1>16, <1>17, <1>18, <1>19, <1>20, <1>21, <1>22, <1>23
     DEF Next, Finish, Close, Rest

\* When the user's Close returns, no request has a span left in the table, and
\* the duration of the first session is recorded, whatever the read loop and its
\* own Close did meanwhile.
THEOREM ClosesComplete == Spec => CloseCompletes
<1> DEFINE Closing == Typing /\ ClearsTable /\ FirstRecorded
<1>1. Init => Closing
  BY TypingInit, ClosingInit
<1>2. Closing /\ [Next]_vars => Closing'
  BY TypingStep, ClearsStep, RecordedStep
<1>3. Closing => (op[User] = "close" /\ Step(User, "shut", "idle") =>
                    /\ \A r \in Reqs : table[r] = none
                    /\ starts = 1 => durations[1] > 0)
  BY DEF ClearsTable, FirstRecorded, Step
<1> QED
  BY <1>1, <1>2, <1>3, PTL DEF Spec, CloseCompletes
================================================================================
