------------------------------- MODULE PoolRounds -------------------------------
(***************************************************************************)
(* The program of the pool example (examples/connection-pool/main.go, main *)
(* and runMultipleRounds) over ConnectionPool: it initializes the pool,    *)
(* runs rounds of concurrent requests, and closes the pool.  A round is a  *)
(* goroutine per request (the workers), a WaitGroup, and a channel that    *)
(* one more goroutine closes when the group is done; main collects from it.*)
(*                                                                         *)
(* Beside main, any other program may use the pool: one whose contexts are *)
(* cancelled, and which closes the pool when it likes.                     *)
(***************************************************************************)
EXTENDS ConnectionPool

CONSTANT Rounds    \* numRounds

ASSUME RoundsAssumption == Rounds \in Nat /\ IsFiniteSet(Workers)

VARIABLES
    program,    \* "main", or "other"
    main,       \* main: "init", "launch", "collect", "close" or "exited"
    round,      \* rounds launched so far
    task,       \* per worker of main: "request", "result" (to be sent),
                \* "done" (sent, wg.Done to be called), or "gone"
    results,    \* resultsChan: how many results are in it, and whether it is closed
    tally       \* results that main collected in this round

rounds  == <<main, round, task, results, tally>>
pvars == <<vars, program, rounds>>

(* The one type invariant of the module, ConnectionPool's included. *)
RoundsTypeOK ==
    /\ TypeOK
    /\ program \in {"main", "other"}
    /\ main \in {"init", "launch", "collect", "close", "exited"} /\ round \in 0..Rounds
    /\ task \in [Workers -> {"request", "result", "done", "gone"}]
    /\ results \in [count : 0..Cardinality(Workers), closed : BOOLEAN]
    /\ tally \in 0..Cardinality(Workers)

RoundsInit ==
    /\ Init
    /\ program \in {"main", "other"}
    /\ main = "init" /\ round = 0
    /\ task = [w \in Workers |-> "gone"]
    /\ results = [count |-> 0, closed |-> FALSE] /\ tally = 0

Main(from, to) == Running /\ program = "main" /\ main = from /\ main' = to

--------------------------------------------------------------------------------
(* A round. *)

MainInitializes ==
    /\ Main("init", "launch")
    /\ Initialize
    /\ UNCHANGED <<program, round, task, results, tally>>

Launch ==
    /\ Main("launch", "collect")
    /\ round < Rounds /\ round' = round + 1
    /\ task' = [w \in Workers |-> "request"]
    /\ results' = [count |-> 0, closed |-> FALSE] /\ tally' = 0
    /\ UNCHANGED <<vars, program>>

\* Mutation: the result is sent before the deferred Return.
Request_ReportsFirst(w) ==
    /\ task[w] = "request" \/ (program = "main" /\ pc[w] \in {"return", "push"})
    /\ Borrow(w) \/ WorkerStep(w)
    /\ task' = [task EXCEPT ![w] = IF @ = "request" /\ pc'[w] \in {"return", "idle"} THEN "result" ELSE @]
    /\ UNCHANGED <<program, main, round, results, tally>>

(* processAudioRequest returns with its connection given back.  The context *)
(* of main is never cancelled.                                              *)
Request(w) ==
    /\ task[w] = "request"
    /\ Borrow(w) \/ WorkerStep(w)
    /\ task' = [task EXCEPT ![w] = IF pc'[w] = "idle" THEN "result" ELSE @]
    /\ UNCHANGED <<program, main, round, results, tally>>

(* The channel has room for every result of a round. *)
SendResult(w) ==
    /\ Running /\ task[w] = "result"
    /\ results' = [results EXCEPT !.count = @ + 1]
    /\ task' = [task EXCEPT ![w] = "done"]
    /\ UNCHANGED <<vars, program, main, round, tally>>

WaitGroupDone(w) ==
    /\ Running /\ task[w] = "done"
    /\ task' = [task EXCEPT ![w] = "gone"]
    /\ UNCHANGED <<vars, program, main, round, results, tally>>

CloseResults ==
    /\ Running /\ main = "collect" /\ ~results.closed
    /\ \A w \in Workers : task[w] = "gone"
    /\ results' = [results EXCEPT !.closed = TRUE]
    /\ UNCHANGED <<vars, program, main, round, task, tally>>

Collect ==
    /\ Main("collect", "collect")
    /\ results.count > 0
    /\ results' = [results EXCEPT !.count = @ - 1] /\ tally' = tally + 1
    /\ UNCHANGED <<vars, program, round, task>>

RoundEnds ==
    /\ Main("collect", IF round < Rounds THEN "launch" ELSE "close")
    /\ results.count = 0 /\ results.closed
    /\ UNCHANGED <<vars, program, round, task, results, tally>>

MainCloses ==
    /\ Main("close", "close")
    /\ StartClose \/ Close
    /\ UNCHANGED <<program, round, task, results, tally>>

MainExits ==
    /\ Main("close", "exited")
    /\ pool = "closed"
    /\ UNCHANGED <<vars, program, round, task, results, tally>>

--------------------------------------------------------------------------------
MainNext ==
    \/ MainInitializes \/ Launch \/ CloseResults \/ Collect \/ RoundEnds
    \/ MainCloses \/ MainExits
    \/ \E w \in Workers : Request(w) \/ SendResult(w) \/ WaitGroupDone(w)

\* Bound: such a program cancels requests, or closes the pool under one, not both.
OtherNext ==
    /\ program = "other" /\ UserNext
    /\ rushed' => cancelled' = {}
    /\ UNCHANGED <<program, rounds>>

(* The connections, until main has exited. *)
ConnectionNext ==
    /\ main # "exited"
    /\ \E c \in Connections : ConnectionStep(c)
    /\ UNCHANGED <<program, rounds>>

(* Main may hang on a request whose connection broke, if the read loop then  *)
(* could not write its close message: nothing wakes it.  In every other     *)
(* state some goroutine has a step.                                         *)
Rest ==
    /\ \/ program = "other" \/ main = "exited" \/ ~Running
       \/ \E w \in Workers : pc[w] = "wait" /\ reader[conn[w]] = "silent"
    /\ UNCHANGED pvars

RoundsNext == MainNext \/ OtherNext \/ ConnectionNext \/ Rest

RoundsSpec == RoundsInit /\ [][RoundsNext]_pvars

--------------------------------------------------------------------------------
(* Main never has a worker send to the closed channel of the pool, or use   *)
(* the nil connection that it yields: a round ends only after each of its   *)
(* requests gave its connection back and was counted.  The same holds of    *)
(* any program that closes the pool after its last request.                 *)
ChannelSafe ==
    /\ (program = "main" \/ ~rushed) => panicked \notin {"send on closed", "nil connection"}
    /\ program = "main" /\ main \in {"launch", "close"} /\ round > 0 => tally = Cardinality(Workers)
================================================================================
