----------------------------- MODULE Lifecycle -----------------------------
(***************************************************************************)
(* The life of one process of apps/api: its connections, the count of      *)
(* requests in flight (inflight.ts), the timer of the sweeper and          *)
(* closeGracefully (index.ts), which runs once for every SIGTERM or SIGINT.*)
(*                                                                         *)
(* What Node.js and pg do is taken from how index.ts uses them:            *)
(* server.close() closes idle connections and calls back when no           *)
(* connection is left, the second time it is called too; pool.end() waits  *)
(* for the clients that are checked out; a second pool.end() rejects, and  *)
(* the unhandled rejection ends the process.                               *)
(* DrainTicks ticks are the 10 seconds of DRAIN_TIMEOUT_MS.                *)
(***************************************************************************)
EXTENDS Integers, Slots

CONSTANTS
  MaxSignals, \* signals a process is sent
  DrainTicks

ASSUME LifecycleAssumption == MaxSignals \in Nat /\ DrainTicks \in Nat

VARIABLES
  process,  \* is it up, and what of it still works
  closing,  \* where each run of closeGracefully is
  conn,     \* the connections, each with a request at a time
  inflight, \* the counter
  sweep,    \* is a sweep running, with a client of the pool
  cut       \* what the exits after signals have ended under way

lifeVars == <<process, closing, conn, inflight, sweep, cut>>

Fresh == [up |-> TRUE, listening |-> TRUE, timer |-> TRUE, pool |-> TRUE]
Down == [up |-> FALSE, listening |-> FALSE, timer |-> FALSE, pool |-> FALSE]
Signals == 1..MaxSignals
NotClosing == [s \in Signals |-> [pc |-> "none", left |-> DrainTicks]]
NoConn == [r \in Requests |-> "none"]

\* a connection: none, idle, with a request, with a response that is written but not
\* yet over, or gone while its handler goes on
ConnStates == {"none", "idle", "busy", "written", "gone"}
Busy == {r \in Requests : conn[r] = "busy"}
Open == {r \in Requests : conn[r] \in {"idle", "busy", "written"}}
InHandler(r) == conn[r] \in {"busy", "gone"}

LifeInit ==
  /\ process = Fresh
  /\ closing = NotClosing
  /\ conn = NoConn
  /\ inflight = 0
  /\ sweep = FALSE
  /\ cut = {}

-----------------------------------------------------------------------------
(* Requests.                                                               *)

\* inflightMiddleware; a connection that was busy may bring another request
Arrive(r) ==
  /\ process.up
  /\ conn[r] = "idle" \/ (conn[r] = "none" /\ process.listening)
  /\ conn' = [conn EXCEPT ![r] = "busy"]
  /\ inflight' = inflight + 1
  /\ UNCHANGED <<process, closing, sweep, cut>>

\* done
Decremented == IF inflight > 0 THEN inflight - 1 ELSE 0

\* "finish" of the response, when a handler is done; it tells nobody once the client is gone
Finish(r) ==
  /\ InHandler(r)
  /\ conn' = [conn EXCEPT ![r] = IF @ = "busy" THEN "written" ELSE "none"]
  /\ inflight' = IF conn[r] = "busy" THEN Decremented ELSE inflight
  /\ UNCHANGED <<process, closing, sweep, cut>>

\* A plausible bug: the other listener is not taken off.
CloseCountingTwice(r) ==
  /\ conn[r] = "written"
  /\ conn' = [conn EXCEPT ![r] = "idle"]
  /\ inflight' = Decremented
  /\ UNCHANGED <<process, closing, sweep, cut>>

\* "close" of a response that has finished: done has taken itself off
Close(r) ==
  /\ conn[r] = "written"
  /\ conn' = [conn EXCEPT ![r] = "idle"]
  /\ UNCHANGED <<process, closing, inflight, sweep, cut>>

\* the client goes: "close" without "finish", and the handler is not told
Disconnect(r) ==
  /\ conn[r] \in {"idle", "busy"}
  /\ conn' = [conn EXCEPT ![r] = IF @ = "busy" THEN "gone" ELSE "none"]
  /\ inflight' = IF conn[r] = "busy" THEN Decremented ELSE inflight
  /\ UNCHANGED <<process, closing, sweep, cut>>

\* setInterval of the sweep, which keeps a client for its advisory lock
SweepStarts ==
  /\ process.timer /\ ~ sweep
  /\ sweep' = TRUE
  /\ UNCHANGED <<process, closing, conn, inflight, cut>>

SweepEnds ==
  /\ sweep
  /\ sweep' = FALSE
  /\ UNCHANGED <<process, closing, conn, inflight, cut>>

-----------------------------------------------------------------------------
(* closeGracefully.                                                        *)
ClosingAt(s, pc) == closing[s].pc = pc
ClosingGoes(s, pc) == closing' = [closing EXCEPT ![s].pc = pc]
Alone == Cardinality({s \in Signals : ~ ClosingAt(s, "none")}) = 1

Exit ==
  /\ process' = Down
  /\ closing' = NotClosing
  /\ conn' = NoConn
  /\ inflight' = 0
  /\ sweep' = FALSE

\* a second signal may end a sweep: it does not wait for the clients of the pool
Ended ==
  (IF Busy # {} THEN {"request"} ELSE {}) \cup (IF sweep /\ Alone THEN {"sweep"} ELSE {})

\* A plausible bug: a server that is closed already is not waited for.
SignalOfListening(s) ==
  /\ process.up
  /\ ClosingAt(s, "none") /\ \A t \in 1..(s - 1) : ~ ClosingAt(t, "none")
  /\ process' = [process EXCEPT !.timer = FALSE, !.listening = FALSE]
  /\ conn' = [r \in Requests |-> IF conn[r] = "idle" THEN "none" ELSE conn[r]]
  /\ ClosingGoes(s, IF process.listening THEN "close" ELSE "drain")
  /\ UNCHANGED <<inflight, sweep, cut>>

\* the signal: the timer is cleared, and the server closed
Signal(s) ==
  /\ process.up
  /\ ClosingAt(s, "none") /\ \A t \in 1..(s - 1) : ~ ClosingAt(t, "none")
  /\ process' = [process EXCEPT !.timer = FALSE, !.listening = FALSE]
  /\ conn' = [r \in Requests |-> IF conn[r] = "idle" THEN "none" ELSE conn[r]]
  /\ ClosingGoes(s, "close")
  /\ UNCHANGED <<inflight, sweep, cut>>

\* the callback of server.close
Closed(s) ==
  /\ ClosingAt(s, "close") /\ Open = {}
  /\ ClosingGoes(s, "drain")
  /\ UNCHANGED <<process, conn, inflight, sweep, cut>>

\* the loop while requests are in flight, and closeAllConnections after it
Drained(s) ==
  /\ ClosingAt(s, "drain")
  /\ inflight = 0 \/ closing[s].left = 0
  /\ conn' = IF inflight = 0 THEN conn
             ELSE [r \in Requests |-> IF InHandler(r) THEN "gone" ELSE "none"]
  /\ inflight' = 0
  /\ cut' = IF inflight > 0 THEN cut \cup {"request"} ELSE cut
  /\ ClosingGoes(s, "end")
  /\ UNCHANGED <<process, sweep>>

\* redis.quit() and the call of pool.end()
CallPoolEnd(s) ==
  /\ ClosingAt(s, "end") /\ process.pool
  /\ process' = [process EXCEPT !.pool = FALSE]
  /\ ClosingGoes(s, "pool")
  /\ UNCHANGED <<conn, inflight, sweep, cut>>

\* a second one rejects
PoolEndRejects(s) ==
  /\ ClosingAt(s, "end") /\ ~ process.pool
  /\ Exit
  /\ cut' = cut \cup Ended

\* pool.end() resolves when no client is checked out, and process.exit
PoolEnds(s) ==
  /\ ClosingAt(s, "pool") /\ ~ sweep
  /\ Exit
  /\ cut' = cut \cup Ended

Closes(s) == Signal(s) \/ Closed(s) \/ Drained(s) \/ CallPoolEnd(s)
Exits == \E s \in Signals : PoolEndRejects(s) \/ PoolEnds(s)

\* the process is killed
Killed == process.up /\ Exit /\ UNCHANGED cut

Starts ==
  /\ ~ process.up
  /\ process' = Fresh
  /\ UNCHANGED <<closing, conn, inflight, sweep, cut>>

\* the time of the drain passes
LifeTick ==
  /\ closing' = [s \in Signals |->
       IF ClosingAt(s, "drain") /\ closing[s].left > 0
       THEN [closing[s] EXCEPT !.left = @ - 1] ELSE closing[s]]
  /\ UNCHANGED <<process, conn, inflight, sweep, cut>>

-----------------------------------------------------------------------------
LifeTypeOK ==
  /\ process \in [up : BOOLEAN, listening : BOOLEAN, timer : BOOLEAN, pool : BOOLEAN]
  /\ \A s \in Signals : /\ closing[s].pc \in {"none", "close", "drain", "end", "pool"}
                        /\ closing[s].left \in 0..DrainTicks
  /\ conn \in [Requests -> ConnStates]
  /\ sweep \in BOOLEAN /\ cut \subseteq {"request", "sweep"}

(* The counter is the number of requests whose client is waiting, whatever *)
(* ends them: "finish", "close", both, or closeAllConnections.             *)
InflightIsTrue == inflight = Cardinality(Busy)

(* OPERATIONS.md, graceful shutdown: closeGracefully (index.ts), however   *)
(* many signals run it at a time, ends no request whose client is waiting, *)
(* and run by one signal no sweep that holds the advisory lock either.     *)
NothingIsCut == cut = {}
=============================================================================
