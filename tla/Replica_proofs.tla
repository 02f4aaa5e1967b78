--------------------------- MODULE Replica_proofs ---------------------------
(***************************************************************************)
(* Proofs about a process of apps/api, by the parts it is made of.  Each   *)
(* part has an invariant of its own; what ties them is Coupled: the        *)
(* limiter and the client know only requests that have a handler.          *)
(***************************************************************************)
EXTENDS Replica, FiniteSetTheorems, TLAPS

-----------------------------------------------------------------------------
(* The life of the process.  A signal finds the process listening exactly  *)
(* when it is the first, and every one waits for the connections: once one *)
(* has, none is open from then on, and none is accepted.  Who finds the    *)
(* pool ended is not alone.                                                *)
Closing == {s \in Signals : ~ ClosingAt(s, "none")}

Process == [up : BOOLEAN, listening : BOOLEAN, timer : BOOLEAN, pool : BOOLEAN]
Run == [pc : {"none", "close", "drain", "end", "pool"}, left : 0..DrainTicks]

LifeTyped ==
  /\ process \in Process
  /\ closing \in [Signals -> Run]
  /\ conn \in [Requests -> ConnStates]
  /\ sweep \in BOOLEAN

Deaf ==
  /\ process.up => (process.listening <=> Closing = {})
  /\ ~ process.up => Closing = {}
  /\ \A s \in Closing : ~ ClosingAt(s, "close") => Open = {}
  /\ process.up /\ ~ process.pool => \E s \in Signals : ClosingAt(s, "pool")

LifeSound == LifeTyped /\ InflightIsTrue /\ NothingIsCut /\ Deaf

-----------------------------------------------------------------------------
(* The limiter.  The request that has counted the first hit of a counter   *)
(* is the only one to owe it an expiry, and until it has paid nothing can  *)
(* take the counter away.                                                  *)
Counter == [count : Nat, left : {NoExpiry} \cup 1..RateWindow]
Hit == [pc : Commands \cup {"none", "admitted", "refused", "failed"},
        key : Keys, user : Keys, over : BOOLEAN]

LimitTyped ==
  /\ counters \in [Keys -> Counter]
  /\ hits \in [Requests -> Hit]
  /\ lost \subseteq Keys
  /\ \A k \in Keys : /\ counters[k].count <= limit(k) + 1
                     /\ counters[k].count = 0 => counters[k].left = NoExpiry

OwedOnce ==
  \A r \in Requests : OwesExpiry(r) =>
    /\ counters[hits[r].key].count > 0 /\ counters[hits[r].key].left = NoExpiry
    /\ \A q \in Requests : OwesExpiry(q) /\ hits[q].key = hits[r].key => q = r

LimitSound == LimitTyped /\ OwedOnce /\ CountersRunOut

-----------------------------------------------------------------------------
(* A call.  Headers of a success have arrived only while its body is read, *)
(* and an address is the checked one, or the refused one.                  *)
CallRecord ==
  [pc : {"none", "pin", "send", "body", "done"}, attempt : 0..MaxRetries,
   hops : 0..MaxHops, address : Addresses \cup {NoAddress},
   status : Statuses \cup {"none"}, begun : BOOLEAN, outcome : Outcomes \cup {"none"}]

Checked(c) ==
  /\ c.begun => c.pc = "body" /\ c.status = "ok"
  /\ c.pc = "send" => c.address \in Addresses /\ ~ isBlockedAddress(c.address)
  /\ c.outcome = "ssrf" =>
       c.pc = "done" /\ c.address \in Addresses /\ isBlockedAddress(c.address)

CallSound == calls \in [Requests -> CallRecord] /\ \A r \in Requests : Checked(calls[r])

Coupled == \A r \in Requests : InHandler(r) <=> hits[r].pc # "none"

Sound == LifeSound /\ LimitSound /\ CallSound /\ Coupled

USE DEF Process, Run, Counter, Hit

-----------------------------------------------------------------------------
(* A signal is alone when it is the only one that is being handled.        *)
LEMMA AloneIsOne == Alone <=> \E s \in Signals : Closing = {s}
<1> USE DEF Alone, Closing
<1>1. IsFiniteSet(Signals)
  BY FS_Interval, LifecycleAssumption DEF Signals
<1>2. Closing \subseteq Signals /\ IsFiniteSet(Closing)
  BY <1>1, FS_Subset
<1>3. Cardinality(Closing) = 1 <=> \E s : Closing = {s}
  BY <1>2, FS_Singleton
<1> QED
  BY <1>2, <1>3

LEMMA BusyFinite == IsFiniteSet(Busy) /\ Cardinality(Busy) \in Nat
<1>1. IsFiniteSet(Busy)
  BY FS_Subset, RequestsAssumption DEF Busy
<1> QED
  BY <1>1, FS_CardinalityType

LEMMA NobodyBusy == Busy = {} <=> Cardinality(Busy) = 0
BY BusyFinite, FS_EmptySet

LEMMA NothingTyped ==
  /\ NotClosing \in [Signals -> Run]
  /\ NoConn \in [Requests -> ConnStates]
<1>1. [pc |-> "none", left |-> DrainTicks]
        \in Run
  BY LifecycleAssumption
<1>2. NoConn \in [Requests -> ConnStates]
  BY DEF NoConn, ConnStates
<1> QED
  BY <1>1, <1>2 DEF NotClosing

LEMMA InitLife == LifeInit => LifeSound
<1> SUFFICES ASSUME LifeInit PROVE LifeSound
  OBVIOUS
<1>1. LifeTyped
  BY NothingTyped DEF LifeInit, LifeTyped, Fresh
<1>2. Busy = {} /\ Open = {} /\ Closing = {}
  BY DEF LifeInit, NoConn, NotClosing, Busy, Open, Closing, ClosingAt
<1>3. InflightIsTrue /\ NothingIsCut
  BY <1>2, NobodyBusy DEF LifeInit, InflightIsTrue, NothingIsCut
<1>4. Deaf
  BY <1>2 DEF LifeInit, Fresh, Deaf
<1> QED
  BY <1>1, <1>3, <1>4 DEF LifeSound

(* What a step that changes one connection has to show.                    *)
LEMMA ConnectionStep ==
  ASSUME LifeSound, NEW r \in Requests, NEW c \in ConnStates,
         conn' = [conn EXCEPT ![r] = c], UNCHANGED <<process, closing, cut>>, sweep' = sweep,
         c \in {"idle", "busy", "written"} => conn[r] \in {"idle", "busy", "written"} \/ process.listening,
         inflight' = IF c = "busy" THEN (IF conn[r] = "busy" THEN inflight ELSE inflight + 1)
                     ELSE IF conn[r] = "busy" THEN Decremented ELSE inflight
  PROVE  LifeSound'
<1>1. LifeTyped'
  BY DEF LifeSound, LifeTyped
<1>2. Busy' = IF c = "busy" THEN Busy \cup {r} ELSE Busy \ {r}
  BY DEF LifeSound, LifeTyped, Busy
<1>3. InflightIsTrue'
  <2>1. /\ Cardinality(Busy \cup {r}) = IF r \in Busy THEN Cardinality(Busy) ELSE Cardinality(Busy) + 1
        /\ Cardinality(Busy \ {r}) = IF r \in Busy THEN Cardinality(Busy) - 1 ELSE Cardinality(Busy)
    BY BusyFinite, FS_AddElement, FS_RemoveElement
  <2>2. r \in Busy <=> conn[r] = "busy"
    BY DEF Busy
  <2>3. r \in Busy => Cardinality(Busy) > 0
    BY NobodyBusy, BusyFinite
  <2>4. inflight = Cardinality(Busy) /\ Cardinality(Busy) \in Nat
    BY BusyFinite DEF LifeSound, InflightIsTrue
  <2> QED
    BY <1>2, <2>1, <2>2, <2>3, <2>4 DEF InflightIsTrue, Decremented
<1>4. NothingIsCut'
  BY DEF LifeSound, NothingIsCut
<1>5. Deaf'
  <2>1. /\ Closing' = Closing
        /\ \A s \in Signals : /\ ClosingAt(s, "close")' = ClosingAt(s, "close")
                              /\ ClosingAt(s, "pool")' = ClosingAt(s, "pool")
    BY DEF Closing, ClosingAt
  <2>2. ASSUME NEW s \in Closing, ~ ClosingAt(s, "close") PROVE Open' = {}
    <3>1. Open = {} /\ ~ process.listening
      <4>1. Closing # {}
        BY <2>2
      <4> QED
        BY <2>2, <4>1 DEF LifeSound, LifeTyped, Deaf
    <3>2. conn[r] \notin {"idle", "busy", "written"}
      BY <3>1 DEF Open
    <3>3. c \notin {"idle", "busy", "written"}
      BY <3>1, <3>2
    <3> QED
      BY <3>1, <3>3 DEF LifeSound, LifeTyped, Open
  <2> QED
    BY <2>1, <2>2 DEF LifeSound, Deaf, Closing
<1> QED
  BY <1>1, <1>3, <1>4, <1>5 DEF LifeSound

LEMMA ExitLife == ASSUME LifeSound, Exit, cut' = cut PROVE LifeSound'
<1>1. LifeTyped'
  BY NothingTyped DEF LifeTyped, Exit, Down
<1>2. Busy' = {} /\ Open' = {} /\ Closing' = {}
  BY DEF Exit, NoConn, NotClosing, Busy, Open, Closing, ClosingAt
<1>3. InflightIsTrue' /\ NothingIsCut'
  <2>1. Cardinality(Busy') = 0
    BY <1>2, FS_EmptySet
  <2> QED
    BY <2>1 DEF LifeSound, Exit, InflightIsTrue, NothingIsCut
<1>4. Deaf'
  BY <1>2 DEF Exit, Down, Deaf
<1> QED
  BY <1>1, <1>3, <1>4 DEF LifeSound

LEMMA SignalLife == ASSUME LifeSound, NEW s \in Signals, Signal(s) PROVE LifeSound'
<1>1. /\ process.up /\ ClosingAt(s, "none")
      /\ process' = [process EXCEPT !.timer = FALSE, !.listening = FALSE]
      /\ conn' = [r \in Requests |-> IF conn[r] = "idle" THEN "none" ELSE conn[r]]
      /\ closing' = [closing EXCEPT ![s].pc = "close"]
      /\ UNCHANGED <<inflight, sweep, cut>>
  BY DEF Signal, ClosingGoes
<1>2. LifeTyped'
  <2>1. process' \in Process
    BY <1>1 DEF LifeSound, LifeTyped
  <2>2. closing' \in [Signals -> Run]
    BY <1>1 DEF LifeSound, LifeTyped
  <2>3. conn' \in [Requests -> ConnStates]
    BY <1>1 DEF LifeSound, LifeTyped, ConnStates
  <2> QED
    BY <1>1, <2>1, <2>2, <2>3 DEF LifeSound, LifeTyped
<1>3. Busy' = Busy /\ Closing' = Closing \cup {s} /\ s \notin Closing
  BY <1>1 DEF LifeSound, LifeTyped, Busy, Closing, ClosingAt
<1>4. Deaf'
  <2>1. /\ process'.up /\ ~ process'.listening /\ process'.pool = process.pool
        /\ Closing' # {} /\ Open' \subseteq Open
    BY <1>1, <1>3 DEF LifeSound, LifeTyped, Open
  <2>2. /\ ClosingAt(s, "close")'
        /\ \A t \in Signals : t # s => closing'[t] = closing[t]
    BY <1>1 DEF LifeSound, LifeTyped, ClosingAt
  <2>3. ASSUME NEW t \in Closing', ~ ClosingAt(t, "close")' PROVE Open' = {}
    <3>1. t \in Closing /\ ~ ClosingAt(t, "close")
      BY <1>3, <2>2, <2>3 DEF Closing, ClosingAt
    <3> QED
      BY <2>1, <3>1 DEF LifeSound, Deaf
  <2>4. ~ process.pool => \E t \in Signals : ClosingAt(t, "pool")'
    <3> SUFFICES ASSUME ~ process.pool PROVE \E t \in Signals : ClosingAt(t, "pool")'
      OBVIOUS
    <3>1. PICK t \in Signals : ClosingAt(t, "pool")
      BY <1>1 DEF LifeSound, Deaf
    <3>2. t # s
      BY <1>1, <3>1 DEF ClosingAt
    <3> QED
      BY <2>2, <3>1, <3>2 DEF ClosingAt
  <2> QED
    BY <2>1, <2>3, <2>4 DEF Deaf
<1> QED
  BY <1>1, <1>2, <1>3, <1>4 DEF LifeSound, InflightIsTrue, NothingIsCut

(* A run of closeGracefully that goes on.                                  *)
LEMMA ClosingLife ==
  ASSUME LifeSound, NEW s \in Signals, Closed(s) \/ Drained(s) \/ CallPoolEnd(s) PROVE LifeSound'
<1>1. \E pc \in {"drain", "end", "pool"} : closing' = [closing EXCEPT ![s].pc = pc]
  BY DEF Closed, Drained, CallPoolEnd, ClosingGoes
<1>2. /\ s \in Closing /\ Closing' = Closing
      /\ \A t \in Signals : t # s => closing'[t] = closing[t]
  BY <1>1 DEF LifeSound, LifeTyped, Closing, ClosingAt, Closed, Drained, CallPoolEnd
<1>3. process'.up = process.up /\ process'.listening = process.listening /\ sweep' = sweep
  BY DEF Closed, Drained, CallPoolEnd, LifeSound, LifeTyped
<1>4. LifeTyped'
  <2>1. closing' \in [Signals -> Run]
    BY <1>1 DEF LifeSound, LifeTyped
  <2>2. process' \in Process
    BY DEF LifeSound, LifeTyped, Closed, Drained, CallPoolEnd
  <2>3. conn' \in [Requests -> ConnStates]
    BY DEF LifeSound, LifeTyped, Closed, Drained, CallPoolEnd, ConnStates
  <2> QED
    BY <1>3, <2>1, <2>2, <2>3 DEF LifeTyped, LifeSound
<1>5. InflightIsTrue' /\ NothingIsCut' /\ Open' \subseteq Open
  <2>1. CASE UNCHANGED <<conn, inflight, cut>>
    BY <2>1 DEF LifeSound, InflightIsTrue, NothingIsCut, Busy, Open
  <2>2. CASE Drained(s)
    <3>1. inflight = Cardinality(Busy) /\ inflight \in Nat
      BY BusyFinite DEF LifeSound, InflightIsTrue
    <3>2. inflight = 0
      <4>1. Open = {}
        BY <1>2, <2>2 DEF LifeSound, Deaf, Drained, ClosingAt
      <4>2. Busy = {}
        BY <4>1 DEF Open, Busy
      <4> QED
        BY <3>1, <4>2, NobodyBusy
    <3>3. NothingIsCut'
      BY <2>2, <3>1, <3>2 DEF LifeSound, Drained, NothingIsCut
    <3>4. Busy' = {} /\ Open' \subseteq Open
      BY <2>2, <3>1, <3>2, NobodyBusy DEF Drained, Busy, Open
    <3>5. Cardinality(Busy') = 0
      BY <3>4, FS_EmptySet
    <3>6. inflight' = 0
      BY <2>2 DEF Drained
    <3> QED
      BY <3>3, <3>4, <3>5, <3>6 DEF InflightIsTrue
  <2> QED
    BY <2>1, <2>2 DEF Closed, CallPoolEnd
<1>6. Deaf'
  <2>1. Open = {}
    <3>1. CASE Closed(s)
      BY <3>1 DEF Closed
    <3>2. CASE ~ Closed(s)
      BY <1>2, <3>2 DEF LifeSound, Deaf, Drained, CallPoolEnd, ClosingAt
    <3> QED
      BY <3>1, <3>2
  <2>2. Open' = {}
    BY <1>5, <2>1
  <2>3. process'.up /\ ~ process'.pool => \E t \in Signals : ClosingAt(t, "pool")'
    <3>1. CASE CallPoolEnd(s)
      BY <3>1 DEF CallPoolEnd, ClosingGoes, ClosingAt, LifeSound, LifeTyped
    <3>2. CASE ~ CallPoolEnd(s)
      <4>1. process' = process /\ ~ ClosingAt(s, "pool")
        BY <3>2 DEF Closed, Drained, ClosingAt
      <4>2. \A t \in Signals : ClosingAt(t, "pool") => ClosingAt(t, "pool")'
        BY <1>2, <4>1 DEF ClosingAt
      <4> QED
        BY <4>1, <4>2 DEF LifeSound, Deaf
    <3> QED
      BY <3>1, <3>2
  <2> QED
    BY <1>2, <1>3, <2>2, <2>3 DEF LifeSound, Deaf
<1> QED
  BY <1>4, <1>5, <1>6 DEF LifeSound

(* The exit of a process leaves no request under way, and alone no sweep.  *)
LEMMA ExitsLife == ASSUME LifeSound, Exits PROVE LifeSound' /\ cut' = cut
<1>1. PICK s \in Signals : PoolEndRejects(s) \/ PoolEnds(s)
  BY DEF Exits
<1>2. Exit /\ cut' = cut \cup Ended
  BY <1>1 DEF PoolEndRejects, PoolEnds
<1>3. s \in Closing /\ ~ ClosingAt(s, "close")
  BY <1>1 DEF PoolEndRejects, PoolEnds, Closing, ClosingAt
<1>4. Busy = {}
  BY <1>3 DEF LifeSound, Deaf, Open, Busy
<1>5. ~ (sweep /\ Alone)
  <2>1. CASE PoolEnds(s)
    BY <2>1 DEF PoolEnds
  <2>2. CASE PoolEndRejects(s)
    <3>1. process.up
      BY <1>3 DEF LifeSound, Deaf
    <3>2. PICK t \in Signals : ClosingAt(t, "pool")
      BY <2>2, <3>1 DEF PoolEndRejects, LifeSound, Deaf
    <3>3. t \in Closing /\ t # s
      BY <2>2, <3>2 DEF PoolEndRejects, Closing, ClosingAt
    <3> QED
      BY <1>3, <3>3, AloneIsOne
  <2> QED
    BY <1>1, <2>1, <2>2
<1>6. cut' = cut
  BY <1>2, <1>4, <1>5 DEF Ended
<1> QED
  BY <1>2, <1>6, ExitLife

LEMMA TickLife == ASSUME LifeSound, LifeTick PROVE LifeSound'
<1>1. /\ closing' = [s \in Signals |->
           IF ClosingAt(s, "drain") /\ closing[s].left > 0
           THEN [closing[s] EXCEPT !.left = @ - 1] ELSE closing[s]]
      /\ UNCHANGED <<process, conn, inflight, sweep, cut>>
  BY DEF LifeTick
<1>2. ASSUME NEW s \in Signals
      PROVE  /\ closing'[s] \in Run
             /\ closing'[s].pc = closing[s].pc
  <2>1. closing[s] \in Run
    BY DEF LifeSound, LifeTyped
  <2>2. CASE ClosingAt(s, "drain") /\ closing[s].left > 0
    <3>1. closing'[s] = [closing[s] EXCEPT !.left = @ - 1]
      BY <1>1, <2>2
    <3>2. closing[s].left - 1 \in 0..DrainTicks
      BY LifecycleAssumption, <2>1, <2>2
    <3> QED
      BY <2>1, <3>1, <3>2
  <2>3. CASE ~ (ClosingAt(s, "drain") /\ closing[s].left > 0)
    BY <1>1, <2>1, <2>3
  <2> QED
    BY <2>2, <2>3
<1>3. LifeTyped'
  <2>1. closing' \in [Signals -> Run]
    BY <1>1, <1>2
  <2> QED
    BY <1>1, <2>1 DEF LifeSound, LifeTyped
<1> QED
  BY <1>1, <1>2, <1>3 DEF LifeSound, InflightIsTrue, NothingIsCut, Deaf, Busy, Open, Closing, ClosingAt

(* Starts, and the sweeper's timer, touch neither connections nor signals. *)
LEMMA StartsLife == ASSUME LifeSound, Starts \/ SweepStarts \/ SweepEnds PROVE LifeSound'
<1>1. UNCHANGED <<closing, conn, inflight, cut>>
  BY DEF Starts, SweepStarts, SweepEnds
<1>2. \/ process' = process /\ sweep' \in BOOLEAN
      \/ process' = Fresh /\ ~ process.up /\ sweep' = sweep
  BY DEF Starts, SweepStarts, SweepEnds
<1>3. LifeTyped'
  <2>1. process' \in Process
    <3>1. Fresh \in Process
      BY DEF Fresh
    <3>2. process \in Process
      BY DEF LifeSound, LifeTyped
    <3> QED
      BY <1>2, <3>1, <3>2
  <2>2. sweep' \in BOOLEAN
    BY <1>2 DEF LifeSound, LifeTyped
  <2> QED
    BY <1>1, <2>1, <2>2 DEF LifeSound, LifeTyped
<1>4. Busy' = Busy /\ Open' = Open /\ Closing' = Closing
  BY <1>1 DEF Busy, Open, Closing, ClosingAt
<1>5. Deaf'
  BY <1>1, <1>2, <1>4 DEF LifeSound, Deaf, Fresh, ClosingAt
<1> QED
  BY <1>1, <1>3, <1>4, <1>5 DEF LifeSound, InflightIsTrue, NothingIsCut

LEMMA RequestLife ==
  ASSUME LifeSound, NEW r \in Requests, Arrive(r) \/ Finish(r) \/ Close(r) \/ Disconnect(r)
  PROVE  LifeSound'
<1>1. CASE Arrive(r)
  <2>1. conn[r] \in {"idle", "none"}
    BY <1>1 DEF Arrive
  <2> QED
    BY <1>1, <2>1, ConnectionStep DEF Arrive, ConnStates
<1>2. CASE Finish(r)
  BY <1>2, ConnectionStep DEF Finish, InHandler, ConnStates
<1>3. CASE Close(r)
  BY <1>3, ConnectionStep DEF Close, ConnStates
<1>4. CASE Disconnect(r)
  BY <1>4, ConnectionStep DEF Disconnect, ConnStates
<1> QED
  BY <1>1, <1>2, <1>3, <1>4

-----------------------------------------------------------------------------
(* The limiter.                                                            *)
LEMMA InitLimit == LimitInit => LimitSound
<1> SUFFICES ASSUME LimitInit PROVE LimitSound
  OBVIOUS
<1>1. /\ \A k \in Keys : counters[k] = NoCounter /\ limit(k) \in Nat
      /\ \A r \in Requests : hits[r] = NoHit
  BY LimitsAssumption DEF LimitInit, limit
<1>2. NoHit \in Hit
  BY DEF NoHit, Keys
<1>3. NoCounter \in Counter
  BY DEF NoCounter
<1>4. LimitTyped
  BY <1>1, <1>2, <1>3 DEF LimitInit, LimitTyped, NoCounter
<1> QED
  BY <1>1, <1>4 DEF LimitSound, OwedOnce, CountersRunOut, OwesExpiry, NoHit, NoCounter

LEMMA LimitFacts ==
  ASSUME LimitSound
  PROVE  /\ \A k \in Keys : /\ counters[k] \in Counter
                            /\ limit(k) \in Nat \ {0}
                            /\ counters[k].count <= limit(k) + 1
                            /\ counters[k].count = 0 => counters[k].left = NoExpiry
         /\ \A r \in Requests :
              /\ hits[r] \in Hit
              /\ hits[r].key \in Keys /\ hits[r].user \in Keys
         /\ RateWindow \in Nat \ {0} /\ NoExpiry = -1
BY LimitsAssumption DEF LimitSound, LimitTyped, limit, NoExpiry

(* A step of one request that leaves the counters alone: a debt it had is  *)
(* noted as lost.                                                          *)
LEMMA HitStep ==
  ASSUME LimitSound, NEW r \in Requests,
         NEW h \in Hit,
         h.pc # "expire", hits' = [hits EXCEPT ![r] = h], counters' = counters,
         lost' = IF OwesExpiry(r) THEN lost \cup {hits[r].key} ELSE lost
  PROVE  LimitSound'
<1>1. LimitTyped'
  BY LimitFacts DEF LimitSound, LimitTyped
<1>2. \A q \in Requests : OwesExpiry(q)' <=> OwesExpiry(q) /\ q # r
  BY DEF LimitSound, LimitTyped, OwesExpiry
<1>3. \A q \in Requests : q # r => hits'[q] = hits[q]
  BY DEF LimitSound, LimitTyped
<1>4. OwedOnce'
  BY <1>2, <1>3 DEF LimitSound, OwedOnce
<1>5. CountersRunOut'
  BY <1>2, <1>3 DEF LimitSound, CountersRunOut
<1> QED
  BY <1>1, <1>4, <1>5 DEF LimitSound

(* An increment: the request that has made the first hit owes the expiry,  *)
(* or its failure is noted.                                                *)
LEMMA IncrStep ==
  ASSUME LimitSound, NEW r \in Requests, hits[r].pc = "incr",
         counters' = Incremented(hits[r].key),
         NEW pc \in Commands \cup {"failed"}, NEW over \in BOOLEAN,
         hits' = [hits EXCEPT ![r].pc = pc, ![r].over = over],
         pc = "expire" => counters[hits[r].key].count = 0,
         lost' = IF pc # "expire" /\ counters[hits[r].key].count = 0
                 THEN lost \cup {hits[r].key} ELSE lost
  PROVE  LimitSound'
<1> DEFINE k == hits[r].key
<1>1. k \in Keys
  BY LimitFacts
<1>2. /\ counters'[k].left = counters[k].left
      /\ counters'[k].count = IF counters[k].count > limit(k) THEN counters[k].count
                              ELSE counters[k].count + 1
      /\ counters'[k] \in Counter
      /\ \A j \in Keys : j # k => counters'[j] = counters[j]
      /\ counters' \in [Keys -> Counter]
  BY <1>1, LimitFacts DEF Incremented, LimitSound, LimitTyped
<1>3. /\ \A q \in Requests : q # r => hits'[q] = hits[q]
      /\ hits'[r].key = k /\ hits'[r].pc = pc
      /\ hits' \in [Requests -> Hit]
  BY LimitFacts DEF LimitSound, LimitTyped
<1> HIDE DEF k
<1>4. counters'[k].count > 0 /\ counters'[k].count <= limit(k) + 1
  BY <1>1, <1>2, LimitFacts
<1>5. LimitTyped'
  <2>1. \A j \in Keys : /\ counters'[j].count <= limit(j) + 1
                        /\ counters'[j].count = 0 => counters'[j].left = NoExpiry
    BY <1>2, <1>4, LimitFacts
  <2>2. lost' \subseteq Keys
    BY <1>1 DEF LimitSound, LimitTyped, k
  <2> QED
    BY <1>2, <1>3, <2>1, <2>2 DEF LimitTyped, limit
<1>6. ASSUME NEW q \in Requests, q # r
      PROVE  OwesExpiry(q)' = OwesExpiry(q) /\ hits'[q].key = hits[q].key
  BY <1>3, <1>6 DEF OwesExpiry
<1>7. OwesExpiry(r)' <=> pc = "expire"
  BY <1>3 DEF OwesExpiry
<1>8. ASSUME NEW q \in Requests, OwesExpiry(q), hits[q].key = k, pc = "expire" PROVE FALSE
  <2>1. counters[k].count > 0 /\ counters[k].count = 0
    BY <1>8 DEF LimitSound, OwedOnce, k
  <2> QED
    BY <2>1
<1>9. ~ OwesExpiry(r)
  BY DEF OwesExpiry
<1>10. OwedOnce'
  <2> SUFFICES ASSUME NEW q \in Requests, OwesExpiry(q)'
               PROVE  /\ counters'[hits'[q].key].count > 0
                      /\ counters'[hits'[q].key].left = NoExpiry
                      /\ \A p \in Requests : OwesExpiry(p)' /\ hits'[p].key = hits'[q].key => p = q
    BY DEF OwedOnce
  <2>1. CASE q = r
    <3>1. counters[k].count = 0
      BY <1>7, <2>1 DEF k
    <3>2. counters'[k].count > 0 /\ counters'[k].left = NoExpiry
      BY <1>1, <1>2, <1>4, <3>1, LimitFacts
    <3>3. ASSUME NEW p \in Requests, OwesExpiry(p)', hits'[p].key = k PROVE p = r
      BY <1>6, <1>7, <1>8, <2>1, <3>3
    <3> QED
      BY <1>3, <2>1, <3>2, <3>3
  <2>2. CASE q # r
    <3>1. /\ OwesExpiry(q) /\ hits'[q].key = hits[q].key
          /\ counters[hits[q].key].count > 0 /\ counters[hits[q].key].left = NoExpiry
          /\ \A p \in Requests : OwesExpiry(p) /\ hits[p].key = hits[q].key => p = q
          /\ hits[q].key \in Keys
      BY <1>6, <2>2, LimitFacts DEF LimitSound, OwedOnce
    <3>2. counters'[hits[q].key].count > 0 /\ counters'[hits[q].key].left = NoExpiry
      BY <1>2, <1>4, <3>1
    <3>3. ASSUME NEW p \in Requests, OwesExpiry(p)', hits'[p].key = hits[q].key PROVE p = q
      <4>1. CASE p = r
        BY <1>3, <1>7, <1>8, <3>1, <3>3, <4>1
      <4>2. CASE p # r
        BY <1>6, <3>1, <3>3, <4>2
      <4> QED
        BY <4>1, <4>2
    <3> QED
      BY <3>1, <3>2, <3>3
  <2> QED
    BY <2>1, <2>2
<1>11. CountersRunOut'
  <2> SUFFICES ASSUME NEW j \in Keys, counters'[j].count > 0, counters'[j].left = NoExpiry
               PROVE  j \in lost' \/ \E q \in Requests : OwesExpiry(q)' /\ hits'[q].key = j
    BY DEF CountersRunOut
  <2>1. lost \subseteq lost'
    OBVIOUS
  <2>2. CASE counters[j].count > 0
    <3>1. j \in lost \/ \E q \in Requests : OwesExpiry(q) /\ hits[q].key = j
      BY <1>2, <2>2 DEF LimitSound, CountersRunOut
    <3> QED
      BY <1>6, <1>9, <2>1, <3>1
  <2>3. CASE ~ (counters[j].count > 0)
    <3>1. j = k /\ counters[k].count = 0
      BY <1>2, <2>3, LimitFacts
    <3> QED
      BY <1>3, <1>7, <3>1 DEF k
  <2> QED
    BY <2>2, <2>3
<1> QED
  BY <1>5, <1>10, <1>11 DEF LimitSound

(* An expiry: the counter has one.                                         *)
LEMMA ExpireStep ==
  ASSUME LimitSound, NEW r \in Requests, OwesExpiry(r),
         counters' = [counters EXCEPT ![hits[r].key].left = RateWindow],
         NEW pc \in {"ttl", "failed"}, hits' = [hits EXCEPT ![r].pc = pc], lost' = lost
  PROVE  LimitSound'
<1> DEFINE k == hits[r].key
<1>1. k \in Keys /\ counters[k].count > 0
  BY LimitFacts DEF LimitSound, OwedOnce
<1>2. /\ counters'[k].left = RateWindow /\ counters'[k].count = counters[k].count
      /\ \A j \in Keys : j # k => counters'[j] = counters[j]
      /\ counters' \in [Keys -> Counter]
  BY <1>1, LimitFacts DEF LimitSound, LimitTyped
<1>3. /\ \A q \in Requests : q # r => hits'[q] = hits[q]
      /\ hits'[r].pc = pc
      /\ hits' \in [Requests -> Hit]
  BY LimitFacts DEF LimitSound, LimitTyped, Commands
<1>4. LimitTyped'
  <2>1. \A j \in Keys : /\ counters'[j].count <= limit(j) + 1
                        /\ counters'[j].count = 0 => counters'[j].left = NoExpiry
    BY <1>1, <1>2, LimitFacts
  <2> QED
    BY <1>2, <1>3, <2>1 DEF LimitSound, LimitTyped, limit
<1>5. \A q \in Requests : OwesExpiry(q)' <=> OwesExpiry(q) /\ q # r
  BY <1>3 DEF OwesExpiry
<1>6. \A q \in Requests : OwesExpiry(q) /\ q # r => hits[q].key \in Keys /\ hits[q].key # k
  BY LimitFacts DEF LimitSound, OwedOnce
<1>7. RateWindow # NoExpiry
  BY LimitFacts
<1> HIDE DEF k
<1>8. OwedOnce'
  BY <1>2, <1>3, <1>5, <1>6 DEF LimitSound, OwedOnce
<1>9. CountersRunOut'
  <2> SUFFICES ASSUME NEW j \in Keys, counters'[j].count > 0, counters'[j].left = NoExpiry
               PROVE  j \in lost \/ \E q \in Requests : OwesExpiry(q)' /\ hits'[q].key = j
    BY DEF CountersRunOut
  <2>1. j # k /\ counters'[j] = counters[j]
    BY <1>2, <1>7
  <2>2. j \in lost \/ \E q \in Requests : OwesExpiry(q) /\ hits[q].key = j
    BY <2>1 DEF LimitSound, CountersRunOut
  <2> QED
    BY <1>3, <1>5, <2>1, <2>2 DEF k
<1> QED
  BY <1>4, <1>8, <1>9 DEF LimitSound

LEMMA LimitSteps == ASSUME LimitSound, NEW r \in Requests, LimitStep(r) PROVE LimitSound'
<1>1. CASE Incr(r)
  <2> DEFINE k == hits[r].key
             pc == IF counters'[k].count = 1 THEN "expire" ELSE "ttl"
             over == counters'[k].count > limit(k)
  <2>1. /\ hits[r].pc = "incr" /\ counters' = Incremented(k) /\ lost' = lost
        /\ hits' = [hits EXCEPT ![r].pc = pc, ![r].over = over]
    BY <1>1 DEF Incr
  <2>2. counters'[k].count = 1 <=> counters[k].count = 0
    <3>1. counters'[k].count = IF counters[k].count > limit(k) THEN counters[k].count
                               ELSE counters[k].count + 1
      BY <2>1, LimitFacts DEF Incremented, LimitSound, LimitTyped
    <3>2. counters[k].count \in Nat /\ limit(k) \in Nat \ {0}
      BY LimitFacts
    <3> QED
      BY <3>1, <3>2
  <2>3. pc \in Commands \cup {"failed"} /\ over \in BOOLEAN
    BY DEF Commands
  <2>4. pc = "expire" <=> counters[k].count = 0
    BY <2>2
  <2> HIDE DEF pc, over
  <2> QED
    BY <2>1, <2>3, <2>4, IncrStep
<1>2. CASE Expire(r)
  BY <1>2, ExpireStep DEF Expire, OwesExpiry
<1>3. CASE Ttl(r)
  <2> DEFINE h == IF hits[r].over THEN [hits[r] EXCEPT !.pc = "refused"]
                  ELSE IF hits[r].key = Org THEN [hits[r] EXCEPT !.pc = "incr", !.key = hits[r].user]
                  ELSE [hits[r] EXCEPT !.pc = "admitted"]
  <2>1. h \in Hit /\ h.pc # "expire"
    BY LimitFacts DEF Commands
  <2>2. hits' = [hits EXCEPT ![r] = h]
    BY <1>3 DEF Ttl
  <2> HIDE DEF h
  <2>3. counters' = counters /\ lost' = lost /\ ~ OwesExpiry(r)
    BY <1>3 DEF Ttl, OwesExpiry
  <2> QED
    BY <2>1, <2>2, <2>3, HitStep
<1>4. CASE LimitFails(r)
  <2> DEFINE k == hits[r].key
             h == [hits[r] EXCEPT !.pc = "failed"]
  <2>1. hits' = [hits EXCEPT ![r].pc = "failed"] /\ hits' = [hits EXCEPT ![r] = h]
    BY <1>4, LimitFacts DEF LimitFails, LimitSound, LimitTyped
  <2>2. h \in Hit /\ h.pc # "expire"
    BY LimitFacts
  <2> HIDE DEF h
  <2>3. CASE counters' = counters /\ lost' = IF OwesExpiry(r) THEN lost \cup {k} ELSE lost
    BY <2>1, <2>2, <2>3, HitStep
  <2>4. CASE hits[r].pc = "expire" /\ counters' = [counters EXCEPT ![k].left = RateWindow] /\ lost' = lost
    BY <2>1, <2>4, ExpireStep DEF OwesExpiry
  <2>5. CASE /\ hits[r].pc = "incr" /\ counters' = Incremented(k)
             /\ lost' = IF counters[k].count = 0 THEN lost \cup {k} ELSE lost
    <3>1. hits' = [hits EXCEPT ![r].pc = "failed", ![r].over = hits[r].over]
      BY <2>1, LimitFacts DEF LimitSound, LimitTyped
    <3>2. hits[r].over \in BOOLEAN
      BY LimitFacts
    <3> DEFINE over == hits[r].over
               pc == "failed"
    <3>3. /\ hits[r].pc = "incr" /\ counters' = Incremented(hits[r].key)
          /\ hits' = [hits EXCEPT ![r].pc = pc, ![r].over = over]
          /\ pc # "expire" /\ pc \in Commands \cup {"failed"} /\ over \in BOOLEAN
          /\ lost' = IF counters[hits[r].key].count = 0 THEN lost \cup {hits[r].key} ELSE lost
      BY <2>5, <3>1, <3>2
    <3> HIDE DEF over, pc
    <3> QED
      BY <3>3, IncrStep
  <2> QED
    BY <1>4, <2>3, <2>4, <2>5 DEF LimitFails
<1> QED
  BY <1>1, <1>2, <1>3, <1>4 DEF LimitStep

LEMMA StartLimitSound ==
  ASSUME LimitSound, NEW r \in Requests, StartLimit(r), ~ OwesExpiry(r) PROVE LimitSound'
<1>1. PICK u \in Users :
        hits' = [hits EXCEPT ![r] = [pc |-> "incr", key |-> Org, user |-> u, over |-> FALSE]]
  BY DEF StartLimit
<1> DEFINE h == [pc |-> "incr", key |-> Org, user |-> u, over |-> FALSE]
<1>2. h \in Hit /\ h.pc # "expire"
  BY DEF Keys, Commands
<1>3. hits' = [hits EXCEPT ![r] = h] /\ counters' = counters /\ lost' = lost
  BY <1>1 DEF StartLimit
<1> HIDE DEF h
<1> QED
  BY <1>2, <1>3, HitStep

LEMMA ForgetLimit ==
  ASSUME LimitSound, NEW r \in Requests, ~ OwesExpiry(r),
         hits' = [hits EXCEPT ![r] = NoHit], UNCHANGED <<counters, lost>>
  PROVE  LimitSound'
<1>1. NoHit \in Hit /\ NoHit.pc # "expire"
  BY DEF NoHit, Keys
<1> QED
  BY <1>1, HitStep

(* The process dies: what its requests owed is lost.                       *)
LEMMA DiesLimit == ASSUME LimitSound, LimitDies PROVE LimitSound'
<1>1. NoHit \in Hit /\ NoHit.pc = "none"
  BY DEF NoHit, Keys
<1>2. counters' = counters /\ lost \subseteq lost'
      /\ \A r \in Requests : hits'[r] = NoHit /\ (OwesExpiry(r) => hits[r].key \in lost')
  BY DEF LimitDies
<1>3. lost' \subseteq Keys
  BY LimitFacts DEF LimitDies, LimitSound, LimitTyped
<1>4. hits' \in [Requests -> Hit]
  BY <1>1 DEF LimitDies
<1>5. LimitTyped'
  BY <1>2, <1>3, <1>4 DEF LimitSound, LimitTyped, limit
<1>6. OwedOnce'
  BY <1>1, <1>2 DEF OwedOnce, OwesExpiry
<1>7. CountersRunOut'
  BY <1>2 DEF LimitSound, CountersRunOut
<1> QED
  BY <1>5, <1>6, <1>7 DEF LimitSound

LEMMA TickLimit == ASSUME LimitSound, LimitTick PROVE LimitSound'
<1>1. ASSUME NEW k \in Keys
      PROVE  /\ counters'[k] \in Counter
             /\ counters'[k].count <= limit(k) + 1
             /\ counters'[k].count = 0 => counters'[k].left = NoExpiry
             /\ counters'[k].left = NoExpiry => counters[k].left = NoExpiry \/ counters'[k].count = 0
             /\ counters[k].left = NoExpiry => counters'[k] = counters[k]
  <2>1. /\ counters[k] \in Counter
        /\ counters[k].count <= limit(k) + 1 /\ limit(k) \in Nat
        /\ counters[k].count = 0 => counters[k].left = NoExpiry
        /\ RateWindow \in Nat /\ NoExpiry = -1
    BY LimitFacts
  <2>2. CASE counters[k].left = 1
    <3>1. counters'[k] = [count |-> 0, left |-> NoExpiry]
      BY <2>2 DEF LimitTick, NoCounter
    <3> QED
      BY <2>1, <2>2, <3>1
  <2>3. CASE counters[k].left > 1
    <3>1. counters'[k] = [counters[k] EXCEPT !.left = @ - 1]
      BY <2>3 DEF LimitTick
    <3>2. counters[k].left - 1 \in 1..RateWindow /\ counters[k].left # NoExpiry
      BY <2>1, <2>3
    <3>3. /\ counters'[k].count = counters[k].count /\ counters'[k].left = counters[k].left - 1
          /\ counters'[k] \in Counter
      BY <2>1, <3>1, <3>2
    <3>4. counters'[k].left # NoExpiry /\ counters[k].count # 0
      BY <2>1, <3>2, <3>3
    <3> QED
      BY <2>1, <3>2, <3>3, <3>4
  <2>4. CASE ~ (counters[k].left = 1) /\ ~ (counters[k].left > 1)
    <3>1. counters'[k] = counters[k]
      BY <2>4 DEF LimitTick
    <3>2. counters[k].left = NoExpiry
      BY <2>1, <2>4
    <3> QED
      BY <2>1, <3>1, <3>2
  <2> QED
    BY <2>2, <2>3, <2>4
<1>2. UNCHANGED <<hits, lost>> /\ \A r \in Requests : OwesExpiry(r)' <=> OwesExpiry(r)
  BY DEF LimitTick, OwesExpiry
<1>3. counters' \in [Keys -> Counter]
  BY <1>1 DEF LimitTick
<1>4. LimitTyped'
  BY <1>1, <1>2, <1>3 DEF LimitSound, LimitTyped, limit
<1>5. OwedOnce'
  <2>1. \A r \in Requests : OwesExpiry(r) =>
          /\ counters[hits[r].key].count > 0 /\ counters[hits[r].key].left = NoExpiry
          /\ counters'[hits[r].key] = counters[hits[r].key]
          /\ \A q \in Requests : OwesExpiry(q) /\ hits[q].key = hits[r].key => q = r
    BY <1>1, LimitFacts DEF LimitSound, OwedOnce
  <2> QED
    BY <1>2, <2>1 DEF OwedOnce
<1>6. CountersRunOut'
  <2> SUFFICES ASSUME NEW k \in Keys, counters'[k].count > 0, counters'[k].left = NoExpiry
               PROVE  k \in lost' \/ \E q \in Requests : OwesExpiry(q)' /\ hits'[q].key = k
    BY DEF CountersRunOut
  <2>1. counters[k].left = NoExpiry /\ counters[k].count > 0
    BY <1>1
  <2> QED
    BY <1>2, <2>1 DEF LimitSound, CountersRunOut
<1> QED
  BY <1>4, <1>5, <1>6 DEF LimitSound

-----------------------------------------------------------------------------
(* The calls of the model.                                                 *)
LEMMA NoCallTyped ==
  /\ NoCall \in CallRecord /\ Checked(NoCall)
  /\ NoCall.pc = "none" /\ NoCall.hops = 0 /\ NoCall.begun = FALSE /\ NoCall.outcome = "none"
BY RetriesAssumption DEF NoCall, CallRecord, Checked, MaxHops

LEMMA InitCalls == CallInit => CallSound
BY NoCallTyped DEF CallInit, CallSound

LEMMA CallChanges ==
  ASSUME CallSound, NEW r \in Requests, NEW c \in CallRecord, Checked(c),
         calls' = [calls EXCEPT ![r] = c]
  PROVE  CallSound'
<1>1. calls' \in [Requests -> CallRecord]
  BY DEF CallSound
<1>2. \A q \in Requests : calls'[q] = IF q = r THEN c ELSE calls[q]
  BY DEF CallSound
<1>3. \A q \in Requests : Checked(calls'[q])
  BY <1>2 DEF CallSound
<1> QED
  BY <1>1, <1>3 DEF CallSound, Checked, isBlockedAddress, isAlwaysBlockedAddress

LEMMA StartCallSound == ASSUME CallSound, NEW r \in Requests, StartCall(r) PROVE CallSound'
<1> DEFINE c == [NoCall EXCEPT !.pc = "pin"]
<1>1. c \in CallRecord /\ c.pc = "pin" /\ c.begun = FALSE /\ c.outcome = "none"
  BY NoCallTyped DEF CallRecord
<1> HIDE DEF c
<1>2. calls' = [calls EXCEPT ![r] = c]
  BY DEF StartCall, c
<1>3. Checked(c)
  BY <1>1 DEF Checked
<1> QED
  BY <1>1, <1>2, <1>3, CallChanges

LEMMA OutcomeSound ==
  ASSUME CallSound, NEW r \in Requests, NEW outcome \in Outcomes,
         NEW address \in Addresses \cup {NoAddress}, Outcome(r, outcome, address),
         outcome = "ssrf" => address \in Addresses /\ isBlockedAddress(address)
  PROVE  CallSound'
<1> DEFINE c == [NoCall EXCEPT !.pc = "done", !.outcome = outcome, !.address = address]
<1>1. c \in CallRecord /\ c.begun = FALSE /\ c.pc = "done" /\ c.outcome = outcome /\ c.address = address
  BY NoCallTyped DEF CallRecord
<1>2. calls' = [calls EXCEPT ![r] = c]
  BY DEF Outcome
<1> HIDE DEF c
<1>3. Checked(c)
  BY <1>1 DEF Checked
<1> QED
  BY <1>1, <1>2, <1>3, CallChanges

(* Another attempt, or the error of the last.                              *)
LEMMA AttemptSound ==
  ASSUME CallSound, NEW r \in Requests, NEW kind \in {"timeout", "unavailable"},
         NEW again \in BOOLEAN, AttemptFails(r, kind, again),
         again => ~ calls[r].begun
  PROVE  /\ CallSound'
         /\ calls'[r].pc = "pin" => /\ calls[r].attempt < MaxRetries /\ calls'[r].hops = 0
                                    /\ calls'[r].attempt = calls[r].attempt + 1
<1>1. calls[r] \in CallRecord
  BY DEF CallSound
<1>2. CASE again /\ calls[r].attempt < MaxRetries
  <2> DEFINE c == [NoCall EXCEPT !.pc = "pin", !.attempt = calls[r].attempt + 1,
                                 !.begun = calls[r].begun]
  <2>1. calls' = [calls EXCEPT ![r] = c]
    BY <1>2 DEF AttemptFails
  <2>2. calls[r].attempt + 1 \in 0..MaxRetries /\ calls[r].begun = FALSE
    BY <1>1, <1>2, RetriesAssumption DEF CallRecord
  <2>3. /\ c \in CallRecord /\ c.begun = FALSE /\ c.pc = "pin" /\ c.outcome = "none"
        /\ c.hops = 0 /\ c.attempt = calls[r].attempt + 1
    BY <2>2, NoCallTyped DEF CallRecord
  <2> HIDE DEF c
  <2>4. Checked(c)
    BY <2>3 DEF Checked
  <2>5. calls'[r] = c
    BY <2>1 DEF CallSound
  <2> QED
    BY <1>2, <2>1, <2>3, <2>4, <2>5, CallChanges
<1>3. CASE ~ (again /\ calls[r].attempt < MaxRetries)
  <2>1. Outcome(r, kind, NoAddress)
    BY <1>3 DEF AttemptFails
  <2>2. calls'[r].pc = "done"
    BY <2>1 DEF Outcome, NoCall, CallSound
  <2> QED
    BY <2>1, <2>2, OutcomeSound DEF Outcomes
<1> QED
  BY <1>2, <1>3

(* A step of a call keeps what is checked, and uses up its budget.         *)
Spends(r) ==
  calls[r].pc \in {"send", "body"} /\ calls'[r].pc = "pin"
    => Budget(calls'[r]) \in 0..(Budget(calls[r]) - 1)

LEMMA BudgetOfAttempt ==
  ASSUME NEW c \in CallRecord, NEW d, d.hops = 0, d.attempt = c.attempt + 1,
         c.attempt < MaxRetries
  PROVE  Budget(d) \in 0..(Budget(c) - 1)
<1>1. c.attempt \in Nat /\ c.hops \in 0..2 /\ MaxRetries \in Nat
  BY RetriesAssumption DEF CallRecord, MaxHops
<1>2. Budget(d) = (MaxRetries - c.attempt - 1) * 3 + 2
  BY <1>1 DEF Budget, MaxHops
<1>3. Budget(c) = (MaxRetries - c.attempt) * 3 + (2 - c.hops)
  BY <1>1 DEF Budget, MaxHops
<1> QED
  BY <1>1, <1>2, <1>3

LEMMA BudgetOfHop ==
  ASSUME NEW c \in CallRecord, NEW d, d.hops = c.hops + 1, d.attempt = c.attempt, c.hops < MaxHops
  PROVE  Budget(d) \in 0..(Budget(c) - 1)
<1>1. c.attempt \in 0..MaxRetries /\ c.hops \in 0..1 /\ MaxRetries \in Nat
  BY RetriesAssumption DEF CallRecord, MaxHops
<1>2. Budget(d) = (MaxRetries - c.attempt) * 3 + (1 - c.hops)
  BY <1>1 DEF Budget, MaxHops
<1>3. Budget(c) = (MaxRetries - c.attempt) * 3 + (2 - c.hops)
  BY <1>1 DEF Budget, MaxHops
<1> QED
  BY <1>1, <1>2, <1>3

LEMMA PinSound == ASSUME CallSound, NEW r \in Requests, Pin(r) PROVE CallSound'
<1>1. calls[r] \in CallRecord /\ Checked(calls[r]) /\ calls[r].pc = "pin"
  BY DEF CallSound, Pin, CallAt
<1>2. PICK address \in Addresses :
        IF isBlockedAddress(address) THEN Outcome(r, "ssrf", address)
        ELSE calls' = [calls EXCEPT ![r].pc = "send", ![r].address = address]
  BY DEF Pin
<1>3. CASE isBlockedAddress(address)
  BY <1>2, <1>3, OutcomeSound DEF Outcomes
<1>4. CASE ~ isBlockedAddress(address)
  <2> DEFINE c == [calls[r] EXCEPT !.pc = "send", !.address = address]
  <2>1. calls' = [calls EXCEPT ![r] = c]
    BY <1>2, <1>4 DEF CallSound
  <2>2. /\ c \in CallRecord /\ c.pc = "send" /\ c.address = address
        /\ c.begun = calls[r].begun /\ c.outcome = calls[r].outcome
    BY <1>1 DEF CallRecord
  <2> HIDE DEF c
  <2>3. ~ calls[r].begun /\ calls[r].outcome # "ssrf"
    BY <1>1 DEF Checked
  <2>4. Checked(c)
    BY <1>4, <2>2, <2>3 DEF Checked
  <2> QED
    BY <2>1, <2>2, <2>4, CallChanges
<1> QED
  BY <1>3, <1>4

LEMMA HeadersSound == ASSUME CallSound, NEW r \in Requests, ReceiveHeaders(r) PROVE CallSound'
<1>1. calls[r] \in CallRecord /\ Checked(calls[r]) /\ calls[r].pc = "send"
  BY DEF CallSound, ReceiveHeaders, CallAt
<1>2. PICK status \in Statuses :
        calls' = [calls EXCEPT ![r].pc = "body", ![r].status = status, ![r].address = NoAddress,
                               ![r].begun = (status = "ok")]
  BY DEF ReceiveHeaders
<1> DEFINE begun == status = "ok"
           c == [calls[r] EXCEPT !.pc = "body", !.status = status, !.address = NoAddress,
                                 !.begun = begun]
<1>3. calls' = [calls EXCEPT ![r] = c]
  BY <1>2 DEF CallSound
<1>4. begun \in BOOLEAN /\ (begun => status = "ok")
  OBVIOUS
<1> HIDE DEF begun
<1>5. /\ c \in CallRecord /\ c.pc = "body" /\ c.status = status
      /\ c.begun = begun /\ c.outcome = calls[r].outcome
  BY <1>1, <1>4 DEF CallRecord
<1> HIDE DEF c
<1>6. calls[r].outcome # "ssrf"
  BY <1>1 DEF Checked
<1>7. Checked(c)
  BY <1>4, <1>5, <1>6 DEF Checked
<1> QED
  BY <1>3, <1>5, <1>7, CallChanges

LEMMA FollowSound ==
  ASSUME CallSound, NEW r \in Requests, FollowIfRedirect(r) PROVE CallSound' /\ Spends(r)
<1>1. /\ calls[r] \in CallRecord /\ Checked(calls[r])
      /\ calls[r].pc = "body" /\ calls[r].status = "redirect"
  BY DEF CallSound, FollowIfRedirect, CallAt
<1>2. ~ calls[r].begun /\ calls[r].outcome # "ssrf"
  BY <1>1 DEF Checked
<1>3. CASE AttemptFails(r, "unavailable", TRUE)
  <2>1. /\ CallSound'
        /\ calls'[r].pc = "pin" => /\ calls[r].attempt < MaxRetries /\ calls'[r].hops = 0
                                   /\ calls'[r].attempt = calls[r].attempt + 1
    BY <1>2, <1>3, AttemptSound
  <2> QED
    BY <1>1, <2>1, BudgetOfAttempt DEF Spends
<1>4. CASE /\ calls[r].hops < MaxHops
           /\ calls' = [calls EXCEPT ![r].pc = "pin", ![r].hops = @ + 1, ![r].status = "none"]
  <2> DEFINE c == [calls[r] EXCEPT !.pc = "pin", !.hops = @ + 1, !.status = "none"]
  <2>1. calls' = [calls EXCEPT ![r] = c] /\ calls'[r] = c
    BY <1>4 DEF CallSound
  <2>2. calls[r].hops + 1 \in 0..MaxHops
    BY <1>1, <1>4 DEF CallRecord, MaxHops
  <2>3. /\ c \in CallRecord /\ c.pc = "pin" /\ c.hops = calls[r].hops + 1
        /\ c.attempt = calls[r].attempt
        /\ c.begun = calls[r].begun /\ c.outcome = calls[r].outcome
    BY <1>1, <2>2 DEF CallRecord
  <2> HIDE DEF c
  <2>4. Checked(c)
    BY <1>2, <2>3 DEF Checked
  <2>5. CallSound'
    BY <2>1, <2>3, <2>4, CallChanges
  <2>6. Budget(c) \in 0..(Budget(calls[r]) - 1)
    BY <1>1, <1>4, <2>3, BudgetOfHop
  <2> QED
    BY <2>1, <2>5, <2>6 DEF Spends
<1> QED
  BY <1>3, <1>4 DEF FollowIfRedirect

LEMMA EndsSound ==
  ASSUME CallSound, NEW r \in Requests,
         NEW outcome \in Outcomes \ {"ssrf"}, Outcome(r, outcome, NoAddress)
  PROVE  CallSound' /\ Spends(r)
<1>1. CallSound'
  BY OutcomeSound
<1>2. calls'[r].pc = "done"
  BY DEF Outcome, CallSound, NoCall
<1> QED
  BY <1>1, <1>2 DEF Spends

LEMMA FailedAttempt ==
  ASSUME CallSound, NEW r \in Requests, NEW kind \in {"timeout", "unavailable"},
         NEW again \in BOOLEAN, AttemptFails(r, kind, again), again => ~ calls[r].begun
  PROVE  CallSound' /\ Spends(r)
<1>1. /\ CallSound'
      /\ calls'[r].pc = "pin" => /\ calls[r].attempt < MaxRetries /\ calls'[r].hops = 0
                                 /\ calls'[r].attempt = calls[r].attempt + 1
  BY AttemptSound
<1>2. calls[r] \in CallRecord
  BY DEF CallSound
<1> QED
  BY <1>1, <1>2, BudgetOfAttempt DEF Spends

LEMMA CallSteps ==
  ASSUME CallSound, NEW r \in Requests, CallStep(r) PROVE CallSound' /\ Spends(r)
<1>1. Checked(calls[r])
  BY DEF CallSound
<1>2. CASE Pin(r)
  BY <1>2, PinSound DEF Pin, CallAt, Spends
<1>3. CASE PinFails(r)
  BY <1>3, EndsSound DEF PinFails, Outcomes
<1>4. CASE ConnectionFails(r)
  <2>1. PICK kind \in {"timeout", "unavailable"} : AttemptFails(r, kind, retryable(kind, FALSE))
    BY <1>4 DEF ConnectionFails
  <2>2. retryable(kind, FALSE) \in BOOLEAN /\ ~ calls[r].begun
    BY <1>1, <1>4 DEF retryable, ConnectionFails, CallAt, Checked
  <2> QED
    BY <2>1, <2>2, FailedAttempt
<1>5. CASE ReceiveHeaders(r)
  <2>1. calls'[r].pc = "body"
    BY <1>5 DEF ReceiveHeaders, CallSound, CallRecord
  <2> QED
    BY <1>5, <2>1, HeadersSound DEF Spends
<1>6. CASE BodyFails(r)
  <2>1. CASE Outcome(r, "error", NoAddress)
    BY <2>1, EndsSound DEF Outcomes
  <2>2. CASE \E kind \in {"timeout", "unavailable"} : AttemptFails(r, kind, retryable(kind, TRUE))
    <3>1. PICK kind \in {"timeout", "unavailable"} : AttemptFails(r, kind, retryable(kind, TRUE))
      BY <2>2
    <3>2. retryable(kind, TRUE) = FALSE
      BY DEF retryable
    <3> QED
      BY <3>1, <3>2, FailedAttempt
  <2> QED
    BY <1>6, <2>1, <2>2 DEF BodyFails
<1>7. CASE FollowIfRedirect(r)
  BY <1>7, FollowSound
<1>8. CASE Rejected(r)
  <2>1. ~ calls[r].begun
    BY <1>1, <1>8 DEF Rejected, CallAt, Checked
  <2> QED
    BY <1>8, <2>1, FailedAttempt DEF Rejected
<1>9. CASE ParseResponse(r)
  BY <1>9, EndsSound DEF ParseResponse, Outcomes
<1> QED
  BY <1>2, <1>3, <1>4, <1>5, <1>6, <1>7, <1>8, <1>9 DEF CallStep

-----------------------------------------------------------------------------
(* The process as a whole.                                                 *)
LEMMA SameLife == LifeSound /\ UNCHANGED lifeVars => LifeSound'
BY DEF lifeVars, LifeSound, LifeTyped, InflightIsTrue, NothingIsCut, Deaf, Busy, Open, Closing, ClosingAt

LEMMA SameLimit == LimitSound /\ UNCHANGED limitVars => LimitSound'
BY DEF limitVars, LimitSound, LimitTyped, OwedOnce, CountersRunOut, OwesExpiry

LEMMA SameCalls == CallSound /\ calls' = calls => CallSound'
BY DEF CallSound

LEMMA InitSound == Init => Sound
<1> SUFFICES ASSUME Init PROVE Sound
  OBVIOUS
<1>1. Coupled
  BY DEF Init, LifeInit, LimitInit, NoConn, NoHit, Coupled, InHandler
<1> QED
  BY <1>1, InitLife, InitLimit, InitCalls DEF Init, Sound

LEMMA ServeSound == ASSUME Sound, NEW r \in Requests, Serve(r) PROVE Sound'
<1>1. Arrive(r) /\ StartLimit(r) /\ calls' = calls
  BY DEF Serve
<1>2. ~ OwesExpiry(r)
  BY <1>1 DEF Sound, Coupled, Arrive, InHandler, OwesExpiry
<1>3. Coupled'
  <2>1. \A q \in Requests :
          /\ conn'[q] = IF q = r THEN "busy" ELSE conn[q]
          /\ q # r => hits'[q] = hits[q]
          /\ hits'[r].pc = "incr"
    BY <1>1 DEF Arrive, StartLimit, Sound, LifeSound, LifeTyped, LimitSound, LimitTyped
  <2> QED
    BY <2>1 DEF Sound, Coupled, InHandler
<1> QED
  BY <1>1, <1>2, <1>3, RequestLife, StartLimitSound, SameCalls DEF Sound

LEMMA HandlerSound ==
  ASSUME Sound, NEW r \in Requests, PassLimit(r) \/ Call(r) \/ DoCall(r) PROVE Sound'
<1>1. CASE PassLimit(r)
  <2>1. LimitStep(r) /\ UNCHANGED lifeVars /\ calls' = calls
    BY <1>1 DEF PassLimit
  <2>2. \A q \in Requests : q # r => hits'[q] = hits[q]
    BY <2>1 DEF LimitStep, Incr, Expire, Ttl, LimitFails, Sound, LimitSound, LimitTyped
  <2>3. hits[r].pc # "none"
    BY <2>1 DEF LimitStep, Incr, Expire, Ttl, LimitFails, Limiting, Commands
  <2>4. hits'[r].pc # "none"
    <3>1. hits[r] \in Hit
      BY LimitFacts DEF Sound
    <3>2. CASE Incr(r)
      BY <3>1, <3>2 DEF Incr, Sound, LimitSound, LimitTyped
    <3>3. CASE Expire(r)
      BY <3>1, <3>3 DEF Expire, Sound, LimitSound, LimitTyped
    <3>4. CASE Ttl(r)
      BY <3>1, <3>4 DEF Ttl, Sound, LimitSound, LimitTyped
    <3>5. CASE LimitFails(r)
      BY <3>1, <3>5 DEF LimitFails, Sound, LimitSound, LimitTyped
    <3> QED
      BY <2>1, <3>2, <3>3, <3>4, <3>5 DEF LimitStep
  <2>5. Coupled'
    BY <2>1, <2>2, <2>3, <2>4 DEF Sound, Coupled, InHandler, lifeVars
  <2> QED
    BY <2>1, <2>5, LimitSteps, SameLife, SameCalls DEF Sound
<1>2. CASE Call(r) \/ DoCall(r)
  <2>1. StartCall(r) \/ CallStep(r)
    BY <1>2 DEF Call, DoCall
  <2>2. UNCHANGED <<lifeVars, limitVars>>
    BY <1>2 DEF Call, DoCall
  <2>3. CallSound'
    BY <2>1, StartCallSound, CallSteps DEF Sound
  <2>4. Coupled'
    BY <2>2 DEF Sound, Coupled, InHandler, lifeVars, limitVars
  <2> QED
    BY <2>2, <2>3, <2>4, SameLife, SameLimit DEF Sound
<1> QED
  BY <1>1, <1>2

LEMMA AnswerSound == ASSUME Sound, NEW r \in Requests, Answer(r) PROVE Sound'
<1>1. /\ Finish(r) /\ hits[r].pc \in {"admitted", "refused", "failed"}
      /\ hits' = [hits EXCEPT ![r] = NoHit] /\ calls' = [calls EXCEPT ![r] = NoCall]
      /\ UNCHANGED <<counters, lost>>
  BY DEF Answer
<1>2. LifeSound'
  BY <1>1, RequestLife DEF Sound
<1>3. LimitSound'
  BY <1>1, ForgetLimit DEF Sound, OwesExpiry
<1>4. CallSound'
  BY <1>1, NoCallTyped, CallChanges DEF Sound
<1>5. Coupled'
  <2>1. conn' = [conn EXCEPT ![r] = IF @ = "busy" THEN "written" ELSE "none"]
    BY <1>1 DEF Finish
  <2>2. \A q \in Requests : q # r => conn'[q] = conn[q] /\ hits'[q] = hits[q]
    BY <1>1, <2>1 DEF Sound, LifeSound, LifeTyped, LimitSound, LimitTyped
  <2>3. conn'[r] \in {"written", "none"} /\ hits'[r].pc = "none"
    BY <1>1, <2>1 DEF Sound, LifeSound, LifeTyped, LimitSound, LimitTyped, NoHit
  <2> QED
    BY <2>2, <2>3 DEF Sound, Coupled, InHandler
<1> QED
  BY <1>2, <1>3, <1>4, <1>5 DEF Sound

LEMMA ConnectionSound == ASSUME Sound, HandleConnection PROVE Sound'
<1>1. UNCHANGED <<limitVars, calls>>
  BY DEF HandleConnection
<1>2. ASSUME LifeSound', \A r \in Requests : InHandler(r)' <=> InHandler(r) PROVE Sound'
  <2>1. Coupled'
    BY <1>1, <1>2 DEF Sound, Coupled, limitVars
  <2> QED
    BY <1>1, <1>2, <2>1, SameLimit, SameCalls DEF Sound
<1>3. CASE \E r \in Requests : Close(r) \/ Disconnect(r)
  <2>1. PICK r \in Requests : Close(r) \/ Disconnect(r)
    BY <1>3
  <2>2. \A q \in Requests : InHandler(q)' <=> InHandler(q)
    BY <2>1 DEF Close, Disconnect, InHandler, Sound, LifeSound, LifeTyped
  <2> QED
    BY <1>2, <2>1, <2>2, RequestLife DEF Sound
<1>4. CASE SweepStarts \/ SweepEnds \/ Starts
  <2>1. conn' = conn
    BY <1>4 DEF SweepStarts, SweepEnds, Starts
  <2> QED
    BY <1>2, <1>4, <2>1, StartsLife DEF Sound, InHandler
<1>5. CASE \E s \in Signals : Closes(s)
  <2>1. PICK s \in Signals : Closes(s)
    BY <1>5
  <2>2. LifeSound'
    BY <2>1, SignalLife, ClosingLife DEF Sound, Closes
  <2>3. ASSUME NEW r \in Requests PROVE InHandler(r)' <=> InHandler(r)
    <3>1. CASE Signal(s)
      BY <3>1 DEF Signal, InHandler
    <3>2. CASE Drained(s)
      BY <3>2 DEF Drained, InHandler
    <3>3. CASE Closed(s) \/ CallPoolEnd(s)
      BY <3>3 DEF Closed, CallPoolEnd, InHandler
    <3> QED
      BY <2>1, <3>1, <3>2, <3>3 DEF Closes
  <2> QED
    BY <1>2, <2>2, <2>3
<1> QED
  BY <1>3, <1>4, <1>5 DEF HandleConnection

LEMMA StopSound == ASSUME Sound, Stop PROVE Sound'
<1>1. /\ Exits \/ Killed
      /\ LimitDies /\ calls' = [r \in Requests |-> NoCall]
  BY DEF Stop
<1>2. LifeSound' /\ Exit
  BY <1>1, ExitsLife, ExitLife DEF Sound, Killed, Exits, PoolEndRejects, PoolEnds
<1>3. LimitSound'
  BY <1>1, DiesLimit DEF Sound
<1>4. CallSound'
  BY <1>1, NoCallTyped DEF CallSound
<1>5. Coupled'
  BY <1>1, <1>2 DEF Exit, NoConn, LimitDies, NoHit, Coupled, InHandler
<1> QED
  BY <1>2, <1>3, <1>4, <1>5 DEF Sound

LEMMA NextSound == Sound /\ [Next]_vars => Sound'
<1> SUFFICES ASSUME Sound, [Next]_vars PROVE Sound'
  OBVIOUS
<1>1. CASE UNCHANGED vars
  <2>1. Coupled'
    BY <1>1 DEF vars, lifeVars, limitVars, Sound, Coupled, InHandler
  <2> QED
    BY <1>1, <2>1, SameLife, SameLimit, SameCalls DEF vars, Sound
<1>2. CASE Tick
  <2>1. Coupled'
    BY <1>2 DEF Tick, LifeTick, LimitTick, Sound, Coupled, InHandler
  <2> QED
    BY <1>2, <2>1, TickLife, TickLimit, SameCalls DEF Tick, Sound
<1>3. ASSUME NEW r \in Requests, Serve(r) \/ PassLimit(r) \/ Call(r) \/ DoCall(r) \/ Answer(r)
      PROVE  Sound'
  BY <1>3, ServeSound, HandlerSound, AnswerSound
<1> QED
  BY <1>1, <1>2, <1>3, ConnectionSound, StopSound DEF Next

LEMMA AlwaysSound == Spec => []Sound
BY InitSound, NextSound, PTL DEF Spec

-----------------------------------------------------------------------------
(* The state of the process, the limiter and the calls is what it is meant *)
(* to be: counters are of their size, and no call has more attempts or     *)
(* redirects than are allowed.                                             *)
THEOREM TypeCorrect == Spec => []TypeOK
<1>1. Sound => TypeOK
  <2> SUFFICES ASSUME Sound PROVE TypeOK
    OBVIOUS
  <2>1. LifeTypeOK
    BY DEF Sound, LifeSound, LifeTyped, NothingIsCut, LifeTypeOK
  <2>2. LimitTypeOK
    <3>1. \A k \in Keys : counters[k].count \in 0..(limit(k) + 1)
      BY LimitFacts DEF Sound
    <3> QED
      BY <3>1, LimitFacts DEF Sound, LimitSound, LimitTyped, LimitTypeOK
  <2>3. CallTypeOK
    BY DEF Sound, CallSound, CallRecord, CallTypeOK
  <2> QED
    BY <2>1, <2>2, <2>3 DEF TypeOK
<1> QED
  BY <1>1, AlwaysSound, PTL

(* However requests end, their number in flight is right (inflight.ts).    *)
THEOREM InflightAlwaysTrue == Spec => []InflightIsTrue
<1>1. Sound => InflightIsTrue
  BY DEF Sound, LifeSound
<1> QED
  BY <1>1, AlwaysSound, PTL

(* An exit after any number of signals ends no request whose client waits, *)
(* and after one no sweep, however long DRAIN_TIMEOUT_MS is: each run of   *)
(* closeGracefully has waited for the connections.                         *)
THEOREM NothingIsEverCut == Spec => []NothingIsCut
<1>1. Sound => NothingIsCut
  BY DEF Sound, LifeSound
<1> QED
  BY <1>1, AlwaysSound, PTL

(* A counter without an expiry has lost it to a failure, whatever replicas *)
(* and deaths do between INCR and EXPIRE (rateLimit.ts).                   *)
THEOREM CountersAlwaysRunOut == Spec => []CountersRunOut
<1>1. Sound => CountersRunOut
  BY DEF Sound, LimitSound
<1> QED
  BY <1>1, AlwaysSound, PTL

(* A call whose successful answer has begun is not repeated                *)
(* (headersReceived of callChatModel).                                     *)
THEOREM AlwaysServedOnce == Spec => []ServedOnce
<1>1. Sound => ServedOnce
  BY DEF Sound, CallSound, Checked, CallAt, ServedOnce
<1> QED
  BY <1>1, AlwaysSound, PTL

(* A mask of so many bits has them set and no other: the shift is by less  *)
(* than the width, unless there are none.                                  *)
LEMMA MaskSets ==
  ASSUME NEW bits \in 0..AddressBits
  PROVE  mask(bits) = [i \in Bits |-> IF i <= bits THEN 1 ELSE 0]
<1>1. AddressBits \in Nat \ {0}
  BY AddressesAssumption
<1>2. CASE bits = 0
  BY <1>1, <1>2 DEF mask, Zero, Bits
<1>3. CASE bits # 0
  <2> DEFINE places == (AddressBits - bits) % AddressBits
  <2>1. places = AddressBits - bits
    <3>1. AddressBits - bits \in 0..(AddressBits - 1)
      BY <1>1, <1>3
    <3> QED
      BY <1>1, <3>1
  <2>2. mask(bits) = [i \in Bits |-> IF i + places \in Bits THEN Ones[i + places] ELSE 0]
    BY <1>3 DEF mask, ShiftLeft
  <2> HIDE DEF places
  <2>3. \A i \in Bits : /\ i + places \in Bits <=> i <= bits
                        /\ i + places \in Bits => Ones[i + places] = 1
    BY <1>1, <2>1 DEF Bits, Ones
  <2> QED
    BY <2>2, <2>3
<1> QED
  BY <1>2, <1>3

(* So masks cut an address where a range ends, whatever is below it.       *)
LEMMA MasksCut == MasksAreRanges
<1>1. SUFFICES ASSUME NEW bits \in 0..AddressBits, NEW base \in Words, NEW a \in Words,
                      NEW cidr, cidr = [base |-> base, bits |-> bits]
               PROVE  cidrContains(a, cidr) <=> a \in CidrRange(cidr)
  BY DEF MasksAreRanges
<1>2. AddressBits \in Nat \ {0}
  BY AddressesAssumption
<1>3. \A w \in Words : /\ BitAnd(w, mask(bits)) = [i \in Bits |-> IF i <= bits THEN w[i] ELSE 0]
                       /\ \A i \in Bits : w[i] \in {0, 1}
  <2>1. TAKE w \in Words
  <2>2. \A i \in Bits : w[i] \in {0, 1}
    BY DEF Words
  <2>3. \A i \in Bits : mask(bits)[i] = IF i <= bits THEN 1 ELSE 0
    BY MaskSets
  <2>4. \A i \in Bits : w[i] * mask(bits)[i] = IF i <= bits THEN w[i] ELSE 0
    BY <2>2, <2>3
  <2> QED
    BY <2>2, <2>4 DEF BitAnd
<1>4. cidrContains(a, cidr) <=> BitAnd(a, mask(bits)) = BitAnd(base, mask(bits))
  BY <1>1 DEF cidrContains, network
<1>5. cidrContains(a, cidr) <=> \A i \in Bits : i <= bits => a[i] = base[i]
  BY <1>3, <1>4
<1>6. \A i : i \in 1..bits <=> i \in Bits /\ i <= bits
  BY <1>2 DEF Bits
<1> QED
  BY <1>1, <1>5, <1>6 DEF CidrRange

(* isBlockedAddress is membership in the ranges of the policy.             *)
LEMMA BlockedIsForbidden ==
  ASSUME NEW a \in Addresses PROVE isBlockedAddress(a) <=> a \in Forbidden
<1>1. ASSUME NEW c \in AlwaysBlockedCidrs \cup DefaultBlockedCidrs \cup AllowedPrivateCidrs
      PROVE  cidrContains(a, c) <=> a \in CidrRange(c)
  <2>1. /\ c = [base |-> c.base, bits |-> c.bits]
        /\ c.bits \in 0..AddressBits /\ c.base \in Words
    BY CidrsAssumption
  <2>2. a \in Words
    BY AddressesAssumption
  <2> QED
    BY <2>1, <2>2, MasksCut DEF MasksAreRanges
<1> DEFINE In(cidrs) == \E c \in cidrs : a \in CidrRange(c)
<1>2. isBlockedAddress(a)
        <=> In(AlwaysBlockedCidrs) \/ (~ In(AllowedPrivateCidrs) /\ In(DefaultBlockedCidrs))
  BY <1>1 DEF isBlockedAddress, isAlwaysBlockedAddress
<1>3. \A cidrs : a \in UNION {CidrRange(c) : c \in cidrs} <=> In(cidrs)
  OBVIOUS
<1>4. a \in Forbidden
        <=> In(AlwaysBlockedCidrs) \/ (~ In(AllowedPrivateCidrs) /\ In(DefaultBlockedCidrs))
  <2> DEFINE Ranges(cidrs) == UNION {CidrRange(c) : c \in cidrs}
  <2>1. Forbidden = Ranges(AlwaysBlockedCidrs)
                      \cup (Ranges(DefaultBlockedCidrs) \ Ranges(AllowedPrivateCidrs))
    BY DEF Forbidden
  <2>2. \A cidrs : a \in Ranges(cidrs) <=> In(cidrs)
    BY <1>3
  <2> HIDE DEF In, Ranges
  <2> QED
    BY <2>1, <2>2
<1> HIDE DEF In
<1> QED
  BY <1>2, <1>4

(* Every connection goes to a permitted address and none is refused that   *)
(* is permitted (pinUrl, callChatModel), whatever names resolve to and     *)
(* however often, for every policy and every width of addresses.           *)
THEOREM OnlyPermittedAlways == Spec => []OnlyPermittedAddresses
<1>1. Sound => OnlyPermittedAddresses
  BY MasksCut, BlockedIsForbidden DEF Sound, CallSound, Checked, CallAt, OnlyPermittedAddresses
<1> QED
  BY <1>1, AlwaysSound, PTL

(* A step of a call uses up some of its budget, so that it ends            *)
(* (callChatModel, followIfRedirect).                                      *)
THEOREM CallsAlwaysBounded == Spec => CallsAreBounded
<1>1. Sound /\ [Next]_vars =>
        [\A r \in Requests : calls[r].pc \in {"send", "body"} /\ calls'[r].pc = "pin"
            => Budget(calls'[r]) \in 0..(Budget(calls[r]) - 1)]_calls
  <2> SUFFICES ASSUME Sound, [Next]_vars, calls' # calls PROVE \A r \in Requests : Spends(r)
    BY DEF Spends
  <2>1. ASSUME NEW r \in Requests, Call(r) \/ DoCall(r) \/ Answer(r)
        PROVE  \A q \in Requests : Spends(q)
    <3>1. \A q \in Requests : q # r => calls'[q] = calls[q]
      BY <2>1 DEF Call, DoCall, Answer, StartCall, CallStep, Pin, PinFails, ConnectionFails,
           ReceiveHeaders, BodyFails, FollowIfRedirect, Rejected, ParseResponse, AttemptFails,
           Outcome, Sound, CallSound
    <3>2. Spends(r)
      <4>1. CASE DoCall(r)
        BY <4>1, CallSteps DEF DoCall, Sound
      <4>2. CASE Call(r)
        BY <4>2 DEF Call, CallAt, Spends
      <4>3. CASE Answer(r)
        BY <4>3 DEF Answer, Spends
      <4> QED
        BY <2>1, <4>1, <4>2, <4>3
    <3> QED
      BY <3>1, <3>2 DEF Spends
  <2>2. CASE Stop
    BY <2>2 DEF Stop, NoCall, Spends
  <2> QED
    BY <2>1, <2>2 DEF Next, Serve, PassLimit, HandleConnection, Tick, vars
<1> QED
  BY <1>1, AlwaysSound, PTL DEF Spec, CallsAreBounded
=============================================================================
