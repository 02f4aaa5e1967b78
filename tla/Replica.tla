------------------------------ MODULE Replica ------------------------------
(***************************************************************************)
(* A process of apps/api that serves POST /inference: its life             *)
(* (Lifecycle), the rate limiter (RateLimit), whose counters in Redis      *)
(* outlive it, and the calls of the model (ModelClient).  A request goes   *)
(* through the limiter, then calls the model, and is answered; the rows it *)
(* writes on the way are the matter of Inference.                          *)
(***************************************************************************)
EXTENDS Lifecycle, RateLimit, ModelClient

CONSTANT MaxCalls \* calls of the model under way at a time

ASSUME CallsAssumption == MaxCalls \in Nat \ {0}

vars == <<lifeVars, limitVars, calls>>

Init == LifeInit /\ LimitInit /\ CallInit

-----------------------------------------------------------------------------
Serve(r) == Arrive(r) /\ StartLimit(r) /\ UNCHANGED calls

PassLimit(r) == LimitStep(r) /\ UNCHANGED <<lifeVars, calls>>

Call(r) ==
  /\ hits[r].pc = "admitted" /\ CallAt(r, "none")
  /\ Cardinality({q \in Requests : ~ CallAt(q, "none")}) < MaxCalls
  /\ StartCall(r)
  /\ UNCHANGED <<lifeVars, limitVars>>

DoCall(r) == CallStep(r) /\ UNCHANGED <<lifeVars, limitVars>>

\* 429, 503, 402 and others without a call, or what became of it
Answer(r) ==
  /\ hits[r].pc \in {"admitted", "refused", "failed"}
  /\ calls[r].pc \in {"none", "done"}
  /\ Finish(r)
  /\ hits' = [hits EXCEPT ![r] = NoHit]
  /\ calls' = [calls EXCEPT ![r] = NoCall]
  /\ UNCHANGED <<counters, lost>>

HandleConnection ==
  /\ \/ \E r \in Requests : Close(r) \/ Disconnect(r)
     \/ SweepStarts \/ SweepEnds \/ Starts
     \/ \E s \in Signals : Closes(s)
  /\ UNCHANGED <<limitVars, calls>>

\* whatever ends the process ends its handlers
Stop ==
  /\ Exits \/ Killed
  /\ LimitDies
  /\ calls' = [r \in Requests |-> NoCall]

Tick == LimitTick /\ LifeTick /\ UNCHANGED calls

Next ==
  \/ \E r \in Requests : Serve(r) \/ PassLimit(r) \/ Call(r) \/ DoCall(r) \/ Answer(r)
  \/ HandleConnection \/ Stop \/ Tick

Spec == Init /\ [][Next]_vars

-----------------------------------------------------------------------------
TypeOK == LifeTypeOK /\ LimitTypeOK /\ CallTypeOK
=============================================================================
