----------------------------- MODULE SubStream ------------------------------
(***************************************************************************)
(* One call of a callable substream (operators/substream.rs): consume      *)
(* emits a value into the substream's body and waits until its collector   *)
(* says that it has what it needs.  The body may give results in line,     *)
(* before the emission returns, and from tasks of its own, at any time and *)
(* at the same time.                                                       *)
(***************************************************************************)
EXTENDS FiniteSets

CONSTANTS Payload,      \* the results the body gives
          None

VARIABLES
  call,         \* where consume is
  context,      \* the caller's context was cancelled
  callback,     \* Call::callback is there
  done,         \* Call::done
  completed,    \* Call::completed
  gate,         \* who holds Call::gate: None, or the result that is delivered
  delivery      \* of each result: where its delivery is, and if it is in line

vars == <<call, context, callback, done, completed, gate, delivery>>
callVars == <<callback, done, completed>>

Init ==
  /\ call = "new" /\ context = FALSE /\ callback = FALSE /\ done = FALSE
  /\ completed = FALSE /\ gate = None
  /\ delivery = [r \in Payload |-> [pc |-> "none", inline |-> FALSE]]

DeliveryAt(r, l) == delivery' = [delivery EXCEPT ![r].pc = l]

Cancel ==
  /\ ~context /\ context' = TRUE
  /\ UNCHANGED <<call, callVars, gate, delivery>>

\* Call::close.
Close == done' = TRUE /\ callback' = FALSE
-----------------------------------------------------------------------------
(* consume.                                                                *)

\* The graph was built.  A cancelled caller does not get in.
Consume ==
  /\ call = "new"
  /\ IF context THEN call' = "refused" /\ UNCHANGED callback
     ELSE call' = "emit" /\ callback' = TRUE
  /\ UNCHANGED <<context, done, completed, gate, delivery>>

InLine == {r \in Payload : delivery[r].inline /\ delivery[r].pc \in {"gate", "collect"}}

\* dispatch: the emission returns with what it calls in line.
Emitted ==
  /\ call = "emit" /\ InLine = {} /\ call' = "wait"
  /\ UNCHANGED <<context, callVars, gate, delivery>>

Wake ==
  /\ call = "wait" /\ (context \/ done) /\ call' = "drain"
  /\ UNCHANGED <<context, callVars, gate, delivery>>

\* Mutant: a collector that runs is not waited for.
ReturnNow ==
  /\ call = "drain"
  /\ Close /\ call' = IF completed THEN "ok" ELSE "cancelled"
  /\ UNCHANGED <<context, completed, gate, delivery>>

\* Under the gate no collector runs: close, and what was the outcome.
Return ==
  /\ call = "drain" /\ gate = None
  /\ Close /\ call' = IF completed THEN "ok" ELSE "cancelled"
  /\ UNCHANGED <<context, completed, gate, delivery>>

\* The future of consume is dropped, what it calls in line with it; CallGuard
\* closes the call.
Abandon ==
  /\ call \in {"emit", "wait", "drain"} /\ call' = "abandoned"
  /\ Close
  /\ gate' = IF gate \in InLine THEN None ELSE gate
  /\ delivery' = [r \in Payload |-> IF r \in InLine THEN [delivery[r] EXCEPT !.pc = "over"] ELSE delivery[r]]
  /\ UNCHANGED <<context, completed>>
-----------------------------------------------------------------------------
(* Results.                                                                *)

\* The body gives a result to ResultLink, which finds the call in its context:
\* in line, or from a task that the emission has left behind.
Give(r) ==
  /\ delivery[r].pc = "none" /\ call \notin {"new", "refused"}
  /\ \E inline \in BOOLEAN :
       /\ inline => call = "emit" /\ InLine = {}
       /\ delivery' = [delivery EXCEPT ![r] = [pc |-> "gate", inline |-> inline]]
  /\ UNCHANGED <<call, context, callVars, gate>>

\* deliver, under the gate: nothing for a call that is closed, and a cancelled
\* context closes it.
Deliver(r) ==
  /\ delivery[r].pc = "gate" /\ gate = None
  /\ \/ /\ done \/ ~callback
        /\ DeliveryAt(r, "over") /\ UNCHANGED <<callVars, gate>>
     \/ /\ ~done /\ callback /\ context
        /\ Close /\ DeliveryAt(r, "over") /\ UNCHANGED <<completed, gate>>
     \/ /\ ~done /\ callback /\ ~context
        /\ gate' = r /\ DeliveryAt(r, "collect") /\ UNCHANGED callVars
  /\ UNCHANGED <<call, context>>

\* The collector returns: true says the call has its results.
Collected(r) ==
  /\ delivery[r].pc = "collect"
  /\ \/ completed' = TRUE /\ Close
     \/ UNCHANGED callVars
  /\ gate' = None /\ DeliveryAt(r, "over")
  /\ UNCHANGED <<call, context>>

\* What is fair: Tokio polls what is woken, its mutex is fair, collectors return.
CallStep == Emitted \/ Wake \/ Return
ResultStep(r) == Deliver(r) \/ Collected(r)

Next ==
  \/ Cancel \/ Consume \/ CallStep \/ Abandon
  \/ \E r \in Payload : Give(r) \/ ResultStep(r)

Spec == Init /\ [][Next]_vars
-----------------------------------------------------------------------------
(* Properties.                                                             *)

\* One collector of a call runs at a time, and none once consume has returned;
\* consume says Ok exactly when some collector had what it needs, also one that
\* was still running when the context was cancelled.
CollectorOwned ==
  /\ \A r, q \in Payload : delivery[r].pc = "collect" /\ delivery[q].pc = "collect" => r = q
  /\ call \in {"ok", "cancelled"} =>
       /\ \A r \in Payload : delivery[r].pc # "collect"
       /\ call = "ok" <=> completed

\* consume returns once its collector is satisfied or its context cancelled.
SubStreamReturns == done \/ (context /\ call \in {"emit", "wait"}) ~> call \in {"ok", "cancelled", "abandoned"}
=============================================================================
