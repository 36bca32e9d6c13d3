------------------------------ MODULE MCSinks -------------------------------
(* The sinks and the callable substream, for TLC: each behaviour is one of *)
(* one of them, chosen in the initial state.                               *)
EXTENDS Naturals

CONSTANTS None, Caller, MaxCells, MaxStops

ASSUME SinksAssumption ==
  MaxCells \in Nat /\ None \notin Caller \cup (1..MaxCells)

VARIABLES part,
          pending, cell, session, caller,
          pc, result, guard, body, reader,
          state, producer, enabled, request, task, stop,
          call, context, callback, done, completed, gate, delivery

S == INSTANCE SinkSession WITH kind <- part
R == INSTANCE SinkRequest WITH kind <- part
K == INSTANCE KafkaSink WITH kind <- part, Request <- Caller
B == INSTANCE SubStream WITH Payload <- Caller

sessionVars == <<pending, cell, session, caller>>
requestVars == <<pc, result, guard, body, reader>>
kafkaVars == <<state, producer, enabled, request, task, stop>>
subVars == <<call, context, callback, done, completed, gate, delivery>>
sinkVars == <<part, sessionVars, requestVars, kafkaVars, subVars>>

SinksInit ==
  /\ part \in S!Kinds \cup R!Kinds \cup K!Kinds \cup {"substream"}
  /\ S!InitState /\ R!InitState /\ K!InitState /\ B!Init

\* A step of one part is one of the whole.
OfSession(A) == A /\ UNCHANGED <<part, requestVars, kafkaVars, subVars>>
OfRequest(A) == A /\ UNCHANGED <<part, sessionVars, kafkaVars, subVars>>
OfKafka(A) == A /\ UNCHANGED <<part, sessionVars, requestVars, subVars>>
OfSub(A) == A /\ UNCHANGED <<part, sessionVars, requestVars, kafkaVars>>

SinksNext ==
  \/ part \in S!Kinds /\ OfSession(S!Next)
  \/ part \in R!Kinds /\ OfRequest(R!Next)
  \/ part \in K!Kinds /\ OfKafka(K!Next)
  \/ part = "substream" /\ OfSub(B!Next)

\* A behaviour is one of one part, and the steps of the others are never enabled
\* in it: a condition on the steps of several parts is one on each of them.
SinksFairness ==
  /\ \A p \in Caller :
       /\ SF_sinkVars(OfSession(S!CallerStep(p)) \/ OfKafka(K!EndRequest(p)) \/ OfSub(B!ResultStep(p)))
       /\ WF_sinkVars(OfKafka(K!TaskStep(p)))
  /\ \A c \in S!Cell :
       /\ SF_sinkVars(OfSession(S!TaskStep(c))) /\ SF_sinkVars(OfSession(S!ClosedByPeer(c)))
       /\ WF_sinkVars(OfSession(S!CloseSend(c)))
  /\ WF_sinkVars(OfRequest(R!PollRead) \/ OfKafka(K!StopStep))
  /\ SF_sinkVars(OfSub(B!CallStep))

SinksSpec == SinksInit /\ [][SinksNext]_sinkVars /\ SinksFairness

\* The id belongs to one cell from its creation to the return of end_request
\* (bidistreaming.rs, clientstreaming.rs), and no consume_message runs once the
\* session's last callbacks have begun.
SessionExclusive == S!SessionOwnsId /\ S!SessionDrained

\* The body of an HTTP response is open to its request's callbacks and closed
\* when consume is over (reqwest.rs).
BodyClosed == R!BodyClosed

\* The first stop of a Kafka sink, when it returns Ok, leaves nothing to deliver or
\* collect of the requests that were over when it was called (rdkafka.rs).
SinkStopDrains == K!SinkStopDrains

\* One collector of a substream's call runs at a time, none after the call.
CollectorOwned == B!CollectorOwned

\* Every consume of a session returns, and a session whose caller is done, or
\* whose context is cancelled, ends and frees its id.  So does every task that
\* reads an HTTP body, every stop of the Kafka sink and every call of a substream.
SinkCallsReturn ==
  /\ S!ConsumeReturns /\ S!SessionsEnd
  /\ R!ReaderReturns
  /\ K!StopReturns
  /\ B!SubStreamReturns
=============================================================================
