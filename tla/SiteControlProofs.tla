-------------------------- MODULE SiteControlProofs --------------------------
(***************************************************************************)
(* Proofs about the control plane of the site connector, for every set of  *)
(* targets, every resend period, heartbeat period and tick, and every      *)
(* bound.  The inductive invariant is the conjunction of the type          *)
(* invariant and the two invariants the model checker examines: that the   *)
(* data plane follows the state is needed to know there is none before a   *)
(* session starts, and the armed timer needs the type of its value.        *)
(***************************************************************************)
EXTENDS SiteControl, SequenceTheorems, TLAPS

Inv == TypeOK /\ DataPlaneMatchesState /\ RetryIsArmed

LEMMA InitInv == Init => Inv
  BY TimingAssumption, BoundAssumption
  DEF Init, Inv, TypeOK, DataPlaneMatchesState, RetryIsArmed, Versions

\* The message at the head of a queue has the type of its queue.
LEMMA HeadIsMessage ==
  ASSUME TypeOK, toClient # <<>>
  PROVE  /\ Message \in Messages /\ Tail(toClient) \in Seq(Messages)
         /\ Message.typ # "ping/exitNodes" => Message.items \in SUBSET Targets
         /\ Message.ver \in Versions \cup {None}
  <1>1. Message \in Messages /\ Tail(toClient) \in Seq(Messages)
    BY DEF TypeOK, Message
  <1> QED
    BY <1>1 DEF Messages

LEMMA RequestType == \A typ \in {"ping/request", "wg/register", "ping"} :
                       Request(typ) \in Requests
  BY DEF Request, Requests

\* What a message leaves in the queue and in config_version is well typed.
LEMMA AdoptTypes ==
  ASSUME TypeOK, toClient # <<>>, Adopt
  PROVE  /\ toClient' \in Seq(Messages) /\ config_version' \in Versions \cup {None}
         /\ ping_ticks' \in 0 .. HEARTBEAT_TICKS - 1
  BY HeadIsMessage DEF Adopt, TypeOK

\* The end of a session restores the invariant whatever the session did.
LEMMA SessionEndsInv ==
  ASSUME Inv, SessionEnds, UNCHANGED server, faults' \in 0 .. MaxFaults,
         state' \in {"Disconnected", "RequestingExitNodes", "Registering",
                     "Connected", "Stopped"}, resend_due_ms' \in Nat
  PROVE  Inv'
  <1>1. TypeOK'
    BY TimingAssumption DEF Inv, TypeOK, SessionEnds, server
  <1> QED
    BY <1>1 DEF Inv, DataPlaneMatchesState, RetryIsArmed, SessionEnds

LEMMA FaultType == ASSUME TypeOK, Fault PROVE faults' \in 0 .. MaxFaults
  BY BoundAssumption DEF TypeOK, Fault
-------------------------------------------------------------------------------
LEMMA ConnectInv == ASSUME Inv, Connect PROVE Inv'
  <1>1. toServer' \in Seq(Requests)
    BY RequestType DEF Connect
  <1>2. TypeOK'
    BY <1>1, TimingAssumption DEF Inv, TypeOK, Connect, session, server
  <1> QED
    BY <1>2, TimingAssumption
    DEF Inv, DataPlaneMatchesState, RetryIsArmed, Connect, session

LEMMA RestartInv == ASSUME Inv, Restart PROVE Inv'
  <1>1. TypeOK'
    BY DEF Inv, TypeOK, Restart, session, server
  <1> QED
    BY <1>1 DEF Inv, DataPlaneMatchesState, RetryIsArmed, Restart, session

LEMMA EndsByFaultInv == ASSUME Inv, ConnectFails \/ SessionFails PROVE Inv'
  <1>1. Fault /\ SessionEnds /\ UNCHANGED <<sm, server>>
    BY DEF ConnectFails, SessionFails
  <1>2. /\ faults' \in 0 .. MaxFaults /\ resend_due_ms' \in Nat
        /\ state' \in {"Disconnected", "RequestingExitNodes", "Registering",
                       "Connected", "Stopped"}
    BY <1>1, FaultType DEF Inv, TypeOK, sm
  <1> QED
    BY <1>1, <1>2, SessionEndsInv

LEMMA GotExitNodesInv == ASSUME Inv, GotExitNodes PROVE Inv'
  <1>1. toClient # <<>> /\ Adopt /\ phase = "running"
    BY DEF GotExitNodes, Receives
  <1>2. CASE UNCHANGED <<sm, toServer>>
    <2>1. TypeOK'
      BY <1>1, <1>2, AdoptTypes DEF Inv, TypeOK, GotExitNodes, sm, server
    <2> QED
      BY <1>2, <2>1 DEF Inv, DataPlaneMatchesState, RetryIsArmed, GotExitNodes, sm
  <1>3. CASE /\ state = "RequestingExitNodes" /\ state' = "Registering"
             /\ resend_due_ms' = REGISTER_RESEND_MS
             /\ toServer' = Append(toServer, Request("wg/register"))
    <2>1. toServer' \in Seq(Requests)
      BY <1>3, RequestType DEF Inv, TypeOK
    <2>2. TypeOK'
      BY <1>1, <1>3, <2>1, AdoptTypes, TimingAssumption
      DEF Inv, TypeOK, GotExitNodes, server
    <2> QED
      BY <1>3, <2>2, TimingAssumption
      DEF Inv, DataPlaneMatchesState, RetryIsArmed, GotExitNodes
  <1> QED
    BY <1>2, <1>3 DEF GotExitNodes

LEMMA GotWgConnectInv == ASSUME Inv, GotWgConnect PROVE Inv'
  <1>1. /\ toClient # <<>> /\ phase = "running" /\ Message.typ = "wg/connect"
        /\ state' = "Connected" /\ resend_due_ms' = 0 /\ UNCHANGED server
    BY DEF GotWgConnect, Receives, Message
  <1>2. CASE Adopt /\ data' = Message.items /\ UNCHANGED <<phase, toServer, faults>>
    <2>1. data' \in SUBSET Targets /\ data' # None
      BY <1>1, <1>2, HeadIsMessage, NoneAssumption DEF Inv
    <2>2. TypeOK'
      BY <1>1, <1>2, <2>1, AdoptTypes DEF Inv, TypeOK, server
    <2> QED
      BY <1>1, <1>2, <2>1, <2>2 DEF Inv, DataPlaneMatchesState, RetryIsArmed
  <1>3. CASE Fault /\ SessionEnds
    BY <1>1, <1>3, FaultType, SessionEndsInv DEF Inv
  <1> QED
    BY <1>2, <1>3 DEF GotWgConnect

LEMMA GotReconnectInv == ASSUME Inv, GotReconnect PROVE Inv'
  <1>1. toClient # <<>> /\ Adopt /\ phase = "running" /\ phase' = "running"
    BY DEF GotReconnect, Receives
  <1>2. toServer' \in Seq(Requests)
    BY RequestType DEF Inv, TypeOK, GotReconnect
  <1>3. data' = None
    BY <1>1 DEF Inv, DataPlaneMatchesState, GotReconnect
  <1>4. TypeOK'
    BY <1>1, <1>2, <1>3, AdoptTypes, TimingAssumption DEF Inv, TypeOK, GotReconnect, server
  <1> QED
    BY <1>1, <1>3, <1>4, TimingAssumption
    DEF Inv, DataPlaneMatchesState, RetryIsArmed, GotReconnect

LEMMA GotTerminateInv == ASSUME Inv, GotTerminate PROVE Inv'
  BY SessionEndsInv DEF Inv, TypeOK, GotTerminate

LEMMA GotTargetsInv == ASSUME Inv, GotTargets PROVE Inv'
  <1>1. /\ toClient # <<>> /\ Adopt /\ Message.typ \in {"tcp/add", "tcp/remove", "sync"}
        /\ UNCHANGED <<phase, sm, toServer, server, faults>>
    BY DEF GotTargets, Receives, Message
  <1>2. Message.items \in SUBSET Targets
    BY <1>1, HeadIsMessage DEF Inv
  <1>3. data' \in (SUBSET Targets) \cup {None} /\ (data' = None <=> data = None)
    <2>1. CASE data = None
      BY <2>1 DEF GotTargets
    <2>2. CASE data # None
      <3>1. data' \in SUBSET Targets
        BY <1>1, <1>2, <2>2 DEF Inv, TypeOK, GotTargets
      <3> QED
        BY <2>2, <3>1, NoneAssumption
    <2> QED
      BY <2>1, <2>2
  <1>4. TypeOK'
    BY <1>1, <1>3, AdoptTypes DEF Inv, TypeOK, sm, server
  <1> QED
    BY <1>1, <1>3, <1>4 DEF Inv, DataPlaneMatchesState, RetryIsArmed, sm

LEMMA TickInv == ASSUME Inv, Tick PROVE Inv'
  <1>1. /\ phase = "running" /\ resend_due_ms' = ResendDue
        /\ UNCHANGED <<phase, state, data, config_version, toClient, server, faults>>
    BY DEF Tick
  <1>2. Resend \in Seq(Requests)
    <2>1. \A typ \in {"ping/request", "wg/register"} : <<Request(typ)>> \in Seq(Requests)
      BY RequestType
    <2>2. <<>> \in Seq(Requests)
      OBVIOUS
    <2> QED
      BY <2>1, <2>2 DEF Resend
  <1>3. toServer' \in Seq(Requests)
    <2>1. <<Heartbeat>> \in Seq(Requests)
      BY DEF Inv, TypeOK, Heartbeat, Requests
    <2>2. toServer \in Seq(Requests)
      BY DEF Inv, TypeOK
    <2>3. toServer \o Resend \in Seq(Requests)
      BY <1>2, <2>2
    <2>4. (toServer \o Resend) \o <<Heartbeat>> \in Seq(Requests)
      BY <2>1, <2>3
    <2> QED
      BY <2>3, <2>4 DEF Tick
  <1>4. ping_ticks' \in 0 .. HEARTBEAT_TICKS - 1
    BY TimingAssumption DEF Inv, TypeOK, Tick
  <1>5. resend_due_ms \in Nat /\ TICK_MS \in Nat \ {0}
    BY TimingAssumption DEF Inv, TypeOK
  <1>6. RetryIsArmed' /\ resend_due_ms' \in Nat
    BY <1>1, <1>5, TimingAssumption DEF Inv, RetryIsArmed, ResendDue
  <1>7. TypeOK'
    BY <1>1, <1>3, <1>4, <1>6 DEF Inv, TypeOK, server
  <1> QED
    BY <1>1, <1>6, <1>7 DEF Inv, DataPlaneMatchesState

\* The server touches the queues, its configuration and the fault counter.
LEMMA ServerInv == ASSUME Inv, Server PROVE Inv'
  <1>1. UNCHANGED <<phase, sm, session>>
    BY DEF Server, AnswersPing, AnswersRegister, Answers, AnswersHeartbeat,
           ServerIgnores, ServerChanges, ServerInterrupts
  <1>2. toServer' \in Seq(Requests)
    <2>1. UNCHANGED toServer \/ (toServer # <<>> /\ toServer' = Tail(toServer))
      BY DEF Server, AnswersPing, AnswersRegister, Answers, AnswersHeartbeat,
             ServerIgnores, ServerChanges, ServerInterrupts
    <2>2. toServer \in Seq(Requests)
      BY DEF Inv, TypeOK
    <2>3. toServer # <<>> => Tail(toServer) \in Seq(Requests)
      BY <2>2
    <2> QED
      BY <2>1, <2>2, <2>3
  <1>3. faults' \in 0 .. MaxFaults
    <2>1. UNCHANGED faults \/ Fault
      BY DEF Server, AnswersPing, AnswersRegister, Answers, AnswersHeartbeat,
             ServerIgnores, ServerChanges, ServerInterrupts
    <2> QED
      BY <2>1, FaultType DEF Inv, TypeOK
  <1>4. targets' \in SUBSET Targets /\ version' \in Versions
    <2>1. UNCHANGED server \/ \E t \in Targets : ServerChanges(t)
      BY DEF Server, AnswersPing, AnswersRegister, Answers, AnswersHeartbeat,
             ServerIgnores, ServerInterrupts
    <2>2. CASE UNCHANGED server
      BY <2>2 DEF Inv, TypeOK, server
    <2>3. ASSUME NEW t \in Targets, ServerChanges(t)
          PROVE  targets' \in SUBSET Targets /\ version' \in Versions
      BY <2>3, BoundAssumption DEF Inv, TypeOK, ServerChanges, Versions
    <2> QED
      BY <2>1, <2>2, <2>3
  <1>5. ASSUME NEW m \in Messages, Pushes(m) PROVE toClient' \in Seq(Messages)
    BY <1>5 DEF Inv, TypeOK, Pushes
  <1>6. toClient' \in Seq(Messages)
    <2>1. \A typ \in {"wg/connect", "sync"} : Full(typ) \in Messages
      BY DEF Inv, TypeOK, Full, Messages
    <2>2. Listing("ping/exitNodes", ExitNodes) \in Messages
      BY DEF Listing, Messages
    <2>3. Listing("ping/exitNodes", {}) \in Messages
      BY DEF Listing, Messages
    <2>4. \A typ \in {"wg/reconnect", "wg/terminate"} : Listing(typ, {}) \in Messages
      BY DEF Listing, Messages
    <2>5. CASE AnswersPing
      BY <1>5, <2>2, <2>5 DEF AnswersPing, Answers
    <2>6. CASE AnswersRegister
      BY <1>5, <2>1, <2>6 DEF AnswersRegister, Answers
    <2>7. CASE AnswersHeartbeat
      BY <1>5, <2>1, <2>7 DEF AnswersHeartbeat, Inv, TypeOK
    <2>8. CASE ServerIgnores
      BY <1>5, <2>3, <2>8 DEF ServerIgnores, Inv, TypeOK
    <2>9. ASSUME NEW t \in Targets, ServerChanges(t) PROVE toClient' \in Seq(Messages)
      <3>1. [typ |-> IF t \in targets THEN "tcp/remove" ELSE "tcp/add",
             items |-> {t}, ver |-> version + 1] \in Messages
        BY <2>9, BoundAssumption DEF ServerChanges, Inv, TypeOK, Messages, Versions
      <3> QED
        BY <1>5, <2>9, <3>1 DEF ServerChanges, Inv, TypeOK
    <2>10. CASE ServerInterrupts("wg/reconnect") \/ ServerInterrupts("wg/terminate")
      BY <1>5, <2>4, <2>10 DEF ServerInterrupts
    <2> QED
      BY <2>5, <2>6, <2>7, <2>8, <2>9, <2>10 DEF Server
  <1>7. TypeOK'
    BY <1>1, <1>2, <1>3, <1>4, <1>6 DEF Inv, TypeOK, sm, session
  <1> QED
    BY <1>1, <1>7 DEF Inv, DataPlaneMatchesState, RetryIsArmed, sm, session

LEMMA NextInv == Inv /\ [Next]_vars => Inv'
  <1> SUFFICES ASSUME Inv, [Next]_vars PROVE Inv'
    OBVIOUS
  <1>1. CASE UNCHANGED vars
    BY <1>1 DEF vars, sm, session, server, Inv, TypeOK, DataPlaneMatchesState, RetryIsArmed
  <1>2. CASE Next
    BY <1>2, ConnectInv, RestartInv, EndsByFaultInv, GotExitNodesInv, GotWgConnectInv,
       GotReconnectInv, GotTerminateInv, GotTargetsInv, TickInv, ServerInv
    DEF Next, Receive
  <1> QED
    BY <1>1, <1>2

THEOREM Invariance == Spec => []Inv
  BY InitInv, NextInv, PTL DEF Spec

\* The variables of the control plane keep their types.
THEOREM TypeCorrect == Spec => []TypeOK
  <1>1. Inv => TypeOK
    BY DEF Inv
  <1> QED
    BY <1>1, Invariance, PTL

\* The data plane is up exactly while the state machine is Connected.
THEOREM DataPlaneFollowsState == Spec => []DataPlaneMatchesState
  <1>1. Inv => DataPlaneMatchesState
    BY DEF Inv
  <1> QED
    BY <1>1, Invariance, PTL

\* A client that waits for an answer always has its resend timer armed.
THEOREM NeverWaitsWithoutRetry == Spec => []RetryIsArmed
  <1>1. Inv => RetryIsArmed
    BY DEF Inv
  <1> QED
    BY <1>1, Invariance, PTL
===============================================================================
