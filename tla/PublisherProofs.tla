--------------------------- MODULE PublisherProofs ---------------------------
(***************************************************************************)
(* Proofs about Publisher, for every number of symbols, events, addresses  *)
(* and descriptors, and every socket configuration.                        *)
(***************************************************************************)
EXTENDS Publisher, TLAPS

\* What Append and Tail do to a sequence.
LEMMA AppendFacts ==
  ASSUME NEW S, NEW q \in Seq(S), NEW e \in S
  PROVE  /\ Append(q, e) \in Seq(S) /\ Len(Append(q, e)) = Len(q) + 1
         /\ DOMAIN Append(q, e) = 1 .. Len(q) + 1 /\ DOMAIN q = 1 .. Len(q)
         /\ Len(q) \in Nat
         /\ \A i \in 1 .. Len(q) : Append(q, e)[i] = q[i]
         /\ Append(q, e)[Len(q) + 1] = e
         /\ SubSeq(Append(q, e), 1, Len(q)) = q
OBVIOUS

LEMMA TailFacts ==
  ASSUME NEW S, NEW q \in Seq(S), q # << >>
  PROVE  /\ Head(q) \in S /\ Tail(q) \in Seq(S)
         /\ Len(q) \in Nat \ {0} /\ Len(Tail(q)) = Len(q) - 1
         /\ Head(q) = q[1] /\ DOMAIN q = 1 .. Len(q)
         /\ DOMAIN Tail(q) = 1 .. Len(q) - 1
         /\ \A i \in 1 .. Len(q) - 1 : Tail(q)[i] = q[i + 1]
OBVIOUS

\* -1 is no descriptor.
LEMMA NoneIsNone == None \notin Descriptors /\ None # 0
BY DescriptorsAssumption DEF None

\* The steps, by what they touch.
MainOnly ==
  \/ Register \/ SetRunning \/ LeaveLoop \/ CallStop \/ Destroy \/ EnterStop \/ Join \/ Return
BuilderCalls ==
  StartBuilder \/ BuilderStarted \/ StopBuilder \/ BuilderStopped
Ending == SpawnFails \/ Rethrow \/ DestroyJoinable \/ Received \/ BuilderThrows

LEMMA Steps ==
  ASSUME [Next]_vars
  PROVE  \/ MainOnly \/ BuilderCalls \/ Terminate \/ Spawn \/ DestroyMembers
         \/ Create \/ StartedServer \/ Loop \/ Dequeue \/ NotDequeued \/ Encode \/ EncodeFails
         \/ SendAndReceive \/ Count \/ Signal \/ Publish \/ UNCHANGED vars
<1>1. Ending => Terminate
  BY DEF Ending, SpawnFails, Rethrow, DestroyJoinable, Received, BuilderThrows
<1> QED
  BY <1>1 DEF Next, StartStep, OwnerStep, StopStep, BuilderStep, RunStep, MainOnly, BuilderCalls,
              Ending

\* The inductive invariant holds before start().
LEMMA PubInvInit == Init => PubInv
<1> SUFFICES ASSUME Init PROVE PubInv
  OBVIOUS
<1>1. << >> \in Seq(Nat) /\ DOMAIN << >> = {} /\ Len(<< >>) = 0
  OBVIOUS
<1>2. 0 \in 0 .. MaxCandidates
  BY MaxCandidatesAssumption
<1>3. TypeOK
  <2>1. << >> \in Seq(Events) /\ (CHOOSE s \in Symbols : TRUE) \in Symbols
    BY SymbolsAssumption
  <2>2. data_event \in Events /\ buffer \in [Symbols -> Seq(Nat)]
    BY <1>1, <2>1 DEF Init, Events, Event
  <2> QED
    BY <1>1, <1>2, <2>1, <2>2
       DEF Init, ServerInit, TypeOK, ServerTypeOK, MainStates, ServerStates
<1>4. PhaseInv /\ OwnerInv /\ SocketInv /\ ClosedInv
  BY DEF Init, ServerInit, PhaseInv, OwnerInv, SocketInv, ClosedInv, NoDescriptorLost
<1>5. QueueInv /\ StreamInv
  BY <1>1 DEF Init, ServerInit, QueueInv, StreamInv, Stream!Increasing, Offered
<1>6. TakenInv
  BY <1>1, SymbolsAssumption DEF Init, TakenInv, Offered, Event
<1> QED
  BY <1>3, <1>4, <1>5, <1>6 DEF PubInv

------------------------------------------------------------------------------
(* Every step keeps the invariant. *)

LEMMA TypeNext == TypeOK /\ [Next]_vars => TypeOK'
<1> SUFFICES ASSUME TypeOK, [Next]_vars PROVE TypeOK'
  OBVIOUS
<1> USE DEF TypeOK, ServerTypeOK, MainStates, ServerStates, AtMain, At, MainTo, ServerTo,
            ownerVars, builderVars, runVars, serverVars, socketVars
<1>1. CASE MainOnly
  <2>1. UNCHANGED <<alive, spc, serverVars, builderVars, runVars, signalled>>
    BY <1>1 DEF MainOnly, Register, SetRunning, LeaveLoop, CallStop, Destroy, EnterStop, Join,
                Return
  <2>2. /\ main' \in MainStates /\ caller' \in {"program", "owner", "destructor"}
        /\ is_running' \in BOOLEAN /\ server_thread' \in {"none", "joinable", "joined"}
    <3>1. CASE Register \/ SetRunning \/ LeaveLoop
      BY <1>1, <3>1 DEF Register, SetRunning, LeaveLoop
    <3>2. CASE CallStop
      BY <1>1, <3>2 DEF CallStop
    <3>3. CASE Destroy \/ Return
      BY <1>1, <3>3 DEF Destroy, Return
    <3>4. CASE EnterStop \/ Join
      BY <1>1, <3>4 DEF EnterStop, Join
    <3> QED
      BY <1>1, <3>1, <3>2, <3>3, <3>4 DEF MainOnly
  <2> QED
    BY <2>1, <2>2
<1>2. CASE BuilderCalls
  <2>1. /\ phase' \in {"new", "starting", "threw", "running", "stopping", "stopped"}
        /\ main' \in MainStates
    BY <1>2 DEF BuilderCalls, StartBuilder, BuilderStarted, StopBuilder, BuilderStopped
  <2>2. UNCHANGED <<alive, spc, serverVars, runVars, produced, buffer, signalled, caller,
                    is_running, server_thread>>
    BY <1>2 DEF BuilderCalls, StartBuilder, BuilderStarted, StopBuilder, BuilderStopped
  <2> QED
    BY <2>1, <2>2
<1>3. CASE Terminate
  <2>1. alive' \in BOOLEAN
    BY <1>3 DEF Terminate
  <2>2. UNCHANGED <<spc, serverVars, ownerVars, builderVars, runVars>>
    BY <1>3 DEF Terminate
  <2> QED
    BY <2>1, <2>2
<1>4. CASE Spawn
  BY <1>4 DEF Spawn
<1>5. CASE DestroyMembers
  BY <1>5 DEF DestroyMembers, CloseSocket
<1>6. CASE Create
  <2>1. UNCHANGED <<alive, config, wire, ownerVars, builderVars, runVars>>
    BY <1>6 DEF Create, CreateSocket, NoAddress, Resolve, SocketFails, Unusable, Usable,
                NoSocket, Configure, ConfigureFails
  <2>2. /\ spc' \in ServerStates
        /\ socket_fd' \in Descriptors \cup {None} /\ sockfd' \in Descriptors \cup {None}
        /\ open' \subseteq Descriptors
    BY <1>6 DEF Create, CreateSocket, NoAddress, Resolve, SocketFails, Unusable, Usable,
                NoSocket, Configure, ConfigureFails, Chosen
  <2>3. left' \in 0 .. MaxCandidates
    BY <1>6, MaxCandidatesAssumption
       DEF Create, CreateSocket, NoAddress, Resolve, SocketFails, Unusable, Usable,
           NoSocket, Configure, ConfigureFails, Chosen, Candidate
  <2> QED
    BY <2>1, <2>2, <2>3
<1>7. CASE StartedServer
  <2>1. is_running' \in BOOLEAN
    BY <1>7 DEF StartedServer
  <2>2. spc' \in ServerStates
    BY <1>7 DEF StartedServer
  <2>3. UNCHANGED <<alive, serverVars, builderVars, runVars, main, caller, signalled,
                    server_thread>>
    BY <1>7 DEF StartedServer
  <2> QED
    BY <2>1, <2>2, <2>3
<1>8. CASE Loop \/ NotDequeued
  BY <1>8 DEF Loop, NotDequeued
<1>9. CASE Dequeue
  <2>1. PICK s \in Symbols :
           /\ buffer[s] # << >> /\ data_event' = Event(s, Head(buffer[s]))
           /\ buffer' = [buffer EXCEPT ![s] = Tail(@)]
    BY <1>9 DEF Dequeue
  <2>2. Head(buffer[s]) \in Nat /\ Tail(buffer[s]) \in Seq(Nat)
    BY <2>1, TailFacts
  <2>3. data_event' \in Events /\ buffer' \in [Symbols -> Seq(Nat)]
    BY <2>1, <2>2 DEF Event, Events
  <2> QED
    BY <1>9, <2>3 DEF Dequeue
<1>10. CASE Encode \/ EncodeFails
  <2>1. CASE Encode
    BY <2>1 DEF Encode
  <2>2. CASE EncodeFails
    <3>1. dropped \cup {data_event} \subseteq Events
      OBVIOUS
    <3> QED
      BY <2>2, <3>1 DEF EncodeFails
  <2> QED
    BY <1>10, <2>1, <2>2
<1>11. CASE SendAndReceive
  <2>1. Append(offered, data_event) \in Seq(Events)
    BY AppendFacts
  <2> QED
    BY <1>11, <2>1 DEF SendAndReceive
<1>12. CASE Count
  BY <1>12 DEF Count
<1>13. CASE Signal
  <2>1. /\ is_running' \in BOOLEAN /\ signalled' \in BOOLEAN /\ alive' \in BOOLEAN
        /\ UNCHANGED <<spc, serverVars, builderVars, runVars, main, caller, server_thread>>
    <3>1. CASE main = "register"
      BY <1>13, <3>1 DEF Signal, Terminate
    <3>2. CASE main # "register"
      BY <1>13, <3>2 DEF Signal
    <3> QED
      BY <3>1, <3>2
  <2> QED
    BY <2>1
<1>14. CASE Publish
  <2>1. /\ produced + 1 \in Nat
        /\ \A s \in Symbols : Append(buffer[s], produced + 1) \in Seq(Nat)
    BY AppendFacts
  <2>2. buffer' \in [Symbols -> Seq(Nat)]
    BY <1>14, <2>1 DEF Publish
  <2> QED
    BY <1>14, <2>1, <2>2 DEF Publish
<1>15. CASE UNCHANGED vars
  BY <1>15 DEF vars
<1> QED
  BY <1>1, <1>2, <1>3, <1>4, <1>5, <1>6, <1>7, <1>8, <1>9, <1>10, <1>11, <1>12, <1>13, <1>14,
     <1>15, Steps

\* The steps of the server thread leave the owner and the builder alone, but for
\* the flag a start with descriptor 0 clears.
LEMMA RunKeeps ==
  ASSUME \/ Create \/ StartedServer \/ Loop \/ Dequeue \/ NotDequeued \/ Encode \/ EncodeFails
         \/ SendAndReceive \/ Count
  PROVE  /\ UNCHANGED <<main, caller, server_thread, phase>>
         /\ (is_running' => is_running)
         /\ spc' # "none" /\ spc # "returned" /\ spc # "none"
<1> USE DEF At, ServerTo, ownerVars, builderVars
<1>1. CASE Create
  BY <1>1 DEF Create, CreateSocket, NoAddress, Resolve, SocketFails, Unusable, Usable, NoSocket,
              Configure, ConfigureFails
<1>2. CASE StartedServer
  <2>1. is_running' => is_running
    BY <1>2 DEF StartedServer
  <2>2. UNCHANGED <<main, caller, server_thread, phase>> /\ spc' # "none" /\ spc = "started"
    BY <1>2 DEF StartedServer
  <2> QED
    BY <2>1, <2>2
<1>3. CASE Loop \/ Dequeue \/ NotDequeued \/ Encode \/ EncodeFails \/ SendAndReceive \/ Count
  BY <1>3 DEF Loop, Dequeue, NotDequeued, Encode, EncodeFails, SendAndReceive, Count
<1> QED
  BY <1>1, <1>2, <1>3

LEMMA PhaseNext == PhaseInv /\ OwnerInv /\ TypeOK /\ [Next]_vars => PhaseInv'
<1> SUFFICES ASSUME PhaseInv, OwnerInv, TypeOK, [Next]_vars PROVE PhaseInv'
  OBVIOUS
<1>0. main \in MainStates
  BY DEF TypeOK
<1> USE DEF PhaseInv, MainStates, AtMain, MainTo, ownerVars, builderVars
<1>1. CASE MainOnly
  <2>1. CASE Register \/ SetRunning \/ LeaveLoop \/ CallStop
    BY <1>0, <2>1 DEF Register, SetRunning, LeaveLoop, CallStop
  <2>2. CASE Destroy
    BY <1>0, <2>2 DEF Destroy
  <2>3. CASE EnterStop
    BY <1>0, <2>3 DEF EnterStop
  <2>4. CASE Join
    BY <1>0, <2>4 DEF Join
  <2>5. CASE Return
    BY <1>0, <2>5 DEF Return, OwnerInv
  <2> QED
    BY <1>1, <2>1, <2>2, <2>3, <2>4, <2>5 DEF MainOnly
<1>2. CASE BuilderCalls
  <2>1. CASE StartBuilder \/ BuilderStarted
    BY <1>0, <2>1 DEF StartBuilder, BuilderStarted
  <2>2. CASE StopBuilder \/ BuilderStopped
    BY <1>0, <2>2 DEF StopBuilder, BuilderStopped
  <2> QED
    BY <1>2, <2>1, <2>2 DEF BuilderCalls
<1>3. CASE Terminate
  BY <1>3 DEF Terminate
<1>4. CASE Spawn \/ DestroyMembers
  BY <1>0, <1>4 DEF Spawn, DestroyMembers
<1>5. CASE \/ Create \/ StartedServer \/ Loop \/ Dequeue \/ NotDequeued \/ Encode
           \/ EncodeFails \/ SendAndReceive \/ Count
  <2>1. UNCHANGED <<main, phase>> /\ (is_running' => is_running)
    BY <1>5, RunKeeps
  <2> QED
    BY <2>1
<1>6. CASE Signal
  BY <1>0, <1>6 DEF Signal, Terminate
<1>7. CASE Publish
  BY <1>7 DEF Publish
<1>8. CASE UNCHANGED vars
  BY <1>8 DEF vars
<1> QED
  BY <1>1, <1>2, <1>3, <1>4, <1>5, <1>6, <1>7, <1>8, Steps

LEMMA OwnerNext == OwnerInv /\ PhaseInv /\ TypeOK /\ [Next]_vars => OwnerInv'
<1> SUFFICES ASSUME OwnerInv, PhaseInv, TypeOK, [Next]_vars PROVE OwnerInv'
  OBVIOUS
<1>0. main \in MainStates /\ is_running \in BOOLEAN
  BY DEF TypeOK
<1> USE DEF OwnerInv, MainStates, AtMain, MainTo, ownerVars, builderVars
<1>1. CASE MainOnly
  <2>1. CASE Register \/ SetRunning
    BY <1>0, <2>1 DEF Register, SetRunning, PhaseInv
  <2>2. CASE LeaveLoop \/ CallStop
    BY <1>0, <2>2 DEF LeaveLoop, CallStop, PhaseInv
  <2>3. CASE Destroy
    BY <1>0, <2>3 DEF Destroy
  <2>4. CASE EnterStop
    BY <1>0, <2>4 DEF EnterStop
  <2>5. CASE Join
    BY <1>0, <2>5 DEF Join
  <2>6. CASE Return
    BY <1>0, <2>6 DEF Return
  <2> QED
    BY <1>1, <2>1, <2>2, <2>3, <2>4, <2>5, <2>6 DEF MainOnly
<1>2. CASE BuilderCalls
  <2>1. CASE StartBuilder \/ BuilderStarted
    BY <1>0, <2>1 DEF StartBuilder, BuilderStarted, PhaseInv
  <2>2. CASE StopBuilder \/ BuilderStopped
    BY <1>0, <2>2 DEF StopBuilder, BuilderStopped, PhaseInv
  <2> QED
    BY <1>2, <2>1, <2>2 DEF BuilderCalls
<1>3. CASE Terminate
  BY <1>3 DEF Terminate
<1>4. CASE Spawn \/ DestroyMembers
  BY <1>0, <1>4 DEF Spawn, DestroyMembers
<1>5. CASE \/ Create \/ StartedServer \/ Loop \/ Dequeue \/ NotDequeued \/ Encode
           \/ EncodeFails \/ SendAndReceive \/ Count
  <2>1. /\ UNCHANGED <<main, caller, server_thread, phase>> /\ (is_running' => is_running)
        /\ spc' # "none" /\ spc # "returned" /\ spc # "none"
    BY <1>5, RunKeeps
  <2> QED
    BY <2>1
<1>6. CASE Signal
  BY <1>0, <1>6 DEF Signal, Terminate
<1>7. CASE Publish
  BY <1>7 DEF Publish
<1>8. CASE UNCHANGED vars
  BY <1>8 DEF vars
<1> QED
  BY <1>1, <1>2, <1>3, <1>4, <1>5, <1>6, <1>7, <1>8, Steps

LEMMA SocketNext == SocketInv /\ OwnerInv /\ TypeOK /\ [Next]_vars => SocketInv'
<1> SUFFICES ASSUME SocketInv, OwnerInv, TypeOK, [Next]_vars PROVE SocketInv'
  OBVIOUS
<1>0. /\ left \in Nat /\ open \subseteq Descriptors /\ None \notin Descriptors
      /\ socket_fd \in Descriptors \cup {None} /\ sockfd \in Descriptors \cup {None}
  BY NoneIsNone, MaxCandidatesAssumption DEF TypeOK, ServerTypeOK
<1>1. UNCHANGED <<socketVars, spc>> => SocketInv'
  BY DEF SocketInv, NoDescriptorLost, socketVars
<1> USE DEF serverVars
<1>2. CASE MainOnly \/ BuilderCalls \/ Terminate \/ Signal \/ Publish \/ UNCHANGED vars
  BY <1>1, <1>2
     DEF MainOnly, Register, SetRunning, LeaveLoop, CallStop, Destroy, EnterStop, Join, Return,
         MainTo, BuilderCalls, StartBuilder, BuilderStarted, StopBuilder, BuilderStopped,
         Terminate, Signal, Publish, vars
<1>3. CASE Spawn
  <2>1. spc = "none"
    BY <1>3 DEF OwnerInv, Spawn, AtMain
  <2> QED
    BY <1>3, <2>1 DEF Spawn, SocketInv, NoDescriptorLost, socketVars
<1>4. CASE DestroyMembers
  BY <1>0, <1>4 DEF DestroyMembers, CloseSocket, SocketInv, NoDescriptorLost
<1>5. CASE Create
  <2> USE DEF SocketInv, NoDescriptorLost, At
  <2>1. CASE NoAddress
    BY <1>0, <2>1 DEF NoAddress
  <2>2. CASE Resolve
    BY <1>0, <2>2 DEF Resolve
  <2>3. CASE SocketFails
    BY <1>0, <2>3 DEF SocketFails, Candidate
  <2>4. CASE Unusable
    BY <1>0, <2>4 DEF Unusable, Candidate
  <2>5. CASE Usable
    <3>1. /\ UNCHANGED <<config, socket_fd, spc>> /\ socket_fd = None /\ sockfd = None
          /\ left' = 0 /\ spc = "candidates"
      BY <2>5 DEF Usable, Chosen, Candidate
    <3>2. open' = open \cup {sockfd'}
      BY <2>5 DEF Usable, Chosen
    <3>3. ~config.is_listening /\ ~config.need_so_timestamp => open = {}
      BY <1>0, <3>1
    <3> QED
      BY <3>1, <3>2, <3>3
  <2>6. CASE NoSocket
    BY <1>0, <2>6 DEF NoSocket
  <2>7. CASE Configure \/ ConfigureFails
    BY <1>0, <2>7 DEF Configure, ConfigureFails
  <2> QED
    BY <1>5, <2>1, <2>2, <2>3, <2>4, <2>5, <2>6, <2>7 DEF Create, CreateSocket
<1>6. CASE \/ StartedServer \/ Loop \/ Dequeue \/ NotDequeued \/ Encode \/ EncodeFails
           \/ SendAndReceive \/ Count
  <2>1. /\ UNCHANGED socketVars
        /\ spc \notin {"none", "create", "candidates"} /\ spc' \notin {"none", "create", "candidates"}
    BY <1>6 DEF StartedServer, Loop, Dequeue, NotDequeued, Encode, EncodeFails, SendAndReceive,
                Count, At, ServerTo
  <2> QED
    BY <2>1 DEF SocketInv, NoDescriptorLost, socketVars
<1> QED
  BY <1>2, <1>3, <1>4, <1>5, <1>6, Steps

LEMMA ClosedNext == ClosedInv /\ PhaseInv /\ OwnerInv /\ [Next]_vars => ClosedInv'
<1> SUFFICES ASSUME ClosedInv, PhaseInv, OwnerInv, [Next]_vars PROVE ClosedInv'
  OBVIOUS
<1>1. main = "destroyed" => socket_fd = None /\ spc = "returned"
  BY DEF ClosedInv, PhaseInv, OwnerInv
<1> USE DEF ClosedInv, AtMain, MainTo, serverVars, socketVars, ownerVars
<1>2. CASE MainOnly
  <2>1. main' # "destroyed"
    BY <1>2 DEF MainOnly, Register, SetRunning, LeaveLoop, CallStop, Destroy, EnterStop, Join,
                Return
  <2> QED
    BY <2>1
<1>3. CASE BuilderCalls \/ Spawn
  BY <1>3 DEF BuilderCalls, StartBuilder, BuilderStarted, StopBuilder, BuilderStopped, Spawn
<1>4. CASE DestroyMembers
  BY <1>4 DEF DestroyMembers, CloseSocket
<1>5. CASE \/ Create \/ StartedServer \/ Loop \/ Dequeue \/ NotDequeued \/ Encode
           \/ EncodeFails \/ SendAndReceive \/ Count
  <2>1. main' = main /\ spc # "returned"
    BY <1>5, RunKeeps
  <2> QED
    BY <1>1, <2>1
<1>6. CASE Terminate \/ Signal \/ Publish \/ UNCHANGED vars
  BY <1>1, <1>6 DEF Terminate, Signal, Publish, vars
<1> QED
  BY <1>2, <1>3, <1>4, <1>5, <1>6, Steps

\* Which steps touch the queue, the offered events and the datagram in the making.
LEMMA StreamKept ==
  ASSUME OwnerInv, [Next]_vars, ~Dequeue, ~Encode, ~EncodeFails, ~SendAndReceive, ~Count
  PROVE  /\ UNCHANGED <<outgoing, wire, sequence_id, offered, data_event>>
         /\ Publish \/ UNCHANGED <<produced, buffer>>
         /\ (spc' \in {"encode", "sendto", "count"} \/ spc \in {"encode", "sendto", "count"})
              => spc' = spc
<1> USE DEF serverVars, socketVars, ownerVars, builderVars, runVars
<1>1. CASE MainOnly
  BY <1>1 DEF MainOnly, Register, SetRunning, LeaveLoop, CallStop, Destroy, EnterStop, Join,
              Return, MainTo
<1>2. CASE BuilderCalls \/ Terminate \/ Signal \/ Publish \/ UNCHANGED vars
  BY <1>2 DEF BuilderCalls, StartBuilder, BuilderStarted, StopBuilder, BuilderStopped,
              Terminate, Signal, Publish, vars
<1>3. CASE Spawn \/ DestroyMembers
  BY <1>3 DEF Spawn, DestroyMembers, AtMain, OwnerInv
<1>4. CASE Create \/ StartedServer \/ Loop \/ NotDequeued
  BY <1>4 DEF Create, CreateSocket, NoAddress, Resolve, SocketFails, Unusable, Usable,
              NoSocket, Configure, ConfigureFails, StartedServer, Loop, NotDequeued, At, ServerTo
<1> QED
  BY <1>1, <1>2, <1>3, <1>4, Steps

\* What Dequeue does, by the symbol whose oldest event it takes.
LEMMA Taking ==
  ASSUME TypeOK, Dequeue
  PROVE  \E s \in Symbols :
           /\ data_event' = Event(s, buffer[s][1]) /\ 1 \in DOMAIN buffer[s]
           /\ \A t \in Symbols \ {s} : buffer'[t] = buffer[t]
           /\ \A i \in DOMAIN buffer'[s] :
                /\ i \in Nat \ {0} /\ i + 1 \in DOMAIN buffer[s]
                /\ buffer'[s][i] = buffer[s][i + 1]
           /\ UNCHANGED <<outgoing, wire, produced, sequence_id, offered, dropped>>
           /\ spc = "dequeue" /\ spc' = "encode"
<1>1. PICK s \in Symbols :
         /\ buffer[s] # << >> /\ data_event' = Event(s, Head(buffer[s]))
         /\ buffer' = [buffer EXCEPT ![s] = Tail(@)]
  BY DEF Dequeue
<1>2. buffer \in [Symbols -> Seq(Nat)]
  BY DEF TypeOK
<1>3. buffer'[s] = Tail(buffer[s]) /\ \A t \in Symbols \ {s} : buffer'[t] = buffer[t]
  BY <1>1, <1>2
<1>4. /\ Head(buffer[s]) = buffer[s][1] /\ 1 \in DOMAIN buffer[s]
      /\ \A i \in DOMAIN Tail(buffer[s]) :
           /\ i \in Nat \ {0} /\ i + 1 \in DOMAIN buffer[s]
           /\ Tail(buffer[s])[i] = buffer[s][i + 1]
  BY <1>1, <1>2, TailFacts
<1>5. /\ UNCHANGED <<outgoing, wire, produced, sequence_id, offered, dropped>>
      /\ spc = "dequeue" /\ spc' = "encode"
  BY DEF Dequeue, At, ServerTo, serverVars
<1> QED
  BY <1>1, <1>3, <1>4, <1>5

\* What Publish does, by the symbol of the event.
LEMMA Putting ==
  ASSUME TypeOK, Publish
  PROVE  \E s \in Symbols :
           /\ \A t \in Symbols \ {s} : buffer'[t] = buffer[t]
           /\ DOMAIN buffer[s] = 1 .. Len(buffer[s]) /\ Len(buffer[s]) \in Nat
           /\ DOMAIN buffer'[s] = 1 .. Len(buffer[s]) + 1
           /\ \A i \in DOMAIN buffer[s] : buffer'[s][i] = buffer[s][i]
           /\ buffer'[s][Len(buffer[s]) + 1] = produced + 1
           /\ produced' = produced + 1
           /\ UNCHANGED <<data_event, offered>>
<1>1. PICK s \in Symbols : buffer' = [buffer EXCEPT ![s] = Append(@, produced')]
  BY DEF Publish
<1>2. buffer \in [Symbols -> Seq(Nat)] /\ produced' = produced + 1 /\ produced + 1 \in Nat
  BY DEF TypeOK, Publish
<1>3. /\ buffer'[s] = Append(buffer[s], produced + 1)
      /\ \A t \in Symbols \ {s} : buffer'[t] = buffer[t]
  BY <1>1, <1>2
<1>4. UNCHANGED <<data_event, offered>>
  BY DEF Publish, runVars
<1>5. buffer[s] \in Seq(Nat)
  BY <1>2
<1>6. /\ DOMAIN buffer[s] = 1 .. Len(buffer[s]) /\ Len(buffer[s]) \in Nat
      /\ DOMAIN Append(buffer[s], produced + 1) = 1 .. Len(buffer[s]) + 1
      /\ \A i \in 1 .. Len(buffer[s]) : Append(buffer[s], produced + 1)[i] = buffer[s][i]
      /\ Append(buffer[s], produced + 1)[Len(buffer[s]) + 1] = produced + 1
  BY <1>2, <1>5, AppendFacts
<1> QED
  BY <1>2, <1>3, <1>4, <1>6

LEMMA QueueNext == QueueInv /\ OwnerInv /\ TypeOK /\ [Next]_vars => QueueInv'
<1> SUFFICES ASSUME QueueInv, OwnerInv, TypeOK, [Next]_vars PROVE QueueInv'
  OBVIOUS
<1>0. produced \in Nat /\ \A t \in Symbols : \A i \in DOMAIN buffer[t] : buffer[t][i] \in Nat
  BY DEF TypeOK
<1>1. CASE Dequeue
  <2>1. PICK s \in Symbols :
           /\ \A t \in Symbols \ {s} : buffer'[t] = buffer[t]
           /\ \A i \in DOMAIN buffer'[s] :
                /\ i \in Nat \ {0} /\ i + 1 \in DOMAIN buffer[s]
                /\ buffer'[s][i] = buffer[s][i + 1]
           /\ produced' = produced
    BY <1>1, Taking
  <2>2. /\ \A i, j \in DOMAIN buffer'[s] : i < j => buffer'[s][i] < buffer'[s][j]
        /\ \A i \in DOMAIN buffer'[s] : buffer'[s][i] <= produced'
    <3>1. \A i, j \in DOMAIN buffer'[s] : i < j => i + 1 < j + 1
      BY <2>1
    <3> QED
      BY <2>1, <3>1 DEF QueueInv
  <2> QED
    BY <2>1, <2>2 DEF QueueInv
<1>2. CASE Publish
  <2>1. PICK s \in Symbols :
           /\ \A t \in Symbols \ {s} : buffer'[t] = buffer[t]
           /\ DOMAIN buffer[s] = 1 .. Len(buffer[s]) /\ Len(buffer[s]) \in Nat
           /\ DOMAIN buffer'[s] = 1 .. Len(buffer[s]) + 1
           /\ \A i \in DOMAIN buffer[s] : buffer'[s][i] = buffer[s][i]
           /\ buffer'[s][Len(buffer[s]) + 1] = produced + 1
           /\ produced' = produced + 1
    BY <1>2, Putting
  <2>2. \A t \in Symbols : \A i \in DOMAIN buffer[t] :
          buffer[t][i] <= produced' /\ buffer[t][i] < produced + 1
    <3>1. \A t \in Symbols : \A i \in DOMAIN buffer[t] : buffer[t][i] <= produced
      BY DEF QueueInv
    <3>2. \A n \in Nat : n <= produced => n <= produced + 1 /\ n < produced + 1
      BY <1>0
    <3> QED
      BY <1>0, <2>1, <3>1, <3>2
  <2>3. \A i \in DOMAIN buffer'[s] : i \in DOMAIN buffer[s] \/ i = Len(buffer[s]) + 1
    BY <2>1
  <2>4. \A i \in DOMAIN buffer'[s] : buffer'[s][i] <= produced'
    BY <1>0, <2>1, <2>2, <2>3
  <2>5. ASSUME NEW i \in DOMAIN buffer'[s], NEW j \in DOMAIN buffer'[s], i < j
        PROVE  buffer'[s][i] < buffer'[s][j]
    <3>1. i \in DOMAIN buffer[s]
      BY <2>1, <2>5
    <3>2. CASE j \in DOMAIN buffer[s]
      BY <2>1, <2>5, <3>1, <3>2 DEF QueueInv
    <3>3. CASE j = Len(buffer[s]) + 1
      BY <2>1, <2>2, <3>1, <3>3
    <3> QED
      BY <2>3, <3>2, <3>3
  <2>6. \A t \in Symbols \ {s} : \A i \in DOMAIN buffer'[t] : buffer'[t][i] <= produced'
    BY <2>1, <2>2
  <2>7. \A t \in Symbols \ {s} :
          \A i, j \in DOMAIN buffer'[t] : i < j => buffer'[t][i] < buffer'[t][j]
    BY <2>1 DEF QueueInv
  <2> QED
    BY <2>4, <2>5, <2>6, <2>7 DEF QueueInv
<1>3. CASE UNCHANGED <<produced, buffer>>
  BY <1>3 DEF QueueInv
<1>4. CASE Encode \/ EncodeFails \/ SendAndReceive \/ Count
  BY <1>3, <1>4 DEF Encode, EncodeFails, SendAndReceive, Count, ServerTo, builderVars, runVars
<1> QED
  BY <1>1, <1>2, <1>3, <1>4, StreamKept

\* The events that have been offered are events.
LEMMA OfferedType == TypeOK => Offered \subseteq Events /\ data_event \in Events
BY DEF TypeOK, Offered

LEMMA TakenNext == TakenInv /\ QueueInv /\ OwnerInv /\ TypeOK /\ [Next]_vars => TakenInv'
<1> SUFFICES ASSUME TakenInv, QueueInv, OwnerInv, TypeOK, [Next]_vars PROVE TakenInv'
  OBVIOUS
<1>0. /\ produced \in Nat /\ \A t \in Symbols : \A i \in DOMAIN buffer[t] : buffer[t][i] \in Nat
      /\ \A e \in Offered \cup {data_event} : e.symbol \in Symbols /\ e.number \in Nat
  BY OfferedType DEF TypeOK, Events
<1>1. CASE Dequeue
  <2>1. PICK s \in Symbols :
           /\ data_event' = Event(s, buffer[s][1]) /\ 1 \in DOMAIN buffer[s]
           /\ \A t \in Symbols \ {s} : buffer'[t] = buffer[t]
           /\ \A i \in DOMAIN buffer'[s] :
                /\ i \in Nat \ {0} /\ i + 1 \in DOMAIN buffer[s]
                /\ buffer'[s][i] = buffer[s][i + 1]
           /\ UNCHANGED <<produced, offered>>
    BY <1>1, Taking
  <2>2. \A e \in Offered' :
          e.number <= produced' /\ \A i \in DOMAIN buffer'[e.symbol] : e.number < buffer'[e.symbol][i]
    <3>1. SUFFICES ASSUME NEW e \in Offered
                   PROVE  /\ e.number <= produced
                          /\ \A i \in DOMAIN buffer'[e.symbol] : e.number < buffer'[e.symbol][i]
      BY <2>1 DEF Offered
    <3>2. /\ e.number <= produced
          /\ \A i \in DOMAIN buffer[e.symbol] : e.number < buffer[e.symbol][i]
      BY DEF TakenInv
    <3> QED
      BY <1>0, <2>1, <3>2
  <2>3. data_event'.number = buffer[s][1] /\ data_event'.symbol = s
    BY <2>1 DEF Event
  <2>4. buffer[s][1] <= produced'
    BY <2>1 DEF QueueInv
  <2>5. \A i \in DOMAIN buffer'[s] : buffer[s][1] < buffer'[s][i]
    <3>1. \A i \in DOMAIN buffer'[s] : 1 < i + 1
      BY <2>1
    <3> QED
      BY <2>1, <3>1 DEF QueueInv
  <2> QED
    BY <2>2, <2>3, <2>4, <2>5 DEF TakenInv
<1>2. CASE Publish
  <2>1. PICK s \in Symbols :
           /\ \A t \in Symbols \ {s} : buffer'[t] = buffer[t]
           /\ DOMAIN buffer[s] = 1 .. Len(buffer[s]) /\ Len(buffer[s]) \in Nat
           /\ DOMAIN buffer'[s] = 1 .. Len(buffer[s]) + 1
           /\ \A i \in DOMAIN buffer[s] : buffer'[s][i] = buffer[s][i]
           /\ buffer'[s][Len(buffer[s]) + 1] = produced + 1
           /\ produced' = produced + 1
           /\ UNCHANGED <<data_event, offered>>
    BY <1>2, Putting
  <2>2. Offered' \cup {data_event'} = Offered \cup {data_event}
    BY <2>1 DEF Offered
  <2>3. SUFFICES ASSUME NEW e \in Offered \cup {data_event}
                 PROVE  /\ e.number <= produced'
                        /\ \A i \in DOMAIN buffer'[e.symbol] : e.number < buffer'[e.symbol][i]
    BY <2>2 DEF TakenInv
  <2>4. /\ e.number <= produced /\ e.symbol \in Symbols /\ e.number \in Nat
        /\ \A i \in DOMAIN buffer[e.symbol] : e.number < buffer[e.symbol][i]
    BY <1>0 DEF TakenInv
  <2>5. e.number <= produced' /\ e.number < produced + 1
    BY <1>0, <2>1, <2>4
  <2>6. CASE e.symbol = s
    <3>1. \A i \in DOMAIN buffer'[s] : i \in DOMAIN buffer[s] \/ i = Len(buffer[s]) + 1
      BY <2>1
    <3> QED
      BY <2>1, <2>4, <2>5, <2>6, <3>1
  <2>7. CASE e.symbol # s
    BY <2>1, <2>4, <2>5, <2>7
  <2> QED
    BY <2>6, <2>7
<1>3. CASE SendAndReceive
  <2>1. offered' = Append(offered, data_event) /\ UNCHANGED <<produced, buffer, data_event>>
    BY <1>3 DEF SendAndReceive, builderVars
  <2>2. \A i \in DOMAIN offered' : offered'[i] = data_event \/ offered'[i] \in Offered
    <3>1. offered \in Seq(Events) /\ data_event \in Events
      BY DEF TypeOK
    <3>2. /\ DOMAIN offered' = 1 .. Len(offered) + 1 /\ offered'[Len(offered) + 1] = data_event
          /\ DOMAIN offered = 1 .. Len(offered) /\ Len(offered) \in Nat
          /\ \A i \in 1 .. Len(offered) : offered'[i] = offered[i]
      BY <2>1, <3>1, AppendFacts
    <3>3. \A i \in 1 .. Len(offered) + 1 : i \in 1 .. Len(offered) \/ i = Len(offered) + 1
      BY <3>2
    <3> QED
      BY <3>2, <3>3 DEF Offered
  <2>3. Offered' \subseteq Offered \cup {data_event}
    BY <2>2 DEF Offered
  <2> QED
    BY <2>1, <2>3 DEF TakenInv
<1>4. CASE UNCHANGED <<produced, buffer, offered, data_event>>
  BY <1>4 DEF TakenInv, Offered
<1>5. CASE Encode \/ EncodeFails \/ Count
  BY <1>4, <1>5 DEF Encode, EncodeFails, Count, ServerTo, builderVars, runVars
<1> QED
  BY <1>1, <1>2, <1>3, <1>4, <1>5, StreamKept

LEMMA StreamNext == StreamInv /\ TakenInv /\ OwnerInv /\ TypeOK /\ [Next]_vars => StreamInv'
<1> SUFFICES ASSUME StreamInv, TakenInv, OwnerInv, TypeOK, [Next]_vars PROVE StreamInv'
  OBVIOUS
<1>0. /\ data_event \in Events /\ offered \in Seq(Events)
      /\ sequence_id \in Nat /\ Len(offered) \in Nat /\ DOMAIN offered = 1 .. Len(offered)
  BY AppendFacts DEF TypeOK
<1> USE DEF At, ServerTo, serverVars, runVars
<1>1. CASE Dequeue
  <2>1. PICK s \in Symbols :
           /\ data_event' = Event(s, buffer[s][1]) /\ 1 \in DOMAIN buffer[s]
           /\ UNCHANGED <<outgoing, sequence_id, offered>>
           /\ spc = "dequeue" /\ spc' = "encode"
    BY <1>1, Taking
  <2>2. \A e \in Offered : e.symbol = s => e.number < buffer[s][1]
    BY <2>1 DEF TakenInv
  <2>3. \A e \in Offered' : e.symbol = data_event'.symbol => e.number < data_event'.number
    BY <2>1, <2>2 DEF Event, Offered
  <2> QED
    BY <2>1, <2>3 DEF StreamInv, Stream!Increasing
<1>2. CASE Encode
  <2>1. /\ outgoing' = Append(outgoing, Message) /\ spc = "encode" /\ spc' = "sendto"
        /\ UNCHANGED <<sequence_id, offered, data_event>>
    BY <1>2 DEF Encode, Put
  <2>2. outgoing' = <<Message>> /\ Message' = Message
    BY <2>1 DEF StreamInv, Message
  <2> QED
    BY <2>1, <2>2 DEF StreamInv, Stream!Increasing, Offered
<1>3. CASE EncodeFails
  BY <1>3 DEF EncodeFails, StreamInv, Stream!Increasing
<1>4. CASE SendAndReceive
  <2>1. /\ offered' = Append(offered, data_event) /\ outgoing' = << >>
        /\ spc = "sendto" /\ spc' = "count" /\ UNCHANGED <<sequence_id, data_event>>
    BY <1>4 DEF SendAndReceive, ResetBuffer
  <2>2. /\ Len(offered') = Len(offered) + 1 /\ DOMAIN offered' = 1 .. Len(offered) + 1
        /\ \A i \in 1 .. Len(offered) : offered'[i] = offered[i]
        /\ offered'[Len(offered) + 1] = data_event
    BY <1>0, <2>1, AppendFacts
  <2>3. \A i \in 1 .. Len(offered) :
          offered[i].symbol = data_event.symbol => offered[i].number < data_event.number
    BY <1>0, <2>1 DEF StreamInv, Offered
  <2>4. Stream!Increasing(offered')
    <3>1. SUFFICES ASSUME NEW i \in DOMAIN offered', NEW j \in DOMAIN offered', i < j,
                          offered'[i].symbol = offered'[j].symbol
                   PROVE  offered'[i].number < offered'[j].number
      BY DEF Stream!Increasing
    <3>2. i \in 1 .. Len(offered)
      BY <1>0, <2>2, <3>1
    <3>3. CASE j \in 1 .. Len(offered)
      BY <1>0, <2>2, <3>1, <3>2, <3>3 DEF StreamInv, Stream!Increasing
    <3>4. CASE j = Len(offered) + 1
      BY <2>2, <2>3, <3>1, <3>2, <3>4
    <3> QED
      BY <1>0, <2>2, <3>3, <3>4
  <2>5. sequence_id' = Len(offered')
    BY <2>1, <2>2 DEF StreamInv
  <2> QED
    BY <2>1, <2>4, <2>5 DEF StreamInv
<1>5. CASE Count
  BY <1>0, <1>5 DEF Count, StreamInv, Stream!Increasing
<1>6. CASE ~(Dequeue \/ Encode \/ EncodeFails \/ SendAndReceive \/ Count)
  <2>1. /\ UNCHANGED <<outgoing, wire, sequence_id, offered, data_event>>
        /\ (spc' \in {"encode", "sendto", "count"} \/ spc \in {"encode", "sendto", "count"})
             => spc' = spc
    BY <1>6, StreamKept
  <2> QED
    BY <2>1 DEF StreamInv, Stream!Increasing, Message, Offered
<1> QED
  BY <1>1, <1>2, <1>3, <1>4, <1>5, <1>6

\* Every step keeps the inductive invariant.
LEMMA PubInvNext == PubInv /\ [Next]_vars => PubInv'
BY TypeNext, PhaseNext, OwnerNext, SocketNext, ClosedNext, QueueNext, TakenNext, StreamNext DEF PubInv

\* The inductive invariant holds in every reachable state.
LEMMA PubInvHolds == Spec => []PubInv
BY PubInvInit, PubInvNext, PTL DEF Spec

------------------------------------------------------------------------------
(* The theorems. *)

\* The variables of the main thread, the server thread, the socket and the builder
\* have their types.
THEOREM TypeCorrect == Spec => []TypeOK
BY PubInvHolds, PTL DEF PubInv

\* A publisher is destroyed with no thread in run() or in the builder, and of the
\* program's configuration no socket is left (market_data_publisher.cpp: 29-45,
\* market_data_publisher.h: 36-40).  OwnerInv knows that the server thread has returned when the
\* builder has stopped, SocketInv and ClosedInv who has the descriptor until then.
THEOREM DestroyedLeavesNothing == Spec => []DestroyedQuiet
<1>1. PubInv => DestroyedQuiet
  <2> SUFFICES ASSUME PubInv, main = "destroyed"
               PROVE  /\ spc = "returned" /\ phase = "stopped"
                      /\ ~config.is_listening /\ ~config.need_so_timestamp => open = {}
    BY DEF DestroyedQuiet
  <2>1. phase = "stopped"
    BY DEF PubInv, PhaseInv
  <2>2. spc = "returned"
    BY <2>1 DEF PubInv, OwnerInv
  <2>3. socket_fd = None /\ sockfd = None
    BY <2>2 DEF PubInv, ClosedInv, SocketInv
  <2>4. open \subseteq Descriptors /\ None \notin Descriptors
    BY NoneIsNone DEF PubInv, TypeOK, ServerTypeOK
  <2> QED
    BY <2>1, <2>2, <2>3, <2>4 DEF PubInv, SocketInv, NoDescriptorLost
<1> QED
  BY <1>1, PubInvHolds, PTL

\* With neither bind nor timestamps create_udp_socket loses no descriptor, however
\* many candidates it tries (utils.h: 107-139, 181-191).
THEOREM DescriptorsKept == Spec => []NoDescriptorLost
BY PubInvHolds, PTL DEF PubInv, SocketInv

\* Whatever the network loses and run() drops, the datagrams number the offered
\* events without a gap (market_data_publisher.cpp: 53-68, multicast_server.cpp:
\* 27-51).
THEOREM StreamNumbered == Spec => StreamSpec
<1>1. Init => Stream!Init
  BY DEF Init, ServerInit, Stream!Init
<1>2. PubInv /\ PubInv' /\ [Next]_vars => [Stream!Offer]_(Stream!vars)
  <2> SUFFICES ASSUME PubInv, PubInv', [Next]_vars PROVE [Stream!Offer]_(Stream!vars)
    OBVIOUS
  <2>0. /\ OwnerInv /\ StreamInv /\ offered \in Seq(Events) /\ offered' \in Seq(Events)
        /\ data_event \in Events /\ Stream!Increasing(offered')
    BY DEF PubInv, TypeOK, StreamInv
  <2>1. CASE SendAndReceive
    <3>1. /\ offered' = Append(offered, data_event) /\ spc = "sendto"
          /\ wire' \in {wire, wire \cup {outgoing}}
      BY <2>1 DEF SendAndReceive, Sendto, At
    <3>2. /\ Len(offered') = Len(offered) + 1 /\ offered'[Len(offered) + 1] = data_event
          /\ SubSeq(offered', 1, Len(offered)) = offered
      BY <2>0, <3>1, AppendFacts
    <3>3. outgoing = <<Message>> /\ sequence_id = Len(offered) + 1
      BY <2>0, <3>1 DEF StreamInv
    <3>4. outgoing = Stream!Datagram(offered')
      BY <3>2, <3>3 DEF Message, Stream!Datagram
    <3> QED
      BY <2>0, <3>1, <3>2, <3>4 DEF Stream!Offer, Events
  <2>2. CASE Dequeue \/ Encode \/ EncodeFails \/ Count
    BY <2>2 DEF Dequeue, Encode, EncodeFails, Count, ServerTo, serverVars, runVars, Stream!vars
  <2>3. CASE ~(SendAndReceive \/ Dequeue \/ Encode \/ EncodeFails \/ Count)
    BY <2>0, <2>3, StreamKept DEF Stream!vars
  <2> QED
    BY <2>1, <2>2, <2>3
<1> QED
  BY <1>1, <1>2, PubInvHolds, PTL DEF Spec, StreamSpec, Stream!Spec

\* The sequence ids tell a receiver what it misses and which datagram is newer, in
\* whatever order the datagrams come (market_data_publisher.cpp: 53-68,
\* docs/DATAGRAM_MSG.md: 15).  That the datagrams are a numbered stream is enough
\* for it: nothing else of the publisher is used.
THEOREM PacketsTellOrder == Spec => []PacketsTell
<1> DEFINE Heard == offered \in Seq(Events) /\ Stream!Increasing(offered) /\ PacketsTell
<1>1. Stream!Init => Heard
  <2> SUFFICES ASSUME Stream!Init PROVE Heard
    OBVIOUS
  <2>1. offered = << >> /\ wire = {} /\ DOMAIN offered = {}
    BY DEF Stream!Init
  <2> QED
    BY <2>1 DEF Stream!Increasing, PacketsTell
<1>2. Heard /\ [Stream!Offer]_(Stream!vars) => Heard'
  <2> SUFFICES ASSUME Heard, [Stream!Offer]_(Stream!vars) PROVE Heard'
    OBVIOUS
  <2>1. CASE UNCHANGED Stream!vars
    BY <2>1 DEF Stream!vars, Stream!Increasing, PacketsTell
  <2>2. CASE Stream!Offer
    <3> DEFINE n == Len(offered) + 1
    <3>1. /\ offered' \in Seq(Events) /\ Stream!Increasing(offered') /\ Len(offered') = n
          /\ SubSeq(offered', 1, Len(offered)) = offered
          /\ wire' \in {wire, wire \cup {Stream!Datagram(offered')}}
      BY <2>2 DEF Stream!Offer, Events
    <3>2. /\ n \in Nat /\ DOMAIN offered = 1 .. Len(offered) /\ DOMAIN offered' = 1 .. n
          /\ \A i \in DOMAIN offered : offered'[i] = offered[i]
          /\ \A i \in DOMAIN offered' : offered'[i] \in Events
      BY <3>1
    <3>3. \A d \in wire' :
            /\ Len(d) = 1 /\ d[1].sequence_id \in DOMAIN offered'
            /\ d[1].payload = offered'[d[1].sequence_id]
      <4> SUFFICES ASSUME NEW d \in wire'
                   PROVE  /\ Len(d) = 1 /\ d[1].sequence_id \in DOMAIN offered'
                          /\ d[1].payload = offered'[d[1].sequence_id]
        OBVIOUS
      <4>1. CASE d \in wire
        BY <3>2, <4>1 DEF PacketsTell
      <4>2. CASE d = Stream!Datagram(offered')
        BY <3>1, <3>2, <4>2 DEF Stream!Datagram
      <4> QED
        BY <3>1, <4>1, <4>2
    <3>4. \A i, j \in DOMAIN offered' :
            offered'[i].symbol = offered'[j].symbol =>
              (i < j <=> offered'[i].number < offered'[j].number)
      <4> SUFFICES ASSUME NEW i \in DOMAIN offered', NEW j \in DOMAIN offered',
                          offered'[i].symbol = offered'[j].symbol
                   PROVE  i < j <=> offered'[i].number < offered'[j].number
        OBVIOUS
      <4>1. offered'[i].number \in Nat /\ offered'[j].number \in Nat
        BY <3>2 DEF Events
      <4>2. CASE i = j
        BY <4>1, <4>2
      <4>3. CASE i < j
        BY <3>1, <4>3 DEF Stream!Increasing
      <4>4. CASE j < i
        <5>1. offered'[j].number < offered'[i].number
          BY <3>1, <4>4 DEF Stream!Increasing
        <5> QED
          BY <3>2, <4>1, <4>4, <5>1
      <4> QED
        BY <3>2, <4>2, <4>3, <4>4
    <3> QED
      BY <3>1, <3>3, <3>4 DEF PacketsTell
  <2> QED
    BY <2>1, <2>2
<1> HIDE DEF Heard
<1>3. Heard => PacketsTell
  BY DEF Heard
<1> QED
  BY <1>1, <1>2, <1>3, StreamNumbered, PTL DEF StreamSpec, Stream!Spec

\* Towards the builder the publisher is the owner Builder describes
\* (market_data_publisher.cpp: 26, 31-44).
THEOREM UsesBuilderRight == Spec => UsesBuilder
<1>1. Init => TheBuilder!Init
  BY DEF Init, TheBuilder!Init
<1>2. PubInv /\ [Next]_vars => [TheBuilder!Next]_(TheBuilder!vars)
  <2> SUFFICES ASSUME PubInv, [Next]_vars PROVE [TheBuilder!Next]_(TheBuilder!vars)
    OBVIOUS
  <2>0. PhaseInv /\ alive \in BOOLEAN
    BY DEF PubInv, TypeOK, ServerTypeOK
  <2> USE DEF AtMain, At, MainTo, ServerTo, ownerVars, builderVars, TheBuilder!vars,
              TheBuilder!Next, TheBuilder!Moves
  <2>1. CASE StartBuilder
    BY <2>0, <2>1 DEF StartBuilder, PhaseInv, TheBuilder!StartCalled, TheBuilder!StartThrows
  <2>2. CASE BuilderStarted
    BY <2>0, <2>2 DEF BuilderStarted, PhaseInv, TheBuilder!Started
  <2>3. CASE StopBuilder
    BY <2>0, <2>3 DEF StopBuilder, PhaseInv, TheBuilder!StopCalled
  <2>4. CASE BuilderStopped
    BY <2>0, <2>4 DEF BuilderStopped, PhaseInv, TheBuilder!Stopped
  <2>5. CASE Publish
    BY <2>5 DEF Publish, TheBuilder!Publish
  <2>6. CASE Terminate \/ Signal
    <3>1. UNCHANGED <<phase, produced>> /\ (alive' = FALSE \/ UNCHANGED alive)
      BY <2>6 DEF Terminate, Signal
    <3>2. CASE alive
      BY <2>0, <3>1, <3>2 DEF TheBuilder!End
    <3>3. CASE ~alive
      BY <2>0, <3>1, <3>3
    <3> QED
      BY <3>2, <3>3
  <2>7. CASE MainOnly
    BY <2>7 DEF MainOnly, Register, SetRunning, LeaveLoop, CallStop, Destroy, EnterStop, Join,
                Return
  <2>8. CASE Create
    BY <2>8 DEF Create, CreateSocket, NoAddress, Resolve, SocketFails, Unusable, Usable,
                NoSocket, Configure, ConfigureFails
  <2>9. CASE \/ StartedServer \/ Loop \/ Dequeue \/ NotDequeued \/ Encode \/ EncodeFails
             \/ SendAndReceive \/ Count
    BY <2>9 DEF StartedServer, Loop, Dequeue, NotDequeued, Encode, EncodeFails,
                SendAndReceive, Count
  <2>10. CASE Spawn \/ DestroyMembers \/ UNCHANGED vars
    BY <2>10 DEF Spawn, DestroyMembers, vars
  <2> QED
    BY <2>1, <2>2, <2>3, <2>4, <2>5, <2>6, <2>7, <2>8, <2>9, <2>10, Steps DEF BuilderCalls
<1> QED
  BY <1>1, <1>2, PubInvHolds, PTL DEF Spec, UsesBuilder, TheBuilder!Spec
=============================================================================
