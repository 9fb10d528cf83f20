----------------------------- MODULE Publisher -----------------------------
(***************************************************************************)
(* MarketDataPublisher and the program around it (app/live/main.cpp): the  *)
(* main thread starts a thread that creates the socket and multicasts the  *)
(* events of the book builder, starts the builder, waits, stops both and   *)
(* destroys the publisher.  A signal handler may clear is_running_ at any  *)
(* moment.                                                                 *)
(*                                                                         *)
(* The builder is known by what Builder promises, the socket is            *)
(* MulticastServer.  An event has its symbol, and is numbered in the order *)
(* the events are enqueued; the JSON text is left out.  A symbol's book    *)
(* thread is the one producer of its events, and the queue keeps the order *)
(* of each producer, but none between them.                                *)
(*                                                                         *)
(* As in Archiver, the program calls stop() when it finds is_running_      *)
(* cleared, and another owner may call it, or destroy the publisher,       *)
(* whenever it likes.                                                      *)
(*                                                                         *)
(* Operators introduced by "Slip:" are wrong on purpose, as in OrderBook.  *)
(***************************************************************************)
EXTENDS MulticastServer

CONSTANTS
  Symbols,        \* the symbols of the books
  MaxEvents       \* bound: how many events the builder publishes

ASSUME SymbolsAssumption == Symbols # {}
ASSUME MaxEventsAssumption == MaxEvents \in Nat

VARIABLES
  main,           \* where the main thread is
  caller,         \* who made it stop: where stop() returns to
  is_running,     \* MarketDataPublisher::is_running_
  signalled,      \* history: a signal has been handled
  server_thread,  \* server_thread_: no thread, a joinable one, a joined one
  phase,          \* the book builder, as in Builder
  produced,       \* how many events the builder has enqueued
  buffer,         \* data_event_queue_: what each producer has on it
  data_event,     \* the local data_event of run()
  sequence_id,    \* sequence_id_
  offered,        \* history: the events that sendto was called for
  dropped         \* history: the events an exception made run() forget

ownerVars == <<main, caller, is_running, signalled, server_thread>>
builderVars == <<phase, produced, buffer>>
runVars == <<data_event, sequence_id, offered, dropped>>
vars == <<alive, spc, serverVars, ownerVars, builderVars, runVars>>

MainStates ==
  {"register", "setRunning", "spawn", "startBuilder", "builderStarting", "failed", "polling",
   "stop", "join", "stopBuilder", "builderStopping", "returned", "destroy", "members",
   "destroyed"}

ServerStates ==
  {"none", "create", "candidates", "started", "loop", "dequeue", "encode", "sendto",
   "count", "returned"}

Events == [symbol : Symbols, number : Nat]
Event(symbol, number) == [symbol |-> symbol, number |-> number]

Init ==
  /\ ServerInit
  /\ alive = TRUE
  /\ spc = "none"
  /\ main = "register"
  /\ caller = "program"
  /\ is_running = FALSE
  /\ signalled = FALSE
  /\ server_thread = "none"
  /\ phase = "new"
  /\ produced = 0
  /\ buffer = [s \in Symbols |-> << >>]
  /\ data_event = Event(CHOOSE s \in Symbols : TRUE, 0)
  /\ sequence_id = 1
  /\ offered = << >>
  /\ dropped = {}

AtMain(here) == alive /\ main = here

\* std::terminate.
Terminate ==
  /\ alive' = FALSE
  /\ UNCHANGED <<spc, serverVars, ownerVars, builderVars, runVars>>

\* The main thread goes on to there and touches nothing but ownerVars.
MainTo(there) ==
  /\ main' = there
  /\ UNCHANGED <<alive, spc, serverVars, builderVars, runVars, signalled>>

------------------------------------------------------------------------------
(* start() *)

\* The signal handlers are registered,
Register ==
  /\ AtMain("register")
  /\ MainTo("setRunning")
  /\ UNCHANGED <<caller, is_running, server_thread>>

\* and only then the flag is set.
SetRunning ==
  /\ AtMain("setRunning")
  /\ MainTo("spawn")
  /\ is_running' = TRUE
  /\ UNCHANGED <<caller, server_thread>>

\* The thread that runs run() is created, or the system has none to give and
\* nobody catches that.
Spawn ==
  /\ AtMain("spawn")
  /\ server_thread' = "joinable"
  /\ spc' = "create"
  /\ main' = "startBuilder"
  /\ UNCHANGED <<alive, serverVars, builderVars, runVars, signalled, caller, is_running>>

SpawnFails == AtMain("spawn") /\ Terminate

\* book_builder_->start() is called, or throws at once.
StartBuilder ==
  /\ AtMain("startBuilder")
  /\ \/ phase' = "starting" /\ main' = "builderStarting"
     \/ phase' = "threw" /\ main' = "failed"
  /\ UNCHANGED <<alive, spc, serverVars, runVars, produced, buffer, signalled, caller,
                 is_running, server_thread>>

\* Slip: the exception is swallowed.
SwallowAndGoOn ==
  /\ AtMain("failed")
  /\ MainTo("polling")
  /\ UNCHANGED <<caller, is_running, server_thread>>

\* start() and main() let the exception pass.
Rethrow == AtMain("failed") /\ Terminate

\* book_builder_->start() returns.
BuilderStarted ==
  /\ AtMain("builderStarting")
  /\ phase' = "running"
  /\ main' = "polling"
  /\ UNCHANGED <<alive, spc, serverVars, runVars, produced, buffer, signalled, caller,
                 is_running, server_thread>>

------------------------------------------------------------------------------
(* The owner. *)

\* main() leaves its loop when the flag is cleared, and calls stop().
LeaveLoop ==
  /\ AtMain("polling")
  /\ ~is_running
  /\ MainTo("stop")
  /\ UNCHANGED <<caller, is_running, server_thread>>

\* Another owner calls stop(), or destroys the publisher, without waiting for a
\* signal.
CallStop ==
  /\ AtMain("polling")
  /\ MainTo("stop") \/ MainTo("destroy")
  /\ caller' = "owner"
  /\ UNCHANGED <<is_running, server_thread>>

\* ~MarketDataPublisher calls stop() when the flag is set.
Destroy ==
  /\ AtMain("destroy")
  /\ IF is_running
       THEN MainTo("stop") /\ caller' = "destructor"
       ELSE MainTo("members") /\ UNCHANGED caller
  /\ UNCHANGED <<is_running, server_thread>>

\* The members are destroyed, the socket last.  A thread that is still joinable,
\* the server's or one of the builder's, ends the process.
DestroyMembers ==
  /\ AtMain("members")
  /\ server_thread # "joinable" /\ phase = "stopped"
  /\ main' = "destroyed"
  /\ CloseSocket
  /\ UNCHANGED <<alive, spc, config, sockfd, left, outgoing, wire, builderVars, runVars,
                 signalled, caller, is_running, server_thread>>

DestroyJoinable ==
  /\ AtMain("members")
  /\ server_thread = "joinable" \/ phase # "stopped"
  /\ Terminate

------------------------------------------------------------------------------
(* stop() *)

\* is_running_.exchange(false): nothing is done when the flag was cleared.
EnterStop ==
  /\ AtMain("stop")
  /\ MainTo(IF is_running THEN "join" ELSE "returned")
  /\ is_running' = FALSE
  /\ UNCHANGED <<caller, server_thread>>

\* Slip: detach() instead of join(): the thread is not waited for.
JoinDetaches ==
  /\ AtMain("join")
  /\ MainTo("stopBuilder")
  /\ server_thread' = "joined"
  /\ UNCHANGED <<caller, is_running>>

\* server_thread_.join() returns.
Join ==
  /\ AtMain("join")
  /\ spc = "returned"
  /\ MainTo("stopBuilder")
  /\ server_thread' = "joined"
  /\ UNCHANGED <<caller, is_running>>

\* book_builder_->stop() is called,
StopBuilder ==
  /\ AtMain("stopBuilder")
  /\ phase' = "stopping"
  /\ main' = "builderStopping"
  /\ UNCHANGED <<alive, spc, serverVars, runVars, produced, buffer, signalled, caller,
                 is_running, server_thread>>

\* and returns.
BuilderStopped ==
  /\ AtMain("builderStopping")
  /\ phase' = "stopped"
  /\ main' = "returned"
  /\ UNCHANGED <<alive, spc, serverVars, runVars, produced, buffer, signalled, caller,
                 is_running, server_thread>>

\* The caller goes on: the program and other owners destroy the publisher, the
\* destructor its members.
Return ==
  /\ AtMain("returned")
  /\ MainTo(IF caller = "destructor" THEN "members" ELSE "destroy")
  /\ UNCHANGED <<caller, is_running, server_thread>>

------------------------------------------------------------------------------
(* run(), in the server thread *)

\* create_socket.
Create == CreateSocket /\ UNCHANGED <<ownerVars, builderVars, runVars>>

\* The server thread goes on to there and touches nothing but runVars.
ServerTo(there) ==
  /\ spc' = there
  /\ UNCHANGED <<alive, serverVars, ownerVars, phase, produced>>

\* start() returned a descriptor, and run() asks whether it is 0: it goes on
\* with -1, and gives up with a socket that has the number 0.
StartedServer ==
  /\ At("started")
  /\ spc' = IF socket_fd = 0 THEN "returned" ELSE "loop"
  /\ is_running' = (socket_fd # 0 /\ is_running)
  /\ UNCHANGED <<alive, serverVars, builderVars, runVars, main, caller, signalled,
                 server_thread>>

\* Slip: the flag is not looked at.
LoopForever ==
  /\ At("loop")
  /\ ServerTo("dequeue")
  /\ UNCHANGED <<runVars, buffer>>

\* while (is_running_).
Loop ==
  /\ At("loop")
  /\ ServerTo(IF is_running THEN "dequeue" ELSE "returned")
  /\ UNCHANGED <<runVars, buffer>>

\* try_dequeue takes the oldest event of some producer.
Dequeue ==
  /\ At("dequeue")
  /\ \E s \in Symbols :
       /\ buffer[s] # << >>
       /\ data_event' = Event(s, Head(buffer[s]))
       /\ buffer' = [buffer EXCEPT ![s] = Tail(@)]
  /\ ServerTo("encode")
  /\ UNCHANGED <<sequence_id, offered, dropped>>

Empty == \A s \in Symbols : buffer[s] = << >>

\* Slip: an empty queue ends the loop.
NotDequeuedEnds ==
  /\ At("dequeue")
  /\ Empty
  /\ ServerTo("returned")
  /\ UNCHANGED <<runVars, buffer>>

NotDequeued ==
  /\ At("dequeue")
  /\ Empty
  /\ ServerTo("loop")
  /\ UNCHANGED <<runVars, buffer>>

Message == [sequence_id |-> sequence_id, payload |-> data_event]

\* The event and its number become JSON text, and the text is sent().
Encode ==
  /\ At("encode")
  /\ Put(Message)
  /\ spc' = "sendto"
  /\ UNCHANGED <<alive, socketVars, wire, ownerVars, builderVars, runVars>>

\* An exception on the way is caught: the event is forgotten, its number is used
\* for the next one.
EncodeFails ==
  /\ At("encode")
  /\ dropped' = dropped \cup {data_event}
  /\ ServerTo("loop")
  /\ UNCHANGED <<data_event, sequence_id, offered, buffer>>

\* send_and_receive().
SendAndReceive ==
  /\ At("sendto")
  /\ Sendto
  /\ ResetBuffer
  /\ offered' = Append(offered, data_event)
  /\ spc' = "count"
  /\ UNCHANGED <<alive, socketVars, ownerVars, builderVars, data_event, sequence_id, dropped>>

\* Something has been sent to the socket: recv_callback_ has never been set, and
\* calling it throws inside a noexcept function.  A socket that is not bound has
\* no address before its first sendto.
Received ==
  /\ At("sendto")
  /\ socket_fd # None
  /\ config.is_listening \/ sequence_id > 1
  /\ Terminate

\* Slip: a number is used only for what the network took.
CountTaken ==
  /\ At("count")
  /\ sequence_id' = IF <<Message>> \in wire THEN sequence_id + 1 ELSE sequence_id
  /\ ServerTo("loop")
  /\ UNCHANGED <<data_event, offered, dropped, buffer>>

\* ++sequence_id_.
Count ==
  /\ At("count")
  /\ sequence_id' = sequence_id + 1
  /\ ServerTo("loop")
  /\ UNCHANGED <<data_event, offered, dropped, buffer>>

------------------------------------------------------------------------------
(* Signals and the builder's threads. *)

\* Before the handlers are registered a signal ends the process; afterwards it
\* clears the flag.
Signal ==
  /\ alive /\ main # "destroyed"
  /\ IF main = "register"
       THEN Terminate
       ELSE /\ is_running' = FALSE
            /\ signalled' = TRUE
            /\ UNCHANGED <<alive, spc, serverVars, builderVars, runVars, main, caller,
                           server_thread>>

Publish ==
  /\ alive
  /\ phase \in {"running", "stopping"}
  /\ produced < MaxEvents
  /\ produced' = produced + 1
  /\ \E s \in Symbols : buffer' = [buffer EXCEPT ![s] = Append(@, produced')]
  /\ UNCHANGED <<alive, spc, serverVars, ownerVars, phase, runVars>>

\* An exception leaves one of the builder's threads.
BuilderThrows ==
  /\ alive
  /\ phase \in {"starting", "running", "stopping"}
  /\ Terminate

------------------------------------------------------------------------------
StartStep == Register \/ SetRunning \/ Spawn \/ SpawnFails \/ StartBuilder \/ Rethrow
OwnerStep == LeaveLoop \/ Destroy \/ DestroyMembers \/ DestroyJoinable
StopStep == EnterStop \/ Join \/ StopBuilder \/ Return
BuilderStep == BuilderStarted \/ BuilderStopped \/ Publish \/ BuilderThrows
RunStep ==
  \/ Create \/ StartedServer \/ Loop \/ Dequeue \/ NotDequeued \/ Encode \/ EncodeFails
  \/ SendAndReceive \/ Received \/ Count

Next == StartStep \/ OwnerStep \/ CallStop \/ StopStep \/ BuilderStep \/ RunStep \/ Signal

\* The operating system schedules the main thread and the server's.  Nothing is
\* assumed of the builder, of signals, of the network, or of another owner.
Fairness == WF_vars(StartStep) /\ WF_vars(OwnerStep) /\ WF_vars(StopStep) /\ WF_vars(RunStep)

Spec == Init /\ [][Next]_vars /\ Fairness
------------------------------------------------------------------------------
TypeOK ==
  /\ ServerTypeOK
  /\ main \in MainStates /\ spc \in ServerStates
  /\ caller \in {"program", "owner", "destructor"}
  /\ is_running \in BOOLEAN /\ signalled \in BOOLEAN
  /\ server_thread \in {"none", "joinable", "joined"}
  /\ phase \in {"new", "starting", "threw", "running", "stopping", "stopped"}
  /\ produced \in Nat /\ data_event \in Events /\ sequence_id \in Nat
  /\ buffer \in [Symbols -> Seq(Nat)] /\ offered \in Seq(Events) /\ dropped \subseteq Events

\* Refinement: what the network gets is a NumberedStream, whatever it loses and
\* whatever exceptions run() catches.
Stream == INSTANCE NumberedStream
StreamSpec == Stream!Spec

\* "A global, monotonic counter for the stream. Used to detect missing or
\* out-of-order packets" (docs/DATAGRAM_MSG.md: 15): the id in a datagram says how
\* many events were offered before it, and the ids of two datagrams of a symbol say
\* which one is newer, in whatever order a receiver gets them.
PacketsTell ==
  /\ \A d \in wire :
       /\ Len(d) = 1 /\ d[1].sequence_id \in DOMAIN offered
       /\ d[1].payload = offered[d[1].sequence_id]
  /\ \A d, e \in wire :
       d[1].payload.symbol = e[1].payload.symbol =>
         (d[1].sequence_id < e[1].sequence_id <=> d[1].payload.number < e[1].payload.number)

\* Refinement: the publisher uses the builder the way Builder asks for: stop()
\* is never called twice, and never on a builder whose start() has not returned.
TheBuilder == INSTANCE Builder WITH published <- produced
UsesBuilder == TheBuilder!Spec

\* The members a thread uses outlive it: when the publisher has been destroyed, by
\* whatever way the main thread got there and whatever the server thread was doing in
\* create_socket or in its loop, run() has returned, the builder no longer publishes
\* into the queue, and no socket of the program's configuration is left open.
DestroyedQuiet ==
  main = "destroyed" =>
    /\ spc = "returned" /\ phase = "stopped"
    /\ ~config.is_listening /\ ~config.need_so_timestamp => open = {}

\* A socket that neither listens nor asks for timestamps is never lost: what has
\* been opened is the server's, or in create_socket's hands, or closed.
NoDescriptorLost ==
  ~config.is_listening /\ ~config.need_so_timestamp => open \subseteq {socket_fd, sockfd}

\* Every event the builder enqueues is offered to the network, or dropped because
\* of an exception, unless the process ends or the flag is cleared before.
Offered == {offered[i] : i \in DOMAIN offered}
Handled(n) == \E e \in Offered \cup dropped : e.number = n
EventsOffered ==
  \A n \in 1 .. MaxEvents : produced >= n ~> Handled(n) \/ ~alive \/ ~is_running

\* stop() returns, unless the process ends or the builder's stop() does not
\* return.
InStop == main \in {"stop", "join", "stopBuilder", "builderStopping"}
StopReturns == InStop ~> ~InStop \/ ~alive \/ phase = "stopping"

\* market_data_publisher.cpp registers its handlers "to allow Ctrl-C to stop the
\* archiver": a signal it has handled is not forgotten.  But start() sets the flag
\* after it has registered them.
CtrlCStops == signalled => ~is_running

\* Without a socket run() gives up: "failed to start MulticastServer".  But a
\* start that failed returns -1, which run() takes for success; so it does for the
\* UDP socket of the program.
NoSocketNoLoop ==
  config.type = "UDP" /\ spc \in {"loop", "dequeue", "encode", "sendto", "count"} =>
    socket_fd # None
------------------------------------------------------------------------------
(* The inductive invariant. *)

\* How far the builder is when the main thread is somewhere.
PhaseInv ==
  /\ main \in {"register", "setRunning", "spawn", "startBuilder"} => phase = "new"
  /\ main = "builderStarting" <=> phase = "starting"
  /\ main = "failed" => phase = "threw"
  /\ main \in {"polling", "join", "stopBuilder"} => phase = "running"
  /\ main = "builderStopping" <=> phase = "stopping"
  /\ main \in {"stop", "returned", "destroy", "members"} => phase \in {"running", "stopped"}
  /\ main \in {"stop", "destroy"} /\ is_running => phase = "running"
  /\ main = "destroyed" => phase = "stopped"

\* Behind the early return of stop() is only who did not wait for the flag, and
\* with it the join and the builder's stop().
OwnerInv ==
  /\ main \in {"join", "stopBuilder", "builderStopping", "returned", "members"} => ~is_running
  /\ main \in {"stop", "returned", "destroy"} /\ caller = "program" => ~is_running
  /\ main \in {"join", "stopBuilder", "builderStopping"} => caller # "program"
  /\ main \in {"stopBuilder", "builderStopping"} => server_thread = "joined"
  /\ phase = "stopped" => caller # "program" /\ server_thread = "joined"
  /\ server_thread = "joined" => spc = "returned"
  /\ server_thread = "none" <=> main \in {"register", "setRunning", "spawn"}
  /\ spc = "none" <=> server_thread = "none"

\* create_socket holds the one descriptor there is until the server has it.
SocketInv ==
  /\ NoDescriptorLost
  /\ spc \in {"none", "create", "candidates"} => socket_fd = None
  /\ spc # "candidates" \/ left > 0 => sockfd = None

\* Of a destroyed publisher the server has no socket.
ClosedInv == main = "destroyed" => socket_fd = None

\* A producer's events are on the queue in order.
QueueInv ==
  \A s \in Symbols :
    /\ \A i, j \in DOMAIN buffer[s] : i < j => buffer[s][i] < buffer[s][j]
    /\ \A i \in DOMAIN buffer[s] : buffer[s][i] <= produced

\* What has been taken off the queue is older than what its producer has on it.
TakenInv ==
  \A e \in Offered \cup {data_event} :
    /\ e.number <= produced
    /\ \A i \in DOMAIN buffer[e.symbol] : e.number < buffer[e.symbol][i]

\* What the send buffer, the counter and the offered events have to do with each
\* other while an event is under way.
StreamInv ==
  /\ outgoing = IF spc = "sendto" THEN <<Message>> ELSE << >>
  /\ sequence_id = IF spc = "count" THEN Len(offered) ELSE Len(offered) + 1
  /\ Stream!Increasing(offered)
  /\ spc \in {"encode", "sendto"} =>
       \A e \in Offered : e.symbol = data_event.symbol => e.number < data_event.number

PubInv ==
  /\ TypeOK /\ PhaseInv /\ OwnerInv
  /\ SocketInv /\ ClosedInv
  /\ QueueInv /\ TakenInv /\ StreamInv
=============================================================================
