-------------------------------- MODULE Session -------------------------------
(***************************************************************************)
(* The life of a session and of its container: the session manager with    *)
(* its container::Client and ManagementApiStub, and the container manager  *)
(* with its Service, ManagementApiSkeleton and LxcContainer.               *)
(*                                                                         *)
(* The session's main thread waits for the signal trap, asks for the       *)
(* container to be stopped and stops the runtime. On the pool of the       *)
(* runtime run the timer that asks for the container to be started, which  *)
(* blocks its thread until the answer is there, and the handler that reads *)
(* the answers. A call has a wait handle of its own here, so a result is   *)
(* parsed and its closure run in one step.                                 *)
(*                                                                         *)
(* Session processes follow one another; one can be killed at any time, as *)
(* can the container manager. LXC is external: starting and stopping a     *)
(* container takes a step of its own and can fail, and Android can power   *)
(* itself off. The devices, mounts and properties of the container are     *)
(* abstracted away.                                                        *)
(***************************************************************************)
EXTENDS Naturals, Sequences

CONSTANTS
  MaxSessions,   \* bound: session processes started
  MaxCrashes     \* bound: times the container manager goes away

ASSUME SessionAssumption == MaxSessions \in Nat /\ MaxCrashes \in Nat

Sessions == 1..MaxSessions
CallNames == {"start", "stop"}

VARIABLES
  session,      \* the latest session process
  main,         \* where its main thread is; "off" when it is gone
  trap,         \* trap->stop() was called
  starter,      \* where the container start timer is
  reader,       \* Client::on_read_size is armed
  pending,      \* pending_calls_ of the client
  got,          \* calls whose closure has run
  response,     \* what was parsed into the response of a call
  sock,         \* per session: the container manager's end of the connection
  inbox,        \* per session: requests the manager has not read
  outbox,       \* per session: results the session has not read
  manager,      \* the container manager is up
  crashes,
  connection,   \* the session in connections_ of the Service, 0 for none
  handler,      \* where the read handler of that connection is
  state,        \* state_ of its LxcContainer
  lxc,          \* container_ of its LxcContainer is set
  container,    \* the Android container runs
  stale         \* ... left from an earlier manager, and no LxcContainer has it

clientVars == <<trap, starter, reader, pending, got, response>>
wireVars == <<sock, inbox, outbox>>
serviceVars == <<connection, handler, state, lxc>>
managerVars == <<manager, crashes, serviceVars, container, stale>>
sessionVars == <<session, main, clientVars>>
vars == <<sessionVars, wireVars, managerVars>>

Init ==
  /\ session = 0 /\ main = "off" /\ trap = FALSE /\ starter = "done"
  /\ reader = FALSE /\ pending = {} /\ got = {}
  /\ response = [c \in CallNames |-> "none"]
  /\ sock = [n \in Sessions |-> "none"]
  /\ inbox = [n \in Sessions |-> <<>>]
  /\ outbox = [n \in Sessions |-> <<>>]
  /\ manager = TRUE /\ crashes = 0
  /\ connection = 0 /\ handler = "none" /\ state = "inactive" /\ lxc = FALSE
  /\ container = FALSE /\ stale = FALSE

\* The session process of a connection still has its end open.
ClientAlive(n) == n = session /\ main # "off"

\* The pool threads take handlers until Runtime::stop.
PoolRuns == main \in {"running", "stopping", "leaving"}

\* A write of the session reaches the manager.
CanSend == sock[session] \in {"queued", "accepted"}

-------------------------------------------------------------------------------
(* The session manager.                                                    *)

\* The action of the session-manager command up to trap->run. Client connects
\* in its constructor, before anything accepts the connection.
Launch ==
  /\ main = "off" /\ session < MaxSessions /\ manager
  /\ session' = session + 1 /\ main' = "running" /\ trap' = FALSE
  /\ starter' = "scheduled" /\ reader' = TRUE /\ pending' = {} /\ got' = {}
  /\ response' = [c \in CallNames |-> "none"]
  /\ sock' = [sock EXCEPT ![session + 1] = "queued"]
  /\ UNCHANGED <<inbox, outbox, managerVars>>

\* Channel::call_method: the call is pending and its request is sent.
Call(c) ==
  /\ CanSend
  /\ pending' = pending \cup {c}
  /\ inbox' = [inbox EXCEPT ![session] = Append(@, c)]
  /\ got' = got

\* The write fails: force_completion runs the closures of all pending calls,
\* this one included, and the caller gets the exception.
CallFails(c) ==
  /\ ~CanSend
  /\ got' = got \cup pending \cup {c}
  /\ pending' = {}
  /\ inbox' = inbox

\* The timer runs Client::start: ManagementApiStub::start_container sends.
StartCall ==
  /\ PoolRuns /\ starter = "scheduled"
  /\ Call("start") /\ starter' = "waiting"
  /\ UNCHANGED <<session, main, trap, reader, response, sock, outbox, managerVars>>

\* start_container throws; Client::start calls the terminate callback.
StartCallFails ==
  /\ PoolRuns /\ starter = "scheduled"
  /\ CallFails("start") /\ starter' = "done" /\ trap' = TRUE
  /\ UNCHANGED <<session, main, reader, response, sock, outbox, managerVars>>

\* wait_for_all returns; an error in the response ends the session too.
StartReturns ==
  /\ starter = "waiting" /\ "start" \in got
  /\ starter' = "done"
  /\ trap' = (trap \/ response["start"] = "error")
  /\ UNCHANGED <<session, main, reader, pending, got, response, wireVars,
                 managerVars>>

\* Client::on_read_size with a result of a pending call.
ReadResult ==
  /\ PoolRuns /\ reader /\ outbox[session] # <<>>
  /\ LET r == Head(outbox[session]) IN
       /\ r.call \in pending
       /\ response' = [response EXCEPT ![r.call] = r.result]
       /\ got' = got \cup {r.call}
       /\ pending' = pending \ {r.call}
  /\ outbox' = [outbox EXCEPT ![session] = Tail(@)]
  /\ UNCHANGED <<session, main, trap, starter, reader, sock, inbox, managerVars>>

\* on_read_size with an error: the terminate callback, no further read.
ReadError ==
  /\ PoolRuns /\ reader /\ outbox[session] = <<>> /\ ~CanSend
  /\ reader' = FALSE /\ trap' = TRUE
  /\ UNCHANGED <<session, main, starter, pending, got, response, wireVars,
                 managerVars>>

\* populate_message_for_result throws for a call that force_completion took.
ReadThrows ==
  /\ PoolRuns /\ reader /\ outbox[session] # <<>>
  /\ Head(outbox[session]).call \notin pending
  /\ reader' = FALSE
  /\ outbox' = [outbox EXCEPT ![session] = Tail(@)]
  /\ UNCHANGED <<session, main, trap, starter, pending, got, response, sock,
                 inbox, managerVars>>

\* SIGTERM or SIGINT.
Signal ==
  /\ main = "running" /\ ~trap
  /\ trap' = TRUE
  /\ UNCHANGED <<session, main, starter, reader, pending, got, response, wireVars,
                 managerVars>>

\* trap->run returns and stop_container sends.
StopCall ==
  /\ main = "running" /\ trap
  /\ Call("stop") /\ main' = "stopping"
  /\ UNCHANGED <<session, trap, starter, reader, response, sock, outbox,
                 managerVars>>

\* Mutant: a failed write completes only the call that made it.
StopCallFailsAlone ==
  /\ main = "running" /\ trap /\ ~CanSend
  /\ got' = got \cup {"stop"}
  /\ main' = "leaving"
  /\ UNCHANGED <<session, trap, starter, reader, pending, response, wireVars,
                 managerVars>>

\* stop_container throws out of the action.
StopCallFails ==
  /\ main = "running" /\ trap
  /\ CallFails("stop") /\ main' = "leaving"
  /\ UNCHANGED <<session, trap, starter, reader, response, sock, outbox,
                 managerVars>>

\* wait_for_pending returns; an error in the response is thrown as well, which
\* leaves the action with the pool still running just the same.
StopReturns ==
  /\ main = "stopping" /\ "stop" \in got
  /\ main' = "leaving"
  /\ UNCHANGED <<session, clientVars, wireVars, managerVars>>

\* Mutant: the wait for the answer to stop has no limit.
StopExpiresNever ==
  /\ main = "stopping" /\ "stop" \notin got
  /\ UNCHANGED vars

\* stop_waiting_timeout has passed.
StopExpires ==
  /\ main = "stopping" /\ "stop" \notin got
  /\ main' = "leaving"
  /\ UNCHANGED <<session, clientVars, wireVars, managerVars>>

\* Runtime::stop, called by the action or by ~Runtime while it is unwound,
\* stops the service: no pool thread takes another handler.
StopRuntime ==
  /\ main = "leaving"
  /\ main' = "joining"
  /\ UNCHANGED <<session, clientVars, wireVars, managerVars>>

\* The pool threads are joined, the one that waits in start_container too.
Exit ==
  /\ main = "joining" /\ starter # "waiting"
  /\ main' = "off"
  /\ UNCHANGED <<session, clientVars, wireVars, managerVars>>

\* The process is killed.
Kill ==
  /\ main # "off"
  /\ main' = "off"
  /\ UNCHANGED <<session, clientVars, wireVars, managerVars>>

-------------------------------------------------------------------------------
(* The container manager.                                                  *)

\* Service::new_client: one client at a time, with an LxcContainer of its own.
Accept(n) ==
  /\ manager /\ sock[n] = "queued"
  /\ IF connection # 0
     THEN /\ sock' = [sock EXCEPT ![n] = "closed"]
          /\ UNCHANGED serviceVars
     ELSE /\ sock' = [sock EXCEPT ![n] = "accepted"]
          /\ connection' = n /\ handler' = "reading"
          /\ state' = "inactive" /\ lxc' = FALSE
  /\ UNCHANGED <<sessionVars, inbox, outbox, manager, crashes, container,
                 stale>>

\* rpc::invoke sends the result. With the client gone the write throws, the
\* handler answers the exception with a second write that throws as well, and
\* on_read_size neither reads again nor removes the connection.
Reply(c, r) ==
  IF ClientAlive(connection)
  THEN /\ outbox' = [outbox EXCEPT ![connection] =
                       Append(@, [call |-> c, result |-> r])]
       /\ handler' = "reading"
  ELSE handler' = "wedged" /\ outbox' = outbox

\* The skeleton answers with an error and leaves the container alone.
Refused(c) == (c = "start") = (state = "running")

\* The handler takes a request; the skeleton looks at the container's state.
Serve ==
  /\ handler = "reading" /\ inbox[connection] # <<>>
  /\ inbox' = [inbox EXCEPT ![connection] = Tail(@)]
  /\ LET c == Head(inbox[connection]) IN
       IF Refused(c)
       THEN Reply(c, "error")
       ELSE /\ handler' = IF c = "start" THEN "starting" ELSE "stopping"
            /\ outbox' = outbox
  /\ UNCHANGED <<sessionVars, sock, manager, crashes, connection, state, lxc,
                 container, stale>>

\* LxcContainer::start succeeds.
LxcStarts ==
  /\ handler = "starting"
  /\ container' = TRUE /\ state' = "running" /\ lxc' = TRUE /\ stale' = FALSE
  /\ Reply("start", "ok")
  /\ UNCHANGED <<sessionVars, sock, inbox, manager, crashes, connection>>

\* It throws before it has a container_, or after, when it has tried to stop
\* whatever ran before without a look at the result.
LxcStartFails ==
  /\ handler = "starting"
  /\ \/ UNCHANGED <<container, lxc, stale>>
     \/ container' \in {FALSE, container} /\ lxc' = TRUE /\ stale' = FALSE
  /\ Reply("start", "error")
  /\ UNCHANGED <<sessionVars, sock, inbox, manager, crashes, connection, state>>

\* LxcContainer::stop, which returns early when nothing runs.
LxcStops ==
  /\ handler = "stopping"
  /\ container' = FALSE
  /\ state' = IF container THEN "inactive" ELSE state
  /\ Reply("stop", "ok")
  /\ UNCHANGED <<sessionVars, sock, inbox, manager, crashes, connection, lxc,
                 stale>>

\* Mutant: the result of the LXC call is not looked at.
LxcStopFailsUnseen ==
  /\ handler = "stopping" /\ container
  /\ state' = "inactive" /\ container' = container
  /\ Reply("stop", "ok")
  /\ UNCHANGED <<sessionVars, sock, inbox, manager, crashes, connection, lxc,
                 stale>>

\* container_->stop fails and LxcContainer::stop throws.
LxcStopFails ==
  /\ handler = "stopping" /\ container
  /\ state' = state /\ container' = container
  /\ Reply("stop", "error")
  /\ UNCHANGED <<sessionVars, sock, inbox, manager, crashes, connection, lxc,
                 stale>>

\* Mutant: the container is not stopped with the connection.
DropOnly ==
  /\ handler = "reading" /\ inbox[connection] = <<>> /\ ~ClientAlive(connection)
  /\ sock' = [sock EXCEPT ![connection] = "closed"]
  /\ connection' = 0 /\ handler' = "none"
  /\ UNCHANGED <<sessionVars, inbox, outbox, manager, crashes, state, lxc,
                 container, stale>>

\* Mutant: the read handler is armed again on the removed connection.
DropAndRead ==
  /\ handler = "reading" /\ inbox[connection] = <<>> /\ ~ClientAlive(connection)
  /\ sock' = [sock EXCEPT ![connection] = "closed"]
  /\ connection' = 0 /\ container' = (container /\ ~lxc)
  /\ UNCHANGED <<sessionVars, inbox, outbox, manager, crashes, handler, state,
                 lxc, stale>>

\* Mutant: only a container in state running is stopped.
DropRunningOnly ==
  /\ handler = "reading" /\ inbox[connection] = <<>> /\ ~ClientAlive(connection)
  /\ sock' = [sock EXCEPT ![connection] = "closed"]
  /\ connection' = 0 /\ handler' = "none"
  /\ container' = (container /\ state # "running")
  /\ UNCHANGED <<sessionVars, inbox, outbox, manager, crashes, state, lxc, stale>>

\* on_read_size with an error: the connection is removed and with it goes its
\* LxcContainer, whose destructor stops the container.
Drop ==
  /\ handler = "reading" /\ inbox[connection] = <<>> /\ ~ClientAlive(connection)
  /\ sock' = [sock EXCEPT ![connection] = "closed"]
  /\ connection' = 0 /\ handler' = "none"
  /\ container' = (container /\ ~lxc)
  /\ UNCHANGED <<sessionVars, inbox, outbox, manager, crashes, state, lxc, stale>>

ManagerGone ==
  /\ manager' = FALSE /\ crashes' = crashes + 1
  /\ connection' = 0 /\ handler' = "none"
  /\ sock' = [n \in Sessions |-> IF sock[n] = "none" THEN "none" ELSE "closed"]
  /\ inbox' = [n \in Sessions |-> <<>>]
  /\ UNCHANGED <<sessionVars, outbox, state, lxc, stale>>

\* The manager is killed, or the destructor of LxcContainer throws because
\* the container cannot be stopped: the container stays.
ManagerCrashes ==
  /\ manager /\ crashes < MaxCrashes
  /\ ManagerGone /\ container' = container

\* SIGTERM: the handlers that run are joined, then the Service is destroyed
\* and its connection's LxcContainer with it.
ManagerStops ==
  /\ manager /\ crashes < MaxCrashes /\ handler \notin {"starting", "stopping"}
  /\ ManagerGone /\ container' = (container /\ ~(connection # 0 /\ lxc))

\* The service is started again; stop_stale_container comes first. It passes
\* over a container that lxc_container_new does not give it. If the stop
\* fails the manager does not start.
ManagerStarts ==
  /\ ~manager
  /\ manager' = TRUE
  /\ container' \in {FALSE, container} /\ stale' = container'
  /\ UNCHANGED <<sessionVars, wireVars, crashes, serviceVars>>

\* Android powers off. state_ is not updated.
ContainerExits ==
  /\ container
  /\ container' = FALSE
  /\ UNCHANGED <<sessionVars, wireVars, manager, crashes, serviceVars, stale>>

-------------------------------------------------------------------------------
PoolStep == StartCall \/ StartCallFails \/ StartReturns
ReaderStep == ReadResult \/ ReadError \/ ReadThrows
MainStep ==
  StopCall \/ StopCallFails \/ StopReturns \/ StopExpires \/ StopRuntime \/ Exit
ServiceStep ==
  Serve \/ LxcStarts \/ LxcStartFails \/ LxcStops \/ LxcStopFails \/ Drop

Finished == main = "off" /\ session = MaxSessions /\ UNCHANGED vars

Next ==
  \/ Launch \/ PoolStep \/ ReaderStep \/ Signal \/ MainStep \/ Kill
  \/ \E n \in Sessions : Accept(n)
  \/ ServiceStep \/ ManagerCrashes \/ ManagerStops \/ ManagerStarts
  \/ ContainerExits \/ Finished

Spec == Init /\ [][Next]_vars

\* Threads run, timers expire, and LXC comes back from every call. Nobody has
\* to send a signal, kill a process or start one.
FairSpec ==
  /\ Spec
  /\ WF_vars(PoolStep) /\ WF_vars(ReaderStep) /\ WF_vars(MainStep)
  /\ WF_vars(ServiceStep) /\ \A n \in Sessions : WF_vars(Accept(n))

-------------------------------------------------------------------------------
\* The state has its types.
TypeOK ==
  /\ session \in 0..MaxSessions
  /\ main \in {"off", "running", "stopping", "leaving", "joining"}
  /\ trap \in BOOLEAN /\ reader \in BOOLEAN
  /\ starter \in {"scheduled", "waiting", "done"}
  /\ pending \subseteq CallNames /\ got \subseteq CallNames
  /\ response \in [CallNames -> {"none", "ok", "error"}]
  /\ sock \in [Sessions -> {"none", "queued", "accepted", "closed"}]
  /\ \A n \in Sessions :
       /\ inbox[n] \in Seq(CallNames)
       /\ outbox[n] \in Seq([call : CallNames, result : {"ok", "error"}])
  /\ manager \in BOOLEAN /\ crashes \in 0..MaxCrashes
  /\ connection \in 0..MaxSessions
  /\ handler \in {"none", "reading", "starting", "stopping", "wedged"}
  /\ (handler = "none") = (connection = 0)
  /\ state \in {"inactive", "running"} /\ lxc \in BOOLEAN
  /\ container \in BOOLEAN /\ stale \in BOOLEAN

\* No container runs that nobody is responsible for: while the manager is up
\* and has no client there is none, whatever crashed or failed before, but
\* for one that stop_stale_container passed over.
NoOrphan == manager /\ connection = 0 => ~container \/ stale

\* A stop request that was answered without an error has stopped the
\* container, and no late start of the session brings it up again.
\* (stop_container also returns, without an error, when its three seconds have
\* passed; ContainerFollowsSession covers that.)
StopMeansStopped ==
  main \in {"leaving", "joining"} /\ response["stop"] = "ok" => ~container

\* A container does not outlive its session, whether stop_container was
\* answered, refused, timed out or never called: the connection is removed
\* and ~LxcContainer stops what runs. What can prevent it is a handler that
\* was still serving the session when it went, and never reads again.
ContainerFollowsSession ==
  (main = "off" /\ manager /\ container)
    ~> (~container \/ stale \/ handler = "wedged" \/ ~manager \/ main # "off")

\* A session whose connection to the manager is lost or refused while it runs
\* ends, even when start_container waits without a limit for an answer that
\* cannot come: the write of stop_container fails and completes both calls.
LostManagerEndsSession ==
  main = "running" /\ sock[session] = "closed" ~> main = "off"

\* Once the start request has been answered, asking for the container to be
\* stopped never keeps the session from exiting.
StopEnds == main = "stopping" /\ starter = "done" ~> main = "off"

\* "If container manager dies before session manager, the session manager
\* cannot exit if it waits for all, so just wait for 3 seconds": a session
\* that is stopping exits.
ExitCompletes == main = "stopping" ~> main = "off"
===============================================================================
