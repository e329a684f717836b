------------------------------ MODULE AndroidApi ------------------------------
(***************************************************************************)
(* Calls of the session into Android: bridge::AndroidApiStub, with its     *)
(* rpc::Channel, PendingCallCache and WaitHandles, and the pool thread     *)
(* that reads the replies in MessageProcessor::process_data.               *)
(*                                                                         *)
(* launch, set_focused_task, remove_task and resize_task are the same code *)
(* around four wait handles, so a call is named by a member of Calls, made *)
(* once, and Method says which of the handles it uses. Calls come from the *)
(* SDL thread, the D-Bus thread and pool threads and overlap freely. What  *)
(* a call asks of Android is abstracted away; its response is an error or  *)
(* not.                                                                    *)
(*                                                                         *)
(* next_id increments a static variable without a lock: the load and the   *)
(* store are two steps, and two calls can draw the same id. The guest end  *)
(* is external: it reads invocations or lets the socket fill up, answers   *)
(* what it has read in any order, once each, or hangs up.                  *)
(***************************************************************************)
EXTENDS Naturals, FiniteSets, Functions

CONSTANTS
  Calls,        \* the calls made, each of them once
  Methods,      \* the methods, one WaitHandle each
  Method,       \* the method of a call
  MaxChannels,  \* bound: how often the guest connects
  SocketRoom    \* invocations a socket buffers until the guest reads them

ASSUME CallsAssumption ==
  /\ IsFiniteSet(Calls)
  /\ Method \in [Calls -> Methods]
  /\ MaxChannels \in Nat /\ SocketRoom \in Nat \ {0}

VARIABLES
  channel,      \* channel_ of the stub, 0 before the first client connects
  open,         \* per channel: the guest's end of its socket is open
  next_id,      \* next_message_id
  pending,      \* per channel: pending_calls_, from ids to calls
  unread,       \* per channel: invocations in the socket
  requests,     \* per channel: invocations the guest has read, not answered
  replies,      \* per channel: results the host has not read
  reader,       \* per channel: where its read handler is
  reading,      \* per channel: the result the read handler is at
  handle,       \* per method: the WaitHandle
  call,         \* per call: where it is
  id,           \* per call: the id it drew
  via,          \* per call: the channel it was made on
  response,     \* per call: what was parsed into its response message
  timed_out,    \* calls whose wait ran into the limit
  forced,       \* calls completed by force_completion
  stale         \* history: calls whose response was written after they returned

channelVars == <<channel, open>>
wireVars == <<unread, requests, replies>>
readerVars == <<reader, reading>>
callVars == <<id, via>>
historyVars == <<timed_out, forced, stale>>
vars == <<channel, open, next_id, pending, wireVars, reader, reading, handle,
          call, id, via, response, timed_out, forced, stale>>

Channels == 1..MaxChannels
Results == {"ok", "error"}
Garbled == "garbled"   \* the Result or the response in it does not parse

\* What a call returned with: normally, with the error Android answered,
\* with "RPC call timed out", or with the error of the socket or of
\* ensure_rpc_channel.
Outcomes == {"returned", "answered_error", "timed_out", "disconnected"}

Waiting == {c \in Calls : call[c] = "waiting"}

EmptyCache == [i \in {} |-> i]

Init ==
  /\ channel = 0
  /\ open = [ch \in Channels |-> FALSE]
  /\ next_id = 0
  /\ pending = [ch \in Channels |-> EmptyCache]
  /\ unread = [ch \in Channels |-> {}]
  /\ requests = [ch \in Channels |-> {}]
  /\ replies = [ch \in Channels |-> {}]
  /\ reader = [ch \in Channels |-> "closed"]
  /\ reading = [ch \in Channels |-> {}]
  /\ handle = [m \in Methods |-> [expecting |-> 0, received |-> 0]]
  /\ call = [c \in Calls |-> "new"]
  /\ id = [c \in Calls |-> 0]
  /\ via = [c \in Calls |-> 0]
  /\ response = [c \in Calls |-> "none"]
  /\ timed_out = {} /\ forced = {} /\ stale = {}

-------------------------------------------------------------------------------
(* The connection to the guest.                                            *)

\* rpc::ConnectionCreator::create_connection_for and the factory of the
\* session manager: one client at a time, each with a cache of its own.
Connect ==
  /\ channel < MaxChannels
  /\ \A ch \in Channels : reader[ch] = "closed"
  /\ channel' = channel + 1
  /\ open' = [open EXCEPT ![channel + 1] = TRUE]
  /\ reader' = [reader EXCEPT ![channel + 1] = "reading"]
  /\ UNCHANGED <<next_id, pending, wireVars, reading, handle, call, callVars,
                 response, historyVars>>

\* The guest goes away. What it has sent can still be read.
HangUp(ch) ==
  /\ open[ch]
  /\ open' = [open EXCEPT ![ch] = FALSE]
  /\ unread' = [unread EXCEPT ![ch] = {}]
  /\ requests' = [requests EXCEPT ![ch] = {}]
  /\ UNCHANGED <<channel, next_id, pending, replies, readerVars, handle, call,
                 callVars, response, historyVars>>

\* The guest reads an invocation.
GuestReads(ch) ==
  /\ \E q \in unread[ch] :
        /\ unread' = [unread EXCEPT ![ch] = @ \ {q}]
        /\ requests' = [requests EXCEPT ![ch] = @ \cup {q}]
  /\ UNCHANGED <<channelVars, next_id, pending, replies, readerVars, handle,
                 call, callVars, response, historyVars>>

\* The guest answers a request.
Answer(ch) ==
  /\ \E q \in requests[ch], r \in Results \cup {Garbled} :
        /\ requests' = [requests EXCEPT ![ch] = @ \ {q}]
        /\ replies' = [replies EXCEPT ![ch] =
                         @ \cup {[id |-> q.id, from |-> q.from, result |-> r]}]
  /\ UNCHANGED <<channelVars, next_id, pending, unread, readerVars, handle,
                 call, callVars, response, historyVars>>

-------------------------------------------------------------------------------
(* A call of the stub.                                                     *)

Received(h, n) == [h EXCEPT !.received = @ + n]

\* ensure_rpc_channel throws.
Refuse(c) ==
  /\ call[c] = "new" /\ channel = 0
  /\ call' = [call EXCEPT ![c] = "disconnected"]
  /\ UNCHANGED <<channelVars, next_id, pending, wireVars, readerVars, handle,
                 callVars, response, historyVars>>

\* Mutant: the handle is not told of the call.
ExpectNothing(c) ==
  /\ call[c] = "new" /\ channel # 0
  /\ call' = [call EXCEPT ![c] = "expecting"]
  /\ UNCHANGED <<channelVars, next_id, pending, wireVars, readerVars, handle,
                 callVars, response, historyVars>>

\* WaitHandle::expect_result.
Expect(c) ==
  /\ call[c] = "new" /\ channel # 0
  /\ call' = [call EXCEPT ![c] = "expecting"]
  /\ handle' = [handle EXCEPT ![Method[c]].expecting = @ + 1]
  /\ UNCHANGED <<channelVars, next_id, pending, wireVars, readerVars, callVars,
                 response, historyVars>>

\* Mutant: the counter is decremented instead.
LoadIdBelow(c) ==
  /\ call[c] = "expecting"
  /\ call' = [call EXCEPT ![c] = "numbered"]
  /\ id' = [id EXCEPT ![c] = next_id - 1]
  /\ via' = [via EXCEPT ![c] = channel]
  /\ UNCHANGED <<channelVars, next_id, pending, wireVars, readerVars, handle,
                 response, historyVars>>

\* call_method on the channel of the moment; next_id loads the counter.
LoadId(c) ==
  /\ call[c] = "expecting"
  /\ call' = [call EXCEPT ![c] = "numbered"]
  /\ id' = [id EXCEPT ![c] = next_id]
  /\ via' = [via EXCEPT ![c] = channel]
  /\ UNCHANGED <<channelVars, next_id, pending, wireVars, readerVars, handle,
                 response, historyVars>>

\* next_id stores it back incremented; save_completion_details overwrites
\* whatever the cache has under this id.
Save(c) ==
  /\ call[c] = "numbered"
  /\ call' = [call EXCEPT ![c] = "saved"]
  /\ next_id' = id[c] + 1
  /\ pending' = [pending EXCEPT ![via[c]] =
                   [i \in DOMAIN @ \cup {id[c]} |-> IF i = id[c] THEN c ELSE @[i]]]
  /\ UNCHANGED <<channelVars, wireVars, readerVars, handle, callVars, response,
                 historyVars>>

\* send_message takes write_mutex_ of the channel.
LockWrite(c) ==
  /\ call[c] = "saved"
  /\ \A d \in Calls : ~(call[d] = "sending" /\ via[d] = via[c])
  /\ call' = [call EXCEPT ![c] = "sending"]
  /\ UNCHANGED <<channelVars, next_id, pending, wireVars, readerVars, handle,
                 callVars, response, historyVars>>

\* send writes the invocation to the socket. As long as the socket is full the
\* loop tries again, without limit and with write_mutex_ held.
Send(c) ==
  /\ call[c] = "sending" /\ open[via[c]]
  /\ Cardinality(unread[via[c]]) < SocketRoom
  /\ call' = [call EXCEPT ![c] = "waiting"]
  /\ unread' = [unread EXCEPT ![via[c]] = @ \cup {[id |-> id[c], from |-> c]}]
  /\ UNCHANGED <<channelVars, next_id, pending, requests, replies, readerVars,
                 handle, callVars, response, historyVars>>

\* The calls of method m that the cache of ch has an entry for.
CompletedOn(ch, m) == {c \in Range(pending[ch]) : Method[c] = m}

\* Mutant: force_completion runs the closures and keeps the entries.
SendFailsKept(c) ==
  /\ call[c] = "sending" /\ ~open[via[c]]
  /\ handle' = [m \in Methods |->
                  Received(handle[m], Cardinality(CompletedOn(via[c], m)))]
  /\ forced' = forced \cup Range(pending[via[c]])
  /\ call' = [call EXCEPT ![c] = "disconnected"]
  /\ UNCHANGED <<channelVars, next_id, pending, wireVars, readerVars, callVars,
                 response, timed_out, stale>>

\* The write fails and write_mutex_ is given back: notify_disconnected, that
\* is force_completion, runs every closure in the cache, and the error is
\* thrown to the caller.
SendFails(c) ==
  /\ call[c] = "sending" /\ ~open[via[c]]
  /\ handle' = [m \in Methods |->
                  Received(handle[m], Cardinality(CompletedOn(via[c], m)))]
  /\ forced' = forced \cup Range(pending[via[c]])
  /\ pending' = [pending EXCEPT ![via[c]] = EmptyCache]
  /\ call' = [call EXCEPT ![c] = "disconnected"]
  /\ UNCHANGED <<channelVars, next_id, wireVars, readerVars, callVars, response,
                 timed_out, stale>>

\* wait_for_pending: the condition holds.
Awake(c) ==
  /\ call[c] = "waiting"
  /\ handle[Method[c]].received = handle[Method[c]].expecting
  /\ call' = [call EXCEPT ![c] = "woken"]
  /\ UNCHANGED <<channelVars, next_id, pending, wireVars, readerVars, handle,
                 callVars, response, historyVars>>

\* Mutant: the wait starts again when its limit has passed.
ExpireNever(c) ==
  /\ call[c] = "waiting"
  /\ handle[Method[c]].received # handle[Method[c]].expecting
  /\ UNCHANGED vars

\* Mutant: a call that gives up takes its entry out of the cache.
ExpireErases(c) ==
  /\ call[c] = "waiting"
  /\ handle[Method[c]].received # handle[Method[c]].expecting
  /\ call' = [call EXCEPT ![c] = "woken"]
  /\ timed_out' = timed_out \cup {c}
  /\ pending' = [pending EXCEPT ![via[c]] = [i \in DOMAIN @ \ {id[c]} |-> @[i]]]
  /\ UNCHANGED <<channelVars, next_id, wireVars, readerVars, handle, callVars,
                 response, forced, stale>>

\* wait_for_pending: 30 seconds have passed and the condition does not hold.
Expire(c) ==
  /\ call[c] = "waiting"
  /\ handle[Method[c]].received # handle[Method[c]].expecting
  /\ call' = [call EXCEPT ![c] = "woken"]
  /\ timed_out' = timed_out \cup {c}
  /\ UNCHANGED <<channelVars, next_id, pending, wireVars, readerVars, handle,
                 callVars, response, forced, stale>>

\* has_result, then has_error of the response.
Return(c) ==
  /\ call[c] = "woken"
  /\ call' = [call EXCEPT ![c] =
                IF handle[Method[c]].received = 0 THEN "timed_out"
                ELSE IF response[c] = "error" THEN "answered_error"
                ELSE "returned"]
  /\ UNCHANGED <<channelVars, next_id, pending, wireVars, readerVars, handle,
                 callVars, response, historyVars>>

-------------------------------------------------------------------------------
(* The read handler of a connection: process_data on one result.           *)

Returned == {c \in Calls : call[c] \in Outcomes}

\* What is parsed into the response of the call the cache has under this id.
Parsed(ch, i, result) ==
  LET c == pending[ch][i] IN
    /\ response' = [response EXCEPT ![c] = result]
    /\ stale' = IF c \in Returned THEN stale \cup {c} ELSE stale

\* populate_message_for_result
Populate(ch) ==
  /\ reader[ch] = "reading"
  /\ \E r \in replies[ch] :
        /\ r.id \in DOMAIN pending[ch] /\ r.result # Garbled
        /\ Parsed(ch, r.id, r.result)
        /\ reading' = [reading EXCEPT ![ch] = {r.id}]
        /\ replies' = [replies EXCEPT ![ch] = @ \ {r}]
  /\ reader' = [reader EXCEPT ![ch] = "populated"]
  /\ UNCHANGED <<channelVars, next_id, pending, unread, requests, handle, call,
                 callVars, timed_out, forced>>

\* The Result does not parse, or the response in it only in part, with an
\* error or without: process_data returns false and the connection is removed.
\* The entry stays in the cache, and channel_ of the stub keeps the socket.
Reject(ch) ==
  /\ reader[ch] = "reading"
  /\ \E r \in replies[ch] :
        /\ r.result = Garbled
        /\ \/ UNCHANGED <<response, stale>>
           \/ /\ r.id \in DOMAIN pending[ch]
              /\ \E part \in Results : Parsed(ch, r.id, part)
        /\ replies' = [replies EXCEPT ![ch] = @ \ {r}]
  /\ reader' = [reader EXCEPT ![ch] = "closed"]
  /\ UNCHANGED <<channelVars, next_id, pending, unread, requests, reading,
                 handle, call, callVars, timed_out, forced>>

\* The cache has no such id: map::at throws through process_data and
\* on_read_size into the pool thread, and the connection is neither read nor
\* removed again.
UnknownId(ch) ==
  /\ reader[ch] = "reading"
  /\ \E r \in replies[ch] :
        /\ r.id \notin DOMAIN pending[ch]
        /\ replies' = [replies EXCEPT ![ch] = @ \ {r}]
  /\ reader' = [reader EXCEPT ![ch] = "wedged"]
  /\ UNCHANGED <<channelVars, next_id, pending, unread, requests, reading,
                 handle, call, callVars, response, historyVars>>

\* Mutant: the closure of a result runs whether or not it was still pending.
CompleteTwice(ch) ==
  /\ reader[ch] = "populated"
  /\ LET cs == {c \in Calls : id[c] \in reading[ch] /\ via[c] = ch} IN
       /\ pending' = [pending EXCEPT ![ch] =
                        [i \in DOMAIN @ \ reading[ch] |-> @[i]]]
       /\ handle' = [m \in Methods |->
            Received(handle[m], Cardinality({c \in cs : Method[c] = m}))]
  /\ reading' = [reading EXCEPT ![ch] = {}]
  /\ reader' = [reader EXCEPT ![ch] = "reading"]
  /\ UNCHANGED <<channelVars, next_id, wireVars, call, callVars, response,
                 historyVars>>

\* complete_response: the entry, if it is still there, leaves the cache and
\* its closure runs, which is result_received on the handle of its method.
Complete(ch) ==
  /\ reader[ch] = "populated"
  /\ LET cs == {pending[ch][i] : i \in DOMAIN pending[ch] \cap reading[ch]} IN
       /\ pending' = [pending EXCEPT ![ch] =
                        [i \in DOMAIN @ \ reading[ch] |-> @[i]]]
       /\ handle' = [m \in Methods |->
            Received(handle[m], Cardinality({c \in cs : Method[c] = m}))]
  /\ reading' = [reading EXCEPT ![ch] = {}]
  /\ reader' = [reader EXCEPT ![ch] = "reading"]
  /\ UNCHANGED <<channelVars, next_id, wireVars, call, callVars, response,
                 historyVars>>

\* SocketConnection::on_read_size with an error: the connection is removed.
\* Neither the stub's channel_ nor the pending calls learn of it.
EndOfStream(ch) ==
  /\ reader[ch] = "reading" /\ ~open[ch] /\ replies[ch] = {}
  /\ reader' = [reader EXCEPT ![ch] = "closed"]
  /\ UNCHANGED <<channelVars, next_id, pending, wireVars, reading, handle, call,
                 callVars, response, historyVars>>
-------------------------------------------------------------------------------
CallStep(c) ==
  \/ Refuse(c) \/ Expect(c) \/ LoadId(c) \/ Save(c) \/ LockWrite(c)
  \/ Send(c) \/ SendFails(c) \/ Awake(c) \/ Expire(c) \/ Return(c)

ReaderStep(ch) == \/ Populate(ch) \/ Reject(ch) \/ UnknownId(ch)
                  \/ Complete(ch) \/ EndOfStream(ch)

\* Nothing is left to do but for the guest to connect or hang up.
Finished == Returned = Calls /\ UNCHANGED vars

Next ==
  \/ Connect
  \/ \E ch \in Channels : HangUp(ch) \/ GuestReads(ch) \/ Answer(ch)
                           \/ ReaderStep(ch)
  \/ \E c \in Calls : CallStep(c)
  \/ Finished

Spec == Init /\ [][Next]_vars

\* A caller is a running thread. The guest reads what is sent to it, or hangs
\* up; it need not answer.
FairSpec == /\ Spec
            /\ \A c \in Calls : WF_vars(call[c] # "new" /\ CallStep(c))
            /\ \A ch \in Channels : WF_vars(GuestReads(ch))

-------------------------------------------------------------------------------
Stages == {"new", "expecting", "numbered", "saved", "sending", "waiting",
           "woken"}

\* The state has its types, and the cache of a channel holds calls of Calls.
TypeOK ==
  /\ channel \in 0..MaxChannels
  /\ open \in [Channels -> BOOLEAN]
  /\ next_id \in Nat
  /\ \A ch \in Channels :
       /\ DOMAIN pending[ch] \subseteq Nat
       /\ Range(pending[ch]) \subseteq Calls
       /\ unread[ch] \cup requests[ch] \subseteq [id : Nat, from : Calls]
       /\ replies[ch] \subseteq
            [id : Nat, from : Calls, result : Results \cup {Garbled}]
       /\ reading[ch] \subseteq Nat
  /\ reader \in [Channels -> {"closed", "reading", "populated", "wedged"}]
  /\ handle \in [Methods -> [expecting : Nat, received : Nat]]
  /\ call \in [Calls -> Stages \cup Outcomes]
  /\ id \in [Calls -> Nat]
  /\ via \in [Calls -> 0..MaxChannels]
  /\ response \in [Calls -> Results \cup {"none"}]
  /\ timed_out \subseteq Calls /\ forced \subseteq Calls /\ stale \subseteq Calls

\* The calls of a method whose result is expected and can still arrive.
Outstanding(m) ==
  {c \in Calls : /\ Method[c] = m
                 /\ \/ call[c] \in {"expecting", "numbered"}
                    \/ \E ch \in Channels : c \in Range(pending[ch])}

\* The counters of a wait handle never run ahead: results received and calls
\* that still await one are together no more than the results expected. This
\* is what makes received == expecting in wait_for_pending mean that no call
\* of the method is outstanding, whatever replies, failed sends and colliding
\* ids did before.
NothingCountedTwice ==
  \A m \in Methods :
    handle[m].received + Cardinality(Outstanding(m)) <= handle[m].expecting

\* Two calls drew the same id for one cache.
Collided ==
  \E c, d \in Calls : c # d /\ id[c] = id[d] /\ via[c] = via[d] /\ via[c] # 0

\* A call that leaves wait_for_pending before its limit has its response, or
\* the channel failed while it waited, even when several threads share the
\* handle of the method. Only a collision of ids can hand it the result of
\* another call.
WokenMeansSettled ==
  \A c \in Calls :
    call[c] \in {"woken", "returned"} /\ c \notin timed_out
      => response[c] # "none" \/ c \in forced \/ Collided

\* A response message is written after its call returned, when the Request
\* that owns it is gone, only if the call ran into the limit.
LateWritesFollowTimeouts == stale \subseteq timed_out \/ Collided

\* process_data is never stopped by a result it does not know while the guest
\* is connected, unless two calls drew the same id: late replies still find
\* their entry, because a call that gave up leaves it in the cache.
KnownIdsOnly ==
  \A ch \in Channels : reader[ch] = "wedged" => ~open[ch] \/ Collided

\* Every call comes back to its caller, answered or not, as long as the guest
\* reads or hangs up. No limit applies before wait_for_pending: a guest that
\* does neither keeps the caller in send, and every later one at write_mutex_.
CallsReturn == \A c \in Calls : call[c] = "expecting" ~> call[c] \in Outcomes

\* "RPC call timed out" is thrown when the wait ended without a result: a call
\* that returns normally was answered.
TimeoutReported ==
  \A c \in timed_out : call[c] = "returned" => response[c] # "none"
===============================================================================
