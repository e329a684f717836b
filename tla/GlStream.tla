------------------------------- MODULE GlStream -------------------------------
(***************************************************************************)
(* One OpenGL ES guest connection: OpenGlesMessageProcessor, its           *)
(* BufferedIOStream and its RenderThread.                                  *)
(*                                                                         *)
(* Three threads share the stream. The network thread posts what the guest *)
(* sends and in the end destroys the processor. The render thread reads,   *)
(* decodes packets and commits replies. The writer thread sends replies.   *)
(* lock_ protects in_queue_, out_lock_ protects out_queue_, and forceStop  *)
(* closes both queues holding only lock_. The decoders run under m_lock,   *)
(* which the render threads of all connections share; the other threads   *)
(* appear only as somebody who takes it.                                   *)
(*                                                                         *)
(* The guest's byte stream is abstracted to units 1, 2, 3, ...; a packet   *)
(* is PacketSize consecutive units and a reply is named by the first unit  *)
(* of its packet. Waiting on a condition variable is a step of its own     *)
(* where the notifier may run without the waiter's lock. Spurious wake-ups *)
(* are left out: every waiter checks its condition again.                  *)
(***************************************************************************)
EXTENDS BufferQueue, SequencesExt

CONSTANTS
  InCapacity,    \* slots of in_queue_
  OutCapacity,   \* slots of out_queue_
  PacketSize,    \* units of a packet
  MaxChunk,      \* bound: units the network thread reads at once
  MaxUnits,      \* bound: units the guest sends
  BufferSize     \* the initial size of ReadBuffer

ASSUME StreamAssumption ==
  /\ InCapacity \in Nat \ {0} /\ OutCapacity \in Nat \ {0}
  /\ PacketSize \in Nat \ {0} /\ BufferSize \in Nat \ {0}
  /\ MaxChunk \in Nat \ {0} /\ MaxUnits \in Nat
  /\ NoBuffer \notin Seq(Nat) /\ NoBuffer \notin Nat

VARIABLES
  guest_sent,   \* units the guest has sent
  guest_gone,   \* the guest has closed its end of the pipe
  received,     \* replies the guest has received
  net,          \* where the network thread is
  posting,      \* the buffer post_data was called with
  lock,         \* who holds lock_
  in_queue, left,          \* in_queue_ and what is left of read_buffer_
  readbuf, buf_size, got,  \* ReadBuffer, and units read by this call
  render,       \* where the render thread is
  consumed,     \* units decoded
  stuck,        \* the packet at the head is one no decoder takes
  gl_lock,      \* who holds m_lock: this render thread, another, nobody
  reply,        \* the reply being committed
  replies,      \* history: replies committed, in order
  out_lock,     \* who holds out_lock_
  out_queue,
  writer,       \* where the writer thread is
  outgoing      \* the reply the writer has taken

guestVars == <<guest_sent, guest_gone>>
netVars == <<net, posting>>
readVars == <<readbuf, buf_size, got, left>>
decodeVars == <<consumed, stuck, gl_lock>>
replyVars == <<reply, replies>>
outVars == <<out_lock, out_queue>>
writerVars == <<writer, outgoing, received>>

\* What the steps of the network thread, of read, of commitBuffer and of the
\* writer thread leave alone unless they say otherwise.
netRest == <<lock, in_queue, readVars, render, decodeVars, replyVars, outVars,
             writerVars>>
readRest == <<guestVars, decodeVars, replyVars, outVars, writerVars>>
commitRest == <<guestVars, netVars, lock, in_queue, readVars, consumed, stuck>>
writerRest == <<commitRest, gl_lock, replyVars>>

vars == <<guestVars, netVars, lock, in_queue, readVars, render, decodeVars,
          replyVars, outVars, writerVars>>

Init ==
  /\ guest_sent = 0 /\ guest_gone = FALSE /\ received = <<>>
  /\ net = "read" /\ posting = <<>>
  /\ lock = "none" /\ in_queue = NewQueue(InCapacity) /\ left = <<>>
  /\ readbuf = <<>> /\ buf_size = BufferSize /\ got = 0
  /\ render = "read" /\ consumed = 0 /\ stuck = FALSE /\ gl_lock = "none"
  /\ reply = NoBuffer /\ replies = <<>>
  /\ out_lock = "none" /\ out_queue = NewQueue(OutCapacity)
  /\ writer = "lock" /\ outgoing = NoBuffer

\* A notification reaches a thread that waits, and no other.
Notified(pc, waiting, woken) == IF pc = waiting THEN woken ELSE pc

-----------------------------------------------------------------------------
(* The guest and the network thread. *)

\* The guest closes the pipe.
HangUp ==
  /\ ~guest_gone
  /\ guest_gone' = TRUE
  /\ UNCHANGED <<netRest, netVars, guest_sent>>

\* The network thread reads a message and calls process_data.
Receive ==
  /\ net = "read" /\ ~guest_gone
  /\ \E n \in 1..MaxChunk :
       /\ guest_sent + n <= MaxUnits
       /\ guest_sent' = guest_sent + n
       /\ posting' = [i \in 1..n |-> guest_sent + i]
  /\ net' = "post"
  /\ UNCHANGED <<netRest, guest_gone>>

\* Mutant: post_data does not look at the capacity.
PostUnbounded ==
  /\ net \in {"post", "post_woken"} /\ lock = "none"
  /\ in_queue' = Push(in_queue, InCapacity, posting)
  /\ render' = Notified(render, "read_wait", "read_woken")
  /\ net' = "read" /\ posting' = <<>>
  /\ UNCHANGED <<readRest, readVars, lock>>

\* post_data, and push_locked once there is a slot
Post ==
  /\ net \in {"post", "post_woken"} /\ lock = "none"
  /\ in_queue.count < InCapacity
  /\ in_queue' = Push(in_queue, InCapacity, posting)
  /\ render' = IF in_queue.count = 0
               THEN Notified(render, "read_wait", "read_woken") ELSE render
  /\ net' = "read" /\ posting' = <<>>
  /\ UNCHANGED <<readRest, readVars, lock>>

\* push_locked waits: the guest is not read while the render thread is behind.
PostWait ==
  /\ net \in {"post", "post_woken"} /\ lock = "none"
  /\ in_queue.count = InCapacity
  /\ net' = "post_wait"
  /\ UNCHANGED <<netRest, guestVars, posting>>

\* The connection is removed, by a read error or because the session ends:
\* ~OpenGlesMessageProcessor begins.
BeginDestroy ==
  /\ net = "read"
  /\ net' = "stop1"
  /\ UNCHANGED <<netRest, guestVars, posting>>

\* forceStop is called by ~OpenGlesMessageProcessor, by ~RenderThread and by
\* ~BufferedIOStream, each time with this continuation.
AfterStop == [stop1 |-> "notify1", notify1 |-> "join_render",
              stop2 |-> "notify2", notify2 |-> "stop3",
              stop3 |-> "notify3", notify3 |-> "join_writer"]

\* Mutant: a reader that waits is not woken.
ForceStopSilent ==
  /\ net \in {"stop1", "stop2", "stop3"} /\ lock = "none"
  /\ lock' = "net"
  /\ in_queue' = Close(in_queue)
  /\ out_queue' = Close(out_queue)
  /\ net' = AfterStop[net]
  /\ UNCHANGED <<guestVars, posting, readVars, render, decodeVars, replyVars,
                 out_lock, writerVars>>

\* forceStop up to closed_ = true for out_queue_
ForceStop ==
  /\ net \in {"stop1", "stop2", "stop3"} /\ lock = "none"
  /\ lock' = "net"
  /\ in_queue' = Close(in_queue)
  /\ render' = IF in_queue.count = 0
               THEN Notified(render, "read_wait", "read_woken") ELSE render
  /\ out_queue' = Close(out_queue)
  /\ net' = AfterStop[net]
  /\ UNCHANGED <<guestVars, posting, readVars, decodeVars, replyVars,
                 out_lock, writerVars>>

\* ... and the wake-ups of out_queue_, while its users may be running.
ForceStopNotify ==
  /\ net \in {"notify1", "notify2", "notify3"}
  /\ render' = IF out_queue.count = OutCapacity
               THEN Notified(render, "push_wait", "push_woken") ELSE render
  /\ writer' = IF out_queue.count = 0
               THEN Notified(writer, "wait", "woken") ELSE writer
  /\ lock' = "none"
  /\ net' = AfterStop[net]
  /\ UNCHANGED <<guestVars, posting, in_queue, readVars, decodeVars, replyVars,
                 outVars, outgoing, received>>

\* render_thread_->wait
JoinRender ==
  /\ net = "join_render" /\ render = "exited"
  /\ net' = "stop2"
  /\ UNCHANGED <<netRest, guestVars, posting>>

\* worker_thread_.join()
JoinWriter ==
  /\ net = "join_writer" /\ writer = "exited"
  /\ net' = "gone"
  /\ UNCHANGED <<netRest, guestVars, posting>>

-----------------------------------------------------------------------------
(* The render thread: ReadBuffer::getData and BufferedIOStream::read. *)

\* getData makes room, doubling a full buffer, and calls read.
ReadBegin ==
  /\ render = "read" /\ lock = "none"
  /\ buf_size' = IF Len(readbuf) = buf_size THEN 2 * buf_size ELSE buf_size
  /\ got' = 0
  /\ lock' = "render"
  /\ render' = "reading"
  /\ UNCHANGED <<readRest, netVars, in_queue, readbuf, left>>

\* The full buffer cannot be enlarged: getData fails and main leaves its loop.
GrowFails ==
  /\ render = "read" /\ Len(readbuf) = buf_size
  /\ render' = "exited"
  /\ UNCHANGED <<readRest, netVars, readVars, lock, in_queue>>

\* readbuf grows as units are copied, so this is wanted - count of read.
Wanted == buf_size - Len(readbuf)

ReadCopy ==
  /\ render = "reading" /\ Wanted > 0 /\ left # <<>>
  /\ LET n == Min({Wanted, Len(left)})
     IN /\ readbuf' = readbuf \o SubSeq(left, 1, n)
        /\ left' = SubSeq(left, n+1, Len(left))
        /\ got' = got + n
  /\ UNCHANGED <<readRest, netVars, lock, in_queue, buf_size, render>>

\* Mutant: the next buffer is taken although the last one is not used up.
ReadPopEarly ==
  /\ render = "reading" /\ Wanted > 0 /\ in_queue.count > 0
  /\ left' = FrontBuffer(in_queue)
  /\ in_queue' = Pop(in_queue, InCapacity)
  /\ net' = IF in_queue.count = InCapacity
            THEN Notified(net, "post_wait", "post_woken") ELSE net
  /\ UNCHANGED <<readRest, posting, lock, readbuf, buf_size, got, render>>

\* pop_locked and try_pop_locked find a buffer.
ReadPop ==
  /\ render = "reading" /\ Wanted > 0 /\ left = <<>> /\ in_queue.count > 0
  /\ left' = FrontBuffer(in_queue)
  /\ in_queue' = Pop(in_queue, InCapacity)
  /\ net' = IF in_queue.count = InCapacity
            THEN Notified(net, "post_wait", "post_woken") ELSE net
  /\ UNCHANGED <<readRest, posting, lock, readbuf, buf_size, got, render>>

\* pop_locked waits, only if nothing has been read yet.
ReadWait ==
  /\ render = "reading" /\ left = <<>> /\ in_queue.count = 0 /\ got = 0
  /\ ~in_queue.closed
  /\ render' = "read_wait" /\ lock' = "none"
  /\ UNCHANGED <<readRest, netVars, readVars, in_queue>>

ReadWake ==
  /\ render = "read_woken" /\ lock = "none"
  /\ render' = "reading" /\ lock' = "render"
  /\ UNCHANGED <<readRest, netVars, readVars, in_queue>>

ReadDone ==
  /\ render = "reading" /\ got > 0
  /\ Wanted = 0 \/ (left = <<>> /\ in_queue.count = 0)
  /\ render' = "decode" /\ lock' = "none"
  /\ UNCHANGED <<readRest, netVars, readVars, in_queue>>

\* Mutant: a closed queue ends the thread whatever it still holds.
ReadEndEarly ==
  /\ render = "reading" /\ in_queue.closed
  /\ render' = "exited" /\ lock' = "none"
  /\ UNCHANGED <<readRest, netVars, readVars, in_queue>>

\* A closed and empty queue: read returns nullptr and main leaves its loop.
ReadEnd ==
  /\ render = "reading" /\ left = <<>> /\ in_queue.count = 0 /\ got = 0
  /\ in_queue.closed
  /\ render' = "exited" /\ lock' = "none"
  /\ UNCHANGED <<readRest, netVars, readVars, in_queue>>

-----------------------------------------------------------------------------
(* The render thread: RenderThread::main and BufferedIOStream::commitBuffer. *)

\* Not a whole packet: main reads again. Like every round of its inner loop
\* this takes m_lock and gives it back.
DecodeMore ==
  /\ render = "decode" /\ gl_lock = "none" /\ Len(readbuf) < PacketSize
  /\ render' = "read"
  /\ UNCHANGED <<writerRest, outVars, writerVars>>

\* No decoder takes the packet, because its opcode is unknown or its size
\* field is less than a header. It stays at the head and main reads again.
Undecodable ==
  /\ render = "decode" /\ gl_lock = "none" /\ Len(readbuf) >= PacketSize
  /\ stuck' = TRUE
  /\ render' = "read"
  /\ UNCHANGED <<guestVars, netVars, lock, in_queue, readVars, consumed,
                 gl_lock, replyVars, outVars, writerVars>>

\* One of the decoders consumes the packet. A reply is committed before
\* m_lock is given back.
Decode ==
  /\ render = "decode" /\ gl_lock = "none" /\ Len(readbuf) >= PacketSize
  /\ ~stuck
  /\ readbuf' = SubSeq(readbuf, PacketSize+1, Len(readbuf))
  /\ consumed' = consumed + PacketSize
  /\ \/ reply' = Head(readbuf) /\ render' = "reply" /\ gl_lock' = "render"
     \/ UNCHANGED <<reply, render, gl_lock>>
  /\ UNCHANGED <<guestVars, netVars, lock, in_queue, buf_size, got, left,
                 stuck, replies, outVars, writerVars>>

\* The render thread of another connection decodes a packet.
OthersLock ==
  /\ gl_lock = "none"
  /\ gl_lock' = "others"
  /\ UNCHANGED <<commitRest, render, replyVars, outVars, writerVars>>

OthersUnlock ==
  /\ gl_lock = "others"
  /\ gl_lock' = "none"
  /\ UNCHANGED <<commitRest, render, replyVars, outVars, writerVars>>

\* commitBuffer takes out_lock_, as push_locked does when it wakes up.
CommitLock ==
  /\ render \in {"reply", "push_woken"} /\ out_lock = "none"
  /\ out_lock' = "render"
  /\ render' = "push"
  /\ UNCHANGED <<writerRest, writerVars, out_queue>>

\* Mutant: a writer that waits is not told of the reply.
CommitSilent ==
  /\ render = "push" /\ out_queue.count < OutCapacity /\ ~out_queue.closed
  /\ out_queue' = Push(out_queue, OutCapacity, reply)
  /\ replies' = Append(replies, reply) /\ reply' = NoBuffer
  /\ out_lock' = "none" /\ gl_lock' = "none" /\ render' = "decode"
  /\ UNCHANGED <<commitRest, writerVars>>

\* Mutant: a full queue gets the reply in place of its oldest one.
CommitOverwrite ==
  /\ render = "push" /\ ~out_queue.closed
  /\ out_queue' = IF out_queue.count < OutCapacity
                  THEN Push(out_queue, OutCapacity, reply)
                  ELSE Push(Pop(out_queue, OutCapacity), OutCapacity, reply)
  /\ writer' = Notified(writer, "wait", "woken")
  /\ replies' = Append(replies, reply) /\ reply' = NoBuffer
  /\ out_lock' = "none" /\ gl_lock' = "none" /\ render' = "decode"
  /\ UNCHANGED <<commitRest, outgoing, received>>

\* push_locked finds a slot.
Commit ==
  /\ render = "push" /\ out_queue.count < OutCapacity /\ ~out_queue.closed
  /\ out_queue' = Push(out_queue, OutCapacity, reply)
  /\ writer' = IF out_queue.count = 0
               THEN Notified(writer, "wait", "woken") ELSE writer
  /\ replies' = Append(replies, reply) /\ reply' = NoBuffer
  /\ out_lock' = "none" /\ gl_lock' = "none" /\ render' = "decode"
  /\ UNCHANGED <<commitRest, outgoing, received>>

\* push_locked fails: commitBuffer does not look at its result.
CommitDropped ==
  /\ render = "push" /\ out_queue.closed
  /\ reply' = NoBuffer
  /\ out_lock' = "none" /\ gl_lock' = "none" /\ render' = "decode"
  /\ UNCHANGED <<commitRest, writerVars, replies, out_queue>>

\* push_locked has seen a full, open queue ...
CommitFull ==
  /\ render = "push" /\ out_queue.count = OutCapacity /\ ~out_queue.closed
  /\ render' = "push_sleep"
  /\ UNCHANGED <<writerRest, outVars, writerVars>>

\* ... and waits.
CommitWait ==
  /\ render = "push_sleep"
  /\ render' = "push_wait" /\ out_lock' = "none"
  /\ UNCHANGED <<writerRest, writerVars, out_queue>>

-----------------------------------------------------------------------------
(* The writer thread: BufferedIOStream::thread_main. *)

WriterLock ==
  /\ writer \in {"lock", "woken"} /\ out_lock = "none"
  /\ out_lock' = "writer"
  /\ writer' = "pop"
  /\ UNCHANGED <<writerRest, render, out_queue, outgoing, received>>

\* Mutant: a render thread that waits for a slot is not told of it.
WriterPopSilent ==
  /\ writer = "pop" /\ out_queue.count > 0
  /\ outgoing' = FrontBuffer(out_queue)
  /\ out_queue' = Pop(out_queue, OutCapacity)
  /\ writer' = "send"
  /\ UNCHANGED <<writerRest, render, out_lock, received>>

WriterPop ==
  /\ writer = "pop" /\ out_queue.count > 0
  /\ outgoing' = FrontBuffer(out_queue)
  /\ out_queue' = Pop(out_queue, OutCapacity)
  /\ render' = IF out_queue.count = OutCapacity
               THEN Notified(render, "push_wait", "push_woken") ELSE render
  /\ writer' = "send"
  /\ UNCHANGED <<writerRest, out_lock, received>>

\* pop_locked has seen an empty, open queue ...
WriterEmpty ==
  /\ writer = "pop" /\ out_queue.count = 0 /\ ~out_queue.closed
  /\ writer' = "sleep"
  /\ UNCHANGED <<writerRest, outVars, render, outgoing, received>>

\* ... and waits.
WriterWait ==
  /\ writer = "sleep"
  /\ writer' = "wait" /\ out_lock' = "none"
  /\ UNCHANGED <<writerRest, render, out_queue, outgoing, received>>

WriterEnd ==
  /\ writer = "pop" /\ out_queue.count = 0 /\ out_queue.closed
  /\ writer' = "exited" /\ out_lock' = "none"
  /\ UNCHANGED <<writerRest, render, out_queue, outgoing, received>>

\* The whole reply is written with out_lock_ held; a busy socket is tried
\* again, and a reply to a guest that is gone is dropped.
WriterSend ==
  /\ writer = "send"
  /\ received' = IF guest_gone THEN received ELSE Append(received, outgoing)
  /\ outgoing' = NoBuffer
  /\ writer' = "lock" /\ out_lock' = "none"
  /\ UNCHANGED <<writerRest, render, out_queue>>

-----------------------------------------------------------------------------
NetContinues == Post \/ PostWait \/ ForceStop \/ ForceStopNotify
                \/ JoinRender \/ JoinWriter

Decoding == DecodeMore \/ Undecodable \/ Decode

Render == \/ ReadBegin \/ GrowFails \/ ReadCopy \/ ReadPop \/ ReadWait
          \/ ReadWake \/ ReadDone \/ ReadEnd \/ Decoding \/ CommitLock
          \/ Commit \/ CommitDropped \/ CommitFull \/ CommitWait

Writer == \/ WriterLock \/ WriterPop \/ WriterEmpty \/ WriterWait
          \/ WriterEnd \/ WriterSend

Finished == net = "gone" /\ UNCHANGED vars

Next == HangUp \/ Receive \/ BeginDestroy \/ NetContinues \/ Render \/ Writer
        \/ OthersLock \/ OthersUnlock \/ Finished

Spec == Init /\ [][Next]_vars

\* The three threads run whenever they can; for the writer this takes a guest
\* that reads its replies until it hangs up. The guest need not send. The
\* other render threads give m_lock back after each packet, and do not keep
\* this one from it for ever.
FairSpec == /\ Spec
            /\ WF_vars(NetContinues) /\ WF_vars(Render) /\ WF_vars(Writer)
            /\ WF_vars(OthersUnlock) /\ SF_vars(Decoding)

-----------------------------------------------------------------------------
(* Properties. *)

NetStates == {"read", "post", "post_wait", "post_woken", "join_render",
              "join_writer", "gone"} \cup DOMAIN AfterStop

RenderStates == {"read", "reading", "read_wait", "read_woken", "decode",
                 "reply", "push", "push_sleep", "push_wait", "push_woken",
                 "exited"}

WriterStates == {"lock", "pop", "sleep", "wait", "woken", "send", "exited"}

\* The types, and that neither ring is ever fuller than its capacity.
TypeOK ==
  /\ guest_sent \in Nat /\ guest_gone \in BOOLEAN /\ received \in Seq(Nat)
  /\ net \in NetStates /\ posting \in Seq(Nat)
  /\ lock \in {"none", "net", "render"}
  /\ in_queue \in Queues(InCapacity, Seq(Nat)) /\ left \in Seq(Nat)
  /\ readbuf \in Seq(Nat) /\ buf_size \in Nat /\ got \in Nat
  /\ render \in RenderStates /\ consumed \in Nat /\ stuck \in BOOLEAN
  /\ gl_lock \in {"none", "render", "others"}
  /\ reply \in Nat \cup {NoBuffer} /\ replies \in Seq(Nat)
  /\ out_lock \in {"none", "render", "writer"}
  /\ out_queue \in Queues(OutCapacity, Nat)
  /\ writer \in WriterStates /\ outgoing \in Nat \cup {NoBuffer}

\* Everything the guest has sent and no decoder has consumed, in the order in
\* which the render thread will see it.
Undecoded ==
  readbuf \o left \o FlattenSeq(Contents(in_queue, InCapacity)) \o posting

\* The render thread decodes the guest's bytes as they were sent: none lost,
\* repeated or moved, however buffers are split between reads and however
\* often the queue is full, empty or wrapped.
CommandsInOrder ==
  Undecoded = [i \in 1..guest_sent - consumed |-> consumed + i]

\* When the render thread ends, forceStop or not, every complete packet has
\* been decoded. Two things excuse it: a packet that no decoder takes, which
\* holds up all that follow, and a full ReadBuffer that could not grow.
AllDecoded ==
  render = "exited" =>
    \/ guest_sent - consumed < PacketSize
    \/ stuck
    \/ Len(readbuf) = buf_size

\* The replies on their way to the guest.
Unsent == (IF outgoing = NoBuffer THEN <<>> ELSE <<outgoing>>)
            \o Contents(out_queue, OutCapacity)

\* As long as the guest is there it gets the committed replies in order, none
\* lost, and those committed before forceStop even after it.
RepliesInOrder == ~guest_gone => received \o Unsent = replies

\* The units a packet begins with, which name its reply.
PacketStarts == {i \in 1..MaxUnits : (i - 1) % PacketSize = 0}

\* A committed reply is sent, or the guest hangs up.
RepliesArrive ==
  \A r \in PacketStarts :
    (r \in Range(replies)) ~> (r \in Range(received) \/ guest_gone)

\* Other connections get on: the render thread gives m_lock back although it
\* waits for out_queue_ with the lock held, since the writer makes room while
\* the guest reads and forceStop closes the queue.
LockFreed == (gl_lock = "render") ~> (gl_lock # "render")

\* forceStop ends the render thread, wherever it is waiting: for data, for a
\* slot of out_queue_ or for m_lock.
RenderStops == (net = "join_render") ~> (net = "stop2")
=============================================================================
