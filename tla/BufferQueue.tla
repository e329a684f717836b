----------------------------- MODULE BufferQueue ------------------------------
(***************************************************************************)
(* graphics::BufferQueue: a ring of buffers that can be closed.            *)
(*                                                                         *)
(* A queue is a record; the operations are operators on it, and the        *)
(* modules that use a queue decide which lock protects it and who waits on *)
(* its two condition variables.                                            *)
(***************************************************************************)
EXTENDS Naturals, Sequences

CONSTANT NoBuffer   \* what a slot holds before its first buffer

\* BufferQueue::BufferQueue
NewQueue(capacity) ==
  [buffers |-> [i \in 0..capacity-1 |-> NoBuffer],
   pos |-> 0, count |-> 0, closed |-> FALSE]

\* pos_ and the push position run round the ring.
Wrap(i, capacity) == IF i >= capacity THEN i - capacity ELSE i

\* try_push_locked neither closed nor full. The slot of the back buffer is
\* the one count_ places after the front.
Push(q, capacity, b) ==
  [q EXCEPT !.buffers[Wrap(q.pos + q.count, capacity)] = b,
            !.count = @ + 1]

FrontBuffer(q) == q.buffers[q.pos]

\* try_pop_locked not empty. The slot keeps a moved-from, empty buffer.
Pop(q, capacity) ==
  [q EXCEPT !.buffers[q.pos] = NoBuffer,
            !.pos = Wrap(@ + 1, capacity),
            !.count = @ - 1]

\* close_locked, without the wake-ups
Close(q) == [q EXCEPT !.closed = TRUE]

-----------------------------------------------------------------------------
(* What the ring stands for. *)

\* The pending buffers, oldest first.
Contents(q, capacity) ==
  [i \in 1..q.count |-> q.buffers[Wrap(q.pos + i - 1, capacity)]]

Queues(capacity, Buffers) ==
  [buffers : [0..capacity-1 -> Buffers \cup {NoBuffer}],
   pos : 0..capacity-1, count : 0..capacity, closed : BOOLEAN]
=============================================================================
