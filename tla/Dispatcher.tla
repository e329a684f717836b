------------------------------ MODULE Dispatcher ------------------------------
(***************************************************************************)
(* input::Dispatcher: the bounded queue between the host event thread and  *)
(* the uinput devices, its worker thread, and what Android sees of the two *)
(* devices.                                                                *)
(*                                                                         *)
(* A batch is abstracted to its stream, its kind, the codes it sets down   *)
(* (EV_KEY value 1), the codes it sets up (value 0), the code it repeats   *)
(* (value 2), and a position; a relative motion is a motion without one.   *)
(* Timestamps become a choice: any batch that may age out may be found     *)
(* older than the limit when the worker reaches it.                        *)
(***************************************************************************)
EXTENDS Naturals, SequencesExt

CONSTANTS
  Keys,            \* the Linux key codes the host can send
  Buttons,         \* the mouse button codes
  Positions,       \* the absolute pointer positions
  None,            \* no position, or no button
  Capacity,        \* Dispatcher::capacity_
  ReleaseReserve   \* Dispatcher::release_reserve_

ASSUME CapacityAssumption ==
  /\ Capacity \in Nat \ {0}
  /\ ReleaseReserve \in 0..Capacity

ASSUME CodesAssumption == IsFiniteSet(Keys) /\ IsFiniteSet(Buttons)

ASSUME PositionAssumption == None \notin Positions

Streams == {"Keyboard", "Pointer"}

Codes(s) == IF s = "Keyboard" THEN Keys ELSE Buttons

Kinds == {"Key", "Button", "Motion", "Wheel", "Repeat", "ForcedRelease"}

\* EventBatch: what the transport and Android tell apart in a batch. It only
\* names codes of its own device, and only keys and buttons are set.
Batches ==
  {b \in [stream : Streams, kind : Kinds, down : SUBSET (Keys \cup Buttons),
          up : SUBSET (Keys \cup Buttons), repeat : SUBSET Keys,
          at : Positions \cup {None}] :
     /\ b.down \cup b.up \subseteq Codes(b.stream)
     /\ b.down \cap b.up = {}
     /\ b.kind \in {"Motion", "Wheel", "Repeat"} => b.down \cup b.up = {}}

PlainBatch(s, k) ==
  [stream |-> s, kind |-> k, down |-> {}, up |-> {}, repeat |-> {},
   at |-> None]

NoBatch == PlainBatch("Keyboard", "Wheel")

VARIABLES
  queue,             \* queue_
  stopping,          \* stopping_
  transport_failed,  \* transport_failed_
  failure_handler,   \* whether transport_failure_handler_ is set
  worker,            \* where Dispatcher::run is
  current,           \* the batch the worker has taken from the queue
  uinput,            \* the streams whose uinput device exists
  android_held,      \* the codes Android holds down, per device
  android_pos,       \* where Android's pointer is
  motion_lost        \* history: a motion was dropped since the last one
                     \* that found nothing pending

workerVars == <<worker, current>>
androidVars == <<uinput, android_held, android_pos>>
dispatcherVars == <<queue, stopping, transport_failed, failure_handler,
                    workerVars, androidVars, motion_lost>>

-----------------------------------------------------------------------------
(* The queue policy. *)

\* Dispatcher::is_release
IsRelease(b) == b.kind = "ForcedRelease" \/ b.up # {}

NormalLimit == Capacity - ReleaseReserve

\* Mutant: nothing is kept in reserve for releases.
LimitWithoutReserve(b) == Capacity

Limit(b) == IF IsRelease(b) THEN Capacity ELSE NormalLimit

\* The pending batches make_room_locked may sacrifice.
Droppable(q) == {i \in DOMAIN q : q[i].kind \in {"Motion", "Repeat"}}

\* make_room_locked returns true
HasRoom(q, b) == Len(q) < Limit(b) \/ Droppable(q) # {}

\* Mutant: below the capacity nothing is evicted, not even for a press.
MakeRoomUpToCapacity(q, b) ==
  IF Len(q) < Capacity THEN q ELSE RemoveAt(q, Min(Droppable(q)))

\* The queue make_room_locked leaves behind: the first droppable batch goes.
MakeRoom(q, b) ==
  IF Len(q) < Limit(b) THEN q ELSE RemoveAt(q, Min(Droppable(q)))

\* A motion replaces a motion of the same stream at the back of the queue.
Coalesces(q, b) ==
  /\ b.kind = "Motion"
  /\ q # <<>>
  /\ Last(q).kind = "Motion"
  /\ Last(q).stream = b.stream

\* submit returns true for b
Accepts(b) ==
  /\ ~stopping
  /\ ~transport_failed
  /\ Coalesces(queue, b) \/ HasRoom(queue, b)

\* Mutant: a motion replaces the last pending motion wherever it is.
EnqueueAcross(q, b) ==
  IF b.kind = "Motion" /\ Droppable(q) # {}
  THEN [q EXCEPT ![Max(Droppable(q))] = b]
  ELSE Append(MakeRoom(q, b), b)

\* The queue after an accepted batch.
Enqueue(q, b) ==
  IF Coalesces(q, b) THEN [q EXCEPT ![Len(q)] = b]
                     ELSE Append(MakeRoom(q, b), b)

\* The batches not yet written or dropped, the worker's one first.
Pending == IF worker = "delivering" THEN <<current>> \o queue ELSE queue

\* History: whether submitting b costs the queue a motion it still owed.
EvictsMotion(b) ==
  /\ ~Coalesces(queue, b)
  /\ ~(Len(queue) < Limit(b))
  /\ queue[Min(Droppable(queue))].kind = "Motion"

\* Dispatcher::submit
Submit(b) ==
  /\ queue' = IF Accepts(b) THEN Enqueue(queue, b) ELSE queue
  /\ motion_lost' =
       IF ~Accepts(b) THEN motion_lost
       ELSE IF b.kind = "Motion" /\ Pending = <<>> THEN FALSE
       ELSE motion_lost \/ EvictsMotion(b)

-----------------------------------------------------------------------------
(* The worker thread. *)

\* Dispatcher::run takes the front batch.
Dequeue ==
  /\ worker = "waiting"
  /\ queue # <<>>
  /\ current' = Head(queue)
  /\ queue' = Tail(queue)
  /\ worker' = "delivering"
  /\ UNCHANGED <<stopping, transport_failed, failure_handler, androidVars,
                 motion_lost>>

\* Mutant: key and button transitions age out too.
DropStaleAny ==
  /\ worker = "delivering"
  /\ worker' = "waiting"
  /\ current' = NoBatch
  /\ UNCHANGED <<queue, stopping, transport_failed, failure_handler,
                 androidVars, motion_lost>>

\* The batch is older than 100 ms and only describes state: it is dropped.
DropStale ==
  /\ worker = "delivering"
  /\ current.kind \in {"Motion", "Wheel", "Repeat"}
  /\ worker' = "waiting"
  /\ current' = NoBatch
  /\ motion_lost' = (motion_lost \/ current.kind = "Motion")
  /\ UNCHANGED <<queue, stopping, transport_failed, failure_handler,
                 androidVars>>

\* Device::deliver_events writes the whole batch and Android applies it.
Deliver ==
  /\ worker = "delivering"
  /\ current.stream \in uinput
  /\ android_held' = [android_held EXCEPT
       ![current.stream] = (@ \ current.up) \cup current.down]
  /\ android_pos' = IF current.at # None /\ current.kind = "Motion"
                    THEN current.at ELSE android_pos
  /\ worker' = "waiting"
  /\ current' = NoBatch
  /\ UNCHANGED <<queue, stopping, transport_failed, failure_handler, uinput,
                 motion_lost>>

\* deliver_events fails for good: the device is destroyed, Android releases
\* what that device held, and the queue is cleared. The handler to run is
\* read under the same lock.
FailDelivery ==
  /\ worker = "delivering"
  /\ uinput' = uinput \ {current.stream}
  /\ android_held' = [android_held EXCEPT ![current.stream] = {}]
  /\ transport_failed' = TRUE
  /\ queue' = <<>>
  /\ worker' = IF failure_handler THEN "reset_keyboard" ELSE "waiting"
  /\ current' = NoBatch
  /\ UNCHANGED <<stopping, failure_handler, android_pos, motion_lost>>

\* Mutant: the worker returns as soon as it is told to stop.
ExitWorkerUndrained ==
  /\ worker = "waiting"
  /\ stopping
  /\ worker' = "exited"
  /\ UNCHANGED <<queue, stopping, transport_failed, failure_handler, current,
                 androidVars, motion_lost>>

\* Mutant: the worker of a failed transport never returns.
ExitWorkerUnlessFailed ==
  /\ worker = "waiting"
  /\ stopping
  /\ queue = <<>>
  /\ worker' = IF transport_failed THEN "waiting" ELSE "exited"
  /\ UNCHANGED <<queue, stopping, transport_failed, failure_handler, current,
                 androidVars, motion_lost>>

\* Dispatcher::run returns once it is told to stop and nothing is queued.
ExitWorker ==
  /\ worker = "waiting"
  /\ stopping
  /\ queue = <<>>
  /\ worker' = "exited"
  /\ UNCHANGED <<queue, stopping, transport_failed, failure_handler, current,
                 androidVars, motion_lost>>

DispatcherInit ==
  /\ queue = <<>>
  /\ stopping = FALSE
  /\ transport_failed = FALSE
  /\ failure_handler = TRUE
  /\ worker = "waiting"
  /\ current = NoBatch
  /\ uinput = Streams
  /\ android_held = [s \in Streams |-> {}]
  /\ android_pos = None
  /\ motion_lost = FALSE
=============================================================================
