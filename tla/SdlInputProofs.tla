---------------------------- MODULE SdlInputProofs ----------------------------
(***************************************************************************)
(* Proofs about SdlInput for every set of codes, every capacity and every  *)
(* reserve.                                                                *)
(***************************************************************************)
EXTENDS SdlInput, DispatcherProofs

-----------------------------------------------------------------------------
(* Type correctness. *)

LEMMA TransitionBatches ==
  ASSUME NEW s, NEW c, NEW at
  PROVE  LET k == IF s = "Keyboard" THEN "Key" ELSE "Button"
         IN /\ DownBatch(s, c, at) =
                 [stream |-> s, kind |-> k, down |-> {c}, up |-> {},
                  repeat |-> {}, at |-> at]
            /\ UpBatch(s, c) =
                 [stream |-> s, kind |-> k, down |-> {}, up |-> {c},
                  repeat |-> {}, at |-> None]
<1> DEFINE k == IF s = "Keyboard" THEN "Key" ELSE "Button"
           d == [Transition(s) EXCEPT !.down = {c}]
<1>1. Transition(s) = PlainBatch(s, k)
  BY DEF Transition
<1> HIDE DEF k
<1>2. d = [stream |-> s, kind |-> k, down |-> {c}, up |-> {},
           repeat |-> {}, at |-> None]
  BY <1>1 DEF PlainBatch
<1> HIDE DEF d
<1>3. [d EXCEPT !.at = at] =
        [stream |-> s, kind |-> k, down |-> {c}, up |-> {},
         repeat |-> {}, at |-> at]
  BY <1>2
<1>4. UpBatch(s, c) =
        [stream |-> s, kind |-> k, down |-> {}, up |-> {c},
         repeat |-> {}, at |-> None]
  BY <1>1 DEF UpBatch, PlainBatch
<1> QED BY <1>3, <1>4 DEF DownBatch, d, k

LEMMA BatchTypes ==
  /\ NoBatch \in Batches
  /\ \A s \in Streams : \A c \in Codes(s) : \A at \in Positions \cup {None} :
       DownBatch(s, c, at) \in Batches /\ UpBatch(s, c) \in Batches
  /\ \A c \in Keys :
       [PlainBatch("Keyboard", "Repeat") EXCEPT !.repeat = {c}] \in Batches
  /\ \A at \in Positions \cup {None} :
       /\ [PlainBatch("Pointer", "Motion") EXCEPT !.at = at] \in Batches
       /\ [PlainBatch("Pointer", "Wheel") EXCEPT !.at = at] \in Batches
  /\ PlainBatch("Pointer", "Motion") \in Batches
  /\ \A s \in Streams : \A u \in SUBSET Codes(s) :
       [PlainBatch(s, "ForcedRelease") EXCEPT !.up = u] \in Batches
<1> USE PositionAssumption DEF PlainBatch, Batches, Streams, Kinds, Codes
<1>1. NoBatch \in Batches
  BY DEF NoBatch
<1>2. ASSUME NEW s \in Streams, NEW c \in Codes(s),
             NEW at \in Positions \cup {None}
      PROVE  DownBatch(s, c, at) \in Batches /\ UpBatch(s, c) \in Batches
  BY TransitionBatches
<1>3. ASSUME NEW c \in Keys
      PROVE  [PlainBatch("Keyboard", "Repeat") EXCEPT !.repeat = {c}]
               \in Batches
  OBVIOUS
<1>4. ASSUME NEW at \in Positions \cup {None}
      PROVE  /\ [PlainBatch("Pointer", "Motion") EXCEPT !.at = at] \in Batches
             /\ [PlainBatch("Pointer", "Wheel") EXCEPT !.at = at] \in Batches
  OBVIOUS
<1>5. PlainBatch("Pointer", "Motion") \in Batches
  OBVIOUS
<1>6. ASSUME NEW s \in Streams, NEW u \in SUBSET Codes(s)
      PROVE  [PlainBatch(s, "ForcedRelease") EXCEPT !.up = u] \in Batches
  OBVIOUS
<1> HIDE DEF PlainBatch, Batches, Streams, Kinds, Codes
<1> QED BY <1>1, <1>2, <1>3, <1>4, <1>5, <1>6

LEMMA StateNames ==
  /\ \A w \in {"waiting", "delivering", "reset_keyboard", "reset_pointer",
               "exited"} : w \in WorkerStates
  /\ \A h \in {"events", "press", "wheel", "release_pointer", "flush",
               "clear_handler", "drop_input", "stop", "join", "gone"} :
       h \in HostStates /\ (h = "press" => h # "events")
  /\ "none" \in Reasons /\ "focus loss" \in Reasons
  /\ NoBatch \in Batches
  /\ NoClick \in Clicks
  BY BatchTypes DEF WorkerStates, HostStates, Reasons, NoClick, Clicks

LEMMA SubmitType ==
  ASSUME TypeOK, NEW b \in Batches, Submit(b)
  PROVE  queue' \in Seq(Batches) /\ motion_lost' \in BOOLEAN
<1>1. queue \in Seq(Batches) /\ motion_lost \in BOOLEAN
  BY DEF TypeOK
<1>2. queue' \in Seq(Batches)
  BY <1>1, EnqueueWeight DEF Submit, Accepts
<1>3. motion_lost' \in BOOLEAN
  BY <1>1 DEF Submit
<1> QED BY <1>2, <1>3

LEMMA HoldingsUpdate ==
  ASSUME NEW h \in Holdings, NEW s \in Streams, NEW u \in SUBSET Codes(s)
  PROVE  [h EXCEPT ![s] = u] \in Holdings
  BY DEF Holdings, Codes

LEMMA HoldDownType ==
  ASSUME TypeOK, NEW s \in Streams, NEW c \in Codes(s),
         NEW at \in Positions \cup {None}, HoldDown(s, c, at)
  PROVE  /\ queue' \in Seq(Batches) /\ motion_lost' \in BOOLEAN
         /\ host_held' \in Holdings /\ injected_held' \in Holdings
<1>1. DownBatch(s, c, at) \in Batches
  BY BatchTypes
<1>2. queue' \in Seq(Batches) /\ motion_lost' \in BOOLEAN
  BY <1>1, SubmitType DEF HoldDown
<1>3. /\ host_held \in Holdings /\ host_held[s] \cup {c} \in SUBSET Codes(s)
      /\ injected_held \in Holdings
      /\ injected_held[s] \cup {c} \in SUBSET Codes(s)
  BY DEF TypeOK, Holdings
<1> QED BY <1>2, <1>3, HoldingsUpdate DEF HoldDown

LEMMA HoldUpType ==
  ASSUME TypeOK, NEW s \in Streams, NEW c \in Codes(s), HoldUp(s, c)
  PROVE  /\ queue' \in Seq(Batches) /\ motion_lost' \in BOOLEAN
         /\ host_held' \in Holdings /\ injected_held' \in Holdings
<1>1. UpBatch(s, c) \in Batches
  BY BatchTypes, PositionAssumption
<1>2. queue' \in Seq(Batches) /\ motion_lost' \in BOOLEAN
  BY <1>1, SubmitType DEF HoldUp, TypeOK
<1>3. /\ host_held \in Holdings /\ host_held[s] \ {c} \in SUBSET Codes(s)
      /\ injected_held \in Holdings
      /\ injected_held[s] \ {c} \in SUBSET Codes(s)
  BY DEF TypeOK, Holdings
<1> QED BY <1>2, <1>3, HoldingsUpdate DEF HoldUp

LEMMA ReleaseAllType ==
  ASSUME TypeOK, NEW s \in Streams, ReleaseAll(s)
  PROVE  /\ queue' \in Seq(Batches) /\ motion_lost' \in BOOLEAN
         /\ host_held' \in Holdings /\ injected_held' \in Holdings
<1>1. injected_held[s] \in SUBSET Codes(s)
  BY DEF TypeOK, Holdings
<1>2. [PlainBatch(s, "ForcedRelease") EXCEPT !.up = injected_held[s]]
        \in Batches
  BY <1>1, BatchTypes
<1>3. queue' \in Seq(Batches) /\ motion_lost' \in BOOLEAN
  BY <1>2, SubmitType DEF ReleaseAll, TypeOK
<1>4. host_held \in Holdings /\ injected_held \in Holdings
  BY DEF TypeOK
<1> QED BY <1>3, <1>4, HoldingsUpdate DEF ReleaseAll

\* Every action keeps the types.
LEMMA TypeStep ==
  ASSUME TypeOK, [Next]_vars
  PROVE  TypeOK'
<1>1. CASE UNCHANGED vars
  BY <1>1 DEF TypeOK, vars, dispatcherVars, heldVars, platformVars,
     workerVars, androidVars
<1>2. CASE WorkerLoop
  <2> SUFFICES ASSUME UNCHANGED <<heldVars, platformVars>>
               PROVE  TypeOK'
    BY <1>2 DEF WorkerLoop
  <2> USE DEF TypeOK, heldVars, platformVars, workerVars, androidVars
  <2>1. CASE Dequeue
    <3>1. Head(queue) \in Batches /\ Tail(queue) \in Seq(Batches)
      BY <2>1 DEF Dequeue
    <3> QED BY <2>1, <3>1, StateNames DEF Dequeue
  <2>2. CASE DropStale
    BY <2>2, StateNames DEF DropStale
  <2>3. CASE Deliver
    <3>1. /\ current.stream \in Streams
          /\ current.down \in SUBSET Codes(current.stream)
          /\ current.at \in Positions \cup {None}
      BY PositionAssumption DEF Batches
    <3>2. (android_held[current.stream] \ current.up) \cup current.down
             \in SUBSET Codes(current.stream)
      BY <3>1 DEF Holdings
    <3>3. android_held' \in Holdings
      BY <2>3, <3>1, <3>2, HoldingsUpdate DEF Deliver
    <3> QED BY <2>3, <3>1, <3>3, StateNames DEF Deliver
  <2>4. CASE FailDelivery
    <3>1. android_held' \in Holdings
      BY <2>4, HoldingsUpdate DEF FailDelivery, Batches
    <3>2. queue' \in Seq(Batches)
      BY <2>4 DEF FailDelivery
    <3> QED BY <2>4, <3>1, <3>2, StateNames DEF FailDelivery
  <2>5. CASE ExitWorker
    BY <2>5, StateNames DEF ExitWorker
  <2> QED BY <1>2, <2>1, <2>2, <2>3, <2>4, <2>5 DEF WorkerLoop
<1>3. ASSUME NEW s \in Streams, ResetHeld(s)
      PROVE  host_held' \in Holdings /\ injected_held' \in Holdings
  BY <1>3, HoldingsUpdate DEF ResetHeld, TypeOK
<1>4. CASE ResetKeyboard
  <2>1. host_held' \in Holdings /\ injected_held' \in Holdings
    BY <1>3, <1>4 DEF ResetKeyboard, Streams
  <2> QED BY <1>4, <2>1, StateNames DEF ResetKeyboard, TypeOK, platformVars, androidVars
<1>5. CASE ResetPointer
  <2>1. host_held' \in Holdings /\ injected_held' \in Holdings
    BY <1>3, <1>5 DEF ResetPointer, Streams
  <2> QED BY <1>5, <2>1, StateNames DEF ResetPointer, TypeOK, platformVars, androidVars
<1>6. CASE HostContinues
  <2>1. CASE PressPlaced
    <3>1. click.code \in Codes("Pointer") /\ click.at \in Positions \cup {None}
      BY <2>1 DEF PressPlaced, TypeOK, Clicks, Codes
    <3>2. /\ queue' \in Seq(Batches) /\ motion_lost' \in BOOLEAN
          /\ host_held' \in Holdings /\ injected_held' \in Holdings
      BY <2>1, <3>1, HoldDownType DEF PressPlaced, Streams, TypeOK, heldVars
    <3> QED BY <2>1, <3>2, StateNames DEF PressPlaced, TypeOK, restVars, workerVars,
               androidVars, NoClick, Clicks
  <2>2. CASE WheelPlaced
    <3>1. queue' \in Seq(Batches) /\ motion_lost' \in BOOLEAN
      BY <2>2, SubmitType, BatchTypes DEF WheelPlaced, Wheel, TypeOK, Clicks
    <3> QED BY <2>2, <3>1, StateNames DEF WheelPlaced, TypeOK, restVars, workerVars,
               androidVars, heldVars, NoClick, Clicks
  <2>3. CASE ReleasePointer
    <3>1. /\ queue' \in Seq(Batches) /\ motion_lost' \in BOOLEAN
          /\ host_held' \in Holdings /\ injected_held' \in Holdings
      BY <2>3, ReleaseAllType DEF ReleasePointer, Streams
    <3> QED BY <2>3, <3>1, StateNames DEF ReleasePointer, TypeOK, restVars, workerVars,
               androidVars
  <2>4. CASE FlushDrained \/ FlushTimeout \/ DropInput \/ JoinWorker
    BY <2>4, StateNames DEF FlushDrained, FlushTimeout, DropInput, JoinWorker, HostStep,
       TypeOK, dispatcherVars, heldVars, workerVars, androidVars
  <2>5. CASE ClearHandler \/ StopDispatcher
    BY <2>5, StateNames DEF ClearHandler, StopDispatcher, HostStep, TypeOK, heldVars,
       workerVars, androidVars
  <2> QED BY <1>6, <2>1, <2>2, <2>3, <2>4, <2>5 DEF HostContinues
<1>7. CASE HostEvent
  <2> USE DEF restVars, workerVars, androidVars, platformVars
  <2>1. ASSUME NEW c \in Keys, KeyDown(c) \/ KeyUp(c)
        PROVE  TypeOK'
    <3>1. c \in Codes("Keyboard")
      BY DEF Codes
    <3>2. /\ queue' \in Seq(Batches) /\ motion_lost' \in BOOLEAN
          /\ host_held' \in Holdings /\ injected_held' \in Holdings
      BY <2>1, <3>1, HoldDownType, HoldUpType DEF KeyDown, KeyUp, Streams
    <3> QED BY <2>1, <3>2, StateNames DEF KeyDown, KeyUp, TypeOK
  <2>2. ASSUME NEW c \in Keys, KeyRepeat(c)
        PROVE  TypeOK'
    <3>1. queue' \in Seq(Batches) /\ motion_lost' \in BOOLEAN
      BY <2>2, SubmitType, BatchTypes DEF KeyRepeat, Repeat
    <3> QED BY <2>2, <3>1, StateNames DEF KeyRepeat, Repeat, TypeOK, heldVars
  <2>3. ASSUME NEW c \in Buttons, PressLocked(c) \/ ButtonUp(c)
        PROVE  TypeOK'
    <3>1. c \in Codes("Pointer")
      BY DEF Codes
    <3>2. /\ queue' \in Seq(Batches) /\ motion_lost' \in BOOLEAN
          /\ host_held' \in Holdings /\ injected_held' \in Holdings
      BY <2>3, <3>1, HoldDownType, HoldUpType
         DEF PressLocked, ButtonUp, Streams
    <3> QED BY <2>3, <3>2, StateNames DEF PressLocked, ButtonUp, TypeOK
  <2>4. ASSUME NEW p \in Positions, MoveAbsolute(p)
        PROVE  TypeOK'
    <3>1. queue' \in Seq(Batches) /\ motion_lost' \in BOOLEAN
      BY <2>4, SubmitType, BatchTypes DEF MoveAbsolute, Absolute
    <3> QED BY <2>4, <3>1, StateNames DEF MoveAbsolute, TypeOK, heldVars
  <2>5. ASSUME NEW p \in Positions, NEW c \in Buttons \cup {None},
               PlaceClick(c, p)
        PROVE  TypeOK'
    <3>1. queue' \in Seq(Batches) /\ motion_lost' \in BOOLEAN
      BY <2>5, SubmitType, BatchTypes DEF PlaceClick, Absolute
    <3>2. click' \in Clicks /\ (host' = "press" => click'.code \in Buttons)
      BY <2>5 DEF PlaceClick, Placed, Clicks
    <3> QED BY <2>5, <3>1, <3>2, StateNames DEF PlaceClick, TypeOK, heldVars
  <2>6. CASE MoveRelative
    <3>1. queue' \in Seq(Batches) /\ motion_lost' \in BOOLEAN
      BY <2>6, SubmitType, BatchTypes DEF MoveRelative, Relative
    <3> QED BY <2>6, <3>1, StateNames DEF MoveRelative, TypeOK, heldVars
  <2>7. CASE WheelLocked
    <3>1. queue' \in Seq(Batches) /\ motion_lost' \in BOOLEAN
      BY <2>7, SubmitType, BatchTypes DEF WheelLocked, Wheel
    <3> QED BY <2>7, <3>1, StateNames DEF WheelLocked, TypeOK, heldVars
  <2>8. CASE TogglePointerLock \/ GainFocus \/ ResizeWindow
    BY <2>8 DEF TogglePointerLock, GainFocus, ResizeWindow, TypeOK,
       dispatcherVars, heldVars
  <2>9. ASSUME NEW why \in Reasons, ReleaseKeyboard(why)
        PROVE  TypeOK'
    <3>1. /\ queue' \in Seq(Batches) /\ motion_lost' \in BOOLEAN
          /\ host_held' \in Holdings /\ injected_held' \in Holdings
      BY <2>9, ReleaseAllType DEF ReleaseKeyboard, Streams
    <3>2. viewport_valid' \in BOOLEAN /\ reason' \in Reasons
      BY <2>9, StateNames DEF ReleaseKeyboard, TypeOK
    <3> QED BY <2>9, <3>1, <3>2, StateNames DEF ReleaseKeyboard, TypeOK
  <2> QED BY <1>7, <2>1, <2>2, <2>3, <2>4, <2>5, <2>6, <2>7, <2>8, <2>9
          DEF HostEvent
<1>8. CASE PublishViewport
  BY <1>8 DEF PublishViewport, TypeOK, dispatcherVars, heldVars, workerVars,
     androidVars
<1> QED BY <1>1, <1>2, <1>4, <1>5, <1>6, <1>7, <1>8 DEF Next, Worker, Finished

\* In every reachable state of the input path the variables have their types
\* and every batch of the queue only sets codes of its own device.
THEOREM TypeCorrect == Spec => []TypeOK
<1>1. Init => TypeOK
  <2>1. [s \in Streams |-> {}] \in Holdings
    BY DEF Holdings
  <2>2. <<>> \in Seq(Batches)
    OBVIOUS
  <2> SUFFICES ASSUME Init PROVE TypeOK
    OBVIOUS
  <2>3. queue \in Seq(Batches)
    BY <2>2 DEF Init, DispatcherInit
  <2>4. /\ android_held \in Holdings
        /\ host_held \in Holdings
        /\ injected_held \in Holdings
    BY <2>1 DEF Init, DispatcherInit, HeldInit
  <2>5. /\ current \in Batches
        /\ worker \in WorkerStates
        /\ host \in HostStates
        /\ click \in Clicks
        /\ host = "press" => click.code \in Buttons
        /\ reason \in Reasons
    BY StateNames DEF Init, DispatcherInit
  <2>6. /\ uinput \in SUBSET Streams
        /\ android_pos \in Positions \cup {None}
    BY DEF Init, DispatcherInit
  <2>7. /\ stopping \in BOOLEAN
        /\ transport_failed \in BOOLEAN
        /\ failure_handler \in BOOLEAN
        /\ motion_lost \in BOOLEAN
        /\ focused \in BOOLEAN
        /\ pointer_locked \in BOOLEAN
        /\ viewport_valid \in BOOLEAN
    BY DEF Init, DispatcherInit
  <2> QED BY <2>3, <2>4, <2>5, <2>6, <2>7 DEF TypeOK
<1>2. TypeOK /\ [Next]_vars => TypeOK'
  BY TypeStep
<1> QED BY <1>1, <1>2, PTL DEF Spec

-----------------------------------------------------------------------------
(* Releases fit: the inductive invariant is                              *)
(* TypeOK /\ EvictableApart /\ Headroom.                                  *)

LEMMA OwedType ==
  ASSUME NEW h \in Holdings
  PROVE  /\ \A s \in Streams : /\ h[s] \subseteq Codes(s)
                               /\ IsFiniteSet(h[s])
                               /\ Cardinality(h[s]) \in Nat
         /\ Owed(h) \in Nat
         /\ AllCodes \in Nat
         /\ Owed(h) <= AllCodes
<1>1. \A s \in Streams : h[s] \subseteq Codes(s)
  BY DEF Holdings
<1>2. /\ IsFiniteSet(Keys) /\ IsFiniteSet(Buttons)
      /\ Cardinality(Keys) \in Nat /\ Cardinality(Buttons) \in Nat
  BY CodesAssumption, FS_CardinalityType
<1>3. ASSUME NEW s \in Streams
      PROVE  /\ IsFiniteSet(h[s])
             /\ Cardinality(h[s]) \in Nat
             /\ Cardinality(h[s]) <= Cardinality(Codes(s))
  <2>1. IsFiniteSet(Codes(s)) /\ Cardinality(Codes(s)) \in Nat
    BY <1>2 DEF Codes
  <2> QED BY <1>1, <2>1, FS_Subset, FS_CardinalityType
<1>4. /\ Cardinality(h["Keyboard"]) \in Nat
      /\ Cardinality(h["Keyboard"]) <= Cardinality(Keys)
      /\ Cardinality(h["Pointer"]) \in Nat
      /\ Cardinality(h["Pointer"]) <= Cardinality(Buttons)
  BY <1>3 DEF Streams, Codes
<1> QED BY <1>1, <1>2, <1>3, <1>4 DEF Owed, AllCodes

LEMMA OwedUpdate ==
  ASSUME NEW h \in Holdings, NEW s \in Streams, NEW u \in SUBSET Codes(s)
  PROVE  /\ [h EXCEPT ![s] = u] \in Holdings
         /\ Cardinality(u) \in Nat
         /\ Owed([h EXCEPT ![s] = u])
              = Owed(h) - Cardinality(h[s]) + Cardinality(u)
<1>1. [h EXCEPT ![s] = u] \in Holdings
  BY HoldingsUpdate
<1>2. DOMAIN h = Streams
  BY DEF Holdings
<1>3. [h EXCEPT ![s] = u][s] = u
  BY <1>2
<1>4. Cardinality(u) \in Nat
  BY <1>1, <1>3, OwedType
<1>5. Cardinality(h["Keyboard"]) \in Nat /\ Cardinality(h["Pointer"]) \in Nat
  BY OwedType DEF Streams
<1>6. CASE s = "Keyboard"
  BY <1>1, <1>2, <1>4, <1>5, <1>6 DEF Owed, Streams
<1>7. CASE s = "Pointer"
  BY <1>1, <1>2, <1>4, <1>5, <1>7 DEF Owed, Streams
<1> QED BY <1>6, <1>7 DEF Streams

\* The three ways a held set changes: a code comes, a code goes, all go.
LEMMA OwedChanges ==
  ASSUME NEW h \in Holdings, NEW s \in Streams
  PROVE  /\ \A c \in Codes(s) :
              Owed([h EXCEPT ![s] = @ \cup {c}]) <= Owed(h) + 1
         /\ \A c \in h[s] : Owed([h EXCEPT ![s] = @ \ {c}]) = Owed(h) - 1
         /\ Owed([h EXCEPT ![s] = {}]) <= Owed(h)
         /\ h[s] # {} => Owed([h EXCEPT ![s] = {}]) <= Owed(h) - 1
<1>1. /\ h[s] \subseteq Codes(s) /\ IsFiniteSet(h[s])
      /\ Cardinality(h[s]) \in Nat /\ Owed(h) \in Nat
  BY OwedType
<1>2. ASSUME NEW c \in Codes(s)
      PROVE  Owed([h EXCEPT ![s] = @ \cup {c}]) <= Owed(h) + 1
  <2>1. Cardinality(h[s] \cup {c}) <= Cardinality(h[s]) + 1
    <3>1. \/ Cardinality(h[s] \cup {c}) = Cardinality(h[s])
          \/ Cardinality(h[s] \cup {c}) = Cardinality(h[s]) + 1
      BY <1>1, FS_AddElement
    <3> QED BY <1>1, <3>1
  <2>2. h[s] \cup {c} \in SUBSET Codes(s)
    BY <1>1
  <2>3. /\ Cardinality(h[s] \cup {c}) \in Nat
        /\ Owed([h EXCEPT ![s] = h[s] \cup {c}])
             = Owed(h) - Cardinality(h[s]) + Cardinality(h[s] \cup {c})
    BY <2>2, OwedUpdate
  <2> QED BY <1>1, <2>1, <2>3
<1>3. ASSUME NEW c \in h[s]
      PROVE  Owed([h EXCEPT ![s] = @ \ {c}]) = Owed(h) - 1
  <2>1. Cardinality(h[s] \ {c}) = Cardinality(h[s]) - 1
    BY <1>1, FS_RemoveElement
  <2>2. h[s] \ {c} \in SUBSET Codes(s)
    BY <1>1
  <2>3. Owed([h EXCEPT ![s] = h[s] \ {c}])
          = Owed(h) - Cardinality(h[s]) + Cardinality(h[s] \ {c})
    BY <2>2, OwedUpdate
  <2> QED BY <1>1, <2>1, <2>3
<1>4. Owed([h EXCEPT ![s] = {}]) = Owed(h) - Cardinality(h[s])
  <2>1. {} \in SUBSET Codes(s) /\ Cardinality({}) = 0
    BY FS_EmptySet
  <2> QED BY <1>1, <2>1, OwedUpdate
<1>5. h[s] # {} => Cardinality(h[s]) # 0
  BY <1>1, FS_EmptySet
<1> QED BY <1>1, <1>2, <1>3, <1>4, <1>5

\* The batches of each kind of call, as far as the headroom is concerned.
LEMMA BatchRelease ==
  ASSUME NEW s \in Streams, NEW c, NEW at
  PROVE  /\ ~IsRelease(DownBatch(s, c, at))
         /\ DownBatch(s, c, at).kind \notin {"Motion", "Repeat"}
         /\ IsRelease(UpBatch(s, c))
         /\ ~IsRelease([PlainBatch("Keyboard", "Repeat") EXCEPT !.repeat = {c}])
         /\ ~IsRelease([PlainBatch("Pointer", "Motion") EXCEPT !.at = at])
         /\ ~IsRelease(PlainBatch("Pointer", "Motion"))
         /\ ~IsRelease([PlainBatch("Pointer", "Wheel") EXCEPT !.at = at])
         /\ \A u : IsRelease([PlainBatch(s, "ForcedRelease") EXCEPT !.up = u])
<1>1. /\ ~IsRelease(DownBatch(s, c, at))
      /\ DownBatch(s, c, at).kind \notin {"Motion", "Repeat"}
      /\ IsRelease(UpBatch(s, c))
  BY TransitionBatches DEF IsRelease
<1>2. /\ ~IsRelease([PlainBatch("Keyboard", "Repeat") EXCEPT !.repeat = {c}])
      /\ ~IsRelease([PlainBatch("Pointer", "Motion") EXCEPT !.at = at])
      /\ ~IsRelease(PlainBatch("Pointer", "Motion"))
      /\ ~IsRelease([PlainBatch("Pointer", "Wheel") EXCEPT !.at = at])
  BY DEF IsRelease, PlainBatch
<1>3. ASSUME NEW u
      PROVE  IsRelease([PlainBatch(s, "ForcedRelease") EXCEPT !.up = u])
  BY DEF IsRelease, PlainBatch
<1> QED BY <1>1, <1>2, <1>3

LEMMA PointerBatches ==
  ASSUME NEW at
  PROVE  /\ PlainBatch("Pointer", "Motion").kind = "Motion"
         /\ PlainBatch("Pointer", "Motion").stream = "Pointer"
         /\ [PlainBatch("Pointer", "Motion") EXCEPT !.at = at].kind = "Motion"
         /\ [PlainBatch("Pointer", "Motion") EXCEPT !.at = at].stream = "Pointer"
         /\ [PlainBatch("Pointer", "Wheel") EXCEPT !.at = at].kind = "Wheel"
BY DEF PlainBatch

\* As long as repeats are ignored, no two evictable batches are neighbours.
EvictableApart == ForwardRepeat \/ Spread(queue)

LEMMA ApartStep ==
  ASSUME TypeOK, EvictableApart, [Next]_vars
  PROVE  EvictableApart'
<1>1. SUFFICES ASSUME ~ForwardRepeat
               PROVE  Spread(queue')
  BY DEF EvictableApart, Spread, Droppable
<1>2. queue \in Seq(Batches) /\ Spread(queue) /\ injected_held \in Holdings
  BY <1>1 DEF TypeOK, EvictableApart
<1>3. ASSUME NEW b \in Batches, Submit(b), b.kind # "Repeat",
             b.kind = "Motion" => b.stream = "Pointer"
      PROVE  Spread(queue')
  BY <1>2, <1>3, SpreadEnqueue DEF Submit, Accepts
<1>4. ASSUME \/ queue' = queue
             \/ queue # <<>> /\ queue' = Tail(queue)
             \/ queue' = <<>>
      PROVE  Spread(queue')
  <2>1. Spread(<<>>)
    BY DEF Spread, Droppable
  <2> QED BY <1>2, <1>4, <2>1, SpreadTail
<1>5. ASSUME NEW s \in Streams
      PROVE  /\ \A c \in Codes(s), at \in Positions \cup {None} :
                   HoldDown(s, c, at) => Spread(queue')
             /\ \A c \in Codes(s) : HoldUp(s, c) => Spread(queue')
             /\ ReleaseAll(s) => Spread(queue')
  <2>1. ASSUME NEW c \in Codes(s), NEW at \in Positions \cup {None},
               HoldDown(s, c, at)
        PROVE  Spread(queue')
    BY <1>3, <2>1, BatchTypes, BatchRelease DEF HoldDown
  <2>2. ASSUME NEW c \in Codes(s), HoldUp(s, c)
        PROVE  Spread(queue')
    <3>1. UpBatch(s, c) \in Batches
      BY BatchTypes, PositionAssumption
    <3>2. UpBatch(s, c).kind \notin {"Motion", "Repeat"}
      BY <3>1, BatchRelease, LimitFacts
    <3> QED BY <1>3, <1>4, <2>2, <3>1, <3>2 DEF HoldUp
  <2>3. ASSUME ReleaseAll(s)
        PROVE  Spread(queue')
    <3> DEFINE b == [PlainBatch(s, "ForcedRelease")
                       EXCEPT !.up = injected_held[s]]
    <3>1. b \in Batches
      BY <1>2, OwedType, BatchTypes
    <3>2. b.kind = "ForcedRelease"
      BY DEF PlainBatch
    <3>3. Submit(b) \/ queue' = queue
      BY <2>3 DEF ReleaseAll
    <3> HIDE DEF b
    <3> QED BY <1>3, <1>4, <3>1, <3>2, <3>3
  <2> QED BY <2>1, <2>2, <2>3
<1>6. CASE UNCHANGED vars
  BY <1>4, <1>6 DEF vars, dispatcherVars
<1>7. CASE Worker
  BY <1>4, <1>7 DEF Worker, WorkerLoop, Dequeue, DropStale, Deliver,
     FailDelivery, ExitWorker, ResetKeyboard, ResetPointer
<1>8. CASE HostContinues
  <2>1. CASE PressPlaced
    <3>1. click.code \in Codes("Pointer") /\ click.at \in Positions \cup {None}
      BY <2>1 DEF PressPlaced, TypeOK, Clicks, Codes
    <3>2. CASE HoldDown("Pointer", click.code, click.at)
      BY <1>5, <3>1, <3>2 DEF Streams
    <3>3. CASE UNCHANGED <<queue, motion_lost, heldVars>>
      BY <1>4, <3>3
    <3> QED BY <2>1, <3>2, <3>3 DEF PressPlaced
  <2>2. CASE WheelPlaced
    <3>1. click.at \in Positions \cup {None}
      BY DEF TypeOK, Clicks
    <3> QED BY <1>3, <2>2, <3>1, PointerBatches, BatchTypes
            DEF WheelPlaced, Wheel
  <2>3. CASE ReleasePointer
    BY <1>5, <2>3 DEF ReleasePointer, Streams
  <2>4. CASE \/ FlushDrained \/ FlushTimeout \/ ClearHandler \/ DropInput
             \/ StopDispatcher \/ JoinWorker
    BY <1>4, <2>4 DEF FlushDrained, FlushTimeout, ClearHandler, DropInput,
       StopDispatcher, JoinWorker, HostStep, dispatcherVars
  <2> QED BY <1>8, <2>1, <2>2, <2>3, <2>4 DEF HostContinues
<1>9. CASE HostEvent
  <2>1. ASSUME NEW c \in Keys, KeyDown(c) \/ KeyUp(c)
        PROVE  Spread(queue')
    BY <1>5, <2>1 DEF KeyDown, KeyUp, Streams, Codes
  <2>2. ASSUME NEW c \in Keys, KeyRepeat(c)
        PROVE  Spread(queue')
    BY <1>1, <2>2 DEF KeyRepeat, Repeat
  <2>3. ASSUME NEW c \in Buttons, PressLocked(c) \/ ButtonUp(c)
        PROVE  Spread(queue')
    BY <1>5, <2>3 DEF PressLocked, ButtonUp, Streams, Codes
  <2>4. ASSUME NEW p \in Positions, Absolute(p)
        PROVE  Spread(queue')
    BY <1>3, <2>4, PointerBatches, BatchTypes DEF Absolute
  <2>5. ASSUME NEW p \in Positions, NEW c \in Buttons \cup {None},
               MoveAbsolute(p) \/ PlaceClick(c, p)
        PROVE  Spread(queue')
    BY <2>4, <2>5 DEF MoveAbsolute, PlaceClick
  <2>6. CASE MoveRelative
    BY <1>3, <2>6, PointerBatches, BatchTypes DEF MoveRelative, Relative
  <2>7. CASE WheelLocked
    BY <1>3, <2>7, PointerBatches, BatchTypes DEF WheelLocked, Wheel
  <2>8. CASE TogglePointerLock \/ GainFocus \/ ResizeWindow
    BY <1>4, <2>8 DEF TogglePointerLock, GainFocus, ResizeWindow,
       dispatcherVars
  <2>9. ASSUME NEW why \in Reasons, ReleaseKeyboard(why)
        PROVE  Spread(queue')
    BY <1>5, <2>9 DEF ReleaseKeyboard, Streams
  <2>10. ASSUME NEW p \in Positions, MoveAbsolute(p)
         PROVE  Spread(queue')
    BY <2>4, <2>10 DEF MoveAbsolute
  <2> QED BY <1>9, <2>1, <2>2, <2>3, <2>5, <2>6, <2>7, <2>8, <2>9, <2>10
          DEF HostEvent
<1>10. CASE PublishViewport
  BY <1>4, <1>10 DEF PublishViewport, dispatcherVars
<1> QED BY <1>6, <1>7, <1>8, <1>9, <1>10 DEF Next, Finished

\* What can be evicted from a queue within the ordinary share.
LEMMA EvictableCount ==
  ASSUME queue' \in Seq(Batches), EvictableApart', Len(queue') <= NormalLimit
  PROVE  Weight(queue') <= NormalLimit + MostEvictable
<1>1. /\ Len(queue') \in Nat /\ NormalLimit \in Nat
      /\ Cardinality(Droppable(queue')) \in Nat
      /\ Cardinality(Droppable(queue')) <= Len(queue')
  <2>1. NormalLimit \in Nat
    BY CapacityAssumption DEF NormalLimit
  <2> QED BY <2>1, DroppableFinite, LenProperties
<1>2. CASE ForwardRepeat
  BY <1>1, <1>2 DEF Weight, MostEvictable
<1>3. CASE ~ForwardRepeat
  <2>1. Spread(queue')
    BY <1>3 DEF EvictableApart, Spread, Droppable
  <2>2. 2 * Cardinality(Droppable(queue')) <= NormalLimit + 1
    BY <1>1, <2>1, SpreadCount
  <2>3. Cardinality(Droppable(queue')) <= (NormalLimit + 1) \div 2
    BY <1>1, <2>2
  <2> QED BY <1>1, <1>3, <2>3 DEF Weight, MostEvictable
<1> QED BY <1>2, <1>3

\* A submitted batch keeps the headroom: a release pays with the code it no
\* longer owes, a press with the ordinary share or with an eviction.
LEMMA SubmitHeadroom ==
  ASSUME TypeOK, Headroom, NEW b \in Batches, Submit(b),
         injected_held' \in Holdings, EvictableApart',
         IsRelease(b) => Owed(injected_held') <= Owed(injected_held) - 1,
         ~IsRelease(b) =>
           \/ injected_held' = injected_held
           \/ /\ b.kind \notin {"Motion", "Repeat"}
              /\ Accepts(b) => Owed(injected_held') <= Owed(injected_held) + 1
              /\ ~Accepts(b) => injected_held' = injected_held
  PROVE  Headroom'
<1> DEFINE o == Owed(injected_held)
           p == Owed(injected_held')
<1>1. /\ queue \in Seq(Batches) /\ injected_held \in Holdings
      /\ NormalLimit \in Nat /\ MostEvictable \in Nat
  BY CapacityAssumption DEF TypeOK, NormalLimit, MostEvictable
<1>2. /\ o \in Nat /\ p \in Nat /\ AllCodes \in Nat
      /\ o <= AllCodes /\ p <= AllCodes
  BY <1>1, OwedType
<1>3. Weight(queue) + o <= NormalLimit + MostEvictable + AllCodes
  BY DEF Headroom, Weight
<1>4. SUFFICES Weight(queue') + p <= NormalLimit + MostEvictable + AllCodes
  BY DEF Headroom, Weight, NormalLimit, MostEvictable, AllCodes, Droppable
<1>5. Weight(queue) \in Nat
  BY <1>1, WeightType
<1>6. CASE ~Accepts(b)
  <2>1. Weight(queue') = Weight(queue)
    BY <1>6 DEF Submit
  <2>2. p <= o
    BY <1>2, <1>6
  <2> HIDE DEF o, p
  <2> QED BY <1>1, <1>2, <1>3, <1>5, <2>1, <2>2
<1>7. CASE Accepts(b)
  <2>1. queue' = Enqueue(queue, b)
    BY <1>7 DEF Submit
  <2>2. Coalesces(queue, b) \/ HasRoom(queue, b)
    BY <1>7 DEF Accepts
  <2>3. Weight(queue') \in Nat
    BY <1>1, <2>1, <2>2, EnqueueWeight, WeightType
  <2>4. CASE IsRelease(b)
    <3>1. Weight(queue') <= Weight(queue) + 1 /\ p <= o - 1
      BY <1>1, <2>1, <2>2, <2>4, EnqueueWeight
    <3> HIDE DEF o, p
    <3> QED BY <1>1, <1>2, <1>3, <1>5, <2>3, <3>1
  <2>5. CASE ~IsRelease(b)
    <3>1. \/ Len(queue') <= NormalLimit
          \/ /\ b.kind \in {"Motion", "Repeat"}
             /\ Weight(queue') <= Weight(queue)
          \/ Weight(queue') <= Weight(queue) - 1
      BY <1>1, <2>1, <2>2, <2>5, EnqueueWeight
    <3>2. p <= o \/ (b.kind \notin {"Motion", "Repeat"} /\ p <= o + 1)
      BY <1>2, <1>7, <2>5
    <3>3. Len(queue') <= NormalLimit =>
            Weight(queue') <= NormalLimit + MostEvictable
      BY <1>1, <2>1, <2>2, EnqueueWeight, EvictableCount
    <3> HIDE DEF o, p
    <3> QED BY <1>1, <1>2, <1>3, <1>5, <2>3, <3>1, <3>2, <3>3
  <2> QED BY <2>4, <2>5
<1> QED BY <1>6, <1>7

LEMMA QuietHeadroom ==
  ASSUME TypeOK, Headroom, injected_held' \in Holdings,
         Owed(injected_held') <= Owed(injected_held),
         \/ queue' = queue
         \/ queue # <<>> /\ queue' = Tail(queue)
         \/ queue' = <<>>
  PROVE  Headroom'
<1> DEFINE o == Owed(injected_held)
           p == Owed(injected_held')
<1>1. /\ queue \in Seq(Batches) /\ injected_held \in Holdings
      /\ NormalLimit \in Nat /\ MostEvictable \in Nat
  BY CapacityAssumption DEF TypeOK, NormalLimit, MostEvictable
<1>2. o \in Nat /\ p \in Nat /\ AllCodes \in Nat /\ p <= o
  BY <1>1, OwedType
<1>3. Weight(queue) + o <= NormalLimit + MostEvictable + AllCodes
  BY DEF Headroom, Weight
<1>4. SUFFICES Weight(queue') + p <= NormalLimit + MostEvictable + AllCodes
  BY DEF Headroom, Weight, NormalLimit, MostEvictable, AllCodes, Droppable
<1>5. Weight(queue) \in Nat
  BY <1>1, WeightType
<1>6. Weight(queue') \in Nat /\ Weight(queue') <= Weight(queue)
  <2>1. CASE queue' = queue
    BY <1>5, <2>1
  <2>2. CASE queue # <<>> /\ queue' = Tail(queue)
    <3>1. /\ queue' \in Seq(Batches)
          /\ Len(queue') <= Len(queue)
          /\ Cardinality(Droppable(queue')) <= Cardinality(Droppable(queue))
      BY <1>1, <2>2, DroppableTail, LenProperties
    <3>2. /\ Len(queue') \in Nat /\ Len(queue) \in Nat
          /\ Cardinality(Droppable(queue')) \in Nat
          /\ Cardinality(Droppable(queue)) \in Nat
      BY <1>1, <3>1, DroppableFinite, LenProperties
    <3> QED BY <3>1, <3>2 DEF Weight
  <2>3. CASE queue' = <<>>
    <3>1. <<>> \in Seq(Batches) /\ Len(<<>>) = 0 /\ Droppable(<<>>) = {}
      BY DEF Droppable
    <3>2. Weight(queue') = 0
      BY <2>3, <3>1, FS_EmptySet DEF Weight
    <3> QED BY <1>5, <3>2
  <2> QED BY <2>1, <2>2, <2>3
<1> HIDE DEF o, p
<1> QED BY <1>1, <1>2, <1>3, <1>5, <1>6

LEMMA HoldHeadroom ==
  ASSUME TypeOK, Headroom, EvictableApart', NEW s \in Streams
  PROVE  /\ \A c \in Codes(s), at \in Positions \cup {None} :
              HoldDown(s, c, at) => Headroom'
         /\ \A c \in Codes(s) : HoldUp(s, c) => Headroom'
         /\ ReleaseAll(s) => Headroom'
         /\ (ResetHeld(s) /\ UNCHANGED queue) => Headroom'
<1>1. injected_held \in Holdings /\ Owed(injected_held) \in Nat
  BY OwedType DEF TypeOK
<1>2. ASSUME NEW c \in Codes(s), NEW at \in Positions \cup {None},
             HoldDown(s, c, at)
      PROVE  Headroom'
  <2>1. DownBatch(s, c, at) \in Batches /\ injected_held' \in Holdings
    BY <1>2, HoldDownType, BatchTypes
  <2>2. Accepts(DownBatch(s, c, at)) =>
          Owed(injected_held') <= Owed(injected_held) + 1
    BY <1>1, <1>2, OwedChanges DEF HoldDown
  <2> QED BY <1>2, <2>1, <2>2, BatchRelease, SubmitHeadroom DEF HoldDown
<1>3. ASSUME NEW c \in Codes(s), HoldUp(s, c)
      PROVE  Headroom'
  <2>1. UpBatch(s, c) \in Batches /\ injected_held' \in Holdings
    BY <1>3, HoldUpType, BatchTypes, PositionAssumption
  <2>2. CASE c \in injected_held[s]
    <3>1. Owed(injected_held') <= Owed(injected_held) - 1
      <4>1. injected_held' = [injected_held EXCEPT ![s] = @ \ {c}]
        BY <1>3 DEF HoldUp
      <4>2. Owed([injected_held EXCEPT ![s] = @ \ {c}])
              = Owed(injected_held) - 1
        BY <1>1, <2>2, OwedChanges
      <4> QED BY <1>1, <4>1, <4>2
    <3> QED BY <1>3, <2>1, <2>2, <3>1, BatchRelease, SubmitHeadroom DEF HoldUp
  <2>3. CASE c \notin injected_held[s]
    <3>1. injected_held' = injected_held /\ queue' = queue
      BY <1>1, <1>3, <2>3 DEF HoldUp, Holdings
    <3> QED BY <1>1, <2>1, <3>1, QuietHeadroom
  <2> QED BY <2>2, <2>3
<1>4. ASSUME ReleaseAll(s)
      PROVE  Headroom'
  <2>1. /\ injected_held' \in Holdings
        /\ injected_held' = [injected_held EXCEPT ![s] = {}]
    BY <1>4, ReleaseAllType DEF ReleaseAll
  <2>2. CASE injected_held[s] # {}
    <3>1. Owed(injected_held') <= Owed(injected_held) - 1
      BY <1>1, <2>1, <2>2, OwedChanges
    <3>2. [PlainBatch(s, "ForcedRelease") EXCEPT !.up = injected_held[s]]
            \in Batches
      BY <1>1, OwedType, BatchTypes
    <3> QED BY <1>4, <2>1, <2>2, <3>1, <3>2, BatchRelease, SubmitHeadroom
            DEF ReleaseAll
  <2>3. CASE injected_held[s] = {}
    <3>1. queue' = queue
      BY <1>4, <2>3 DEF ReleaseAll
    <3> QED BY <1>1, <2>1, <3>1, OwedChanges, QuietHeadroom
  <2> QED BY <2>2, <2>3
<1>5. ASSUME ResetHeld(s), UNCHANGED queue
      PROVE  Headroom'
  <2>1. /\ injected_held' = [injected_held EXCEPT ![s] = {}]
        /\ injected_held' \in Holdings
    BY <1>1, <1>5, HoldingsUpdate DEF ResetHeld
  <2> QED BY <1>1, <1>5, <2>1, OwedChanges, QuietHeadroom
<1> QED BY <1>2, <1>3, <1>4, <1>5

\* Every action keeps the headroom.
LEMMA HeadroomStep ==
  ASSUME TypeOK, EvictableApart, Headroom, [Next]_vars
  PROVE  Headroom'
<1>1. /\ TypeOK' /\ EvictableApart'
      /\ injected_held \in Holdings /\ injected_held' \in Holdings
  BY TypeStep, ApartStep DEF TypeOK
<1>2. Owed(injected_held) <= Owed(injected_held)
  BY <1>1, OwedType
<1>3. ASSUME NEW b \in Batches, ~IsRelease(b), Submit(b),
             UNCHANGED injected_held
      PROVE  Headroom'
  BY <1>1, <1>3, SubmitHeadroom
<1>4. ASSUME UNCHANGED injected_held,
             \/ queue' = queue
             \/ queue # <<>> /\ queue' = Tail(queue)
             \/ queue' = <<>>
      PROVE  Headroom'
  BY <1>1, <1>2, <1>4, QuietHeadroom
<1>5. CASE UNCHANGED vars
  BY <1>4, <1>5 DEF vars, dispatcherVars, heldVars
<1>6. CASE WorkerLoop
  BY <1>4, <1>6 DEF WorkerLoop, Dequeue, DropStale, Deliver, FailDelivery,
     ExitWorker, heldVars
<1>7. CASE ResetKeyboard \/ ResetPointer
  BY <1>1, <1>7, HoldHeadroom DEF ResetKeyboard, ResetPointer, Streams
<1>8. CASE HostContinues
  <2>1. CASE PressPlaced
    <3>1. click.code \in Codes("Pointer") /\ click.at \in Positions \cup {None}
      BY <2>1 DEF PressPlaced, TypeOK, Clicks, Codes
    <3>2. CASE HoldDown("Pointer", click.code, click.at)
      BY <1>1, <3>1, <3>2, HoldHeadroom DEF Streams
    <3>3. CASE UNCHANGED <<queue, motion_lost, heldVars>>
      BY <1>4, <3>3 DEF heldVars
    <3> QED BY <2>1, <3>2, <3>3 DEF PressPlaced
  <2>2. CASE WheelPlaced
    <3>1. click.at \in Positions \cup {None}
      BY DEF TypeOK, Clicks
    <3> QED BY <1>3, <2>2, <3>1, BatchRelease, BatchTypes
            DEF WheelPlaced, Wheel, heldVars, Streams
  <2>3. CASE ReleasePointer
    BY <1>1, <2>3, HoldHeadroom DEF ReleasePointer, Streams
  <2>4. CASE \/ FlushDrained \/ FlushTimeout \/ ClearHandler \/ DropInput
             \/ StopDispatcher \/ JoinWorker
    BY <1>4, <2>4 DEF FlushDrained, FlushTimeout, ClearHandler, DropInput,
       StopDispatcher, JoinWorker, HostStep, dispatcherVars, heldVars
  <2> QED BY <1>8, <2>1, <2>2, <2>3, <2>4 DEF HostContinues
<1>9. CASE HostEvent
  <2>1. ASSUME NEW c \in Keys, KeyDown(c) \/ KeyUp(c)
        PROVE  Headroom'
    BY <1>1, <2>1, HoldHeadroom DEF KeyDown, KeyUp, Streams, Codes
  <2>2. ASSUME NEW c \in Keys, KeyRepeat(c)
        PROVE  Headroom'
    BY <1>3, <2>2, BatchRelease, BatchTypes
       DEF KeyRepeat, Repeat, heldVars, Streams
  <2>3. ASSUME NEW c \in Buttons, PressLocked(c) \/ ButtonUp(c)
        PROVE  Headroom'
    BY <1>1, <2>3, HoldHeadroom DEF PressLocked, ButtonUp, Streams, Codes
  <2>4. ASSUME NEW p \in Positions, Absolute(p), UNCHANGED heldVars
        PROVE  Headroom'
    BY <1>3, <2>4, BatchRelease, BatchTypes DEF Absolute, heldVars, Streams
  <2>5. ASSUME NEW p \in Positions, NEW c \in Buttons \cup {None},
               MoveAbsolute(p) \/ PlaceClick(c, p)
        PROVE  Headroom'
    BY <2>4, <2>5 DEF MoveAbsolute, PlaceClick
  <2>6. CASE MoveRelative
    BY <1>3, <2>6, BatchRelease, BatchTypes
       DEF MoveRelative, Relative, heldVars, Streams
  <2>7. CASE WheelLocked
    BY <1>3, <2>7, BatchRelease, BatchTypes
       DEF WheelLocked, Wheel, heldVars, Streams
  <2>8. CASE TogglePointerLock \/ GainFocus \/ ResizeWindow
    BY <1>4, <2>8 DEF TogglePointerLock, GainFocus, ResizeWindow,
       dispatcherVars, heldVars
  <2>9. ASSUME NEW why \in Reasons, ReleaseKeyboard(why)
        PROVE  Headroom'
    BY <1>1, <2>9, HoldHeadroom DEF ReleaseKeyboard, Streams
  <2>10. ASSUME NEW p \in Positions, MoveAbsolute(p)
         PROVE  Headroom'
    BY <2>4, <2>10 DEF MoveAbsolute
  <2> QED BY <1>9, <2>1, <2>2, <2>3, <2>5, <2>6, <2>7, <2>8, <2>9, <2>10
          DEF HostEvent
<1>10. CASE PublishViewport
  BY <1>4, <1>10 DEF PublishViewport, dispatcherVars, heldVars
<1> QED BY <1>5, <1>6, <1>7, <1>8, <1>9, <1>10 DEF Next, Worker, Finished

\* Whatever the capacity and the reserve, pending batches, evictable batches
\* and owed releases together stay within the ordinary share, what can be
\* evicted from it and one per code: the accounting of Dispatcher::submit and
\* make_room_locked.
THEOREM HeadroomTheorem == Spec => []Headroom
<1>1. Init => Headroom
  <2>1. SUFFICES ASSUME Init PROVE Headroom
    OBVIOUS
  <2>2. /\ queue = <<>>
        /\ injected_held["Keyboard"] = {} /\ injected_held["Pointer"] = {}
    BY <2>1 DEF Init, DispatcherInit, HeldInit, Streams
  <2>3. Len(queue) = 0 /\ Droppable(queue) = {} /\ Cardinality({}) = 0
    BY <2>2, FS_EmptySet DEF Droppable
  <2>4. NormalLimit \in Nat /\ MostEvictable \in Nat /\ AllCodes \in Nat
    BY CapacityAssumption, CodesAssumption, FS_CardinalityType
       DEF NormalLimit, MostEvictable, AllCodes
  <2>5. Owed(injected_held) = 0
    BY <2>2, <2>3 DEF Owed
  <2>6. Len(queue) + Cardinality(Droppable(queue)) + Owed(injected_held) = 0
    BY <2>3, <2>5
  <2> QED BY <2>4, <2>6 DEF Headroom
<1>2. Init => EvictableApart
  BY DEF Init, DispatcherInit, EvictableApart, Spread, Droppable
<1>3. TypeOK /\ EvictableApart /\ Headroom /\ [Next]_vars
        => EvictableApart' /\ Headroom'
  BY ApartStep, HeadroomStep
<1> QED BY <1>1, <1>2, <1>3, TypeCorrect, PTL DEF Spec

\* If the reserve has a slot for every code and for every press an eviction
\* can admit, a release that is owed is never refused: make_room_locked finds
\* a slot for it however long uinput stalls. The shipped queue meets the
\* assumption while repeats are ignored, the default.
THEOREM ReleaseRoomTheorem ==
  ASSUME ReserveCovers
  PROVE  Spec => []ReleaseRoom
<1>1. TypeOK /\ Headroom => ReleaseRoom
  <2> SUFFICES ASSUME TypeOK, Headroom,
                      NEW s \in Streams, injected_held[s] # {},
                      Droppable(queue) = {}
               PROVE  Len(queue) < Capacity
    BY DEF ReleaseRoom
  <2>1. /\ queue \in Seq(Batches) /\ injected_held \in Holdings
        /\ Len(queue) \in Nat
    BY LenProperties DEF TypeOK
  <2>2. /\ AllCodes \in Nat
        /\ \A t \in Streams : Cardinality(injected_held[t]) \in Nat
        /\ IsFiniteSet(injected_held[s])
    BY <2>1, OwedType
  <2>3. Cardinality(injected_held[s]) # 0
    BY <2>2, FS_EmptySet
  <2>4. Owed(injected_held) \in Nat /\ Owed(injected_held) >= 1
    BY <2>2, <2>3 DEF Owed, Streams
  <2>5. Cardinality(Droppable(queue)) = 0
    BY FS_EmptySet
  <2>6. Len(queue) + Owed(injected_held) <= NormalLimit + MostEvictable + AllCodes
    BY <2>1, <2>4, <2>5 DEF Headroom
  <2>7. MostEvictable + AllCodes <= ReleaseReserve /\ MostEvictable \in Nat
    <3>1. NormalLimit \in Nat
      BY CapacityAssumption DEF NormalLimit
    <3>2. MostEvictable \in Nat
      BY <3>1 DEF MostEvictable
    <3> QED BY <2>2, <3>2, CapacityAssumption DEF ReserveCovers
  <2> QED BY <2>1, <2>2, <2>4, <2>6, <2>7, CapacityAssumption DEF NormalLimit
<1> QED BY <1>1, TypeCorrect, HeadroomTheorem, PTL
=============================================================================
