------------------------------- MODULE SdlInput -------------------------------
(***************************************************************************)
(* platform::sdl::Platform, revised input path: the SDL event thread that  *)
(* feeds Keyboard and Pointer, the transport-failure handler the worker    *)
(* runs, and the destructor that releases, flushes and stops it all.       *)
(*                                                                         *)
(* The destructor joins the event thread before it does anything else, so  *)
(* both are the one process `host'.                                        *)
(***************************************************************************)
EXTENDS HeldInput

VARIABLES
  host,            \* where the event thread, later the destructor, is
  click,           \* the press or wheel event being handled
  reason,          \* why release_reboxed_input runs
  focused,         \* focused_sdl_window_id_ is the window events are for
  pointer_locked,  \* pointer_locked_
  viewport_valid   \* the renderer has a viewport for the focused window

platformVars == <<host, click, reason, focused, pointer_locked,
                  viewport_valid>>
vars == <<dispatcherVars, heldVars, platformVars>>

\* What a call to submit leaves alone.
restVars == <<stopping, transport_failed, failure_handler, workerVars,
              androidVars>>

Reasons == {"none", "focus loss", "window hidden", "other window hidden",
            "window close", "SDL quit", "backend shutdown"}

NoClick == [code |-> None, at |-> None]

Clicks == [code : Buttons \cup {None}, at : Positions \cup {None}]

Init ==
  /\ DispatcherInit
  /\ HeldInit
  /\ host = "events"
  /\ click = NoClick
  /\ reason = "none"
  /\ focused = FALSE
  /\ pointer_locked = FALSE
  /\ viewport_valid = FALSE

-----------------------------------------------------------------------------
(* The event thread: process_events and process_reboxed_input_event. *)

\* process_reboxed_input_event drops events of a window without the focus.
Handling == host = "events" /\ focused

KeyDown(c) ==
  /\ Handling
  /\ HoldDown("Keyboard", c, None)
  /\ UNCHANGED <<restVars, platformVars>>

KeyUp(c) ==
  /\ Handling
  /\ HoldUp("Keyboard", c)
  /\ UNCHANGED <<restVars, platformVars>>

KeyRepeat(c) ==
  /\ Handling
  /\ Repeat(c)
  /\ UNCHANGED <<restVars, platformVars>>

\* SDL_MOUSEMOTION, pointer not locked
MoveAbsolute(p) ==
  /\ Handling
  /\ ~pointer_locked
  /\ viewport_valid
  /\ Absolute(p)
  /\ UNCHANGED <<restVars, heldVars, platformVars>>

\* SDL_MOUSEMOTION, pointer locked
MoveRelative ==
  /\ Handling
  /\ pointer_locked
  /\ viewport_valid
  /\ Relative
  /\ UNCHANGED <<restVars, heldVars, platformVars>>

\* The position a button or wheel batch can count on: that of its own motion,
\* if the dispatcher took it.
Placed(p) ==
  IF Accepts([PlainBatch("Pointer", "Motion") EXCEPT !.at = p])
  THEN p ELSE None

\* SDL_MOUSEBUTTONDOWN or SDL_MOUSEWHEEL, pointer not locked: the position
\* goes first, as a batch of its own.
PlaceClick(c, p) ==
  /\ Handling
  /\ ~pointer_locked
  /\ viewport_valid
  /\ Absolute(p)
  /\ click' = [code |-> c, at |-> Placed(p)]
  /\ host' = IF c = None THEN "wheel" ELSE "press"
  /\ UNCHANGED <<restVars, heldVars, reason, focused, pointer_locked,
                 viewport_valid>>

\* ... and then the button
PressPlaced ==
  /\ host = "press"
  /\ \/ HoldDown("Pointer", click.code, click.at)
     \/ /\ click.code \in host_held["Pointer"]
        /\ UNCHANGED <<queue, motion_lost, heldVars>>
  /\ host' = "events"
  /\ click' = NoClick
  /\ UNCHANGED <<restVars, reason, focused, pointer_locked, viewport_valid>>

\* ... or the wheel.
WheelPlaced ==
  /\ host = "wheel"
  /\ Wheel(click.at)
  /\ host' = "events"
  /\ click' = NoClick
  /\ UNCHANGED <<restVars, heldVars, reason, focused, pointer_locked,
                 viewport_valid>>

\* SDL_MOUSEBUTTONDOWN, pointer locked: no position and no viewport.
PressLocked(c) ==
  /\ Handling
  /\ pointer_locked
  /\ HoldDown("Pointer", c, None)
  /\ UNCHANGED <<restVars, platformVars>>

\* SDL_MOUSEWHEEL, pointer locked: no position, but a viewport.
WheelLocked ==
  /\ Handling
  /\ pointer_locked
  /\ viewport_valid
  /\ Wheel(None)
  /\ UNCHANGED <<restVars, heldVars, platformVars>>

\* SDL_MOUSEBUTTONUP
ButtonUp(c) ==
  /\ Handling
  /\ HoldUp("Pointer", c)
  /\ UNCHANGED <<restVars, platformVars>>

-----------------------------------------------------------------------------
(* Window events, handled on the event thread too. *)

\* handle_pointer_lock_shortcut and set_pointer_locked
TogglePointerLock ==
  /\ Handling
  /\ pointer_locked' = ~pointer_locked
  /\ UNCHANGED <<dispatcherVars, heldVars, host, click, reason, focused,
                 viewport_valid>>

\* window_wants_focus
GainFocus ==
  /\ host = "events"
  /\ focused' = TRUE
  /\ UNCHANGED <<dispatcherVars, heldVars, host, click, reason,
                 pointer_locked, viewport_valid>>

\* window_resized and window_moved: the renderer forgets the viewport.
ResizeWindow ==
  /\ host = "events"
  /\ viewport_valid' = FALSE
  /\ UNCHANGED <<dispatcherVars, heldVars, host, click, reason, focused,
                 pointer_locked>>

\* Renderer::draw, on the composer thread, publishes the viewport it drew.
PublishViewport ==
  /\ host \notin {"flush", "clear_handler", "drop_input", "stop", "join",
                  "gone"}
  /\ viewport_valid' = TRUE
  /\ UNCHANGED <<dispatcherVars, heldVars, host, click, reason, focused,
                 pointer_locked>>

\* release_reboxed_input: the keyboard first. It is called by
\* window_lost_focus for the focused window, by window_hidden for any window,
\* by window_deleted, on SDL_QUIT, and by the destructor once it has joined
\* the event thread. window_hidden invalidates the viewport before that and
\* goes on as window_lost_focus does.
ReleaseKeyboard(why) ==
  /\ host = "events"
  /\ why = "focus loss" => focused
  /\ ReleaseAll("Keyboard")
  /\ reason' = IF why = "window hidden" THEN "focus loss" ELSE why
  /\ host' = "release_pointer"
  /\ viewport_valid' = (viewport_valid /\ why # "window hidden")
  /\ UNCHANGED <<restVars, click, focused, pointer_locked>>

\* ... then the pointer, and what the caller does after that. window_hidden
\* gives up the pointer lock whichever window it was; the end of a window
\* that is not the one events are for has no effect but the releases, as
\* SDL_QUIT.
ReleasePointer ==
  /\ host = "release_pointer"
  /\ ReleaseAll("Pointer")
  /\ host' = IF reason = "backend shutdown" THEN "flush" ELSE "events"
  /\ reason' = "none"
  /\ focused' = (focused /\ reason # "focus loss")
  /\ pointer_locked' =
       /\ pointer_locked
       /\ \/ reason \in {"SDL quit", "backend shutdown"}
          \/ reason = "window close" /\ ~focused
  /\ viewport_valid' = (viewport_valid /\ reason # "window close")
  /\ UNCHANGED <<restVars, click>>

-----------------------------------------------------------------------------
(* The transport-failure handler, on the worker thread. *)

\* reset_reboxed_input_after_transport_failure: the keyboard, ...
ResetKeyboard ==
  /\ worker = "reset_keyboard"
  /\ ResetHeld("Keyboard")
  /\ worker' = "reset_pointer"
  /\ UNCHANGED <<queue, stopping, transport_failed, failure_handler, current,
                 androidVars, motion_lost, platformVars>>

\* ... then the pointer.
ResetPointer ==
  /\ worker = "reset_pointer"
  /\ ResetHeld("Pointer")
  /\ worker' = "waiting"
  /\ UNCHANGED <<queue, stopping, transport_failed, failure_handler, current,
                 androidVars, motion_lost, platformVars>>

-----------------------------------------------------------------------------
(* Platform::~Platform, after release_reboxed_input. *)

HostStep(from, to) ==
  /\ host = from
  /\ host' = to
  /\ UNCHANGED <<heldVars, click, reason, focused, pointer_locked,
                 viewport_valid>>

\* Dispatcher::flush returns true, ...
FlushDrained ==
  /\ queue = <<>>
  /\ worker # "delivering"
  /\ HostStep("flush", "clear_handler")
  /\ UNCHANGED dispatcherVars

\* ... or gives up after 250 ms.
FlushTimeout ==
  /\ ~(queue = <<>> /\ worker # "delivering")
  /\ HostStep("flush", "clear_handler")
  /\ UNCHANGED dispatcherVars

\* set_transport_failure_handler({})
ClearHandler ==
  /\ HostStep("clear_handler", "drop_input")
  /\ failure_handler' = FALSE
  /\ UNCHANGED <<queue, stopping, transport_failed, workerVars, androidVars,
                 motion_lost>>

\* reboxed_keyboard_.reset() and reboxed_pointer_.reset()
DropInput ==
  /\ HostStep("drop_input", "stop")
  /\ UNCHANGED dispatcherVars

\* Dispatcher::~Dispatcher asks the worker to stop, ...
StopDispatcher ==
  /\ HostStep("stop", "join")
  /\ stopping' = TRUE
  /\ UNCHANGED <<queue, transport_failed, failure_handler, workerVars,
                 androidVars, motion_lost>>

\* ... and joins it.
JoinWorker ==
  /\ worker = "exited"
  /\ HostStep("join", "gone")
  /\ UNCHANGED dispatcherVars

\* Nothing runs any more.
Finished == host = "gone" /\ UNCHANGED vars

-----------------------------------------------------------------------------
WorkerLoop ==
  /\ Dequeue \/ DropStale \/ Deliver \/ FailDelivery \/ ExitWorker
  /\ UNCHANGED <<heldVars, platformVars>>

Worker == WorkerLoop \/ ResetKeyboard \/ ResetPointer

\* What the host thread does once it has begun: it never waits for an event.
HostContinues ==
  \/ PressPlaced \/ WheelPlaced \/ ReleasePointer
  \/ FlushDrained \/ FlushTimeout \/ ClearHandler \/ DropInput
  \/ StopDispatcher \/ JoinWorker

HostEvent ==
  \/ \E c \in Keys : KeyDown(c) \/ KeyUp(c) \/ KeyRepeat(c)
  \/ \E c \in Buttons : PressLocked(c) \/ ButtonUp(c)
  \/ \E p \in Positions : MoveAbsolute(p)
  \/ \E p \in Positions, c \in Buttons \cup {None} : PlaceClick(c, p)
  \/ MoveRelative \/ WheelLocked
  \/ TogglePointerLock \/ GainFocus \/ ResizeWindow
  \/ \E why \in Reasons \ {"none"} : ReleaseKeyboard(why)

Next == Worker \/ HostContinues \/ HostEvent \/ PublishViewport \/ Finished

Spec == Init /\ [][Next]_vars

\* The worker and the host thread are runnable threads: each takes its next
\* step if it can. The host thread is never obliged to see another event.
FairSpec == Spec /\ WF_vars(Worker) /\ WF_vars(HostContinues)

-----------------------------------------------------------------------------
(* Properties. *)

HostStates ==
  {"events", "press", "wheel", "release_pointer", "flush", "clear_handler",
   "drop_input", "stop", "join", "gone"}

WorkerStates ==
  {"waiting", "delivering", "reset_keyboard", "reset_pointer", "exited"}

Holdings == {h \in [Streams -> SUBSET (Keys \cup Buttons)] :
               \A s \in Streams : h[s] \subseteq Codes(s)}

\* Every variable keeps its type, and a batch only sets codes of its own
\* device, none of them if it is a motion, a wheel or a repeat.
TypeOK ==
  /\ queue \in Seq(Batches)
  /\ current \in Batches
  /\ stopping \in BOOLEAN
  /\ transport_failed \in BOOLEAN
  /\ failure_handler \in BOOLEAN
  /\ motion_lost \in BOOLEAN
  /\ worker \in WorkerStates
  /\ uinput \in SUBSET Streams
  /\ android_held \in Holdings
  /\ android_pos \in Positions \cup {None}
  /\ host_held \in Holdings
  /\ injected_held \in Holdings
  /\ host \in HostStates
  /\ click \in Clicks
  /\ host = "press" => click.code \in Buttons
  /\ reason \in Reasons
  /\ focused \in BOOLEAN
  /\ pointer_locked \in BOOLEAN
  /\ viewport_valid \in BOOLEAN

\* b sets code c of stream s down or up.
Mentions(b, s, c) == b.stream = s /\ c \in b.down \cup b.up

\* What Android holds on s once the worker has written its batch.
Shown(s) ==
  IF worker = "delivering" /\ current.stream = s
  THEN (android_held[s] \ current.up) \cup current.down
  ELSE android_held[s]

\* queue[i] is the last pending word on c.
LastWord(i, s, c) ==
  /\ Mentions(queue[i], s, c)
  /\ \A j \in i+1..Len(queue) : ~Mentions(queue[j], s, c)

\* Keyboard and Pointer know what Android will hold: a code is in
\* injected_held_ exactly if it is down once everything pending has been
\* written, however motion was coalesced, evicted or aged out on the way.
HeldAgrees ==
  ~transport_failed =>
    \A s \in Streams : \A c \in Codes(s) :
      /\ \A i \in DOMAIN queue :
           LastWord(i, s, c) =>
             (c \in injected_held[s] <=> c \in queue[i].down)
      /\ (\A i \in DOMAIN queue : ~Mentions(queue[i], s, c)) =>
             (c \in injected_held[s] <=> c \in Shown(s))

\* No transition is lost on its way: for each code the pending downs and ups
\* alternate, starting from what Android holds ("Key and button transitions
\* are not age-dropped because doing so would break down/up pairing").
Paired ==
  \A s \in Streams : \A c \in Codes(s) :
    /\ (worker = "delivering" /\ Mentions(current, s, c)) =>
         (c \in current.down <=> c \notin android_held[s])
    /\ \A i \in DOMAIN queue :
         /\ Mentions(queue[i], s, c)
         /\ \A j \in 1..i-1 : ~Mentions(queue[j], s, c)
         => (c \in queue[i].down <=> c \notin Shown(s))
    /\ \A i, j \in DOMAIN queue :
         /\ j < i
         /\ Mentions(queue[i], s, c)
         /\ Mentions(queue[j], s, c)
         /\ \A k \in j+1..i-1 : ~Mentions(queue[k], s, c)
         => (c \in queue[i].down <=> c \in queue[j].up)

\* Whatever Android was told to hold can be released: while anything is in
\* injected_held_, make_room_locked would find a slot for a release ("so every
\* possible Linux keyboard key and supported mouse button can be released
\* after a stall").
ReleaseRoom ==
  (~transport_failed /\ \E s \in Streams : injected_held[s] # {}) =>
    (Len(queue) < Capacity \/ Droppable(queue) # {})

AllCodes == Cardinality(Keys) + Cardinality(Buttons)

\* How many releases are owed for the codes h holds.
Owed(h) == Cardinality(h["Keyboard"]) + Cardinality(h["Pointer"])

\* How many evictable batches the ordinary share of the queue can hold.
\* Consecutive motions coalesce, consecutive repeats do not.
MostEvictable ==
  IF ForwardRepeat THEN NormalLimit ELSE (NormalLimit + 1) \div 2

\* Why releases fit: every pending batch, every release still owed and every
\* batch that may be evicted (and so admit one more press) has been paid for
\* by the ordinary share of the queue, by what can be evicted from it or by a
\* code.
Headroom ==
  Len(queue) + Cardinality(Droppable(queue)) + Owed(injected_held)
    <= NormalLimit + MostEvictable + AllCodes

\* The reserve outlasts any stall: it has a slot for every code and for every
\* press that an eviction can admit. With 384 slots, 256 of them reserved, and
\* some 160 codes it does as long as repeats are ignored (64 + 160), and does
\* not once they are forwarded (128 + 160).
ReserveCovers == ReleaseReserve >= MostEvictable + AllCodes

\* "Only 128 may be consumed by non-release events": eviction and coalescing
\* never let ordinary batches into the reserve.
ReserveKept ==
  Cardinality({i \in DOMAIN queue : ~IsRelease(queue[i])}) <= NormalLimit

\* A button or wheel reaches Android with the pointer where the host saw it,
\* unless a motion was evicted or aged out: coalescing alone never moves a
\* click ("a button/wheel/key boundary can never be crossed by coalescing").
ClickLands ==
  /\ worker = "delivering"
  /\ current.kind \in {"Button", "Wheel"}
  /\ current.at # None
  /\ ~motion_lost
  => android_pos = current.at

\* When the worker has been joined no key or button is left down in Android:
\* the destructor's forced releases are delivered even if flush timed out.
NothingHeldAtExit ==
  (worker = "exited" /\ ~transport_failed) =>
    \A s \in Streams : android_held[s] = {}

\* After the failure handler has run nothing is remembered as held, and no
\* later event makes it so ("so a restarted session cannot replay them").
FailureForgets ==
  (transport_failed /\ worker \notin {"reset_keyboard", "reset_pointer"}) =>
    \A s \in Streams : injected_held[s] = {}

\* A code the host side no longer holds is eventually up in Android, unless
\* the transport fails.
ReleasesArrive ==
  \A s \in Streams : \A c \in Codes(s) :
    (c \in android_held[s] \ injected_held[s]) ~>
      (c \notin android_held[s] \/ transport_failed)

\* The destructor returns: neither flush nor the join waits for ever.
ShutdownEnds == (reason = "backend shutdown") ~> (host = "gone")
=============================================================================
