# Verification of the Anbox Reboxed host runtime

These TLA+ modules model the concurrent parts of the host runtime under
`src/anbox/src/anbox`. TLC checks them on small instances, and TLAPS proves the
most important properties of the input path for every size. Paths below are
relative to that directory; `docs/` is `src/anbox/docs`.

## 1. The system

Anbox Reboxed runs Android in an LXC container and shows it in SDL windows. Two
host processes work together.

- The **container manager** runs as root. It mounts the image, owns the container
  and accepts one client on a socket.
- The **session manager** runs as the user. It asks the container manager for a
  container and offers Android a set of sockets: the RPC bridge, the qemu pipe
  (OpenGL ES, qemud services, ADB), audio and, through uinput, a keyboard and a
  pointer.

Inside the session manager these threads matter: the main thread, which waits for
a signal; a pool of 8 threads that run the socket handlers and timers
(`runtime.h:39`); the SDL event thread; the input worker; a render and a writer
thread for each OpenGL ES connection; the composer thread; SDL's audio thread;
and the D-Bus thread.

### Inventory

| Part | State | Operations | What makes it hard |
|---|---|---|---|
| Input dispatcher (`input/dispatcher.cpp`) | bounded queue, failure and stop flags | submit, run, flush, destruction | eviction, coalescing, reserve, delivery outside the lock |
| Keyboard, pointer (`input/keyboard.cpp`, `pointer.cpp`) | codes held by the host, codes queued | key, button, motion, wheel, release_all, reset | agreeing with Android although submit may refuse |
| SDL platform (`platform/sdl/platform.cpp`) | focus, pointer lock, viewport | one per SDL event, failure handler, destructor | order at shutdown, failure on another thread |
| OpenGL ES stream (`graphics/buffered_io_stream.cpp`, `buffer_queue.cpp`, `emugl/RenderThread.cpp`, `emugl/ReadBuffer.cpp`) | two rings, two locks, read buffer | post_data, read, commitBuffer, thread_main, forceStop | full and empty rings, wake-ups, close with data inside |
| Calls into Android (`bridge/android_api_stub.cpp`, `rpc/`) | wait handles, pending call cache, id counter | launch and three more, process_data, force_completion | shared handles, timeouts, late replies, reconnects |
| Session and container (`cmds/session_manager.cpp`, `container/`) | trap, calls, connection, container | start, stop, exit, accept, drop | either side dies, waits without a limit |
| Framing (`qemu/qemud_message_processor.cpp`, `rpc/message_processor.cpp`) | byte buffer | process_data | messages cut and merged by reads |
| Sockets (`network/`) | connections | accept, read, send, remove | exceptions that leave a handler |
| Layer composer (`graphics/layer_composer.cpp`) | pending and last frame | submit, run, redraw, destruction | frames retained exactly once |
| Renderer (`graphics/emugl/Renderer.cpp`) | color buffers, surfaces, contexts, windows, deferred resources | create, open, close, bind, draw, retain, release | reference counts across threads, expiry |
| Viewport and mapping (`graphics/rendered_viewport.cpp`, `coordinate_transform.cpp`) | snapshot with generation | publish, invalidate, map | stale viewport, rounding at the edges |
| Gfxstream (`graphics/gfxstream_*.cpp`) | process and frame state | start, post, stop | end of process against posted frames |
| Window managers (`wm/`, `bridge/platform_*`) | tasks and windows | apply update, remove, resize | calls into Android from a read handler |
| ADB (`qemu/adb_message_processor.cpp`) | connection state, static mutex | handshake, accept, forward | pool threads that block on each other |
| Audio (`audio/`, `platform/sdl/audio_sink.cpp`) | ring | write, callback | a callback after destruction |
| Memory and swap (`memory_manager.cpp`) | limits, swap file | create, enable, disable | failures between the steps |
| Container manager mounts (`cmds/container_manager.cpp`, `common/loop_device*`, `binder*`) | mounts, devices | set up, tear down | cleaning up after a part failed |

`PROJECT.json` lists every component, also those that are not modelled, and every
hazard with the line where it bites.

## 2. Modules

| Module | Models | Used by |
|---|---|---|
| `Dispatcher` | queue policy and worker of `input::Dispatcher`; what Android sees of the two uinput devices | `HeldInput` |
| `HeldInput` | `input::Keyboard`, `input::Pointer` | `SdlInput` |
| `SdlInput` | event thread, failure handler and destructor of `platform::sdl::Platform`; composes the two above | `MCSdlInput`, proofs |
| `MCSdlInput` | what the documents say of the input path and the code does not do | input runs |
| `DispatcherProofs`, `SdlInputProofs` | lemmas and theorems | |
| `BufferQueue` | the ring, as operators on a record | `GlStream` |
| `GlStream` | `OpenGlesMessageProcessor`, `BufferedIOStream`, `RenderThread`, `ReadBuffer` of one connection | `MCGlStream` |
| `AndroidApi` | `AndroidApiStub`, `rpc::Channel`, `PendingCallCache`, `WaitHandle`, `process_data` | `MCAndroidApi` |
| `Session` | session manager, `container::Client`, `ManagementApiStub`; `Service`, `ManagementApiSkeleton`, `LxcContainer` | its own runs |
| `Framing` | the two framing loops | its own runs |

A definition whose comment begins with *Mutant* is a wrong version of the
definition after it. No specification uses it. It stands for a plausible mistake,
and putting it in place of the right version makes TLC report the property listed
with it in `PROJECT.json`. This shows that the property can fail.

### Input path

`queue`, `stopping`, `transport_failed` are the fields of the dispatcher;
`worker` and `current` say where `run` is and which batch it has taken;
`host_held` and `injected_held` are the sets of the keyboard and the pointer.
`android_held` and `android_pos` are what Android has been told, and `uinput` the
devices that exist.

- A batch keeps its device, its kind, the codes it sets and a position. Distances
  of relative motion are left out.
- `Submit` is all of `Dispatcher::submit`: the refusal, coalescing with the last
  batch, `make_room_locked` and the append.
- The age limit of 100 ms is a choice: a motion, wheel or repeat may be found too
  old (`DropStale`) or not.
- `Deliver` and `FailDelivery` are the two results of `deliver_events`, which runs
  outside the lock; events and the destructor run between `Dequeue` and them.
- Keyboard and pointer hold their mutex across `submit`, so each of their calls is
  one step. A click is two steps, as in the code: motion first, then the button.
- Releasing everything is two steps, keyboard and then pointer, with what the caller
  does after it in the second. A hidden window releases whichever window it is; loss
  of focus only counts for the window events are for.
- The destructor joins the event thread first, so one variable `host` is the
  program counter of both. `FlushTimeout` is the end of the 250 ms.

Legacy and touch input, and the creation of the devices and windows, are left out.
`PublishViewport` stands for the renderer's draw.

### OpenGL ES stream

The bytes of the guest are the numbers 1, 2, 3, ... and a packet is `PacketSize`
of them. Thus losing, repeating or moving a byte shows. `net`, `render` and
`writer` are the program counters of the three threads. Checking a condition and
beginning to wait are two steps where the notifier may run without the waiter's
lock, which is the case for `out_queue_` and `forceStop`; notifying reaches only a
thread that waits.

Each round of the decoding loop takes `m_lock`, which the render threads of all
connections share (`gl_lock`; `OthersLock` and `OthersUnlock` are the others). A
decoder consumes the packet and may commit one reply, still under the lock, or no
decoder takes it (`Undecodable`: an unknown opcode, or a size field below that of a
header). Then it stays at the head, `stuck`, and the loop goes back to reading.
`GrowFails` is the `realloc` of `ReadBuffer` that fails and ends the thread.

### Calls into Android

The four methods that wait are one piece of code around four wait handles. A call
goes through `Expect` (`expect_result`), `LoadId` and `Save` (`next_id` and
`save_completion_details`), `LockWrite` (`write_mutex_`), `Send` or `SendFails` (which
runs `force_completion`),
`Awake` or `Expire` (the end of `wait_for_pending`) and `Return`. `LoadId` and
`Save` are apart because `next_message_id++` is not atomic. The reader of a channel
parses (`Populate`) and completes (`Complete`) in two critical sections, as
`process_data` does; `UnknownId` is the exception of `pending_calls_.at`, and `Reject`
a result that does not parse, which removes the connection and leaves the entry in the
cache. `unread` is what the socket holds. While it is full `Send` is not enabled, with
the write lock held, as the loop of `BaseSocketMessenger::send` retries without a
limit. An invocation is written as a whole or not at all; that a large one is written
in part and then sent again from its beginning is not modelled. The guest reads, and
answers each request at most once, in any order, or hangs up. A new connection
replaces the stub's channel and leaves the calls of the old one in its cache.

### Session and container

`main` is the main thread of the latest session, `starter` the timer that calls
`start_container`, `reader` the handler of `container::Client`. `connection`,
`handler`, `state`, `lxc` are the service's client, its read handler and its
`LxcContainer`; `container` is whether Android runs. `Kill`, `ManagerCrashes`,
`ManagerStops` and `ContainerExits` can happen at any time. A refused client is
accepted and closed at once, as in `Service::new_client`. The handler is `wedged`
after an exception left it: it is not armed again and its connection stays. `stale`
marks a container of an earlier manager that `stop_stale_container` passed over because
`lxc_container_new` gave it nothing.

### Framing

Both loops get the same reads. A buffer is known by how many bytes arrived and how
many messages were handled. The early end of the qemud loop is part of `QemudEnd`.
A message has a fate: it is handled, or it does not parse and the connection is removed,
or its handler throws (`dispatch`, `populate_message_for_result`). The exception passes
`on_read_size`, which then neither reads again nor removes the connection, and the
message stays in `buffer_` with all that follow (`rpc_conn = "wedged"`).

## 3. Runs

Passing runs:

| Run | Instance | Shows |
|---|---|---|
| `input_devices` | a key and a button, repeats forwarded, wheel, relative motion, queue of 4 with 3 reserved | held state agrees with what Android will hold (`HeldAgrees`), downs and ups alternate (`Paired`), nothing is down after shutdown (`NothingHeldAtExit`), failure forgets (`FailureForgets`), releases arrive and the destructor returns |
| `input_queue` | one button, one position, wheel, pointer lock, resizes, repeats ignored, queue of 6 with 3 reserved | a release owed finds room (`ReleaseRoom`, `Headroom`), ordinary batches stay out of the reserve (`ReserveKept`), held state agrees (`HeldAgrees`), a click lands where the host saw it unless a motion was dropped (`ClickLands`) |
| `gl_stream` | two rings of 2 slots, packets of 2, reads of up to 3, a read buffer that must grow or cannot | bytes decoded in order, and completely unless a packet is undecodable or the buffer cannot grow; replies in order and sent; the shared lock given back (`LockFreed`); `forceStop` ends the render thread |
| `android_calls` | two launches, two connections, a socket with room for one invocation | counters count nothing twice, an early wake-up means the call is settled, late writes follow timeouts, unknown ids need a collision or a closed socket, every call comes back while the guest reads or hangs up |
| `session` | two sessions, one crash or stop of the manager | no container without a client, a confirmed stop is one, a container ends after its session (`ContainerFollowsSession`), a lost manager ends the session, stopping ends |
| `framing` | three messages with bodies of 0, 1 and 3 bytes and every fate, every way to cut them | nothing handled early, no complete RPC message left on a connection that is read |

The other runs look for a violation and find it; section 6 explains them.

### Why the bounds are enough

- *Input.* In `input_devices` one ordinary slot is enough for every order of two
  devices: a repeat or motion is evicted for a press, also from between two releases,
  presses are refused, and either device fails with batches of the other pending. In
  `input_queue` three ordinary slots hold motion, button and motion, the least in which
  a motion could be coalesced across a click. One position is enough to see it, since
  Android's pointer has none at first: a click that overtakes its motion, or whose
  motion was replaced by a relative one, finds no position. 3 = 2 + 1 is the smallest
  reserve for which the theorem of section 5 applies there, with repeats ignored, as
  it applies to the sizes of the code; with 2 TLC finds `ReleaseRoom` violated.
  Batches that release several codes of one device at once, and a reserve shared by
  more codes, are not reached; the proofs cover them.
- *Stream.* Both rings have two slots: they wrap and fill, hold two replies at once
  and make either side wait. Reads of up to 3 with packets of 2 cut and merge
  packets, and a read buffer of one unit grows.
- *Calls.* Two calls of one method are the fewest that share a handle, collide in
  their ids and complete each other by a failed send. Two connections leave one of
  them behind in the cache of a channel that has been replaced. Room for one
  invocation makes the second call wait for the guest to read.
- *Session.* Two sessions show what one leaves behind for the next, and one crash
  what the manager leaves behind for itself.
- *Framing.* Three messages with a repeated length and every read size up to the
  whole stream. Headers have 4 bytes, as in both protocols.

### Fairness

Weak fairness of whole threads is assumed, and of the outside only what is named here.

- `SdlInput`: the worker, and the event thread inside a handler or the destructor.
  No further event has to come.
- `GlStream`: the three threads. For the writer this means that the guest reads
  its replies until it hangs up, since the socket write blocks otherwise. The guest
  need not send. The other render threads give `m_lock` back (weak fairness of
  `OthersUnlock`, which rests on their guests in the same way), and the decoding
  steps are strongly fair: a thread that competes for the lock again and again gets
  it in the end. This is the usual assumption that a mutex starves no thread; the C++
  standard does not promise it.
- `AndroidApi`: a caller that has begun, and a guest that reads what it is sent until
  it hangs up. `wait_for_pending` has a limit, so `Expire` is enabled while a call
  waits there; the loop of `send` has none, and without the guest's fairness
  `CallsReturn` does not hold. The guest need not answer, and nothing is assumed of
  the reader.
- `Session`: pool, reader, main thread and the service, and that LXC calls return.
  Nobody must send a signal or restart a process.

Deadlock is checked in all runs but those of `GlStream`, where the destructor can
really hang, which is what `gl_stream_stop` is about. Where a system ends,
`Finished` lets it stutter.

## 4. Properties worth knowing about

- `HeldAgrees` and `Paired` are what the two held sets are for. They relate three
  threads' worth of state: host sets, queue and Android.
- `Headroom` explains the release reserve. Every queued batch, every release still
  owed and every batch that could be evicted to let another press in is paid for
  by the ordinary share, by what can be evicted from it or by a code.
- `ClickLands` is about motion coalesced across a click. An evicted motion is exempt:
  after it the click does land at an older position.
- `LockFreed` is why one connection does not stop the others: the render thread waits
  for its output ring with the lock of all render threads held.
- `NothingCountedTwice` is what `received == expecting` rests on; without it a
  wait of one call could end because of another one's result.
- `WokenMeansSettled`, `LateWritesFollowTimeouts` and `KnownIdsOnly` hold except
  when two calls drew the same id (`Collided`). The exception is real: the counter
  is not protected. They bound the hazard and do not deny it.
- `LateWritesFollowTimeouts` allows the write into a response that is gone once the
  call has timed out, which the code does.
- `StopMeansStopped` covers a stop that was answered without an error.
  `stop_container` also returns without one when its three seconds have passed;
  `ContainerFollowsSession` covers that, a refused stop and a late start: when the
  session is gone its connection is removed and the container with it, unless the
  handler was serving it at that moment and is wedged.
- `NoOrphan` holds across crashes only because the manager stops a stale container
  when it starts; one it passes over is exempt.

## 5. Proofs

`DispatcherProofs` and `SdlInputProofs` prove, for every set of keys and buttons,
every capacity and every reserve:

- `TypeCorrect`: `Spec => []TypeOK`. `TypeOK` is inductive as it stands because the
  set of batches already says which codes a batch of a device may set.
- `HeadroomTheorem`: `Spec => []Headroom`. The inductive invariant is
  `TypeOK /\ EvictableApart /\ Headroom`.
- `ReleaseRoomTheorem`: if `ReserveCovers`, that is, the reserve is at least
  `MostEvictable` plus the number of codes, then `Spec => []ReleaseRoom`.

`MostEvictable` is how many evictable batches the ordinary share can hold: all of it
when repeats are forwarded, and half of it, rounded up, when they are ignored, since
then only motions are evictable and consecutive ones coalesce. That no two evictable
batches are neighbours (`EvictableApart`, `Spread` in `DispatcherProofs`) is an
invariant of its own: an append after a motion is not a motion, and the neighbours
that an eviction by `make_room_locked` brings together are not motions.
`SpreadCount` turns it into the bound.

`ReleaseRoom` is not inductive: it says nothing about a queue that is nearly full.
`Headroom` is the strengthening. Its left side, the *weight*, is the length of the
queue plus the number of evictable batches plus the releases owed.
`DispatcherProofs` shows what one `Enqueue` does to length plus evictable batches:

- An ordinary batch is appended only below the ordinary share, or takes the place
  of an evictable one. In the first case the length is at most `NormalLimit`
  afterwards and the evictable batches at most `MostEvictable`, so the bound holds
  outright. In the second case one batch and one evictable batch go, and one batch
  comes, with at most one more release owed or one more evictable batch.
- A release adds one batch and takes at least one owed release away.
- A coalesced motion changes neither number.

The lemmas about `RemoveAt`, `Min`, `Append` and `Tail` come first, then the change
of the owed releases for each call of `HeldInput` (`OwedChanges`), then one case for
each action (`HeadroomStep`). With a full queue, nothing to evict and something
held, `Headroom` contradicts `ReserveCovers`.

Assumptions: the constants' assumptions in `Dispatcher` and `HeldInput` (the capacity is
positive, the reserve at most the capacity, the codes finite), as the constructor of
the dispatcher enforces them, and `ReserveCovers` for the last theorem. The sizes of
the code are 384 and 256, which leaves 128 ordinary slots. `keycode_converter.cpp` has
155 keys and `convert_mouse_button` five buttons, 160 codes. With repeats ignored, the
default, 256 >= 64 + 160 and the theorem applies. With `--key-repeat=forward` it would
take 128 + 160, and it does not; `input_repeat` shows what then happens.

*Only model-checked:* all liveness properties (TLAPS has no support for fairness
and `ENABLED` here), the other safety properties of the input path, and all of
`GlStream`, `AndroidApi`, `Session` and `Framing`. `Framing` folds over sequences,
and facts about folds need induction over data, which is out of the provers' reach.

## 6. Where code and documents disagree

| Run | Disagreement |
|---|---|
| `input_failure` | `docs/input.md` says Android releases its state on permanent failure. Only the device whose write failed is destroyed; the other keeps what it holds down, and its releases are cleared with the queue. |
| `input_repeat` | `docs/input.md` says 256 slots are reserved so that every key and button can be released after a stall. A reserve with a slot for every code is not enough once repeats are forwarded: presses that evict repeats come in while releases pile up, and a release is refused. |
| `gl_stream_stop` | `close_locked` says it wakes any waiter. `forceStop` closes the output ring without the lock of its users, and the writer can miss all wake-ups. |
| `android_timeout` | A call that times out should throw. `has_result` looks at a counter that is never reset, so only the first calls of a method do. |
| `session_exit` | A comment says why stopping must not wait for all. Starting still does, and a session stopped meanwhile joins the thread that waits. |
| `framing_qemud` | Only an incomplete command should wait. Two commands of equal length in one read leave the second waiting. |

Met while modelling, without a run of their own:

- `docs/input.md` says presses are suppressed without a valid viewport. With the
  pointer locked they are not (`platform/sdl/platform.cpp:595`).
- Coalescing replaces a pending motion, and with relative motion the replaced
  distance is lost (`input/dispatcher.cpp:91`).
- A connection of the container manager whose answer cannot be written is neither
  read nor removed, and later clients are refused (`network/socket_connection.cpp:74`;
  the handler state `wedged` of `Session`).
- An exception out of `process_data` leaves the bridge connection in place, unread,
  with complete messages in its buffer (`rpc/message_processor.cpp:77` and `:87`;
  `wedged` in `Framing` and `AndroidApi`).
- A guest that stops reading keeps a caller in `send` without a limit
  (`network/base_socket_messenger.cpp:85`).

## 7. Not modelled

- *Guest software, the binder kernel module, images, installer scripts*: other
  programs. They appear as the far ends of sockets and devices.
- *Command line, D-Bus adaptors, configuration, logging*: one-shot or forwarding
  code without state of its own.
- *What GL draws, container configuration and compatibility files*: calls to
  libraries and file contents.
- *Lifetimes*: a handler that runs after its object is gone is modelled only where a
  module says so (`stale` in `AndroidApi`). The hazards list names the others.
- *Blocked pool threads other than the start timer*: `qemu/adb_message_processor.cpp:68`
  can block the pool `Session` relies on.

## 8. Plan

In this order:

1. `LayerComposer` with the color buffers and frame ownership of `Renderer`: the
   one-slot queue as an abstract specification ("one pending plus one last frame",
   `docs/renderer.md`), the retained buffers as its implementation. Runs for
   balance of reference counts, redraw after resize, and destruction.
2. Deferred resources of `Renderer` (adoption, expiry, limit of 64) and handles.
3. `RenderedViewport` and the coordinate transform as functions checked against
   their inverse; then the viewport flag of `SdlInput` refined by the publication.
4. Window managers with the platform API of the bridge, composed with `AndroidApi`.
5. ADB and the qemu pipe connector with the pool of 8 threads.
6. Gfxstream, audio sink (a further user of `BufferQueue`), connectors.
7. Memory limits, swap file and the mounts of the container manager, with a failure
   after each step.
8. An abstract specification of the stream, two unbounded FIFOs, implemented by
   `GlStream`.

Proofs to come: `HeldAgrees`, `Paired` and `FailureForgets` of `SdlInput`;
`NothingCountedTwice` of `AndroidApi` (inductive with the relation of stages and
cache); `NoOrphan` of `Session`; the ring lemmas of `BufferQueue` and with them
`RepliesInOrder`; the reference counts of item 1.
