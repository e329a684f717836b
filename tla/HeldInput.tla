------------------------------ MODULE HeldInput -------------------------------
(***************************************************************************)
(* input::Keyboard and input::Pointer: which codes the host holds, which   *)
(* of them were successfully queued, and the batches each call submits.    *)
(*                                                                         *)
(* Both classes hold their own mutex across the call to Dispatcher::submit *)
(* and nothing else reads their sets, so each call is one step.  A         *)
(* duplicate down, an unmatched up and an ignored repeat change nothing    *)
(* and are stuttering steps.                                               *)
(***************************************************************************)
EXTENDS Dispatcher

CONSTANT ForwardRepeat   \* RepeatPolicy::ForwardLinuxRepeat

ASSUME RepeatAssumption == ForwardRepeat \in BOOLEAN

VARIABLES
  host_held,      \* host_held_ of the keyboard and of the pointer
  injected_held   \* injected_held_ of the keyboard and of the pointer

heldVars == <<host_held, injected_held>>

\* The keyboard and button transitions differ only in stream and kind.
Transition(s) == PlainBatch(s, IF s = "Keyboard" THEN "Key" ELSE "Button")

DownBatch(s, c, at) ==
  [[Transition(s) EXCEPT !.down = {c}] EXCEPT !.at = at]

UpBatch(s, c) == [Transition(s) EXCEPT !.up = {c}]

\* Mutant: the code counts as queued whatever submit returned.
HoldDownUnchecked(s, c, at) ==
  /\ c \notin host_held[s]
  /\ host_held' = [host_held EXCEPT ![s] = @ \cup {c}]
  /\ Submit(DownBatch(s, c, at))
  /\ injected_held' = [injected_held EXCEPT ![s] = @ \cup {c}]

\* Mutant: keyboard and pointer share one set of queued codes.
HoldDownShared(s, c, at) ==
  /\ c \notin host_held[s]
  /\ host_held' = [host_held EXCEPT ![s] = @ \cup {c}]
  /\ Submit(DownBatch(s, c, at))
  /\ injected_held' = [t \in Streams |-> injected_held[t] \cup {c}]

\* Keyboard::key and Pointer::button, pressed: at is the position the press
\* was mapped to, history for the properties.
HoldDown(s, c, at) ==
  /\ c \notin host_held[s]
  /\ host_held' = [host_held EXCEPT ![s] = @ \cup {c}]
  /\ Submit(DownBatch(s, c, at))
  /\ injected_held' = IF Accepts(DownBatch(s, c, at))
                      THEN [injected_held EXCEPT ![s] = @ \cup {c}]
                      ELSE injected_held

\* Mutant: the up of a code is not sent.
HoldUpUnsent(s, c) ==
  /\ c \in host_held[s]
  /\ host_held' = [host_held EXCEPT ![s] = @ \ {c}]
  /\ injected_held' = [injected_held EXCEPT ![s] = @ \ {c}]
  /\ UNCHANGED <<queue, motion_lost>>

\* Keyboard::key and Pointer::button, released: an up follows only a down
\* that was queued.
HoldUp(s, c) ==
  /\ c \in host_held[s]
  /\ host_held' = [host_held EXCEPT ![s] = @ \ {c}]
  /\ injected_held' = [injected_held EXCEPT ![s] = @ \ {c}]
  /\ \/ c \in injected_held[s] /\ Submit(UpBatch(s, c))
     \/ c \notin injected_held[s] /\ UNCHANGED <<queue, motion_lost>>

\* Keyboard::key with host_repeat
Repeat(c) ==
  /\ ForwardRepeat
  /\ c \in host_held["Keyboard"]
  /\ Submit([PlainBatch("Keyboard", "Repeat") EXCEPT !.repeat = {c}])
  /\ UNCHANGED heldVars

\* Pointer::absolute
Absolute(p) == Submit([PlainBatch("Pointer", "Motion") EXCEPT !.at = p])

\* Pointer::relative: the distance is not zero.
Relative == Submit(PlainBatch("Pointer", "Motion"))

\* Pointer::wheel
Wheel(at) == Submit([PlainBatch("Pointer", "Wheel") EXCEPT !.at = at])

\* Keyboard::release_all and Pointer::release_all: one batch for every code
\* that was queued; the set is cleared whether or not the batch is accepted.
ReleaseAll(s) ==
  /\ host_held' = [host_held EXCEPT ![s] = {}]
  /\ injected_held' = [injected_held EXCEPT ![s] = {}]
  /\ \/ /\ injected_held[s] # {}
        /\ Submit([PlainBatch(s, "ForcedRelease") EXCEPT
                     !.up = injected_held[s]])
     \/ injected_held[s] = {} /\ UNCHANGED <<queue, motion_lost>>

\* Mutant: only what the host holds is forgotten.
ResetHostHeld(s) ==
  /\ host_held' = [host_held EXCEPT ![s] = {}]
  /\ UNCHANGED injected_held

\* Keyboard::reset_after_transport_failure and Pointer's
ResetHeld(s) ==
  /\ host_held' = [host_held EXCEPT ![s] = {}]
  /\ injected_held' = [injected_held EXCEPT ![s] = {}]

HeldInit ==
  /\ host_held = [s \in Streams |-> {}]
  /\ injected_held = [s \in Streams |-> {}]
=============================================================================
