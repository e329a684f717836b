----------------------------- MODULE MCSdlInput -------------------------------
(***************************************************************************)
(* Small instances of SdlInput for TLC, and what the documentation says of *)
(* the input path that the code does not do.                               *)
(***************************************************************************)
EXTENDS SdlInput

\* docs/input.md, on a permanent failure: "the uinput device is destroyed,
\* causing Android InputReader to remove the device and release its state;
\* queued events and internal held state are then cleared". Once the handler
\* is done Android should hold nothing. The code destroys only the device
\* whose write failed and forgets what the other one holds.
FailureReleasesAndroid ==
  (transport_failed /\ worker = "waiting") =>
    \A s \in Streams : android_held[s] = {}

\* docs/input.md: "256 are reserved so every possible Linux keyboard key and
\* supported mouse button can be released after a stall". A reserve with a
\* slot for every code should be enough. With forwarded repeats it is not: a
\* press admitted by evicting a repeat leaves one slot less for the releases.
CodesFitReserve == ReleaseReserve >= AllCodes => ReleaseRoom
=============================================================================
