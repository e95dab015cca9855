---------------------------- MODULE FrameCapture ----------------------------
(***************************************************************************)
(* The double-buffered asynchronous readback of the renderer               *)
(* (crates/renderer/src/scene.rs): a capture texture, two staging buffers, *)
(* the index of the one to copy into next, a "pending" flag and the flag   *)
(* frame_capture_map_ready that the map_async callback sets.  The flag is  *)
(* shared by every buffer the capture ever owns.                           *)
(*                                                                         *)
(* The capture is a record and each method of Scene is an operator from    *)
(* records to records, so that a client can make several calls in a row.   *)
(***************************************************************************)
EXTENDS Integers

CONSTANTS Dims,     \* the capture sizes the clients ask for
          NoDim,    \* no capture texture yet
          Images,   \* what a rendered image can look like to the clients
          NoImage   \* capture_frame_async returned None

ASSUME FrameCaptureAssumption == NoDim \notin Dims /\ NoImage \notin Images

Slot == {0, 1}

\* A buffer's mapping, as wgpu sees it: "waiting" for the GPU, "resolved" by
\* the GPU but its callback not yet run, "mapped" once the callback has run.
MapState == {"idle", "waiting", "resolved", "mapped"}

Capture == [dim     : Dims \cup {NoDim},
            map     : [Slot -> MapState],
            img     : [Slot -> Images \cup {NoImage}],
            idx     : Slot,
            ready   : BOOLEAN,
            pending : BOOLEAN]

Other(b) == 1 - b

AllIdle == [b \in Slot |-> "idle"]

NoCapture == [dim     |-> NoDim,
              map     |-> AllIdle,
              img     |-> [b \in Slot |-> NoImage],
              idx     |-> 0,
              ready   |-> FALSE,
              pending |-> FALSE]

-----------------------------------------------------------------------------
(* wgpu, as scene.rs uses it. *)

InFlight(c, b) == c.map[b] \in {"waiting", "resolved"}

\* The GPU finishes the copies whose mapping was requested.
GpuFinish(c) ==
  [c EXCEPT !.map = [b \in Slot |-> IF @[b] = "waiting" THEN "resolved" ELSE @[b]]]

\* device.poll, and every queue.submit, runs the callbacks of what is resolved.
Poll(c) ==
  [c EXCEPT !.map   = [b \in Slot |-> IF @[b] = "resolved" THEN "mapped" ELSE @[b]],
            !.ready = @ \/ \E b \in Slot : c.map[b] = "resolved"]

\* Dropping a buffer with a mapping in flight aborts it, and the callback of an
\* aborted mapping runs too: it ignores its Result and sets the shared flag.
DropBuffers(c) ==
  [c EXCEPT !.map   = AllIdle,
            !.img   = [b \in Slot |-> NoImage],
            !.ready = @ \/ \E b \in Slot : InFlight(c, b)]

-----------------------------------------------------------------------------
(* The methods of Scene. *)

\* Seeded fault: the flag is reset first, the callbacks of the drop come after.
RecreateResetFirst(c, d) ==
  [DropBuffers([c EXCEPT !.ready = FALSE]) EXCEPT !.dim = d, !.idx = 0, !.pending = FALSE]

\* The buffers are replaced, and the old ones dropped, before the flag is reset.
Recreate(c, d) ==
  [DropBuffers(c) EXCEPT !.dim = d, !.idx = 0, !.ready = FALSE, !.pending = FALSE]

\* Seeded fault: an existing texture is kept whatever its size.
EnsureAnySize(c, d) == IF c.dim # NoDim THEN c ELSE Recreate(c, d)

EnsureFrameCapture(c, d) == IF c.dim = d THEN c ELSE Recreate(c, d)

\* Something can be read back: the test before get_mapped_range.
Readable(c) == c.pending /\ c.ready

ReadBack(c) ==
  IF Readable(c)
    THEN [c EXCEPT !.map[Other(c.idx)] = "idle", !.ready = FALSE]
    ELSE c

\* Seeded fault: a frame just read back does not free the way for the next.
CanCopyForgetsGot(c, got) == ~c.pending \/ c.ready

\* can_copy, evaluated after the readback; got says that it returned a frame.
CanCopy(c, got) == ~c.pending \/ c.ready \/ got

CopyAndMap(c, im) ==
  [c EXCEPT !.map[c.idx] = "waiting", !.img[c.idx] = im,
            !.idx = Other(@), !.pending = TRUE]

CaptureFrameAsync(c, im) ==
  LET polled == Poll(c)
      read   == ReadBack(polled)
  IN  IF CanCopy(read, Readable(polled)) THEN CopyAndMap(read, im) ELSE read

\* What capture_frame_async returns.
Returned(c) ==
  LET polled == Poll(c)
  IN  IF Readable(polled) THEN polled.img[Other(polled.idx)] ELSE NoImage

-----------------------------------------------------------------------------
(* What makes a readback safe, as predicates on the capture. *)

\* get_mapped_range panics on a buffer that is not mapped.
SafeToRead(c) == Readable(c) => c.map[Other(c.idx)] = "mapped"

\* wgpu refuses a copy into a buffer that is mapped or has a mapping in flight.
SafeToCopy(c) == c.map[c.idx] = "idle"

=============================================================================
