----------------------------- MODULE AppCapture -----------------------------
(***************************************************************************)
(* The two clients of the frame capture in the app's render loop           *)
(* (crates/app/src/update.rs, steps 6 and 7 of update_frame): the virtual  *)
(* camera, which wants a frame of a fixed size every 33 ms, and the mascot *)
(* overlay, which wants one of its window's size on every frame and keeps  *)
(* the alpha channel to decide whether the window takes the mouse.  The    *)
(* keys C and M (app.rs), the mascot window (mascot.rs) and the GPU act    *)
(* between the two steps' calls.                                           *)
(***************************************************************************)
EXTENDS FrameCapture

CONSTANTS VcamDim,      \* 1280x720, VCAM_W and VCAM_H
          MascotDim,    \* mascot_size, 512x512
          Scale,        \* the window's scale factor
          MascotWidth,  \* logical width of the mascot window
          WinWidths,    \* physical widths a user gives the normal window
          ScreenWidth   \* bound: the system keeps a window within the screen

\* What a client can tell of an image: its size, the clear colour it was
\* rendered over, and whether it is older than the last time vcam went off.
AppImages == [dim : Dims, clear : {0, 1}, past : BOOLEAN]

ASSUME AppCaptureAssumption ==
  /\ Images = AppImages
  /\ VcamDim \in Dims /\ MascotDim \in Dims /\ VcamDim # MascotDim
  /\ Scale \in Nat \ {0} /\ MascotWidth \in Nat
  /\ WinWidths \subseteq Nat /\ WinWidths # {} /\ ScreenWidth \in Nat

VARIABLES cap,          \* Scene's frame_capture_* fields
          pc,           \* "main", or "mascot" between steps 6 and 7
          vcamEnabled,  \* AppState.vcam_enabled
          vcam,         \* AppState.vcam: "none" until it is started
          sent,         \* what the last due vcam step handed to send_frame
          mascot,       \* MascotState.enabled
          clearAlpha,   \* Scene.clear_color.a: 0 in the overlay, else 1
          alpha,        \* AppState.mascot_alpha_map: the image it came from
          hitTest,      \* whether the window takes the mouse
          winWidth,     \* the window's physical inner width
          normalSize    \* MascotState.normal_size

vcamVars == <<vcamEnabled, vcam, sent>>
overlayVars == <<mascot, clearAlpha, winWidth, normalSize>>
vars == <<cap, pc, vcamVars, overlayVars, alpha, hitTest>>

\* render_to_capture.
ImageOf(d) == [dim |-> d, clear |-> clearAlpha, past |-> FALSE]

LeMin(x, y) == IF x <= y THEN x ELSE y

-----------------------------------------------------------------------------
(* Windows *)

\* MascotState::enter, and what the app does with it.
EnterMascot ==
  /\ mascot' = TRUE
  /\ clearAlpha' = 0
  /\ hitTest' = FALSE
  /\ normalSize' = winWidth
  /\ winWidth' = LeMin(Scale * MascotWidth, ScreenWidth)

\* MascotState::leave.
LeaveMascot ==
  /\ mascot' = FALSE
  /\ clearAlpha' = 1
  /\ hitTest' = TRUE
  /\ winWidth' = LeMin(Scale * normalSize, ScreenWidth)
  /\ UNCHANGED normalSize

\* A start: from the preferences, in mascot mode or not.
Init ==
  /\ cap = NoCapture
  /\ pc = "main"
  /\ vcamEnabled = TRUE
  /\ vcam = "none"
  /\ sent = NoImage
  /\ alpha = NoImage
  /\ mascot \in BOOLEAN
  /\ clearAlpha = IF mascot THEN 0 ELSE 1
  /\ hitTest = ~mascot
  /\ normalSize \in WinWidths
  /\ winWidth = IF mascot THEN LeMin(Scale * MascotWidth, ScreenWidth) ELSE normalSize

-----------------------------------------------------------------------------
(* update_frame, steps 6 and 7 *)

\* vcam_send_frame up to the readback: ensure, render, capture.
Shoot(c, d) == CaptureFrameAsync(EnsureFrameCapture(c, d), ImageOf(d))
Got(c, d) == Returned(EnsureFrameCapture(c, d))

\* vcam_send_frame: the first frame read back starts the camera; a camera that
\* cannot start switches the feature off.
VcamSendFrame ==
  /\ pc = "main" /\ pc' = "mascot"
  /\ vcamEnabled
  /\ cap' = Shoot(cap, VcamDim)
  /\ LET im == Got(cap, VcamDim)
     IN  \/ /\ im # NoImage => vcam = "started"
            /\ sent' = im
            /\ UNCHANGED <<vcamEnabled, vcam>>
         \/ /\ im # NoImage /\ vcam = "none"
            /\ vcam' = "started"
            /\ sent' = im
            /\ UNCHANGED vcamEnabled
         \/ /\ im # NoImage /\ vcam = "none"
            /\ vcamEnabled' = FALSE
            /\ sent' = NoImage
            /\ UNCHANGED vcam
  /\ UNCHANGED <<overlayVars, alpha, hitTest>>

\* Step 6 when the camera is off, or less than 33 ms have passed.
VcamNotDue ==
  /\ pc = "main" /\ pc' = "mascot"
  /\ UNCHANGED <<cap, vcamVars, overlayVars, alpha, hitTest>>

\* Step 7.
MascotCapture ==
  /\ pc = "mascot" /\ pc' = "main"
  /\ mascot
  /\ cap' = Shoot(cap, MascotDim)
  /\ alpha' = IF Got(cap, MascotDim) = NoImage THEN alpha ELSE Got(cap, MascotDim)
  /\ UNCHANGED <<vcamVars, overlayVars, hitTest>>

MascotOff ==
  /\ pc = "mascot" /\ pc' = "main"
  /\ ~mascot
  /\ alpha' = NoImage
  /\ UNCHANGED <<cap, vcamVars, overlayVars, hitTest>>

-----------------------------------------------------------------------------
(* The event loop runs these between two calls of update_frame. *)

\* KeyC.  Switching off leaves the capture alone: what is in flight stays.
KeyC ==
  /\ pc = "main"
  /\ vcamEnabled' = ~vcamEnabled
  /\ cap' = IF vcamEnabled
              THEN [cap EXCEPT !.img = [b \in Slot |->
                     IF @[b] = NoImage THEN NoImage ELSE [@[b] EXCEPT !.past = TRUE]]]
              ELSE cap
  /\ UNCHANGED <<pc, vcam, sent, overlayVars, alpha, hitTest>>

KeyM ==
  /\ pc = "main"
  /\ IF mascot THEN LeaveMascot ELSE EnterMascot
  /\ UNCHANGED <<cap, pc, vcamVars, alpha>>

\* CursorMoved in the overlay: the pixel under the cursor decides.
CursorMoved ==
  /\ pc = "main"
  /\ mascot /\ alpha # NoImage
  /\ \E onModel \in BOOLEAN : hitTest' = onModel
  /\ UNCHANGED <<cap, pc, vcamVars, overlayVars, alpha>>

\* The user drags the border of the decorated window.
UserResize ==
  /\ pc = "main"
  /\ ~mascot
  /\ winWidth' \in WinWidths
  /\ UNCHANGED <<cap, pc, vcamVars, mascot, clearAlpha, normalSize, alpha, hitTest>>

-----------------------------------------------------------------------------
(* The GPU, and the other queue.submit calls of the renderer. *)

GpuCompletes ==
  /\ cap' = GpuFinish(cap)
  /\ UNCHANGED <<pc, vcamVars, overlayVars, alpha, hitTest>>

RenderSubmits ==
  /\ cap' = Poll(cap)
  /\ UNCHANGED <<pc, vcamVars, overlayVars, alpha, hitTest>>

-----------------------------------------------------------------------------

Next ==
  \/ VcamSendFrame \/ VcamNotDue \/ MascotCapture \/ MascotOff
  \/ KeyC \/ KeyM \/ CursorMoved \/ UserResize
  \/ GpuCompletes \/ RenderSubmits

Spec == Init /\ [][Next]_vars

\* The event loop asks for the next redraw itself, a vcam frame is due again
\* and again, and the GPU finishes what it was given.
Fairness ==
  /\ WF_vars(VcamNotDue) /\ SF_vars(VcamSendFrame)
  /\ WF_vars(MascotCapture) /\ WF_vars(MascotOff)
  /\ WF_vars(GpuCompletes)

FairSpec == Spec /\ Fairness

-----------------------------------------------------------------------------

TypeOK ==
  /\ cap \in Capture
  /\ pc \in {"main", "mascot"}
  /\ vcamEnabled \in BOOLEAN
  /\ vcam \in {"none", "started"}
  /\ sent \in Images \cup {NoImage}
  /\ mascot \in BOOLEAN
  /\ clearAlpha \in {0, 1}
  /\ alpha \in Images \cup {NoImage}
  /\ hitTest \in BOOLEAN
  /\ winWidth \in Nat
  /\ normalSize \in Nat

\* get_mapped_range never meets a buffer that is not mapped: the shared flag
\* never speaks of a buffer of an earlier size, nor of the buffer copied last.
NoUnmappedRead == SafeToRead(cap)

\* No copy is ever issued into a buffer that is mapped or about to be.
NoBusyCopy == SafeToCopy(cap)

\* Each client reads back an image of the size it asked for, although both use
\* one capture (the alpha map is indexed up to w*h with no bounds check), and
\* the alpha map comes from a render over the transparent background: one over
\* the opaque one would make the whole window swallow the mouse.
ReadbackForCaller ==
  /\ sent # NoImage => sent.dim = VcamDim
  /\ alpha # NoImage => alpha.dim = MascotDim /\ alpha.clear = 0

\* Outside mascot mode the window takes the mouse, whatever the hit-testing
\* did while the overlay was on.
ClickableOutsideMascot == ~mascot => hitTest

\* A virtual camera that stays on, without the overlay, keeps sending frames.
VcamServed == <>[](vcamEnabled /\ ~mascot) => []<>(sent # NoImage)

-----------------------------------------------------------------------------
(* Statements of the sources that the code does not keep. *)

\* update.rs, vcam_send_frame: the readback "returns previous frame's data (one
\* frame latency)".  In mascot mode no frame ever comes back to the camera.
VcamServedInMascot == <>[](vcamEnabled /\ mascot) => []<>(sent # NoImage)

\* mascot.rs: leave restores the "original size", the size on entering.
LeaveRestoresSize == [][mascot /\ ~mascot' => winWidth' = normalSize]_vars

=============================================================================
