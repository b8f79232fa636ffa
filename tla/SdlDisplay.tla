------------------------------- MODULE SdlDisplay -------------------------------
(***************************************************************************)
(* The video display of sdl_video_display.c, of a build without EXT_MODE:  *)
(* one window that the first output opens, that the user may close at any  *)
(* time, and in which each output draws a frame.                           *)
(*                                                                         *)
(* The elements of a frame's planes are abstracted to their indices.  The  *)
(* memory of a surface is a function on addresses: of pixels for an RGB    *)
(* image; for an overlay, of groups of four bytes, which are two pixels    *)
(* with two luminances and one pair of chrominances.                       *)
(***************************************************************************)
EXTENDS Integers, FiniteSetsExt

CONSTANTS
  Signals,     \* the arguments of MW_SDL_videoDisplayInit
  Frames,      \* what can be drawn
  Padding,     \* groups of four bytes behind a line of an overlay
  MaxQuits,    \* bound: QUIT events that wait
  None

Formats == {"RGB", "YCbCr"}
Orders == {"planar", "interleaved"}

ASSUME DisplayAssumption ==
  /\ Signals \subseteq [format: Formats, order: Orders, rowMajor: BOOLEAN,
                        width: Nat \ {0}, height: Nat \ {0}]
  /\ Padding \in Nat /\ MaxQuits \in Nat
  /\ None \notin Frames

VARIABLES
  win,             \* windowInfo[0]: format, order, rowMajor, width, height
  enabled,
  isVideoModeSet,
  video,           \* SDL_WasInit(SDL_INIT_VIDEO)
  screen,          \* dispInfo.screen: "null", "valid", or "stale" once SDL has freed it
  image,           \* the RGB surface's memory, or None
  ovl,             \* the overlay's memory, or None
  quits,           \* QUIT events that wait to be polled
  displayPc,       \* where the call in progress is; "idle" between calls
  shown,           \* history: the memory that the screen shows, or None
  drawn,           \* history: the frame of it
  closed           \* history: the user has closed the window since the start

displayVars ==
  <<win, enabled, isVideoModeSet, video, screen, image, ovl, quits, displayPc, shown, drawn, closed>>

\* The static structure is zero when the program is loaded.
DisplayInit ==
  /\ win = None /\ enabled = FALSE /\ isVideoModeSet = FALSE
  /\ video = FALSE /\ screen = "null" /\ image = None /\ ovl = None
  /\ quits = 0 /\ displayPc = "off"
  /\ shown = None /\ drawn = None /\ closed = FALSE

-------------------------------------------------------------------------------
(***************************************************************************)
(* The window's memory and how a frame is copied to it.                    *)
(***************************************************************************)
\* MW_setWindowParams
WindowParams(s) ==
  LET rowMajor == s.order = "interleaved" \/ s.rowMajor
      across == IF rowMajor THEN s.width ELSE s.height
  IN [format   |-> s.format,
      order    |-> s.order,
      rowMajor |-> rowMajor,
      width    |-> CASE s.order = "planar" -> across
                     [] s.order = "interleaved" /\ s.format = "RGB" -> across \div 3
                     [] OTHER -> across \div 2,
      height   |-> IF rowMajor THEN s.height ELSE s.width]

\* Groups of four bytes from one line of an overlay to the next.
Pitch == win.width \div 2 + Padding

Blank == <<>>
BlankImage == [a \in 0 .. win.width * win.height - 1 |-> Blank]
BlankOverlay == [a \in 0 .. Pitch * win.height - 1 |-> Blank]

\* Where imgPtr is when column i of a column-major frame is copied: the loop sets
\* it to column i at the end of its pass i.
ColumnStart(i) == IF i = 0 THEN 0 ELSE i - 1

\* MW_drawRGB.  Each column overwrites what an earlier one has left in its place.
DrawnRGB(f) ==
  IF win.rowMajor THEN [a \in DOMAIN image |-> <<f, a>>]
  ELSE [a \in DOMAIN image |->
          LET columns == {i \in 0 .. win.width - 1 : ColumnStart(i) = a % win.width}
          IN IF columns = {} THEN image[a]
             ELSE <<f, Max(columns) * win.height + a \div win.width>>]

\* Mutant: yPtr is not moved over the second column of the pair.
ColumnGroupNarrow(row, pair) ==
  LET y == win.height * pair + row
  IN <<y, y, y + win.height, y>>

\* Of a row-major or interleaved frame: luminance, chrominance, luminance, chrominance.
RowGroup(row, pair) ==
  LET q == row * (win.width \div 2) + pair
  IN <<2 * q, q, 2 * q + 1, q>>

\* Of a column-major frame: yPtr moves over two columns for each one of uPtr and vPtr.
ColumnGroup(row, pair) ==
  LET y == 2 * win.height * pair + row
      c == win.height * pair + row
  IN <<y, c, y + win.height, c>>

\* MW_drawYUV.  What is behind a line stays as it is.
DrawnYUV(f) ==
  [a \in DOMAIN ovl |->
     LET row == a \div Pitch  pair == a % Pitch
     IN IF pair >= win.width \div 2 THEN ovl[a]
        ELSE <<f, IF win.rowMajor THEN RowGroup(row, pair) ELSE ColumnGroup(row, pair)>>]

-------------------------------------------------------------------------------
(***************************************************************************)
(* Closing.                                                                *)
(***************************************************************************)
\* MW_windowShutdown frees the surface of the window's format.
WindowShutdown ==
  /\ image' = IF video /\ win.format = "RGB" THEN None ELSE image
  /\ ovl' = IF video /\ win.format # "RGB" THEN None ELSE ovl

\* SDL frees the screen and clears its events; the pointer to the screen stays.
GlobalVideoShutdown ==
  /\ video' = FALSE
  /\ screen' = IF screen = "valid" THEN "stale" ELSE screen
  /\ quits' = 0 /\ shown' = None

\* Mutant: the display stays enabled.
CleanupKeepsEnabled == WindowShutdown /\ GlobalVideoShutdown /\ UNCHANGED enabled

\* MW_SDLCleanup
Cleanup == WindowShutdown /\ GlobalVideoShutdown /\ enabled' = FALSE

-------------------------------------------------------------------------------
(***************************************************************************)
(* The calls of the model: start, output, terminate.  The program does one *)
(* at a time.                                                              *)
(***************************************************************************)
\* MW_globalVideoInit starts the video system if it is not there.
VideoInit(works) == (video => works) /\ video' = works

\* MW_SDL_videoDisplayInit.  The window is opened later, by the thread that polls.
videoDisplayInit ==
  /\ displayPc = "off"
  /\ \E s \in Signals : win' = WindowParams(s)
  /\ image' = None /\ ovl' = None /\ isVideoModeSet' = FALSE
  /\ \E works \in BOOLEAN : VideoInit(works) /\ enabled' = works
  /\ displayPc' = "idle" /\ closed' = FALSE
  /\ UNCHANGED <<screen, quits, shown, drawn>>

videoDisplayOutput ==
  /\ displayPc = "idle"
  /\ isVideoModeSet' = TRUE
  /\ displayPc' = IF ~isVideoModeSet THEN "open" ELSE IF enabled THEN "draw" ELSE "idle"
  /\ UNCHANGED <<win, enabled, video, screen, image, ovl, quits, shown, drawn, closed>>

\* MW_screenInit and MW_windowInit.  SDL_SetVideoMode starts the video system if
\* it is not there.
OpenWindow ==
  /\ displayPc = "open"
  /\ video' = TRUE /\ screen' = "valid"
  /\ IF win.format = "RGB" THEN image' = BlankImage /\ UNCHANGED ovl
                           ELSE ovl' = BlankOverlay /\ UNCHANGED image
  /\ enabled' = TRUE
  /\ displayPc' = "firstPoll"
  /\ UNCHANGED <<win, isVideoModeSet, quits, shown, drawn, closed>>

\* There is no screen, or a screen but no surface.
OpenFails ==
  /\ displayPc = "open"
  /\ video' = FALSE /\ screen' \in {"null", "stale"}
  /\ enabled' = FALSE
  /\ displayPc' = "idle"
  /\ UNCHANGED <<win, isVideoModeSet, image, ovl, quits, shown, drawn, closed>>

Polling == displayPc \in {"firstPoll", "lastPoll"}

\* Mutant: the window is closed as at the end of a session.
PollQuitResetsMode ==
  /\ Polling /\ quits > 0
  /\ Cleanup
  /\ closed' = TRUE /\ isVideoModeSet' = FALSE
  /\ UNCHANGED <<win, displayPc, drawn>>

\* MW_pollSDLEvent
PollQuit ==
  /\ Polling /\ quits > 0
  /\ Cleanup
  /\ closed' = TRUE
  /\ UNCHANGED <<win, isVideoModeSet, displayPc, drawn>>

PollNothing ==
  /\ Polling /\ quits = 0
  /\ displayPc' = IF displayPc = "firstPoll" /\ enabled THEN "draw" ELSE "idle"
  /\ UNCHANGED <<win, enabled, isVideoModeSet, video, screen, image, ovl, quits, shown, drawn, closed>>

\* MW_drawFrame, with the frame that the call was given.
DrawFrame(f) ==
  \/ /\ win.format = "RGB" /\ image # None
     /\ image' = DrawnRGB(f) /\ shown' = image' /\ drawn' = f
     /\ UNCHANGED ovl
  \/ /\ win.format # "RGB" /\ ovl # None
     /\ ovl' = DrawnYUV(f) /\ shown' = ovl' /\ drawn' = f
     /\ UNCHANGED image
  \/ UNCHANGED <<image, ovl, shown, drawn>>               \* no surface, or its lock fails

\* Mutant: events are polled when the window is opened only.
OutputDrawsOnly ==
  /\ displayPc = "draw" /\ \E f \in Frames : DrawFrame(f)
  /\ displayPc' = "idle"
  /\ UNCHANGED <<win, enabled, isVideoModeSet, video, screen, quits, closed>>

OutputDraws ==
  /\ displayPc = "draw" /\ \E f \in Frames : DrawFrame(f)
  /\ displayPc' = "lastPoll"
  /\ UNCHANGED <<win, enabled, isVideoModeSet, video, screen, quits, closed>>

videoDisplayTerminate ==
  /\ displayPc = "idle"
  /\ isVideoModeSet' = FALSE
  /\ IF enabled THEN Cleanup
     ELSE UNCHANGED <<enabled, video, screen, image, ovl, quits, shown>>
  /\ displayPc' = "off"
  /\ UNCHANGED <<win, drawn, closed>>

\* The window manager asks to close the window; MW_eventFilter lets only this pass.
UserQuits ==
  /\ screen = "valid" /\ quits < MaxQuits
  /\ quits' = quits + 1
  /\ UNCHANGED <<win, enabled, isVideoModeSet, video, screen, image, ovl, displayPc, shown, drawn, closed>>

Display ==
  \/ videoDisplayInit
  \/ videoDisplayOutput \/ OpenWindow \/ OpenFails \/ PollQuit \/ PollNothing \/ OutputDraws
  \/ videoDisplayTerminate

DisplayNext == Display \/ UserQuits

DisplaySpec == DisplayInit /\ [][DisplayNext]_displayVars

\* The model goes on to call its display, until it has terminated.
DisplayFairSpec == DisplaySpec /\ WF_displayVars(Display)

-------------------------------------------------------------------------------
\* A call draws only while there is a screen of the running video system, and its
\* surface is there: whatever fails at the start, and whenever the user closes.
DrawsInWindow ==
  displayPc = "draw" => /\ video /\ screen = "valid"
                 /\ IF win.format = "RGB" THEN image # None ELSE ovl # None

\* A window that the user has closed does not come back before the next start:
\* "If window is closed, do not update".
ClosedStaysClosed == closed => shown = None /\ ~video

\* The elements of a frame that belong in row y and column x, as a matrix that is
\* stored by rows or by columns; chrominances have half the columns.
Element(x, y) == IF win.rowMajor THEN y * win.width + x ELSE x * win.height + y
Chroma(x, y) == IF win.rowMajor THEN y * (win.width \div 2) + x \div 2
                ELSE (x \div 2) * win.height + y

\* A planar RGB frame by columns, of more than one: MW_drawRGB goes back to the column
\* that it has just drawn.
Shifts == win.format = "RGB" /\ ~win.rowMajor /\ win.width > 1

\* What the screen shows is the frame that was drawn last, with lines of any pitch and
\* each pixel at its place, but for a planar RGB frame by columns: there every column is
\* one place to the left, the first is lost, and nothing is drawn in the last place.
ShowsTheFrame ==
  shown # None =>
    \A x \in 0 .. win.width - 1, y \in 0 .. win.height - 1 :
      IF Shifts THEN shown[y * win.width + x] =
                       IF x = win.width - 1 THEN Blank ELSE <<drawn, Element(x + 1, y)>>
      ELSE IF win.format = "RGB" THEN shown[y * win.width + x] = <<drawn, Element(x, y)>>
      ELSE LET group == shown[y * Pitch + x \div 2]
           IN /\ group[1] = drawn
              /\ group[2][1 + 2 * (x % 2)] = Element(x, y)
              /\ group[2][2] = Chroma(x, y) /\ group[2][4] = Chroma(x, y)

\* The user's wish to close the window is followed.
CloseIsFollowed == quits > 0 ~> ~video
===============================================================================
