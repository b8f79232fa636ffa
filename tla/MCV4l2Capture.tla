----------------------------- MODULE MCV4l2Capture -----------------------------
EXTENDS V4l2Capture, VideoConversion

\* One camera takes three frames, the other two.
MCMaxFrames ==
  LET first == CHOOSE d \in Devices : TRUE
  IN [d \in Devices |-> IF d = first THEN 3 ELSE 2]

\* A dark and a bright pixel with any chrominances; then greys, at the ends of the
\* range.
MCScenes ==
  {<< <<16, cb, 235, cr>> >> : cb \in 0 .. 255, cr \in 0 .. 255} \cup
  {<< <<0, 128, 255, 128>>, <<128, 128, 1, 128>> >>}

\* When a frame was copied, its step makes the negative of it: readV4L2Frame and
\* ImageInversion_output on every scene, for every parameter.  The conversion has no
\* state; NegativeOfScene is what is checked, and StepInverts proves it.
NegativeOfFrame == pc = "requeue" /\ acquired => NegativeOfScene
================================================================================
