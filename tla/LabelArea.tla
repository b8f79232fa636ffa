------------------------------- MODULE LabelArea -------------------------------
(***************************************************************************)
(* label_area.m: the labelling of the connected components of a binary     *)
(* image, and isolateArea of analyze_area.m, which keeps the components of *)
(* a certain size.  label_area_yuu.m, label_area_chip.m and labeling4.m    *)
(* repeat the algorithm line by line.                                      *)
(*                                                                         *)
(* x and Y of the code are one variable.  Loops over the pixels that       *)
(* depend on what they change are walked pixel by pixel; the others are    *)
(* one step.                                                               *)
(***************************************************************************)
EXTENDS Integers, FiniteSets, Sequences

CONSTANTS
  M, N,       \* size(x): the rows and columns
  Limits      \* the pairs <<lower, upper>> of the calls of isolateArea, in their order

ASSUME LabelAreaAssumption ==
  /\ M \in Nat /\ M > 2 /\ N \in Nat /\ N > 2

ASSUME LimitsAssumption == Limits \in Seq(Nat \X Nat) /\ Limits # <<>>

Pixels == (1 .. M) \X (1 .. N)
Interior == (2 .. M - 1) \X (2 .. N - 1)

\* Mutant: only the pixels beside, above and below.
Cross(p) == {p, <<p[1] - 1, p[2]>>, <<p[1] + 1, p[2]>>, <<p[1], p[2] - 1>>, <<p[1], p[2] + 1>>}

\* x(m-1:m+1,n-1:n+1)
Window(p) == (p[1] - 1 .. p[1] + 1) \X (p[2] - 1 .. p[2] + 1)

Left(p) == <<p[1], p[2] - 1>>

FirstLabel == 20

\* 0/0.  It differs from every value, itself included; max does not return it if
\* there is a number, and all numbers here are larger than this one.
NaN == -1

VARIABLES
  image,      \* the pixels inside the border that are not 0
  Y,          \* x, then Y: the value of each pixel
  label,      \* the next new label
  at,         \* the pixel <<m, n>> that the loops have come to
  loop, lab1, lab2,
  new_lab,    \* the labels that are still to be numbered
  k,          \* the next number
  Yout,       \* the pixels that the last call of isolateArea kept
  calls,      \* how many calls of it there were
  pc

vars == <<image, Y, label, at, loop, lab1, lab2, new_lab, k, Yout, calls, pc>>

\* A page of one value, black or white: it is divided by the difference of its values.
Blank == [p \in Pixels |-> IF p \in Interior THEN NaN ELSE 0]

\* The image is scaled to 0 and 1 and its border is cleared.
Init ==
  /\ image \in SUBSET Interior
  /\ \/ Y = [p \in Pixels |-> IF p \in image THEN 1 ELSE 0]
     \/ image = Interior /\ Y = Blank
  /\ label = FirstLabel /\ at = <<2, 2>>
  /\ loop = TRUE /\ lab1 = 0 /\ lab2 = 0
  /\ new_lab = {} /\ k = 1 /\ Yout = {} /\ calls = 0
  /\ pc = "step1"

\* The pixels around p with the value maxW = max(W(:)), one of them.
Largest(p) == {q \in Window(p) : \A r \in Window(p) : Y[r] <= Y[q]}

After(p) == IF p[2] < N - 1 THEN <<p[1], p[2] + 1>> ELSE <<p[1] + 1, 2>>

-------------------------------------------------------------------------------
(***************************************************************************)
(* Step 1 labels each pixel from its neighbours.                           *)
(***************************************************************************)
Step1(value, next) ==
  /\ pc = "step1" /\ at \in Interior
  /\ Y' = [Y EXCEPT ![at] = value]
  /\ label' = next
  /\ at' = After(at)
  /\ UNCHANGED <<image, loop, lab1, lab2, new_lab, k, Yout, calls, pc>>

Background == Y[at] # 1 /\ Step1(Y[at], label)

Starts == Y[Left(at)] = 0 /\ \A q \in Window(at) : Y[q] <= 1

NewLabel == Y[at] = 1 /\ Starts /\ Step1(label, label + 1)

TakeLabel == Y[at] = 1 /\ ~Starts /\ \E q \in Largest(at) : Step1(Y[q], label)

EndStep1 ==
  /\ pc = "step1" /\ at \notin Interior
  /\ at' = <<2, 2>> /\ pc' = "scan"
  /\ UNCHANGED <<image, Y, label, loop, lab1, lab2, new_lab, k, Yout, calls>>

-------------------------------------------------------------------------------
(***************************************************************************)
(* Step 2 looks for a pixel with a larger label next to it and replaces    *)
(* the larger label, until it finds none.                                  *)
(***************************************************************************)
Scanning == pc = "scan"

\* The end of a row is left only with the flag reset: it is reset by a
\* background pixel.
Scanned(flag) ==
  /\ loop' = flag
  /\ IF at[2] = N - 1 /\ (flag \/ at[1] = M - 1)
     THEN pc' = "merge" /\ at' = <<2, 2>>
     ELSE pc' = pc /\ at' = After(at)
  /\ UNCHANGED <<image, Y, label, lab1, lab2, new_lab, k, Yout, calls>>

\* Mutant: the flag is reset by a pixel without a conflict as well.
ResetAlways == FALSE

AgreeFlag == loop

ScanBackground == Scanning /\ Y[at] = 0 /\ Scanned(FALSE)

Agrees == at \in Largest(at) /\ Y[at] # NaN

ScanAgrees == Scanning /\ Y[at] # 0 /\ Agrees /\ Scanned(AgreeFlag)

ScanConflict ==
  /\ Scanning /\ Y[at] # 0 /\ ~Agrees
  /\ \E q \in Largest(at) : lab1' = Y[at] /\ lab2' = Y[q]
  /\ loop' = TRUE /\ pc' = "merge" /\ at' = <<2, 2>>
  /\ UNCHANGED <<image, Y, label, new_lab, k, Yout, calls>>

\* Mutants: the smaller label is replaced; both keep their own.
MergedUp == [p \in Pixels |-> IF p \in Interior /\ Y[p] = lab1 THEN lab2 ELSE Y[p]]
MergedNot == Y

\* (lab2 is a number: there are some on the border, next to the first pixel.)
Merged == [p \in Pixels |-> IF p \in Interior /\ Y[p] = lab2 THEN lab1 ELSE Y[p]]

Merge ==
  /\ pc = "merge"
  /\ Y' = Merged
  /\ pc' = IF loop THEN "scan" ELSE "collect"
  /\ UNCHANGED <<image, label, at, loop, lab1, lab2, new_lab, k, Yout, calls>>

-------------------------------------------------------------------------------
(***************************************************************************)
(* Step 3 numbers the labels that are left.                                *)
(***************************************************************************)
Collect ==
  /\ pc = "collect"
  /\ new_lab' = {Y[p] : p \in Interior} \ {0}
  /\ pc' = "number"
  /\ UNCHANGED <<image, Y, label, at, loop, lab1, lab2, k, Yout, calls>>

\* The labels are numbered in ascending order.
LeastLabel(l) == l \in new_lab /\ \A j \in new_lab : l <= j

Number ==
  /\ pc = "number"
  /\ \E l \in new_lab :
       /\ LeastLabel(l)
       /\ Y' = [p \in Pixels |-> IF Y[p] = l THEN k ELSE Y[p]]
       /\ new_lab' = new_lab \ {l}
  /\ k' = k + 1
  /\ UNCHANGED <<image, label, at, loop, lab1, lab2, Yout, calls, pc>>

Return ==
  /\ pc = "number" /\ new_lab = {}
  /\ pc' = "labelled"
  /\ UNCHANGED <<image, Y, label, at, loop, lab1, lab2, new_lab, k, Yout, calls>>

\* isolateArea, for each label up to the largest.
Area(l) == Cardinality({p \in Pixels : Y[p] = l})

Within(area, limits) == area >= limits[1] /\ area < limits[2]

Kept(limits) == {p \in Pixels : Y[p] # 0 /\ Within(Area(Y[p]), limits)}

\* Mutant: Yout is not cleared between the calls.
IsolateAreaAdds ==
  /\ pc = "labelled" /\ calls < Len(Limits)
  /\ calls' = calls + 1
  /\ Yout' = Yout \cup Kept(Limits[calls'])
  /\ pc' = IF calls' = Len(Limits) THEN "done" ELSE pc
  /\ UNCHANGED <<image, Y, label, at, loop, lab1, lab2, new_lab, k>>

\* A call with the next pair of limits; Yout is cleared before it.
IsolateArea ==
  /\ pc = "labelled" /\ calls < Len(Limits)
  /\ calls' = calls + 1
  /\ Yout' = Kept(Limits[calls'])
  /\ pc' = IF calls' = Len(Limits) THEN "done" ELSE pc
  /\ UNCHANGED <<image, Y, label, at, loop, lab1, lab2, new_lab, k>>

Next ==
  \/ Background \/ NewLabel \/ TakeLabel \/ EndStep1
  \/ ScanBackground \/ ScanAgrees \/ ScanConflict \/ Merge
  \/ Collect \/ Number \/ Return \/ IsolateArea

Spec == Init /\ [][Next]_vars

\* A script runs until it ends.
FairSpec == Spec /\ WF_vars(Next)

-------------------------------------------------------------------------------
TypeOK ==
  /\ image \subseteq Interior
  /\ Y \in [Pixels -> Nat \cup {NaN}] /\ label \in Nat
  /\ at \in (2 .. M) \X (2 .. N - 1)
  /\ loop \in BOOLEAN /\ lab1 \in Nat \cup {NaN} /\ lab2 \in Nat
  /\ new_lab \subseteq Nat /\ k \in Nat
  /\ Yout \subseteq Pixels /\ calls \in Nat
  /\ pc \in {"step1", "scan", "merge", "collect", "number", "labelled", "done"}

\* Pixels that touch at a side or at a corner belong together.
Touch(p, q) == p[1] - q[1] \in -1 .. 1 /\ p[2] - q[2] \in -1 .. 1

\* A set of foreground pixels that no other one touches.
Closed(C) == \A p \in C, q \in image : Touch(p, q) => q \in C

Component(p) ==
  LET reach[i \in 0 .. Cardinality(image)] ==
        IF i = 0 THEN {p}
        ELSE LET near == reach[i - 1] IN {q \in image : \E r \in near : Touch(q, r)}
  IN reach[Cardinality(image)]

Labelled == pc \in {"labelled", "done"}

\* The labels tell exactly the components apart, and the background is 0:
\* whatever order the conflicts are found in, the pixels of one label are a
\* closed set, and no smaller set around one of them is closed.
ComponentsLabelled ==
  Labelled =>
    /\ \A p \in Pixels : Y[p] = 0 <=> p \notin image
    /\ \A p, q \in image : Touch(p, q) => Y[p] = Y[q]
    /\ \A C \in SUBSET image : Closed(C) =>
         \A p \in C, q \in image : Y[p] = Y[q] => q \in C

Before(p, q) == p[1] < q[1] \/ (p[1] = q[1] /\ p[2] < q[2])

\* The numbers run from 1 without a gap, in the order in which the rows meet the
\* components: renumbering in place never hits a label that is still to be
\* renumbered.
NumberedInOrder ==
  Labelled =>
    LET firsts == {p \in image : \A q \in Component(p) : p = q \/ Before(p, q)}
    IN \A p \in firsts : Y[p] = Cardinality({q \in firsts : p = q \/ Before(q, p)})

\* Each call of isolateArea keeps whole components: those whose size is at least the lower
\* and below the upper limit of that call, whatever the calls before it kept.  (By the
\* titles of the pictures, 'greater than 201' and so on, the lower limit would not do.)
AreasIsolated ==
  calls > 0 =>
    LET limits == Limits[calls]
    IN Yout = {p \in image : Cardinality(Component(p)) \in limits[1] .. limits[2] - 1}

\* The first row inside the border has a background pixel.
OpenTopRow == \E n \in 2 .. N - 1 : <<2, n>> \notin image

\* The labelling of an image with an open first row ends.
Ends == OpenTopRow ~> pc = "done"

\* That of an image whose first row is full never does: nothing resets the flag
\* before the end of the row, where a flag that is set leaves the scan.  Nor does
\* that of a page of one value, whose first pixel is in conflict for ever.
FullTopRowNeverEnds == ~OpenTopRow => ~Labelled
===============================================================================
