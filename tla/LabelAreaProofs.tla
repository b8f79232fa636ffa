--------------------------- MODULE LabelAreaProofs ---------------------------
(***************************************************************************)
(* Proofs about LabelArea, for images of every size: when the labelling    *)
(* returns, the labels tell exactly the connected components apart and     *)
(* number them in the order of their first pixels; and isolateArea keeps   *)
(* whole components, by their size.                                        *)
(***************************************************************************)
EXTENDS LabelArea, FiniteSetTheorems, FunctionTheorems, WellFoundedInduction, TLAPS

-------------------------------------------------------------------------------
(***************************************************************************)
(* Pixels, windows and the order in which the loops visit the pixels.      *)
(***************************************************************************)

\* The window of an inner pixel is in the image; its pixels touch it.
LEMMA WindowInside ==
  ASSUME NEW p \in Interior, NEW q \in Window(p)
  PROVE  p \in Pixels /\ q \in Pixels /\ Touch(p, q) /\ Touch(q, p)
BY LabelAreaAssumption DEF Interior, Pixels, Window, Touch

\* Every pixel that touches an inner pixel is in its window.
LEMMA TouchWindow ==
  ASSUME NEW p \in Interior, NEW q \in Pixels, Touch(p, q) \/ Touch(q, p)
  PROVE  q \in Window(p)
BY LabelAreaAssumption DEF Interior, Pixels, Window, Touch

\* The pixel on the left is in the window.
LEMMA LeftInside ==
  ASSUME NEW p \in Interior
  PROVE  Left(p) \in Window(p) /\ p \in Window(p)
BY LabelAreaAssumption DEF Interior, Window, Left

\* The left neighbour, unless it is on the border, was visited before.
LEMMA LeftBefore ==
  ASSUME NEW p \in Interior, Left(p) \in Interior
  PROVE  Before(Left(p), p)
BY LabelAreaAssumption DEF Interior, Left, Before

\* The next pixel is one of the loops' pixels.
LEMMA AfterInside ==
  ASSUME NEW a \in Interior
  PROVE  /\ After(a) \in (2 .. M) \X (2 .. N - 1)
         /\ ~(a[2] = N - 1 /\ a[1] = M - 1) => After(a) \in Interior
BY LabelAreaAssumption DEF Interior, After

\* One step visits one pixel.
LEMMA AfterBefore ==
  ASSUME NEW a \in Interior, NEW p \in Interior, Before(p, After(a))
  PROVE  p = a \/ Before(p, a)
BY LabelAreaAssumption DEF Interior, After, Before

\* At the end of the loops every pixel has been visited.
LEMMA AllBefore ==
  ASSUME NEW a \in (2 .. M) \X (2 .. N - 1), NEW p \in Interior
  PROVE  /\ a \notin Interior => Before(p, a)
         /\ a[2] = N - 1 /\ a[1] = M - 1 => p = a \/ Before(p, a)
BY LabelAreaAssumption DEF Interior, Before

\* No pixel comes before the first one.
LEMMA NoneBefore ==
  ASSUME NEW p \in Interior
  PROVE  ~Before(p, <<2, 2>>)
BY LabelAreaAssumption DEF Interior, Before

LEMMA FirstInside ==
  <<2, 2>> \in Interior /\ <<2, 2>> \in (2 .. M) \X (2 .. N - 1) /\ Interior \subseteq Pixels
BY LabelAreaAssumption DEF Interior, Pixels
-------------------------------------------------------------------------------
(***************************************************************************)
(* The inductive invariant.                                                *)
(***************************************************************************)
Types ==
  /\ TypeOK
  /\ Y \in [Pixels -> Nat] /\ lab1 \in Nat
  /\ pc = "scan" => at \in Interior
  /\ pc = "merge" => at = <<2, 2>>

\* Labels never appear on the background, nor does a pixel lose its label.
Foreground == \A p \in Pixels : Y[p] = 0 <=> p \notin image

\* Step 1: the pixels visited have labels, which lie below the next one.
Step1Inv ==
  pc = "step1" =>
    /\ label >= 20 /\ lab1 = 0 /\ lab2 = 0
    /\ \A p \in Pixels : Y[p] = 0 \/ Y[p] = 1 \/ (Y[p] >= 20 /\ Y[p] < label)
    /\ \A p \in Interior : Before(p, at) => Y[p] # 1

\* Until they are numbered the labels are large.
LargeLabels ==
  pc \in {"scan", "merge", "collect"} => \A p \in Pixels : Y[p] = 0 \/ Y[p] >= 20

\* No label is found on both sides of the edge of a closed set.
Apart ==
  \A C \in SUBSET image : Closed(C) =>
    \A p \in C, q \in image : Y[p] = Y[q] /\ ~(pc = "step1" /\ Y[p] = 1) => q \in C

\* Labels are merged only if they touch; a label that was merged is gone.
MergeInv ==
  pc \in {"scan", "merge"} =>
    \/ lab1 = 0 /\ lab2 = 0
    \/ /\ lab1 >= 20 /\ lab2 >= 20 /\ lab1 # lab2
       /\ \/ \A p \in Pixels : Y[p] # lab2
          \/ /\ pc = "merge" /\ loop
             /\ \E p, q \in image : Touch(p, q) /\ Y[p] = lab1 /\ Y[q] = lab2

\* The pixels that a scan has passed have the largest label around them.
ScanInv ==
  /\ pc = "scan" =>
       \A p \in image : Before(p, at) => \A q \in Window(p) : Y[q] <= Y[p]
  /\ pc = "merge" /\ ~loop =>
       \A p \in image : \A q \in Window(p) : Y[q] <= Y[p]

\* After the merging, pixels that touch have the same label.
Agree ==
  pc \in {"collect", "number", "labelled", "done"} =>
    \A p, q \in image : Touch(p, q) => Y[p] = Y[q]

\* The numbers given stay below the labels that wait for theirs.
NumberInv ==
  /\ pc \in {"step1", "scan", "merge", "collect"} => k = 1
  /\ pc = "number" =>
       /\ k >= 1
       /\ \A l \in new_lab : l >= k + 19
       /\ \A p \in image : Y[p] \in new_lab \/ Y[p] < k

IInv ==
  /\ Types /\ Foreground /\ Step1Inv /\ LargeLabels /\ Apart
  /\ MergeInv /\ ScanInv /\ Agree /\ NumberInv

\* A page of one value stays as it is: its first pixel is in conflict in each scan.
BlankInv ==
  /\ TypeOK
  /\ image = Interior /\ Y = Blank /\ calls = 0
  /\ pc \in {"step1", "scan", "merge"} /\ loop
  /\ pc # "step1" => at = <<2, 2>>
  /\ pc = "merge" => lab2 = 0

\* A pixel of the image lies inside the border.
LEMMA ImageInside ==
  ASSUME TypeOK
  PROVE  image \subseteq Interior /\ image \subseteq Pixels
BY FirstInside DEF TypeOK

\* The initial states satisfy the invariant.
LEMMA InitInv == ASSUME Init, Y = [p \in Pixels |-> IF p \in image THEN 1 ELSE 0] PROVE IInv
<1>1. Types
  BY FirstInside DEF Init, Types, TypeOK, FirstLabel
<1>2. Foreground /\ \A p \in image : Y[p] = 1
  BY FirstInside DEF Init, Foreground
<1>3. Step1Inv
  BY NoneBefore, FirstInside DEF Init, Step1Inv, FirstLabel
<1>4. Apart
  BY <1>2 DEF Init, Apart
<1> QED
  BY <1>1, <1>2, <1>3, <1>4 DEF Init, IInv, LargeLabels, MergeInv, ScanInv, Agree, NumberInv

-------------------------------------------------------------------------------
(***************************************************************************)
(* Step 1.                                                                 *)
(***************************************************************************)

\* What every pixel of step 1 does to the parts of the invariant that do not
\* depend on its value.
LEMMA Step1Frame ==
  ASSUME IInv, NEW v \in Nat, NEW next \in Nat, Step1(v, next),
         v = 0 <=> Y[at] = 0
  PROVE  /\ Types' /\ Foreground'
         /\ at \in Interior /\ at \in Pixels /\ pc = "step1" /\ pc' = "step1"
         /\ image' = image
         /\ \A p \in Pixels : Y'[p] = IF p = at THEN v ELSE Y[p]
         /\ LargeLabels' /\ MergeInv' /\ ScanInv' /\ Agree' /\ NumberInv'
<1>0. /\ at \in Interior /\ at \in Pixels /\ pc = "step1" /\ pc' = "step1"
      /\ image' = image /\ Y \in [Pixels -> Nat] /\ Y' = [Y EXCEPT ![at] = v]
      /\ label' = next /\ at' = After(at) /\ k' = k
  BY FirstInside DEF Step1, IInv, Types, TypeOK
<1>1. \A p \in Pixels : Y'[p] = IF p = at THEN v ELSE Y[p]
  BY <1>0
<1>2. Types'
  <2>1. at' \in (2 .. M) \X (2 .. N - 1)
    BY <1>0, AfterInside
  <2>2. Y' \in [Pixels -> Nat]
    BY <1>0
  <2> QED
    BY <1>0, <2>1, <2>2 DEF Step1, IInv, Types, TypeOK
<1>3. Foreground'
  BY <1>0, <1>1 DEF IInv, Foreground
<1> QED
  BY <1>0, <1>1, <1>2, <1>3 DEF IInv, LargeLabels, MergeInv, ScanInv, Agree, NumberInv

LEMMA BackgroundInv == ASSUME IInv, Background PROVE IInv'
<1>1. Y[at] \in Nat /\ label \in Nat /\ at \in Interior /\ at \in Pixels
  BY FirstInside DEF Background, Step1, IInv, Types, TypeOK
<1>2. Step1(Y[at], label) /\ Y[at] # 1
  BY DEF Background
<1>3. /\ Types' /\ Foreground' /\ pc = "step1" /\ pc' = "step1" /\ image' = image
      /\ \A p \in Pixels : Y'[p] = Y[p]
      /\ LargeLabels' /\ MergeInv' /\ ScanInv' /\ Agree' /\ NumberInv'
  BY <1>1, <1>2, Step1Frame
<1>4. Step1Inv'
  <2>1. label' = label /\ lab1' = lab1 /\ lab2' = lab2 /\ at' = After(at)
    BY <1>2 DEF Step1
  <2>2. \A p \in Interior : Before(p, at') => Y'[p] # 1
    BY <1>1, <1>2, <1>3, <2>1, AfterBefore, FirstInside DEF IInv, Step1Inv
  <2> QED
    BY <1>3, <2>1, <2>2 DEF IInv, Step1Inv
<1>5. Apart'
  BY <1>3, ImageInside DEF IInv, Types, Apart, Closed
<1> QED
  BY <1>3, <1>4, <1>5 DEF IInv

LEMMA NewLabelInv == ASSUME IInv, NewLabel PROVE IInv'
<1>1. label \in Nat /\ label >= 20 /\ at \in Interior /\ at \in Pixels /\ pc = "step1"
  BY FirstInside DEF NewLabel, Step1, IInv, Types, TypeOK, Step1Inv
<1>2. Step1(label, label + 1) /\ Y[at] = 1
  BY DEF NewLabel
<1>3. /\ Types' /\ Foreground' /\ pc' = "step1" /\ image' = image
      /\ \A p \in Pixels : Y'[p] = IF p = at THEN label ELSE Y[p]
      /\ LargeLabels' /\ MergeInv' /\ ScanInv' /\ Agree' /\ NumberInv'
  BY <1>1, <1>2, Step1Frame
<1>4. Step1Inv'
  <2>1. label' = label + 1 /\ lab1' = lab1 /\ lab2' = lab2 /\ at' = After(at)
    BY <1>2 DEF Step1
  <2>2. \A p \in Interior : Before(p, at') => Y'[p] # 1
    BY <1>1, <1>3, <2>1, AfterBefore, FirstInside DEF IInv, Step1Inv
  <2>3. \A p \in Pixels : Y'[p] = 0 \/ Y'[p] = 1 \/ (Y'[p] >= 20 /\ Y'[p] < label')
    BY <1>1, <1>3, <2>1 DEF IInv, Step1Inv, Types, TypeOK
  <2> QED
    BY <1>1, <2>1, <2>2, <2>3 DEF IInv, Step1Inv
<1>5. \A p \in Pixels : Y[p] # label
  BY <1>1 DEF IInv, Step1Inv
<1>6. Apart'
  BY <1>1, <1>3, <1>5, ImageInside DEF IInv, Types, Apart, Closed
<1> QED
  BY <1>3, <1>4, <1>6 DEF IInv

LEMMA TakeLabelInv == ASSUME IInv, TakeLabel PROVE IInv'
<1>1. /\ label \in Nat /\ at \in Interior /\ at \in Pixels /\ pc = "step1"
      /\ Y \in [Pixels -> Nat] /\ Y[at] = 1 /\ ~Starts
  BY FirstInside DEF TakeLabel, Step1, IInv, Types, TypeOK
<1>2. PICK q \in Largest(at) : Step1(Y[q], label)
  BY DEF TakeLabel
<1>3. q \in Window(at) /\ \A r \in Window(at) : Y[r] <= Y[q]
  BY <1>2 DEF Largest
<1>4. q \in Pixels /\ Touch(at, q) /\ Touch(q, at)
  BY <1>1, <1>3, WindowInside
<1>5. Y[q] > 1
  <2>0. Left(at) \in Pixels /\ Left(at) \in Window(at) /\ at \in Window(at)
    BY <1>1, LeftInside, WindowInside
  <2>1. CASE \E r \in Window(at) : ~(Y[r] <= 1)
    BY <1>1, <1>3, <1>4, <2>1, WindowInside
  <2>2. CASE Y[Left(at)] # 0
    <3>1. Left(at) \in Interior
      BY <2>0, <2>2, ImageInside DEF IInv, Foreground, Types
    <3>2. Y[Left(at)] # 1
      BY <1>1, <3>1, LeftBefore DEF IInv, Step1Inv
    <3> QED
      BY <1>1, <1>3, <1>4, <2>0, <2>2, <3>2
  <2> QED
    BY <1>1, <2>1, <2>2 DEF Starts
<1>6. q \in image
  BY <1>4, <1>5 DEF IInv, Foreground
<1>7. /\ Types' /\ Foreground' /\ pc' = "step1" /\ image' = image
      /\ \A p \in Pixels : Y'[p] = IF p = at THEN Y[q] ELSE Y[p]
      /\ LargeLabels' /\ MergeInv' /\ ScanInv' /\ Agree' /\ NumberInv'
  <2>1. Y[q] \in Nat /\ (Y[q] = 0 <=> Y[at] = 0)
    BY <1>1, <1>4, <1>5
  <2> QED
    BY <1>1, <1>2, <2>1, Step1Frame
<1>8. Step1Inv'
  <2>1. label' = label /\ lab1' = lab1 /\ lab2' = lab2 /\ at' = After(at)
    BY <1>2 DEF Step1
  <2>2. \A p \in Interior : Before(p, at') => Y'[p] # 1
    BY <1>1, <1>5, <1>7, <2>1, AfterBefore, FirstInside DEF IInv, Step1Inv
  <2> QED
    BY <1>1, <1>4, <1>7, <2>1, <2>2 DEF IInv, Step1Inv
<1>9. Apart'
  <2> SUFFICES ASSUME NEW C \in SUBSET image, Closed(C), NEW p \in C, NEW r \in image,
                      Y'[p] = Y'[r], Y'[p] # 1
               PROVE  r \in C
    BY <1>7 DEF Apart, Closed
  <2>0. /\ p \in Pixels /\ r \in Pixels /\ Y[q] # 1
        /\ \A a \in C, b \in image : Y[a] = Y[b] /\ Y[a] # 1 => b \in C
    BY <1>5, ImageInside DEF IInv, Types, Apart
  <2>1. CASE p = at /\ r # at
    <3>1. q \in C
      BY <1>4, <1>6, <2>1 DEF Closed
    <3> QED
      BY <1>7, <2>0, <2>1, <3>1
  <2>2. CASE p # at /\ r = at
    <3>1. q \in C
      BY <1>6, <1>7, <2>0, <2>2
    <3> QED
      BY <1>4, <2>2, <3>1 DEF Closed
  <2>3. CASE p # at /\ r # at
    BY <1>7, <2>0, <2>3
  <2> QED
    BY <2>1, <2>2, <2>3
<1> QED
  BY <1>7, <1>8, <1>9 DEF IInv

\* When step 1 is over no pixel is left at 1.
LEMMA EndStep1Inv == ASSUME IInv, EndStep1 PROVE IInv'
<1>0. /\ pc = "step1" /\ pc' = "scan" /\ at \notin Interior /\ at' = <<2, 2>>
      /\ UNCHANGED <<image, Y, label, loop, lab1, lab2, new_lab, k, Yout, calls>>
  BY DEF EndStep1
<1>1. Types'
  BY <1>0, FirstInside DEF IInv, Types, TypeOK
<1>2. \A p \in Interior : Before(p, at)
  BY <1>0, AllBefore DEF IInv, Types, TypeOK
<1>3. \A p \in Pixels : Y[p] = 0 \/ Y[p] >= 20
  <2> SUFFICES ASSUME NEW p \in Pixels, Y[p] # 0 PROVE Y[p] >= 20
    OBVIOUS
  <2>1. p \in Interior
    BY ImageInside DEF IInv, Foreground, Types
  <2> QED
    BY <1>0, <1>2, <2>1 DEF IInv, Step1Inv
<1>4. Apart'
  <2>1. \A p \in image : Y[p] # 1
    BY <1>3, ImageInside DEF IInv, Types
  <2> QED
    BY <1>0, <2>1 DEF IInv, Apart, Closed
<1>5. ScanInv'
  BY <1>0, NoneBefore, ImageInside DEF IInv, Types, ScanInv
<1> QED
  BY <1>0, <1>1, <1>3, <1>4, <1>5
     DEF IInv, Foreground, Step1Inv, LargeLabels, MergeInv, Agree, NumberInv

-------------------------------------------------------------------------------
(***************************************************************************)
(* Step 2.                                                                 *)
(***************************************************************************)

\* What the end of a scan or its next pixel needs to know of pixel at.
LEMMA ScannedInv ==
  ASSUME IInv, NEW flag \in BOOLEAN, Scanning, Scanned(flag),
         at \in image => \A q \in Window(at) : Y[q] <= Y[at]
  PROVE  IInv'
<1>0. /\ pc = "scan" /\ at \in Interior /\ loop' = flag
      /\ UNCHANGED <<image, Y, label, lab1, lab2, new_lab, k, Yout, calls>>
      /\ \/ at[2] = N - 1 /\ (flag \/ at[1] = M - 1) /\ pc' = "merge" /\ at' = <<2, 2>>
         \/ ~(at[2] = N - 1 /\ (flag \/ at[1] = M - 1)) /\ pc' = "scan" /\ at' = After(at)
  BY DEF Scanning, Scanned, IInv, Types
<1>1. Types'
  BY <1>0, FirstInside, AfterInside DEF IInv, Types, TypeOK
<1>2. MergeInv'
  BY <1>0 DEF IInv, MergeInv
<1>3. ScanInv'
  <2>1. CASE pc' = "merge"
    <3> SUFFICES ASSUME ~flag, NEW p \in image, NEW q \in Window(p) PROVE Y[q] <= Y[p]
      BY <1>0, <2>1 DEF ScanInv
    <3>1. at[2] = N - 1 /\ at[1] = M - 1 /\ p \in Interior
      BY <1>0, <2>1, ImageInside DEF IInv, Types
    <3>2. p = at \/ Before(p, at)
      BY <1>0, <3>1, AllBefore DEF IInv, Types, TypeOK
    <3> QED
      BY <1>0, <3>2 DEF IInv, ScanInv
  <2>2. CASE pc' = "scan"
    <3> SUFFICES ASSUME NEW p \in image, Before(p, After(at)), NEW q \in Window(p)
                 PROVE  Y[q] <= Y[p]
      BY <1>0, <2>2 DEF ScanInv
    <3>1. p = at \/ Before(p, at)
      BY <1>0, AfterBefore, ImageInside DEF IInv, Types
    <3> QED
      BY <1>0, <3>1 DEF IInv, ScanInv
  <2> QED
    BY <1>0, <2>1, <2>2
<1>4. Apart'
  BY <1>0 DEF IInv, Apart, Closed
<1> QED
  BY <1>0, <1>1, <1>2, <1>3, <1>4
     DEF IInv, Foreground, Step1Inv, LargeLabels, Agree, NumberInv

LEMMA ScanBackgroundInv == ASSUME IInv, ScanBackground PROVE IInv'
<1>1. at \notin image
  BY ImageInside DEF ScanBackground, IInv, Foreground, Types
<1> QED
  BY <1>1, ScannedInv DEF ScanBackground

LEMMA ScanAgreesInv == ASSUME IInv, ScanAgrees PROVE IInv'
<1>1. loop \in BOOLEAN /\ \A q \in Window(at) : Y[q] <= Y[at]
  BY DEF ScanAgrees, Agrees, Largest, IInv, Types, TypeOK
<1> QED
  BY <1>1, ScannedInv DEF ScanAgrees, AgreeFlag

LEMMA ScanConflictInv == ASSUME IInv, ScanConflict PROVE IInv'
<1>0. /\ pc = "scan" /\ pc' = "merge" /\ at \in Interior /\ at' = <<2, 2>> /\ loop' = TRUE
      /\ UNCHANGED <<image, Y, label, new_lab, k, Yout, calls>>
      /\ at \in Pixels /\ Y \in [Pixels -> Nat] /\ Y[at] # 0 /\ at \notin Largest(at)
  BY FirstInside DEF ScanConflict, Scanning, Agrees, NaN, IInv, Types, TypeOK
<1>1. PICK q \in Largest(at) : lab1' = Y[at] /\ lab2' = Y[q]
  BY DEF ScanConflict
<1>2. q \in Window(at) /\ \A r \in Window(at) : Y[r] <= Y[q]
  BY <1>1 DEF Largest
<1>3. q \in Pixels /\ Touch(at, q)
  BY <1>0, <1>2, WindowInside
<1>4. Y[at] # Y[q]
  BY <1>0, <1>2, LeftInside DEF Largest
<1>5. Y[q] # 0
  <2>1. at \in Window(at)
    BY <1>0, LeftInside
  <2>2. Y[at] <= Y[q]
    BY <1>2, <2>1
  <2> QED
    BY <1>0, <1>3, <2>2
<1>6. at \in image /\ q \in image /\ Y[at] >= 20 /\ Y[q] >= 20
  BY <1>0, <1>3, <1>5 DEF IInv, Foreground, LargeLabels
<1>7. MergeInv'
  BY <1>0, <1>1, <1>3, <1>4, <1>6 DEF MergeInv
<1>8. Types'
  BY <1>0, <1>1, <1>3, FirstInside DEF IInv, Types, TypeOK
<1>9. Apart'
  BY <1>0 DEF IInv, Apart, Closed
<1> QED
  BY <1>0, <1>7, <1>8, <1>9
     DEF IInv, Foreground, Step1Inv, LargeLabels, ScanInv, Agree, NumberInv

\* A merge replaces a label by that of a component it touches, or does nothing.
LEMMA MergeStepInv == ASSUME IInv, Merge PROVE IInv'
<1>0. /\ pc = "merge" /\ pc' = IF loop THEN "scan" ELSE "collect"
      /\ UNCHANGED <<image, label, at, loop, lab1, lab2, new_lab, k, Yout, calls>>
      /\ Y \in [Pixels -> Nat] /\ lab1 \in Nat /\ lab2 \in Nat
  BY DEF Merge, IInv, Types, TypeOK
<1>1. /\ Y' \in [Pixels -> Nat]
      /\ \A p \in Pixels : Y'[p] = IF Y[p] = lab2 THEN lab1 ELSE Y[p]
  <2>1. Y' = Merged
    BY DEF Merge
  <2>2. \A p \in Pixels : Y'[p] = IF p \in Interior /\ Y[p] = lab2 THEN lab1 ELSE Y[p]
    BY <2>1 DEF Merged
  <2>3. \A p \in Pixels : p \notin Interior => Y[p] = 0
    BY ImageInside DEF IInv, Foreground, Types
  <2>4. lab2 = 0 => lab1 = 0
    BY <1>0 DEF IInv, MergeInv
  <2> QED
    BY <1>0, <2>1, <2>2, <2>3, <2>4 DEF Merged
<1>2. Foreground'
  BY <1>0, <1>1 DEF IInv, Foreground, MergeInv
<1>3. LargeLabels'
  BY <1>0, <1>1 DEF IInv, LargeLabels, MergeInv
<1>4. MergeInv'
  <2>1. CASE lab1 = 0 /\ lab2 = 0
    BY <1>0, <2>1 DEF MergeInv
  <2>2. CASE lab1 >= 20 /\ lab2 >= 20 /\ lab1 # lab2
    BY <1>0, <1>1, <2>2 DEF MergeInv
  <2> QED
    BY <1>0, <2>1, <2>2 DEF IInv, MergeInv
<1>5. ~loop => \A p \in Pixels : Y'[p] = Y[p]
  BY <1>0, <1>1 DEF IInv, MergeInv
<1>6. Types' /\ at' \in Interior
  <2>1. at = <<2, 2>>
    BY <1>0 DEF IInv, Types
  <2> QED
    BY <1>0, <1>1, <2>1, FirstInside DEF IInv, Types, TypeOK
<1>7. ScanInv'
  BY <1>0, NoneBefore, ImageInside DEF IInv, Types, ScanInv
<1>8. Agree'
  <2> SUFFICES ASSUME ~loop, NEW p \in image, NEW q \in image, Touch(p, q) PROVE Y'[p] = Y'[q]
    BY <1>0 DEF Agree
  <2>1. p \in Interior /\ q \in Interior /\ p \in Pixels /\ q \in Pixels
    BY ImageInside DEF IInv, Types
  <2>2. q \in Window(p) /\ p \in Window(q)
    BY <2>1, TouchWindow
  <2>3. Y[q] <= Y[p] /\ Y[p] <= Y[q]
    BY <1>0, <2>2 DEF IInv, ScanInv
  <2> QED
    BY <1>0, <1>5, <2>1, <2>3
<1>9. Apart'
  <2> SUFFICES ASSUME NEW C \in SUBSET image, Closed(C), NEW p \in C, NEW q \in image,
                      Y'[p] = Y'[q]
               PROVE  q \in C
    BY <1>0 DEF Apart, Closed
  <2>0. /\ p \in Pixels /\ q \in Pixels
        /\ \A a \in C, b \in image : Y[a] = Y[b] => b \in C
    BY <1>0, ImageInside DEF IInv, Types, Apart
  <2>1. CASE (lab1 = 0 /\ lab2 = 0) \/ \A r \in Pixels : Y[r] # lab2
    BY <1>1, <2>0, <2>1
  <2>2. CASE \E a, b \in image : Touch(a, b) /\ Y[a] = lab1 /\ Y[b] = lab2
    <3>1. PICK a \in image, b \in image : Touch(a, b) /\ Y[a] = lab1 /\ Y[b] = lab2
      BY <2>2
    <3>2. Touch(b, a)
      <4>1. a \in Interior /\ b \in Pixels
        BY ImageInside DEF IInv, Types
      <4> QED
        BY <3>1, <4>1, TouchWindow, WindowInside
    <3>3. a \in C <=> b \in C
      BY <3>1, <3>2 DEF Closed
    <3> QED
      BY <1>1, <2>0, <3>1, <3>3
  <2> QED
    BY <1>0, <2>1, <2>2 DEF IInv, MergeInv
<1> QED
  BY <1>0, <1>2, <1>3, <1>4, <1>6, <1>7, <1>8, <1>9
     DEF IInv, Step1Inv, NumberInv

-------------------------------------------------------------------------------
(***************************************************************************)
(* Step 3.                                                                 *)
(***************************************************************************)
LEMMA CollectInv == ASSUME IInv, Collect PROVE IInv'
<1>0. /\ pc = "collect" /\ pc' = "number" /\ k = 1 /\ Y \in [Pixels -> Nat]
      /\ new_lab' = {Y[p] : p \in Interior} \ {0}
      /\ UNCHANGED <<image, Y, label, at, loop, lab1, lab2, k, Yout, calls>>
  BY DEF Collect, IInv, Types, TypeOK, NumberInv
<1>1. \A p \in Interior : Y[p] \in Nat /\ (Y[p] # 0 => Y[p] >= 20)
  BY <1>0, FirstInside DEF IInv, LargeLabels
<1>2. NumberInv'
  <2>1. \A p \in image : Y[p] \in new_lab'
    BY <1>0, ImageInside DEF IInv, Foreground, Types
  <2> QED
    BY <1>0, <1>1, <2>1 DEF NumberInv
<1>3. Types'
  BY <1>0, <1>1 DEF IInv, Types, TypeOK
<1>4. Apart'
  BY <1>0 DEF IInv, Apart, Closed
<1> QED
  BY <1>0, <1>2, <1>3, <1>4
     DEF IInv, Foreground, Step1Inv, LargeLabels, MergeInv, ScanInv, Agree

\* The next number is not in use: it lies below the labels that are left and
\* above the numbers already given.
LEMMA NumberStepInv == ASSUME IInv, Number PROVE IInv'
<1>0. /\ pc = "number" /\ pc' = "number" /\ k' = k + 1 /\ k \in Nat /\ k >= 1
      /\ UNCHANGED <<image, label, at, loop, lab1, lab2, Yout, calls>>
      /\ Y \in [Pixels -> Nat] /\ new_lab \subseteq Nat
  BY DEF Number, IInv, Types, TypeOK, NumberInv
<1>1. PICK l \in new_lab :
        /\ \A j \in new_lab : l <= j
        /\ Y' = [p \in Pixels |-> IF Y[p] = l THEN k ELSE Y[p]]
        /\ new_lab' = new_lab \ {l}
  BY DEF Number, LeastLabel
<1>2. /\ Y' \in [Pixels -> Nat] /\ l \in Nat
      /\ \A p \in Pixels : Y'[p] = IF Y[p] = l THEN k ELSE Y[p]
  BY <1>0, <1>1
<1>3. \A j \in new_lab : j >= k + 19
  BY <1>0 DEF IInv, NumberInv
<1>4. \A p \in image : p \in Pixels /\ (Y[p] \in new_lab \/ Y[p] < k)
  BY <1>0, ImageInside DEF IInv, Types, NumberInv
<1>5. \A p \in image : Y[p] # k
  BY <1>0, <1>3, <1>4
<1>6. \A p, q \in image : Y'[p] = Y'[q] <=> Y[p] = Y[q]
  BY <1>2, <1>4, <1>5
<1>7. NumberInv'
  <2>1. \A j \in new_lab' : j >= k' + 19
    <3> SUFFICES ASSUME NEW j \in new_lab, j # l PROVE j >= k + 1 + 19
      BY <1>0, <1>1
    <3>1. j \in Nat /\ l <= j /\ l >= k + 19
      BY <1>0, <1>1, <1>3
    <3> QED
      BY <1>0, <1>2, <3>1
  <2>2. \A p \in image : Y'[p] \in new_lab' \/ Y'[p] < k'
    <3> SUFFICES ASSUME NEW p \in image PROVE Y'[p] \in new_lab' \/ Y'[p] < k'
      OBVIOUS
    <3>1. CASE Y[p] = l
      BY <1>0, <1>2, <1>4, <3>1
    <3>2. CASE Y[p] # l /\ Y[p] \in new_lab
      BY <1>1, <1>2, <1>4, <3>2
    <3>3. CASE Y[p] # l /\ Y[p] < k
      BY <1>0, <1>2, <1>4, <3>3
    <3> QED
      BY <1>4, <3>1, <3>2, <3>3
  <2> QED
    BY <1>0, <2>1, <2>2 DEF NumberInv
<1>8. Foreground'
  <2>1. l # 0 /\ k # 0
    BY <1>0, <1>1, <1>2, <1>3
  <2> QED
    BY <1>0, <1>2, <2>1 DEF IInv, Foreground
<1>9. Types'
  BY <1>0, <1>1, <1>2 DEF IInv, Types, TypeOK
<1>10. Agree' /\ Apart'
  BY <1>0, <1>6 DEF IInv, Agree, Apart, Closed
<1> QED
  BY <1>0, <1>7, <1>8, <1>9, <1>10
     DEF IInv, Step1Inv, LargeLabels, MergeInv, ScanInv

LEMMA ReturnInv == ASSUME IInv, Return PROVE IInv'
<1>0. /\ pc = "number" /\ pc' = "labelled"
      /\ UNCHANGED <<image, Y, label, at, loop, lab1, lab2, new_lab, k, Yout, calls>>
  BY DEF Return
<1> QED
  BY <1>0 DEF IInv, Types, TypeOK, Foreground, Step1Inv, LargeLabels, Apart, Closed,
              MergeInv, ScanInv, Agree, NumberInv

LEMMA IsolateAreaInv ==
  ASSUME IInv, IsolateArea PROVE IInv'
<1>0. /\ pc = "labelled" /\ pc' \in {"labelled", "done"} /\ Yout' \subseteq Pixels
      /\ calls' \in Nat
      /\ UNCHANGED <<image, Y, label, at, loop, lab1, lab2, new_lab, k>>
  BY DEF IsolateArea, Kept, IInv, Types, TypeOK
<1> QED
  BY <1>0 DEF IInv, Types, TypeOK, Foreground, Step1Inv, LargeLabels, Apart, Closed,
              MergeInv, ScanInv, Agree, NumberInv

LEMMA StutterInv == ASSUME IInv, UNCHANGED vars PROVE IInv'
BY DEF vars, IInv, Types, TypeOK, Foreground, Step1Inv, LargeLabels, Apart, Closed,
       MergeInv, ScanInv, Agree, NumberInv

-------------------------------------------------------------------------------
\* Nothing happens to a page of one value.
LEMMA BlankStays == ASSUME BlankInv, [Next]_vars PROVE BlankInv'
<1>0. /\ Y \in [Pixels -> Nat \cup {NaN}] /\ image = Interior /\ loop
      /\ \A p \in Pixels : Y[p] = IF p \in Interior THEN NaN ELSE 0
  BY DEF BlankInv, TypeOK, Blank
<1>1. <<2, 2>> \in Interior /\ \A p \in Interior : p \in Pixels /\ Y[p] = NaN
  BY <1>0, FirstInside
<1>2. CASE Background
  <2>1. at \in Interior /\ at' = After(at) /\ Y' = [Y EXCEPT ![at] = Y[at]]
        /\ UNCHANGED <<image, label, loop, lab1, lab2, new_lab, k, Yout, calls, pc>> /\ pc = "step1"
    BY <1>2 DEF Background, Step1
  <2>2. Y' = Y
    BY <1>0, <1>1, <2>1
  <2>3. at' \in (2 .. M) \X (2 .. N - 1)
    BY <2>1, AfterInside
  <2> QED
    BY <2>1, <2>2, <2>3 DEF BlankInv, TypeOK, Blank
<1>3. ~NewLabel /\ ~TakeLabel
  BY <1>1 DEF NewLabel, TakeLabel, Step1, NaN
<1>4. CASE EndStep1
  BY <1>4, FirstInside DEF EndStep1, BlankInv, TypeOK, Blank
<1>5. ~ScanBackground /\ ~ScanAgrees
  <2>1. pc = "scan" => Y[at] = NaN
    BY <1>1 DEF BlankInv
  <2>2. NaN # 0
    BY DEF NaN
  <2> QED
    BY <2>1, <2>2, Zenon DEF ScanBackground, ScanAgrees, Scanning, Agrees
<1>6. CASE ScanConflict
  <2>1. /\ pc = "scan" /\ pc' = "merge" /\ at' = <<2, 2>> /\ loop' = TRUE
        /\ UNCHANGED <<image, Y, label, new_lab, k, Yout, calls>>
    BY <1>6 DEF ScanConflict, Scanning
  <2>2. at = <<2, 2>> /\ lab1' = NaN
    BY <1>1, <1>6, <2>1 DEF ScanConflict, BlankInv
  <2>3. PICK q \in Largest(at) : lab2' = Y[q]
    BY <1>6 DEF ScanConflict
  <2>4. q \in Pixels /\ \A r \in Window(at) : Y[r] <= Y[q]
    BY <1>1, <2>2, <2>3, WindowInside DEF Largest
  <2>5. <<1, 1>> \in Window(at) /\ Y[<<1, 1>>] = 0
    BY <1>0, <2>2, LabelAreaAssumption DEF Window, Pixels, Interior
  <2>6. Y[q] = 0
    BY <1>0, <2>4, <2>5 DEF NaN
  <2> QED
    BY <2>1, <2>2, <2>3, <2>6, FirstInside DEF BlankInv, TypeOK, Blank
<1>7. CASE Merge
  <2>1. /\ pc = "merge" /\ pc' = "scan" /\ Y' = Merged
        /\ UNCHANGED <<image, label, at, loop, lab1, lab2, new_lab, k, Yout, calls>>
    BY <1>0, <1>7 DEF Merge
  <2>2. at = <<2, 2>> /\ lab2 = 0
    BY <2>1 DEF BlankInv
  <2>3. \A p \in Pixels : Y'[p] = Y[p]
    BY <1>0, <1>1, <2>1, <2>2 DEF Merged, NaN
  <2>4. Y' = Y
    BY <1>0, <2>1, <2>3 DEF Merged
  <2> QED
    BY <2>1, <2>2, <2>4 DEF BlankInv, TypeOK, Blank
<1>8. ~Collect /\ ~Number /\ ~Return /\ ~IsolateArea
  BY DEF Collect, Number, Return, IsolateArea, BlankInv
<1>9. CASE UNCHANGED vars
  BY <1>9 DEF vars, BlankInv, TypeOK, Blank
<1> QED
  BY <1>2, <1>3, <1>4, <1>5, <1>6, <1>7, <1>8, <1>9 DEF Next

\* The initial states, with each of the two kinds of images.
LEMMA InitEither == Init => IInv \/ BlankInv
<1>1. ASSUME Init, Y = [p \in Pixels |-> IF p \in image THEN 1 ELSE 0] PROVE IInv
  BY <1>1, InitInv
<1>2. ASSUME Init, image = Interior, Y = Blank PROVE BlankInv
  <2>1. Y \in [Pixels -> Nat \cup {NaN}]
    BY <1>2 DEF Blank
  <2> QED
    BY <1>2, <2>1, FirstInside DEF Init, BlankInv, TypeOK, FirstLabel
<1> QED
  BY <1>1, <1>2 DEF Init

LEMMA NextInv == ASSUME IInv, [Next]_vars PROVE IInv'
BY BackgroundInv, NewLabelInv, TakeLabelInv, EndStep1Inv, ScanBackgroundInv,
   ScanAgreesInv, ScanConflictInv, MergeStepInv, CollectInv, NumberStepInv,
   ReturnInv, IsolateAreaInv, StutterInv
   DEF Next

\* The inductive invariant holds in every reachable state.
THEOREM Invariance == Spec => [](IInv \/ BlankInv)
<1>1. (IInv \/ BlankInv) /\ [Next]_vars => (IInv \/ BlankInv)'
  BY NextInv, BlankStays
<1> QED
  BY InitEither, <1>1, PTL DEF Spec

\* Types.
THEOREM TypeCorrect == Spec => []TypeOK
<1>1. IInv \/ BlankInv => TypeOK
  BY DEF IInv, Types, BlankInv
<1> QED
  BY <1>1, Invariance, PTL

\* label_area, for every image of every size that it returns for: the labels
\* tell exactly the connected components apart.
THEOREM ComponentsCorrect == Spec => []ComponentsLabelled
<1>1. IInv => ComponentsLabelled
  BY ImageInside
     DEF IInv, Types, ComponentsLabelled, Labelled, Foreground, Agree, Apart
<1>2. BlankInv => ComponentsLabelled
  BY DEF BlankInv, ComponentsLabelled, Labelled
<1> QED
  BY <1>1, <1>2, Invariance, PTL

-------------------------------------------------------------------------------
(***************************************************************************)
(* An image whose first inner row is full.                                 *)
(***************************************************************************)

\* No scan leaves that row but to merge, and none resets the flag.
Stuck ==
  ~OpenTopRow =>
    /\ pc \in {"step1", "scan", "merge"} /\ loop
    /\ pc = "scan" => at[1] = 2

LEMMA StuckInv == ASSUME IInv, Stuck, [Next]_vars PROVE Stuck'
<1> SUFFICES ASSUME ~OpenTopRow' PROVE Stuck'
  BY DEF Stuck
<1>0. image' = image /\ ~OpenTopRow
  <2>1. image' = image
    BY DEF Next, Background, NewLabel, TakeLabel, Step1, EndStep1, ScanBackground, ScanAgrees,
           Scanned, ScanConflict, Merge, Collect, Number, Return, IsolateArea, vars
  <2> QED
    BY <2>1 DEF OpenTopRow
<1>1. pc \in {"step1", "scan", "merge"} /\ loop /\ (pc = "scan" => at[1] = 2)
  BY <1>0 DEF Stuck
<1>2. CASE Background \/ NewLabel \/ TakeLabel
  BY <1>1, <1>2 DEF Background, NewLabel, TakeLabel, Step1, Stuck
<1>3. CASE EndStep1
  BY <1>1, <1>3 DEF EndStep1, Stuck
<1>4. CASE ScanBackground
  <2>1. at \in Interior /\ at[1] = 2 /\ Y[at] = 0
    BY <1>1, <1>4 DEF ScanBackground, Scanning, IInv, Types
  <2>2. at[2] \in 2 .. N - 1 /\ at = <<2, at[2]>>
    BY <2>1, LabelAreaAssumption DEF Interior
  <2>3. at \in image
    BY <1>0, <2>2 DEF OpenTopRow
  <2> QED
    BY <2>1, <2>3, ImageInside DEF IInv, Types, Foreground
<1>5. CASE ScanAgrees
  <2>1. Scanned(TRUE) /\ pc = "scan" /\ at \in Interior /\ at[1] = 2
    BY <1>1, <1>5 DEF ScanAgrees, AgreeFlag, Scanning, IInv, Types, TypeOK
  <2>2. at[2] \in 2 .. N - 1
    BY <2>1, LabelAreaAssumption DEF Interior
  <2>3. loop' = TRUE /\ (pc' = "merge" \/ (pc' = "scan" /\ at[2] # N - 1 /\ at' = After(at)))
    BY <2>1 DEF Scanned
  <2>4. at[2] # N - 1 => After(at)[1] = 2
    BY <2>1, <2>2, LabelAreaAssumption DEF After
  <2> QED
    BY <2>3, <2>4 DEF Stuck
<1>6. CASE ScanConflict
  BY <1>6 DEF ScanConflict, Stuck
<1>7. CASE Merge
  <2>1. at = <<2, 2>>
    BY <1>7 DEF Merge, IInv, Types
  <2> QED
    BY <1>1, <1>7, <2>1 DEF Merge, Stuck
<1>8. CASE Collect \/ Number \/ Return \/ IsolateArea
  BY <1>1, <1>8 DEF Collect, Number, Return, IsolateArea
<1>9. CASE UNCHANGED vars
  BY <1>1, <1>9 DEF vars, Stuck
<1> QED
  BY <1>2, <1>3, <1>4, <1>5, <1>6, <1>7, <1>8, <1>9 DEF Next

\* label_area does not return for an image whose first inner row is full,
\* whatever its size, nor for a page of one value.
THEOREM FullTopRowHangs == Spec => []FullTopRowNeverEnds
<1>1. Init => Stuck
  BY DEF Init, Stuck
<1>2. Stuck => FullTopRowNeverEnds
  BY DEF Stuck, FullTopRowNeverEnds, Labelled
<1>3. (IInv \/ BlankInv) /\ Stuck /\ [Next]_vars => Stuck'
  <2>1. BlankInv' => Stuck'
    BY DEF BlankInv, Stuck
  <2> QED
    BY <2>1, StuckInv, BlankStays
<1> QED
  BY <1>1, <1>2, <1>3, Invariance, PTL DEF Spec

-------------------------------------------------------------------------------
(***************************************************************************)
(* Component, which is defined by recursion: the smallest closed set       *)
(* around its pixel.  What holds of all its steps is shown by the least    *)
(* step for which it would not hold.                                       *)
(***************************************************************************)
\* The order of the numbers, as a relation.
Smaller == {s \in Nat \X Nat : s[1] < s[2]}

\* A set of numbers has a least one.
LEMMA Least ==
  ASSUME NEW S \in SUBSET Nat, S # {}
  PROVE  \E x \in S : \A y \in S : x <= y
<1>1. IsWellFoundedOn(Smaller, Nat)
  BY NatLessThanWellFounded DEF OpToRel, Smaller
<1>2. PICK x \in S : \A y \in S : ~(<<y, x>> \in Smaller)
  BY <1>1, WFMin
<1>3. ASSUME NEW y \in S PROVE x <= y
  <2>1. x \in Nat /\ y \in Nat
    OBVIOUS
  <2>2. y < x => <<y, x>> \in Smaller
    BY <2>1 DEF Smaller
  <2> QED
    BY <1>2, <2>1, <2>2
<1> QED
  BY <1>3

\* The pixels of an image that touch one of a set.
Near(img, S) == {q \in img : \E r \in S : Touch(q, r)}

\* Component, of any image.
ComponentIn(img, p) ==
  LET reach[i \in 0 .. Cardinality(img)] == IF i = 0 THEN {p} ELSE Near(img, reach[i - 1])
  IN reach[Cardinality(img)]

\* Closed, in any image.
ClosedIn(img, C) == \A p \in C, q \in img : Touch(p, q) => q \in C

LEMMA ComponentIs ==
  ASSUME NEW p
  PROVE  Component(p) = ComponentIn(image, p) /\ Component(p)' = ComponentIn(image', p)
BY DEF Component, ComponentIn, Near

\* The function that Component defines, up to n.
Grows(img, p, n, f) == f = [i \in 0 .. n |-> IF i = 0 THEN {p} ELSE Near(img, f[i - 1])]

\* It exists: a longest one could be continued.
LEMMA GrowsOn ==
  ASSUME NEW img, NEW p
  PROVE  \A n \in Nat : \E f : Grows(img, p, n, f)
<1> DEFINE S == {n \in Nat : ~\E f : Grows(img, p, n, f)}
<1> SUFFICES ASSUME S # {} PROVE FALSE
  OBVIOUS
<1>1. PICK x \in S : \A y \in S : x <= y
  BY Least
<1>2. x # 0
  <2>1. Grows(img, p, 0, [i \in 0 .. 0 |-> {p}])
    BY DEF Grows
  <2> QED
    BY <2>1
<1>3. PICK f : Grows(img, p, x - 1, f)
  BY <1>1, <1>2
<1> DEFINE g == [i \in 0 .. x |-> IF i = x THEN Near(img, f[x - 1]) ELSE f[i]]
<1>4. ASSUME NEW i \in 0 .. x
      PROVE  g[i] = IF i = 0 THEN {p} ELSE Near(img, g[i - 1])
  <2>1. CASE i = x
    <3>1. g[i] = Near(img, f[x - 1]) /\ g[i - 1] = f[x - 1]
      BY <1>2, <2>1
    <3> QED
      BY <1>2, <2>1, <3>1
  <2>2. CASE i # x
    <3>1. i \in 0 .. x - 1 /\ g[i] = f[i]
      BY <2>2
    <3>2. i # 0 => g[i - 1] = f[i - 1]
      BY <2>2
    <3>3. f[i] = IF i = 0 THEN {p} ELSE Near(img, f[i - 1])
      BY <1>3, <3>1 DEF Grows
    <3> QED
      BY <3>1, <3>2, <3>3
  <2> QED
    BY <2>1, <2>2
<1>5. Grows(img, p, x, g)
  BY <1>4 DEF Grows
<1> QED
  BY <1>5

\* So a component is the last value of such a function.
LEMMA ComponentGrows ==
  ASSUME NEW img, NEW p, Cardinality(img) \in Nat
  PROVE  \E f : Grows(img, p, Cardinality(img), f) /\ ComponentIn(img, p) = f[Cardinality(img)]
<1> DEFINE f == CHOOSE g : Grows(img, p, Cardinality(img), g)
<1>1. Grows(img, p, Cardinality(img), f)
  BY GrowsOn
<1>2. ComponentIn(img, p) = f[Cardinality(img)]
  BY DEF ComponentIn, Grows
<1> QED
  BY <1>1, <1>2

\* An image is finite.
LEMMA ImageFinite ==
  ASSUME NEW img \in SUBSET Interior
  PROVE  /\ IsFiniteSet(img) /\ Cardinality(img) \in Nat
         /\ \A C \in SUBSET img : IsFiniteSet(C) /\ Cardinality(C) \in Nat /\ Cardinality(C) <= Cardinality(img)
<1>1. IsFiniteSet(2 .. M - 1) /\ IsFiniteSet(2 .. N - 1)
  BY FS_Interval, LabelAreaAssumption
<1>2. IsFiniteSet(Interior)
  BY <1>1, FS_Product DEF Interior
<1>3. IsFiniteSet(img)
  BY <1>2, FS_Subset
<1> QED
  BY <1>3, FS_Subset, FS_CardinalityType

\* Touching is reflexive and symmetric.
LEMMA Touches ==
  ASSUME NEW p \in Pixels, NEW q \in Pixels
  PROVE  Touch(p, p) /\ (Touch(p, q) <=> Touch(q, p))
BY LabelAreaAssumption DEF Touch, Pixels

\* What a step reaches: it keeps what there was, and grows unless that was closed.
LEMMA NearGrows ==
  ASSUME NEW img \in SUBSET Pixels, NEW C \in SUBSET img
  PROVE  /\ C \subseteq Near(img, C) /\ Near(img, C) \subseteq img
         /\ ClosedIn(img, C) <=> Near(img, C) = C
         /\ \A D \in SUBSET img : C \subseteq D /\ ClosedIn(img, D) => Near(img, C) \subseteq D
<1>1. \A a, b \in img : Touch(a, a) /\ (Touch(a, b) <=> Touch(b, a))
  BY Touches
<1> QED
  BY <1>1 DEF Near, ClosedIn

\* The values of such a function stay inside each closed set around the pixel; they are
\* closed, or have grown with each step.
LEMMA GrowsInside ==
  ASSUME NEW img \in SUBSET Interior, NEW p \in img, NEW n \in Nat, NEW f, Grows(img, p, n, f),
         NEW D \in SUBSET img, p \in D, ClosedIn(img, D)
  PROVE  \A i \in 0 .. n : /\ p \in f[i] /\ f[i] \subseteq D
                           /\ ClosedIn(img, f[i]) \/ Cardinality(f[i]) > i
<1> DEFINE P(i) == /\ p \in f[i] /\ f[i] \subseteq D
                   /\ ClosedIn(img, f[i]) \/ Cardinality(f[i]) > i
           S == {i \in 0 .. n : ~P(i)}
<1>0. img \in SUBSET Pixels /\ IsFiniteSet(img)
  BY ImageFinite, LabelAreaAssumption DEF Interior, Pixels
<1> SUFFICES ASSUME S # {} PROVE FALSE
  OBVIOUS
<1>1. PICK x \in S : \A y \in S : x <= y
  <2>1. S \in SUBSET Nat
    OBVIOUS
  <2> QED
    BY <2>1, Least
<1>2. x # 0
  <2>1. f[0] = {p}
    BY DEF Grows
  <2>2. Cardinality({p}) = 1
    BY FS_Singleton
  <2> QED
    BY <2>1, <2>2
<1>3. P(x - 1) /\ x - 1 \in 0 .. n
  BY <1>1, <1>2
<1>4. PICK C : C = f[x - 1]
  OBVIOUS
<1>5. f[x] = Near(img, C)
  BY <1>2, <1>3, <1>4 DEF Grows
<1>6. C \in SUBSET img /\ p \in C /\ C \subseteq D /\ (ClosedIn(img, C) \/ Cardinality(C) > x - 1)
  BY <1>3, <1>4
<1>7. /\ C \subseteq Near(img, C) /\ Near(img, C) \subseteq D /\ Near(img, C) \subseteq img
      /\ ClosedIn(img, C) <=> Near(img, C) = C
  BY <1>0, <1>6, NearGrows
<1>8. CASE ClosedIn(img, C)
  BY <1>5, <1>6, <1>7, <1>8
<1>9. CASE ~ClosedIn(img, C)
  <2>1. C # Near(img, C) /\ IsFiniteSet(Near(img, C)) /\ Cardinality(C) \in Nat
    BY <1>6, <1>7, <1>9, ImageFinite
  <2>2. Cardinality(C) < Cardinality(Near(img, C)) /\ Cardinality(Near(img, C)) \in Nat
    BY <1>7, <2>1, FS_Subset, FS_CardinalityType
  <2>3. Cardinality(f[x]) > x
    BY <1>5, <1>6, <1>9, <2>1, <2>2
  <2> QED
    BY <1>5, <1>6, <1>7, <2>3
<1> QED
  BY <1>8, <1>9

\* A component is the smallest closed set around its pixel.
LEMMA ComponentLeast ==
  ASSUME NEW img \in SUBSET Interior, NEW p \in img
  PROVE  /\ p \in ComponentIn(img, p) /\ ComponentIn(img, p) \in SUBSET img
         /\ ClosedIn(img, ComponentIn(img, p))
         /\ \A C \in SUBSET img : p \in C /\ ClosedIn(img, C) => ComponentIn(img, p) \subseteq C
<1>1. PICK n \in Nat : n = Cardinality(img)
  BY ImageFinite
<1>2. PICK f : Grows(img, p, n, f) /\ ComponentIn(img, p) = f[n]
  BY <1>1, ComponentGrows
<1>3. ClosedIn(img, img) /\ n \in 0 .. n
  BY DEF ClosedIn
<1>4. p \in f[n] /\ f[n] \subseteq img /\ (ClosedIn(img, f[n]) \/ Cardinality(f[n]) > n)
  BY <1>2, <1>3, GrowsInside
<1>5. ClosedIn(img, f[n])
  <2>1. Cardinality(f[n]) \in Nat /\ Cardinality(f[n]) <= n
    BY <1>1, <1>4, ImageFinite
  <2> QED
    BY <1>4, <2>1
<1>6. \A C \in SUBSET img : p \in C /\ ClosedIn(img, C) => f[n] \subseteq C
  BY <1>2, <1>3, GrowsInside
<1> QED
  BY <1>2, <1>4, <1>5, <1>6

\* All pixels of a component have the same one; pixels that touch are in one.
LEMMA SameComponent ==
  ASSUME NEW img \in SUBSET Interior, NEW p \in img, NEW q \in ComponentIn(img, p)
  PROVE  ComponentIn(img, q) = ComponentIn(img, p)
<1>0. img \in SUBSET Pixels
  BY LabelAreaAssumption DEF Interior, Pixels
<1> DEFINE A == ComponentIn(img, p)
           B == ComponentIn(img, q)
<1>1. q \in img /\ A \in SUBSET img /\ p \in A /\ ClosedIn(img, A)
  BY ComponentLeast
<1>2. B \in SUBSET img /\ q \in B /\ ClosedIn(img, B) /\ B \subseteq A
  BY <1>1, ComponentLeast
<1>3. p \in B
  <2> SUFFICES ASSUME p \notin B PROVE FALSE
    OBVIOUS
  <2>1. \A a, b \in img : Touch(a, b) => Touch(b, a)
    BY <1>0, Touches
  <2>2. ClosedIn(img, A \ B)
    <3> HIDE DEF A, B
    <3> QED
      BY <1>1, <1>2, <2>1 DEF ClosedIn
  <2>3. A \subseteq A \ B
    BY <1>1, <2>2, ComponentLeast
  <2> QED
    BY <1>2, <2>3
<1>4. A \subseteq B
  BY <1>2, <1>3, ComponentLeast
<1> QED
  BY <1>2, <1>4

-------------------------------------------------------------------------------
(***************************************************************************)
(* Components and the order of their labels.                               *)
(***************************************************************************)

\* The pixel of each component that the rows meet first.
Firsts == {p \in image : \A q \in Component(p) : p = q \/ Before(p, q)}

\* Step 1 has come past the pixel.
Visited(p) == pc # "step1" \/ Before(p, at)

\* The first pixel of a component has its least label, and the labels of the first
\* pixels ascend.
OrderInv ==
  /\ \A p \in Firsts : \A q \in Component(p) : Visited(p) /\ Visited(q) => Y[p] <= Y[q]
  /\ \A p, q \in Firsts : Visited(p) /\ Visited(q) /\ Before(p, q) => Y[p] < Y[q]

\* Step 1 has not touched what it has not visited; a merge replaces the larger label.
LabelsInv ==
  /\ pc = "step1" => \A p \in image : ~Before(p, at) => Y[p] = 1
  /\ lab1 < lab2 \/ (lab1 = 0 /\ lab2 = 0)

\* The labels that wait are labels of pixels, and so are the numbers given.
UsedInv ==
  /\ pc = "number" => \A l \in new_lab : \E p \in image : Y[p] = l
  /\ pc \in {"number", "labelled", "done"} =>
       /\ k \in Nat \ {0}
       /\ \A j \in 1 .. k - 1 : \E p \in image : Y[p] = j
  /\ pc \in {"labelled", "done"} => \A p \in image : Y[p] \in 1 .. k - 1

\* The pixels with as many of their label as the limits l allow.
ByLabel(l) == {p \in image : Cardinality({q \in image : Y[q] = Y[p]}) \in l[1] .. l[2] - 1}

\* The pixels that the last call of isolateArea kept, by their labels.
AreasInv ==
  /\ ~Labelled => calls = 0
  /\ calls > 0 => calls \in 1 .. Len(Limits) /\ Yout = ByLabel(Limits[calls])

\* The inductive invariant, with the order of the labels.
NInv == IInv /\ OrderInv /\ LabelsInv /\ UsedInv /\ AreasInv

\* What the proofs use of components.
LEMMA ComponentFacts ==
  ASSUME TypeOK, NEW p \in image
  PROVE  /\ p \in Component(p) /\ Component(p) \in SUBSET image
         /\ Closed(Component(p))
         /\ \A C \in SUBSET image : p \in C /\ Closed(C) => Component(p) \subseteq C
         /\ \A q \in Component(p) : q \in image /\ Component(q) = Component(p)
         /\ \A q \in image : Touch(p, q) => q \in Component(p)
<1>1. image \in SUBSET Interior
  BY DEF TypeOK
<1>2. \A q : Component(q) = ComponentIn(image, q)
  BY ComponentIs
<1>3. \A C : Closed(C) <=> ClosedIn(image, C)
  BY DEF Closed, ClosedIn
<1>4. /\ p \in ComponentIn(image, p) /\ ComponentIn(image, p) \in SUBSET image
      /\ ClosedIn(image, ComponentIn(image, p))
      /\ \A C \in SUBSET image : p \in C /\ ClosedIn(image, C) => ComponentIn(image, p) \subseteq C
  BY <1>1, ComponentLeast
<1>5. \A q \in ComponentIn(image, p) : ComponentIn(image, q) = ComponentIn(image, p)
  BY <1>1, SameComponent
<1>6. \A q \in image : Touch(p, q) => q \in ComponentIn(image, p)
  BY <1>4 DEF ClosedIn
<1> QED
  BY <1>2, <1>3, <1>4, <1>5, <1>6

\* The image never changes, nor do its components.
LEMMA ComponentsStay ==
  ASSUME image' = image
  PROVE  Firsts' = Firsts /\ \A p \in image : Component(p)' = Component(p)
<1>1. \A p : Component(p)' = ComponentIn(image', p) /\ Component(p) = ComponentIn(image, p)
  BY ComponentIs
<1>2. \A p : Component(p)' = Component(p)
  BY <1>1
<1>3. Firsts' = {p \in image' : \A q \in Component(p)' : p = q \/ Before(p, q)}
  BY DEF Firsts, Before
<1> QED
  BY <1>2, <1>3 DEF Firsts

\* The order of the rows is total.
LEMMA BeforeTotal ==
  ASSUME NEW p \in Pixels, NEW q \in Pixels
  PROVE  /\ ~(Before(p, q) /\ Before(q, p)) /\ ~Before(p, p)
         /\ p = q \/ Before(p, q) \/ Before(q, p)
BY LabelAreaAssumption DEF Pixels, Before

\* Every component has a first pixel.
LEMMA FirstExists ==
  ASSUME TypeOK, NEW p \in image
  PROVE  \E q \in Component(p) : q \in Firsts
<1> DEFINE C == Component(p)
<1>1. p \in C /\ C \in SUBSET image /\ \A q \in C : Component(q) = C
  BY ComponentFacts
<1>2. \A q \in C : q \in Pixels /\ q[1] \in Nat /\ q[2] \in Nat /\ q = <<q[1], q[2]>>
  BY <1>1, ImageInside, LabelAreaAssumption DEF Pixels
<1> HIDE DEF C
<1>3. PICK m \in {q[1] : q \in C} : \A j \in {q[1] : q \in C} : m <= j
  <2>1. {q[1] : q \in C} \in SUBSET Nat /\ {q[1] : q \in C} # {}
    BY <1>1, <1>2
  <2> QED
    BY <2>1, Least
<1>4. PICK n \in {q[2] : q \in {r \in C : r[1] = m}} : \A j \in {q[2] : q \in {r \in C : r[1] = m}} : n <= j
  <2>1. {q[2] : q \in {r \in C : r[1] = m}} \in SUBSET Nat /\ {q[2] : q \in {r \in C : r[1] = m}} # {}
    BY <1>2, <1>3
  <2> QED
    BY <2>1, Least
<1>5. PICK q \in C : q[1] = m /\ q[2] = n
  BY <1>4
<1>6. ASSUME NEW r \in C PROVE q = r \/ Before(q, r)
  <2>1. m <= r[1] /\ (r[1] = m => n <= r[2])
    BY <1>3, <1>4
  <2> QED
    BY <1>2, <1>5, <2>1 DEF Before
<1>7. q \in Firsts
  BY <1>1, <1>5, <1>6 DEF Firsts
<1> QED
  BY <1>5, <1>7 DEF C

-------------------------------------------------------------------------------
\* What is visited stays visited.
LEMMA AfterVisits ==
  ASSUME NEW a \in Interior, NEW p \in Interior, p = a \/ Before(p, a)
  PROVE  Before(p, After(a))
BY LabelAreaAssumption DEF Interior, After, Before

\* Pixels of one label belong to one component.
LEMMA LabelComponent ==
  ASSUME IInv, pc # "step1", NEW p \in image, NEW q \in image, Y[p] = Y[q]
  PROVE  q \in Component(p)
<1>1. p \in Component(p) /\ Component(p) \in SUBSET image /\ Closed(Component(p))
  BY ComponentFacts DEF IInv, Types
<1> QED
  BY <1>1 DEF IInv, Apart

\* The new parts of the invariant, step by step.
LEMMA InitOrder ==
  ASSUME Init, Y = [p \in Pixels |-> IF p \in image THEN 1 ELSE 0]
  PROVE  OrderInv /\ LabelsInv /\ UsedInv /\ AreasInv
<1>1. IInv /\ TypeOK /\ pc = "step1" /\ at = <<2, 2>> /\ lab1 = 0 /\ lab2 = 0
  BY InitInv DEF Init, IInv, Types
<1>2. image \subseteq Interior /\ image \subseteq Pixels
  BY <1>1, ImageInside
<1>3. \A p \in image : ~Visited(p) /\ Y[p] = 1
  BY <1>1, <1>2, NoneBefore DEF Visited
<1>4. OrderInv
  BY <1>3 DEF OrderInv, Firsts
<1>5. calls = 0
  BY DEF Init
<1> QED
  BY <1>1, <1>3, <1>4, <1>5 DEF LabelsInv, UsedInv, AreasInv

\* A pixel visited takes a label that is new, or that of a pixel of its component.
LEMMA Step1Order ==
  ASSUME IInv, OrderInv, LabelsInv, NEW value \in Nat, NEW next, Step1(value, next),
         at \in image =>
           \/ \A p \in image : Before(p, at) => Y[p] < value
           \/ \E r \in Component(at) : Before(r, at) /\ value = Y[r]
  PROVE  OrderInv' /\ LabelsInv' /\ UsedInv'
<1>0. /\ pc = "step1" /\ pc' = "step1" /\ at \in Interior /\ at' = After(at)
      /\ UNCHANGED <<image, lab1, lab2>>
      /\ Y' = [Y EXCEPT ![at] = value] /\ Y \in [Pixels -> Nat] /\ TypeOK
  BY DEF Step1, IInv, Types
<1>1. image \subseteq Interior /\ image \subseteq Pixels
  BY <1>0, ImageInside
<1>2. \A p \in image : Y[p] \in Nat /\ Y'[p] = IF p = at THEN value ELSE Y[p]
  BY <1>0, <1>1
<1>3. \A p \in image : Before(p, at') <=> p = at \/ Before(p, at)
  BY <1>0, <1>1, AfterBefore, AfterVisits
<1>4. Firsts' = Firsts /\ \A p \in image : Component(p)' = Component(p)
  BY <1>0, ComponentsStay
<1>5. \A p \in image : Visited(p) <=> Before(p, at)
  BY <1>0 DEF Visited
<1>6. \A p \in image : Visited(p)' <=> p = at \/ Before(p, at)
  BY <1>0, <1>3 DEF Visited
<1>7. \A p, q \in image : ~(Before(p, q) /\ Before(q, p)) /\ ~Before(p, p)
  BY <1>1, BeforeTotal
<1>8. /\ Firsts \subseteq image
      /\ \A p \in Firsts : \A q \in Component(p) : p = q \/ Before(p, q)
  BY DEF Firsts
<1>9. \A p \in image : /\ p \in Component(p) /\ Component(p) \subseteq image
                       /\ \A q \in Component(p) : Component(q) = Component(p)
  BY <1>0, ComponentFacts
<1>10. ASSUME NEW p \in Firsts, NEW q \in Component(p), Visited(p)', Visited(q)'
       PROVE  Y'[p] <= Y'[q]
  <2>0. p \in image /\ q \in image
    BY <1>8, <1>9
  <2>1. CASE p = at
    <3>1. q = at
      BY <1>6, <1>7, <1>8, <1>10, <2>0, <2>1
    <3> QED
      BY <1>2, <2>0, <2>1, <3>1
  <2>2. CASE p # at /\ q = at
    <3>1. Before(p, at) /\ Visited(p) /\ Component(at) = Component(p)
      BY <1>5, <1>6, <1>9, <1>10, <2>0, <2>2
    <3>2. CASE \A r \in image : Before(r, at) => Y[r] < value
      BY <1>2, <2>0, <2>2, <3>1, <3>2
    <3>3. CASE \E r \in Component(at) : Before(r, at) /\ value = Y[r]
      <4>1. PICK r \in Component(p) : Before(r, at) /\ value = Y[r]
        BY <3>1, <3>3
      <4>2. r \in image /\ Visited(r)
        BY <1>5, <1>9, <2>0, <4>1
      <4>3. Y[p] <= Y[r]
        BY <3>1, <4>1, <4>2 DEF OrderInv
      <4> QED
        BY <1>2, <2>0, <2>2, <4>1, <4>3
    <3> QED
      BY <2>0, <2>2, <3>2, <3>3
  <2>3. CASE p # at /\ q # at
    BY <1>2, <1>5, <1>6, <1>10, <2>0, <2>3 DEF OrderInv
  <2> QED
    BY <2>1, <2>2, <2>3
<1>11. ASSUME NEW p \in Firsts, NEW q \in Firsts, Visited(p)', Visited(q)', Before(p, q)
       PROVE  Y'[p] < Y'[q]
  <2>0. p \in image /\ q \in image
    BY <1>8
  <2>1. p # at
    BY <1>6, <1>7, <1>11, <2>0
  <2>2. CASE q = at
    <3>1. Before(p, at)
      BY <1>11, <2>2
    <3>2. ~\E r \in Component(at) : Before(r, at) /\ value = Y[r]
      BY <1>7, <1>8, <1>9, <2>0, <2>2
    <3> QED
      BY <1>2, <2>0, <2>1, <2>2, <3>1, <3>2
  <2>3. CASE q # at
    BY <1>2, <1>5, <1>6, <1>11, <2>0, <2>1, <2>3 DEF OrderInv
  <2> QED
    BY <2>2, <2>3
<1>12. OrderInv'
  <2>1. \A p \in Firsts' : \A q \in Component(p)' : Visited(p)' /\ Visited(q)' => Y'[p] <= Y'[q]
    BY <1>4, <1>8, <1>10
  <2>2. \A p, q \in Firsts' : Visited(p)' /\ Visited(q)' /\ Before(p, q) => Y'[p] < Y'[q]
    BY <1>4, <1>11
  <2> QED
    BY <2>1, <2>2 DEF OrderInv, Before
<1>13. \A p \in image : ~Before(p, at') => Y'[p] = 1
  BY <1>0, <1>2, <1>3 DEF LabelsInv
<1>14. LabelsInv'
  BY <1>0, <1>13 DEF LabelsInv, Before
<1> QED
  BY <1>0, <1>12, <1>14 DEF UsedInv

LEMMA BackgroundOrder ==
  ASSUME IInv, OrderInv, LabelsInv, Background
  PROVE  OrderInv' /\ LabelsInv' /\ UsedInv'
<1>1. Step1(Y[at], label) /\ Y[at] # 1 /\ at \in Interior /\ pc = "step1"
  BY DEF Background, Step1
<1>2. at \in Pixels /\ Y[at] \in Nat /\ ~Before(at, at)
  BY <1>1, FirstInside, BeforeTotal DEF IInv, Types
<1>3. at \notin image
  BY <1>1, <1>2 DEF LabelsInv
<1> QED
  BY <1>1, <1>2, <1>3, Step1Order

LEMMA NewLabelOrder ==
  ASSUME IInv, OrderInv, LabelsInv, NewLabel
  PROVE  OrderInv' /\ LabelsInv' /\ UsedInv'
<1>1. Step1(label, label + 1) /\ pc = "step1" /\ label \in Nat
  BY DEF NewLabel, Step1, IInv, Types, TypeOK
<1>2. \A p \in image : Y[p] < label
  BY <1>1, ImageInside DEF IInv, Types, Step1Inv
<1> QED
  BY <1>1, <1>2, Step1Order

LEMMA TakeLabelOrder ==
  ASSUME IInv, OrderInv, LabelsInv, TakeLabel
  PROVE  OrderInv' /\ LabelsInv' /\ UsedInv'
<1>1. Y[at] = 1 /\ ~Starts /\ pc = "step1" /\ at \in Interior
  BY DEF TakeLabel, Step1
<1>2. PICK q \in Largest(at) : Step1(Y[q], label)
  BY DEF TakeLabel
<1>3. TypeOK /\ Y \in [Pixels -> Nat] /\ Foreground /\ Step1Inv
  BY DEF IInv, Types
<1>4. q \in Window(at) /\ q \in Pixels /\ Touch(at, q) /\ \A r \in Window(at) : Y[r] <= Y[q]
  BY <1>1, WindowInside DEF Largest
<1>5. at \in image
  BY <1>1, <1>3, FirstInside DEF Foreground
<1>6. \E r \in Window(at) : Y[r] > 1
  <2>1. CASE Y[Left(at)] # 0
    <3>1. Left(at) \in Window(at) /\ Left(at) \in Pixels
      BY <1>1, LeftInside, WindowInside
    <3>2. Left(at) \in Interior
      BY <1>3, <2>1, <3>1, ImageInside DEF Foreground
    <3>3. Before(Left(at), at)
      BY <1>1, <3>2, LeftBefore
    <3>4. Y[Left(at)] # 1 /\ Y[Left(at)] \in Nat
      BY <1>1, <1>3, <3>1, <3>2, <3>3 DEF Step1Inv
    <3> QED
      BY <2>1, <3>1, <3>4
  <2>2. CASE ~\A r \in Window(at) : Y[r] <= 1
    <3>1. \A r \in Window(at) : Y[r] \in Nat
      BY <1>1, <1>3, WindowInside
    <3> QED
      BY <2>2, <3>1
  <2> QED
    BY <1>1, <2>1, <2>2 DEF Starts
<1>7. Y[q] > 1 /\ Y[q] \in Nat
  <2>1. \A r \in Window(at) : Y[r] \in Nat
    BY <1>1, <1>3, WindowInside
  <2> QED
    BY <1>4, <1>6, <2>1
<1>8. q \in image
  BY <1>3, <1>4, <1>7 DEF Foreground
<1>9. Before(q, at)
  BY <1>1, <1>7, <1>8 DEF LabelsInv
<1>10. q \in Component(at)
  BY <1>3, <1>4, <1>5, <1>8, ComponentFacts
<1> QED
  BY <1>2, <1>7, <1>9, <1>10, Step1Order

\* The order of the labels after step 1.
Settled ==
  /\ \A p \in Firsts : \A q \in Component(p) : Y[p] <= Y[q]
  /\ \A p, q \in Firsts : Before(p, q) => Y[p] < Y[q]

LEMMA SettledOrder ==
  /\ pc # "step1" => (OrderInv <=> Settled)
  /\ pc' # "step1" => (OrderInv' <=> Settled')
BY DEF OrderInv, Settled, Visited

\* Steps that leave the image and its labels as they are.
LEMMA SettledStays == ASSUME IInv, Settled, UNCHANGED <<image, Y>> PROVE Settled'
<1>1. Firsts' = Firsts /\ \A p \in image : Component(p)' = Component(p)
  BY ComponentsStay
<1>2. \A p \in Firsts : p \in image
  BY DEF Firsts
<1>3. \A p \in Firsts' : \A q \in Component(p)' : Y'[p] <= Y'[q]
  BY <1>1, <1>2 DEF Settled
<1>4. \A p, q \in Firsts' : Before(p, q) => Y'[p] < Y'[q]
  BY <1>1 DEF Settled
<1> QED
  BY <1>3, <1>4 DEF Settled, Before

LEMMA EndStep1Order ==
  ASSUME IInv, OrderInv, LabelsInv, EndStep1
  PROVE  OrderInv' /\ LabelsInv' /\ UsedInv'
<1>1. /\ pc = "step1" /\ pc' = "scan" /\ at \notin Interior
      /\ UNCHANGED <<image, Y, lab1, lab2>> /\ TypeOK
  BY DEF EndStep1, IInv, Types
<1>2. \A p \in image : Visited(p)
  BY <1>1, ImageInside, AllBefore DEF Visited, TypeOK
<1>3. \A p \in Firsts : p \in image /\ Component(p) \subseteq image
  BY <1>1, ComponentFacts DEF Firsts
<1>4. Settled
  BY <1>2, <1>3 DEF Settled, OrderInv
<1> QED
  BY <1>1, <1>4, SettledStays, SettledOrder DEF LabelsInv, UsedInv

LEMMA ScannedOrder ==
  ASSUME IInv, OrderInv, LabelsInv, Scanning, NEW flag, Scanned(flag)
  PROVE  OrderInv' /\ LabelsInv' /\ UsedInv'
<1>1. /\ pc = "scan" /\ pc' \in {"scan", "merge"} /\ UNCHANGED <<image, Y, lab1, lab2>>
  BY DEF Scanning, Scanned
<1> QED
  BY <1>1, SettledStays, SettledOrder DEF LabelsInv, UsedInv

LEMMA ScanConflictOrder ==
  ASSUME IInv, OrderInv, LabelsInv, ScanConflict
  PROVE  OrderInv' /\ LabelsInv' /\ UsedInv'
<1>1. /\ pc = "scan" /\ pc' = "merge" /\ UNCHANGED <<image, Y>> /\ at \in Interior
      /\ ~Agrees /\ Y \in [Pixels -> Nat]
  BY DEF ScanConflict, Scanning, IInv, Types
<1>2. PICK q \in Largest(at) : lab1' = Y[at] /\ lab2' = Y[q]
  BY DEF ScanConflict
<1>3. at \in Window(at) /\ \A r \in Window(at) : Y[r] \in Nat
  BY <1>1, LeftInside, WindowInside
<1>4. Y[at] # NaN
  BY <1>3 DEF NaN
<1>5. PICK r \in Window(at) : ~(Y[r] <= Y[at])
  BY <1>1, <1>3, <1>4 DEF Agrees, Largest
<1>6. q \in Window(at) /\ Y[r] <= Y[q]
  BY <1>2 DEF Largest
<1>7. lab1' < lab2'
  BY <1>2, <1>3, <1>5, <1>6
<1> QED
  BY <1>1, <1>7, SettledStays, SettledOrder DEF LabelsInv, UsedInv

LEMMA MergeOrder ==
  ASSUME IInv, OrderInv, LabelsInv, Merge
  PROVE  OrderInv' /\ LabelsInv' /\ UsedInv'
<1>1. /\ pc = "merge" /\ pc' \in {"scan", "collect"} /\ Y' = Merged
      /\ UNCHANGED <<image, lab1, lab2, k>> /\ Settled /\ TypeOK /\ k = 1
      /\ lab1 \in Nat /\ lab2 \in Nat
  BY SettledOrder DEF Merge, IInv, Types, TypeOK, NumberInv
<1>2. \A p \in Pixels : Y[p] \in Nat /\ Y'[p] = IF p \in Interior /\ Y[p] = lab2 THEN lab1 ELSE Y[p]
  BY <1>1 DEF Merged, IInv, Types
<1>3. image \subseteq Interior /\ image \subseteq Pixels
  BY <1>1, ImageInside
<1>4. LabelsInv' /\ UsedInv'
  BY <1>1 DEF LabelsInv, UsedInv
<1>5. CASE lab1 = lab2 \/ \A p \in Pixels : Y[p] # lab2
  <2>1. \A p \in Pixels : Y'[p] = Y[p]
    BY <1>2, <1>5
  <2>2. Y' = Y
    BY <1>1, <2>1 DEF Merged, IInv, Types
  <2> QED
    BY <1>1, <1>4, <2>2, SettledStays, SettledOrder
<1>6. CASE lab1 # lab2 /\ ~\A p \in Pixels : Y[p] # lab2
  <2>1. PICK a \in image, b \in image : Touch(a, b) /\ Y[a] = lab1 /\ Y[b] = lab2
    BY <1>1, <1>6 DEF IInv, MergeInv
  <2>2. lab1 < lab2
    BY <1>6 DEF LabelsInv
  <2>3. \A p \in image : /\ p \in Component(p) /\ Component(p) \subseteq image
                         /\ \A q \in Component(p) : Component(q) = Component(p)
    BY <1>1, ComponentFacts
  <2>4. Component(a) = Component(b)
    BY <1>1, <2>1, <2>3, ComponentFacts
  <2>5. ASSUME NEW p \in image, NEW q \in Component(p), Y[q] = lab2
        PROVE  a \in Component(p)
    <3>1. q \in image /\ Component(q) = Component(p)
      BY <2>3
    <3>2. q \in Component(b)
      BY <1>1, <2>1, <2>5, <3>1, LabelComponent
    <3> QED
      BY <2>1, <2>3, <2>4, <3>1, <3>2
  <2>6. ASSUME NEW p \in Firsts PROVE p \in image /\ Y'[p] = Y[p]
    <3>1. p \in image
      BY DEF Firsts
    <3>2. Y[p] # lab2
      <4> SUFFICES ASSUME Y[p] = lab2 PROVE FALSE
        OBVIOUS
      <4>1. a \in Component(p)
        BY <2>3, <2>5, <3>1
      <4>2. Y[p] <= Y[a]
        BY <1>1, <4>1 DEF Settled
      <4> QED
        BY <1>1, <2>1, <2>2, <4>2
    <3> QED
      BY <1>2, <1>3, <3>1, <3>2
  <2>7. ASSUME NEW p \in Firsts, NEW q \in Component(p) PROVE Y'[p] <= Y'[q]
    <3>1. p \in image /\ q \in image /\ q \in Pixels /\ q \in Interior
      BY <1>3, <2>3, <2>6
    <3>2. CASE Y[q] = lab2
      <4>1. Y[p] <= Y[a]
        BY <1>1, <2>5, <3>1, <3>2 DEF Settled
      <4> QED
        BY <1>2, <2>1, <2>6, <3>1, <3>2, <4>1
    <3>3. CASE Y[q] # lab2
      BY <1>1, <1>2, <2>6, <3>1, <3>3 DEF Settled
    <3> QED
      BY <3>2, <3>3
  <2>8. Firsts' = Firsts /\ \A p \in image : Component(p)' = Component(p)
    BY <1>1, ComponentsStay
  <2>9. \A p \in Firsts' : \A q \in Component(p)' : Y'[p] <= Y'[q]
    BY <2>6, <2>7, <2>8
  <2>10. \A p, q \in Firsts' : Before(p, q) => Y'[p] < Y'[q]
    BY <1>1, <2>6, <2>8 DEF Settled
  <2>11. Settled'
    BY <2>9, <2>10 DEF Settled, Before
  <2> QED
    BY <1>1, <1>4, <2>11, SettledOrder
<1> QED
  BY <1>5, <1>6

LEMMA CollectOrder ==
  ASSUME IInv, OrderInv, LabelsInv, Collect
  PROVE  OrderInv' /\ LabelsInv' /\ UsedInv'
<1>1. /\ pc = "collect" /\ pc' = "number" /\ UNCHANGED <<image, Y, lab1, lab2, k>> /\ k = 1
      /\ new_lab' = {Y[p] : p \in Interior} \ {0}
  BY DEF Collect, IInv, NumberInv
<1>2. \A l \in new_lab' : \E p \in image : Y[p] = l
  BY <1>1, FirstInside DEF IInv, Foreground
<1>3. k' \in Nat \ {0} /\ \A j \in 1 .. k' - 1 : \E p \in image' : Y'[p] = j
  BY <1>1
<1> QED
  BY <1>1, <1>2, <1>3, SettledStays, SettledOrder DEF LabelsInv, UsedInv

LEMMA NumberOrder ==
  ASSUME IInv, OrderInv, LabelsInv, UsedInv, Number
  PROVE  OrderInv' /\ LabelsInv' /\ UsedInv'
<1>0. /\ pc = "number" /\ pc' = "number" /\ k' = k + 1 /\ k \in Nat /\ k >= 1
      /\ UNCHANGED <<image, lab1, lab2>> /\ Settled /\ TypeOK
      /\ Y \in [Pixels -> Nat] /\ new_lab \subseteq Nat
  BY SettledOrder DEF Number, IInv, Types, TypeOK, NumberInv
<1>1. PICK l \in new_lab :
        /\ \A j \in new_lab : l <= j
        /\ Y' = [p \in Pixels |-> IF Y[p] = l THEN k ELSE Y[p]]
        /\ new_lab' = new_lab \ {l}
  BY DEF Number, LeastLabel
<1>2. \A p \in image : Y[p] \in Nat /\ Y'[p] = IF Y[p] = l THEN k ELSE Y[p]
  BY <1>0, <1>1, ImageInside
<1>3. l \in Nat /\ l >= k + 19
  BY <1>0 DEF IInv, NumberInv
<1>4. \A p \in image : Y[p] < k \/ Y[p] >= l
  BY <1>0, <1>1 DEF IInv, NumberInv
<1>5. \A p, q \in image : /\ Y[p] <= Y[q] => Y'[p] <= Y'[q]
                          /\ Y[p] < Y[q] => Y'[p] < Y'[q]
  <2> SUFFICES ASSUME NEW p \in image, NEW q \in image
               PROVE  /\ Y[p] <= Y[q] => Y'[p] <= Y'[q]
                      /\ Y[p] < Y[q] => Y'[p] < Y'[q]
    OBVIOUS
  <2>1. CASE Y[p] = l
    BY <1>0, <1>2, <1>3, <1>4, <2>1
  <2>2. CASE Y[p] # l
    BY <1>0, <1>2, <1>3, <1>4, <2>2
  <2> QED
    BY <2>1, <2>2
<1>6. Settled'
  <2>1. Firsts' = Firsts /\ \A p \in image : Component(p)' = Component(p)
    BY <1>0, ComponentsStay
  <2>2. \A p \in Firsts : p \in image /\ Component(p) \subseteq image
    BY <1>0, ComponentFacts DEF Firsts
  <2>3. \A p \in Firsts' : \A q \in Component(p)' : Y'[p] <= Y'[q]
    BY <1>0, <1>5, <2>1, <2>2 DEF Settled
  <2>4. \A p, q \in Firsts' : Before(p, q) => Y'[p] < Y'[q]
    BY <1>0, <1>5, <2>1, <2>2 DEF Settled
  <2> QED
    BY <2>3, <2>4 DEF Settled, Before
<1>7. ASSUME NEW i \in new_lab' PROVE \E p \in image : Y'[p] = i
  <2>1. i \in new_lab /\ i # l
    BY <1>1
  <2>2. PICK p \in image : Y[p] = i
    BY <1>0, <2>1 DEF UsedInv
  <2> QED
    BY <1>2, <2>1, <2>2
<1>8. ASSUME NEW j \in 1 .. k' - 1 PROVE \E p \in image : Y'[p] = j
  <2>1. CASE j = k
    <3>1. PICK p \in image : Y[p] = l
      BY <1>0 DEF UsedInv
    <3> QED
      BY <1>2, <2>1, <3>1
  <2>2. CASE j # k
    <3>1. j \in 1 .. k - 1
      BY <1>0, <2>2
    <3>2. PICK p \in image : Y[p] = j
      BY <1>0, <3>1 DEF UsedInv
    <3> QED
      BY <1>0, <1>2, <1>3, <3>1, <3>2
  <2> QED
    BY <2>1, <2>2
<1> QED
  BY <1>0, <1>6, <1>7, <1>8, SettledOrder DEF LabelsInv, UsedInv

LEMMA ReturnOrder ==
  ASSUME IInv, OrderInv, LabelsInv, UsedInv, Return
  PROVE  OrderInv' /\ LabelsInv' /\ UsedInv'
<1>1. /\ pc = "number" /\ pc' = "labelled" /\ UNCHANGED <<image, Y, lab1, lab2, k>>
      /\ new_lab = {}
  BY DEF Return
<1>2. \A p \in image : Y[p] \in Nat /\ Y[p] # 0 /\ Y[p] < k
  BY <1>1, ImageInside DEF IInv, Types, Foreground, NumberInv
<1>3. k \in Nat \ {0} /\ \A j \in 1 .. k - 1 : \E p \in image : Y[p] = j
  BY <1>1 DEF UsedInv
<1>4. \A p \in image : Y[p] \in 1 .. k - 1
  BY <1>2, <1>3
<1> QED
  BY <1>1, <1>3, <1>4, SettledStays, SettledOrder DEF LabelsInv, UsedInv

LEMMA IsolateAreaOrder ==
  ASSUME IInv, OrderInv, LabelsInv, UsedInv, IsolateArea
  PROVE  OrderInv' /\ LabelsInv' /\ UsedInv'
<1>1. /\ pc = "labelled" /\ pc' \in {"labelled", "done"} /\ UNCHANGED <<image, Y, lab1, lab2, k>>
  BY DEF IsolateArea
<1> QED
  BY <1>1, SettledStays, SettledOrder DEF LabelsInv, UsedInv

\* What isolateArea keeps of a labelled image.
LEMMA KeptByLabel ==
  ASSUME IInv, NEW l \in Nat \X Nat
  PROVE  Kept(l) = ByLabel(l)
<1>1. TypeOK /\ Foreground
  BY DEF IInv, Types
<1>2. image \subseteq Pixels /\ image \in SUBSET Interior
  BY <1>1, ImageInside
<1>3. l[1] \in Nat /\ l[2] \in Nat
  OBVIOUS
<1>4. ASSUME NEW p \in image
      PROVE  Within(Area(Y[p]), l)
               <=> Cardinality({q \in image : Y[q] = Y[p]}) \in l[1] .. l[2] - 1
  <2>1. {q \in Pixels : Y[q] = Y[p]} = {q \in image : Y[q] = Y[p]}
    BY <1>1, <1>2 DEF Foreground
  <2>2. Cardinality({q \in image : Y[q] = Y[p]}) \in Nat
    BY <1>2, ImageFinite
  <2>3. Area(Y[p]) = Cardinality({q \in image : Y[q] = Y[p]})
    BY <2>1 DEF Area
  <2> QED
    BY <1>3, <2>2, <2>3 DEF Within
<1>5. \A p \in Pixels : Y[p] # 0 <=> p \in image
  BY <1>1 DEF Foreground
<1> QED
  BY <1>2, <1>4, <1>5 DEF Kept, ByLabel

\* No step but a call of isolateArea changes what was kept, or the labels after the first.
LEMMA AreasStay == ASSUME NInv, [Next]_vars PROVE AreasInv'
<1>1. CASE IsolateArea
  <2>1. /\ pc = "labelled" /\ calls < Len(Limits) /\ calls' = calls + 1
        /\ Yout' = Kept(Limits[calls']) /\ pc' \in {"labelled", "done"}
        /\ image' = image /\ Y' = Y
    BY <1>1 DEF IsolateArea
  <2>2. calls' \in 1 .. Len(Limits)
    BY <2>1, LimitsAssumption DEF NInv, IInv, Types, TypeOK
  <2>3. PICK l \in Nat \X Nat : l = Limits[calls']
    BY <2>2, LimitsAssumption
  <2>4. Yout' = ByLabel(l)
    BY <2>1, <2>3, KeptByLabel DEF NInv
  <2>5. ByLabel(l)' = ByLabel(l)
    BY <2>1 DEF ByLabel
  <2> QED
    BY <2>1, <2>2, <2>3, <2>4, <2>5 DEF AreasInv, Labelled
<1>2. CASE Return \/ UNCHANGED vars
  <2>1. UNCHANGED <<image, Y, calls, Yout>>
    BY <1>2 DEF Return, vars
  <2>2. Labelled => Labelled'
    BY <1>2 DEF Return, vars, Labelled
  <2> QED
    BY <2>1, <2>2 DEF NInv, AreasInv, ByLabel
<1>3. ASSUME ~IsolateArea, ~Return, ~(UNCHANGED vars) PROVE AreasInv'
  <2>1. /\ pc \notin {"labelled", "done"} /\ pc' \notin {"labelled", "done"} /\ calls' = calls
    BY <1>3 DEF Next, Background, NewLabel, TakeLabel, Step1, EndStep1, ScanBackground,
           ScanAgrees, Scanning, Scanned, ScanConflict, Merge, Collect, Number
  <2> QED
    BY <2>1 DEF NInv, AreasInv, Labelled
<1> QED
  BY <1>1, <1>2, <1>3

LEMMA NextOrder == ASSUME NInv, [Next]_vars PROVE NInv'
<1>1. IInv'
  BY NextInv DEF NInv
<1>2. CASE UNCHANGED vars
  <2>1. UNCHANGED <<image, Y, label, at, lab1, lab2, new_lab, k, Yout, calls, pc>>
    BY <1>2 DEF vars
  <2>2. Firsts' = Firsts /\ \A p \in image : Component(p)' = Component(p)
    BY <2>1, ComponentsStay
  <2>3. \A p \in Firsts : p \in image
    BY DEF Firsts
  <2>4. OrderInv'
    BY <2>1, <2>2, <2>3 DEF NInv, OrderInv, Visited, Before
  <2> QED
    BY <1>1, <2>1, <2>4, AreasStay DEF NInv, LabelsInv, UsedInv, Before
<1>3. CASE Next
  <2>1. OrderInv' /\ LabelsInv' /\ UsedInv'
    BY <1>3, BackgroundOrder, NewLabelOrder, TakeLabelOrder, EndStep1Order, ScannedOrder,
       ScanConflictOrder, MergeOrder, CollectOrder, NumberOrder, ReturnOrder, IsolateAreaOrder
       DEF Next, NInv, ScanBackground, ScanAgrees
  <2> QED
    BY <1>1, <2>1, AreasStay DEF NInv
<1> QED
  BY <1>2, <1>3

\* The stronger invariant holds in every reachable state.
THEOREM OrderInvariance == Spec => [](NInv \/ BlankInv)
<1>1. Init => NInv \/ BlankInv
  <2>1. ASSUME Init, Y = [p \in Pixels |-> IF p \in image THEN 1 ELSE 0] PROVE NInv
    BY <2>1, InitInv, InitOrder DEF NInv
  <2>2. ASSUME Init, Y # [p \in Pixels |-> IF p \in image THEN 1 ELSE 0] PROVE BlankInv
    <3>1. image = Interior /\ Y = Blank
      BY <2>2 DEF Init
    <3>2. Y \in [Pixels -> Nat \cup {NaN}]
      BY <3>1 DEF Blank
    <3> QED
      BY <2>2, <3>1, <3>2, FirstInside DEF Init, BlankInv, TypeOK, FirstLabel
  <2> QED
    BY <2>1, <2>2
<1>2. (NInv \/ BlankInv) /\ [Next]_vars => (NInv \/ BlankInv)'
  BY NextOrder, BlankStays
<1> QED
  BY <1>1, <1>2, PTL DEF Spec

\* The pixels of one label are the component.
LEMMA ComponentByLabel ==
  ASSUME IInv, Labelled, NEW p \in image
  PROVE  Component(p) = {q \in image : Y[q] = Y[p]}
<1>1. TypeOK /\ pc # "step1"
  BY DEF IInv, Types, Labelled
<1>2. ASSUME NEW q \in image, Y[q] = Y[p] PROVE q \in Component(p)
  BY <1>1, <1>2, LabelComponent
<1> DEFINE C == {q \in image : Y[q] = Y[p]}
<1>3. Closed(C)
  BY DEF Closed, IInv, Agree, Labelled
<1>4. p \in C /\ C \in SUBSET image
  OBVIOUS
<1>5. Component(p) \subseteq C
  BY <1>1, <1>3, <1>4, ComponentFacts
<1> QED
  BY <1>2, <1>5

\* Each call of isolateArea keeps whole components, those whose size is within the limits
\* of the call, for images of every size and any number of calls.
THEOREM KeepsByArea == Spec => []AreasIsolated
<1>1. NInv => AreasIsolated
  <2> SUFFICES ASSUME NInv, calls > 0 PROVE AreasIsolated
    BY DEF AreasIsolated
  <2> DEFINE l == Limits[calls]
  <2>1. Yout = ByLabel(l) /\ Labelled
    BY DEF NInv, AreasInv, IInv, Types, TypeOK
  <2>2. \A p \in image : Component(p) = {q \in image : Y[q] = Y[p]}
    BY <2>1, ComponentByLabel DEF NInv
  <2>3. Yout = {p \in image : Cardinality(Component(p)) \in l[1] .. l[2] - 1}
    BY <2>1, <2>2 DEF ByLabel
  <2> QED
    BY <2>3 DEF AreasIsolated
<1>2. BlankInv => AreasIsolated
  BY DEF BlankInv, AreasIsolated
<1> QED
  BY <1>1, <1>2, OrderInvariance, PTL

\* The first pixels up to p have the labels up to that of p, one each.
LEMMA Rank ==
  ASSUME NInv, Labelled, NEW p \in Firsts
  PROVE  Y[p] = Cardinality({q \in Firsts : p = q \/ Before(q, p)})
<1> DEFINE S == {q \in Firsts : p = q \/ Before(q, p)}
           n == Y[p]
<1>1. TypeOK /\ pc # "step1" /\ Settled /\ image \subseteq Pixels
  BY SettledOrder, ImageInside DEF NInv, IInv, Types, Labelled
<1>2. /\ k \in Nat \ {0} /\ \A q \in image : Y[q] \in 1 .. k - 1
      /\ \A j \in 1 .. k - 1 : \E q \in image : Y[q] = j
  BY DEF NInv, UsedInv, Labelled
<1>3. Firsts \subseteq image /\ n \in Nat /\ n \in 1 .. k - 1
  BY <1>2 DEF Firsts
<1>4. \A q \in S : q \in Firsts /\ Y[q] \in 1 .. n
  BY <1>1, <1>2, <1>3 DEF Settled
<1>5. \A q, r \in S : Y[q] = Y[r] => q = r
  <2> SUFFICES ASSUME NEW q \in S, NEW r \in S, Y[q] = Y[r], q # r PROVE FALSE
    OBVIOUS
  <2>1. Before(q, r) \/ Before(r, q)
    BY <1>1, <1>3, BeforeTotal
  <2>2. Y[q] < Y[r] \/ Y[r] < Y[q]
    BY <1>1, <2>1 DEF Settled
  <2>3. Y[q] \in Nat /\ Y[r] \in Nat
    BY <1>2, <1>3
  <2> QED
    BY <2>2, <2>3
<1>6. ASSUME NEW j \in 1 .. n PROVE \E q \in S : Y[q] = j
  <2>1. PICK r \in image : Y[r] = j
    BY <1>2, <1>3
  <2>2. PICK q \in Component(r) : q \in Firsts
    BY <1>1, FirstExists
  <2>3. Y[q] = j
    BY <2>1, <2>2, ComponentByLabel DEF NInv
  <2>4. q = p \/ Before(q, p)
    <3> SUFFICES ASSUME q # p, ~Before(q, p) PROVE FALSE
      OBVIOUS
    <3>1. Before(p, q)
      BY <1>1, <1>3, <2>2, BeforeTotal
    <3>2. Y[p] < Y[q]
      BY <1>1, <2>2, <3>1 DEF Settled
    <3> QED
      BY <1>3, <2>3, <3>2
  <2> QED
    BY <2>2, <2>3, <2>4
<1> DEFINE f == [q \in S |-> Y[q]]
<1>7. f \in Bijection(S, 1 .. n)
  <2>1. f \in [S -> 1 .. n]
    BY <1>4
  <2>2. \A q, r \in S : f[q] = f[r] => q = r
    BY <1>5
  <2>3. \A j \in 1 .. n : \E q \in S : f[q] = j
    BY <1>6
  <2> HIDE DEF f, S, n
  <2> QED
    BY <2>1, <2>2, <2>3 DEF Bijection, Injection, Surjection, IsInjective
<1>8. IsFiniteSet(S) /\ Cardinality(S) = n
  <2>1. ExistsBijection(1 .. n, S)
    <3>1. ExistsBijection(S, 1 .. n)
      BY <1>7 DEF ExistsBijection
    <3> QED
      BY <3>1, Fun_ExistsBijSymmetric
  <2> HIDE DEF S, n
  <2> QED
    BY <1>3, <2>1, FS_CountingElements, FS_NatBijection, FS_CardinalityType
<1> QED
  BY <1>8

\* The numbers run from 1 without a gap, in the order in which the rows meet the
\* components, for images of every size.
THEOREM NumbersAscend == Spec => []NumberedInOrder
<1>1. NInv => NumberedInOrder
  <2> SUFFICES ASSUME NInv, Labelled, NEW p \in Firsts
               PROVE  Y[p] = Cardinality({q \in Firsts : p = q \/ Before(q, p)})
    BY DEF NumberedInOrder, Firsts
  <2> QED
    BY Rank
<1>2. BlankInv => NumberedInOrder
  BY DEF BlankInv, NumberedInOrder, Labelled
<1> QED
  BY <1>1, <1>2, OrderInvariance, PTL
===============================================================================
