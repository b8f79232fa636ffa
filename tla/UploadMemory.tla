------------------------------ MODULE UploadMemory ------------------------------
(***************************************************************************)
(* The memory of one upInfo of updown.c: what UploadLogInfoInit and        *)
(* UploadInitTrigger allocate for the packets that select signals and a    *)
(* trigger, what UploadLogInfoTerm frees, and what is left when an         *)
(* allocation fails on the way.                                            *)
(*                                                                         *)
(* A block is named by the place that holds the pointer to it.  The state  *)
(* of the trigger and the points in the buffers are in modules             *)
(* ExtModeUpload and CircBuf; upInfos share no memory.                     *)
(***************************************************************************)
EXTENDS Integers, Sequences, FiniteSets

CONSTANTS
  NumSampTimes,
  SignalPkts,     \* EXT_SELECT_SIGNALS: the tids of each system, a buffer size for each tid
  TriggerPkts,    \* EXT_SELECT_TRIGGER: the bytes of its signals, 0 if it has none
  MaxLost         \* bound: how many blocks may get lost

Tids == 1 .. NumSampTimes

ASSUME UploadMemoryAssumption ==
  /\ NumSampTimes \in Nat \ {0} /\ MaxLost \in Nat
  /\ \A p \in SignalPkts : p.tids \in Seq(SUBSET Tids) /\ p.size \in [Tids -> Int]
  /\ TriggerPkts \subseteq Nat

VARIABLES
  nSys,        \* of the upInfo, which the packet sets before anything is allocated
  ptr,         \* the places that hold a pointer
  lost,        \* how many allocated blocks no pointer leads to
  nBytes,      \* of the trigger's signals
  oldSize,     \* the size oldTrigSigVals was allocated with
  handler,     \* "idle", in one of the two handlers, "failed" in one, "crashed"
  todo,        \* the places that the handler has still to allocate
  pkt,         \* the packet it was called for
  careless     \* history: a host selected in an order that the code does not expect

blocks == <<ptr, lost, nBytes, oldSize>>
vars == <<nSys, blocks, handler, todo, pkt, careless>>

\* A place: its field, and its system and tid where it has them.
At(field, s, t) == <<field, s, t>>
SysTables == At("sysTables", 0, 0)
CircBufs == At("circBufs", 0, 0)
Bufs == At("bufs", 0, 0)
TidList == At("tids", 0, 0)
TrigSections == At("trigSections", 0, 0)
OldTrigSigVals == At("oldTrigSigVals", 0, 0)
TriggerPlaces == {TrigSections, OldTrigSigVals}

\* The places inside the block at p: they hold NULL when it is allocated.
Inside(p, q) ==
  \/ p = SysTables /\ q[1] \in {"uploadMap", "map", "sections"}
  \/ p[1] = "uploadMap" /\ q[1] \in {"map", "sections"} /\ q[2] = p[2]
  \/ p[1] = "map" /\ q[1] = "sections" /\ q[2] = p[2] /\ q[3] = p[3]
  \/ p = CircBufs /\ q[1] = "buf"

NoPkt == [tids |-> <<>>, size |-> [t \in Tids |-> 0], bytes |-> 0]

Init ==
  /\ nSys = 0 /\ ptr = {} /\ lost = 0 /\ nBytes = 0 /\ oldSize = 0
  /\ handler = "idle" /\ todo = {} /\ pkt = NoPkt /\ careless = FALSE

-------------------------------------------------------------------------------
(***************************************************************************)
(* UploadLogInfoTerm.                                                      *)
(***************************************************************************)
\* The tables of nSys systems are walked through, whether or not they got theirs.
FollowsNull ==
  \/ SysTables \notin ptr
  \/ \E s \in 1 .. nSys : At("uploadMap", s, 0) \notin ptr

\* Mutant: the sections of the maps are forgotten.
FreedWithoutSections == {p \in ptr : p[1] # "sections"}

\* What is freed, and UploadDestroyTrigger with it.
Freed == {p \in ptr : p[1] \in {"uploadMap", "map", "sections"} => p[2] \in 1 .. nSys}

\* The pointers are NULL after UploadLogInfoReset, those that were not followed too.
FreeAll ==
  /\ nSys' = 0 /\ ptr' = {} /\ nBytes' = 0 /\ oldSize' = 0
  /\ lost' = lost + Cardinality(ptr \ Freed)

\* How UploadLogInfoTerm ends: it does nothing, crashes, or frees.
UploadLogInfoTerm(next) ==
  \/ /\ nSys = 0
     /\ handler' = next /\ UNCHANGED <<nSys, blocks>>
  \/ /\ nSys > 0 /\ FollowsNull
     /\ handler' = "crashed" /\ UNCHANGED <<nSys, blocks>>
  \/ /\ nSys > 0 /\ ~FollowsNull
     /\ handler' = next /\ FreeAll

\* From UploadEndLoggingSession, DisconnectFromHost and ExtModeShutdown.
EndSession ==
  /\ handler = "idle"
  /\ UploadLogInfoTerm("idle")
  /\ UNCHANGED <<todo, pkt, careless>>

-------------------------------------------------------------------------------
(***************************************************************************)
(* The packets, and the allocations each of them leads to.                 *)
(***************************************************************************)
\* InitSysUploadTable: the array of maps, and a map with its sections for each tid.
TableOf(tids, s) ==
  {At("uploadMap", s, 0)} \cup {At(f, s, t) : f \in {"map", "sections"}, t \in tids}

\* UploadBufInit: nothing for no size, and an error for a size that the host did
\* not want to hold.
BufOf(size, t) ==
  IF size < 0 THEN {At("refused", 0, t)} ELSE IF size > 0 THEN {At("buf", 0, t)} ELSE {}

Allocations(p) ==
  {SysTables, CircBufs, Bufs, TidList}
    \cup (UNION {TableOf(p.tids[s], s) : s \in DOMAIN p.tids})
    \cup (UNION {BufOf(p.size[t], t) : t \in Tids})

\* The order in which they are done: system by system, tid by tid.
Stage(p) ==
  CASE p[1] = "sysTables" -> 1
    [] p[1] \in {"uploadMap", "map", "sections"} -> 2
    [] p[1] = "circBufs" -> 3
    [] p[1] \in {"buf", "refused"} -> 4
    [] p[1] \in {"bufs", "trigSections"} -> 5
    [] OTHER -> 6

Precedes(p, q) ==
  \/ Stage(p) < Stage(q)
  \/ /\ Stage(p) = Stage(q)
     /\ \/ p[2] < q[2]
        \/ p[2] = q[2] /\ p[3] < q[3]
        \/ p[2] = q[2] /\ p[3] = q[3] /\ p[1] = "map" /\ q[1] = "sections"

\* The upInfo is freed first; then nSys is set from the packet.
SelectSignals(p) ==
  /\ handler = "idle" /\ lost < MaxLost
  /\ UploadLogInfoTerm("term")
  /\ todo' = Allocations(p) /\ pkt' = [NoPkt EXCEPT !.tids = p.tids, !.size = p.size]
  /\ careless' = (careless \/ p.tids = <<>>)

ReadNSys ==
  /\ handler = "term"
  /\ handler' = "signals" /\ nSys' = Len(pkt.tids)
  /\ UNCHANGED <<blocks, todo, pkt, careless>>

\* The host is expected to select signals first, and then a trigger once.
SelectTrigger(bytes) ==
  /\ handler = "idle" /\ lost < MaxLost
  /\ handler' = "trigger"
  /\ todo' = IF bytes > 0 THEN TriggerPlaces ELSE {}
  /\ pkt' = [NoPkt EXCEPT !.bytes = bytes]
  /\ careless' = (careless \/ nSys = 0 \/ ptr \cap TriggerPlaces # {} \/ nBytes > 0)
  /\ UNCHANGED <<nSys, blocks>>

-------------------------------------------------------------------------------
(***************************************************************************)
(* The allocations.                                                        *)
(***************************************************************************)
\* The next place to allocate is p.
Allocating(p) ==
  /\ handler \in {"signals", "trigger"}
  /\ \A q \in todo \ {p} : Precedes(p, q)

\* A pointer that is overwritten loses its block, and what is inside of it.
Overwritten(p) == {q \in ptr : q = p \/ Inside(p, q)}

Allocate(p) ==
  /\ Allocating(p) /\ p[1] # "refused"
  /\ ptr' = (ptr \ Overwritten(p)) \cup {p}
  /\ lost' = lost + Cardinality(Overwritten(p))
  /\ nBytes' = IF p = TrigSections THEN nBytes + pkt.bytes ELSE nBytes
  /\ oldSize' = IF p = OldTrigSigVals THEN nBytes ELSE oldSize
  /\ todo' = todo \ {p}
  /\ UNCHANGED <<nSys, handler, pkt, careless>>

\* The pointer is NULL.  The result is tested, but for that of circBufs.
AllocationFails(p) ==
  /\ Allocating(p) /\ p # CircBufs
  /\ ptr' = ptr \ Overwritten(p)
  /\ lost' = lost + Cardinality(Overwritten(p))
  /\ handler' = IF handler = "signals" THEN "signalsFailed" ELSE "triggerFailed"
  /\ todo' = {}
  /\ UNCHANGED <<nSys, nBytes, oldSize, pkt, careless>>

\* UploadBufInit is called with NULL: a size that is refused is all it survives.
CircBufsFails(p) ==
  /\ Allocating(p) /\ p = CircBufs
  /\ ptr' = ptr \ Overwritten(p)
  /\ lost' = lost + Cardinality(Overwritten(p))
  /\ handler' = IF pkt.size[1] < 0 THEN "signalsFailed" ELSE "crashed"
  /\ todo' = {}
  /\ UNCHANGED <<nSys, nBytes, oldSize, pkt, careless>>

\* Mutant: the error is reported, and what was allocated is kept.
KeepSignals == handler' = "idle" /\ UNCHANGED <<nSys, blocks>>

\* EXIT_POINT of UploadLogInfoInit.
FreeSignals == UploadLogInfoTerm("idle")

SignalsFailed ==
  /\ handler = "signalsFailed"
  /\ FreeSignals
  /\ UNCHANGED <<todo, pkt, careless>>

\* EXIT_POINT of UploadInitTrigger: UploadDestroyTrigger.
TriggerFailed ==
  /\ handler = "triggerFailed"
  /\ handler' = "idle"
  /\ ptr' = ptr \ TriggerPlaces /\ nBytes' = 0 /\ oldSize' = 0
  /\ UNCHANGED <<nSys, lost, todo, pkt, careless>>

Return ==
  /\ handler \in {"signals", "trigger"} /\ todo = {}
  /\ handler' = "idle"
  /\ UNCHANGED <<nSys, blocks, todo, pkt, careless>>

Next ==
  \/ \E p \in SignalPkts : SelectSignals(p)
  \/ \E b \in TriggerPkts : SelectTrigger(b)
  \/ ReadNSys
  \/ \E p \in todo : Allocate(p) \/ AllocationFails(p) \/ CircBufsFails(p)
  \/ SignalsFailed \/ TriggerFailed \/ Return
  \/ EndSession

Spec == Init /\ [][Next]_vars

-------------------------------------------------------------------------------
Fields == {"sysTables", "uploadMap", "map", "sections", "circBufs", "buf", "bufs", "tids",
           "refused", "trigSections", "oldTrigSigVals"}
Places == Fields \X Nat \X (Tids \cup {0})

TypeOK ==
  /\ nSys \in Nat /\ ptr \subseteq Places
  /\ lost \in Nat /\ nBytes \in Nat /\ oldSize \in Nat
  /\ handler \in {"idle", "term", "signals", "trigger", "signalsFailed", "triggerFailed", "crashed"}
  /\ todo \subseteq Places
  /\ pkt.tids \in Seq(SUBSET Tids) /\ pkt.size \in [Tids -> Int] /\ pkt.bytes \in Nat
  /\ careless \in BOOLEAN

\* If hosts select the signals of at least one system first, and then a trigger
\* once, then however sessions end and whatever fails no block gets lost, and a
\* trigger's signals are counted from zero: what an earlier session chose does not
\* add to the bytes that are compared in each step, or to the memory for them.
SessionsApart ==
  ~careless =>
    /\ lost = 0
    /\ handler = "trigger" /\ todo = {} =>
         nBytes = pkt.bytes /\ (pkt.bytes > 0 => oldSize = pkt.bytes)

\* Between packets an upInfo has everything that arming, recording and uploading
\* follow pointers to, or it has no systems and holds nothing: an initialization
\* that failed anywhere, and was survived, leaves no half of it.
AllOrNothing ==
  handler = "idle" =>
    \/ nSys = 0 /\ (careless \/ (ptr = {} /\ nBytes = 0))
    \/ /\ {SysTables, CircBufs, Bufs, TidList} \subseteq ptr
       /\ \A s \in 1 .. nSys : At("uploadMap", s, 0) \in ptr
       /\ \A p \in ptr : p[1] = "map" => At("sections", p[2], p[3]) \in ptr

\* Lack of memory ends the program only within an initialization, and there only
\* before there are circBufs (of its own): later it is answered (the messages for that are in
\* ext_svr.c), and neither the end of a session nor the next selection follows a
\* pointer that was never set.
LateFailureSurvived ==
  [][handler' = "crashed" =>
       /\ handler \in {"signals", "signalsFailed"}
       /\ CircBufs \notin ptr \/ careless]_vars
===============================================================================
