--------------------------- MODULE UploadMemoryProofs ---------------------------
(***************************************************************************)
(* Theorems about the memory of an upInfo (module UploadMemory), for all   *)
(* packets and any number of sample times.                                 *)
(***************************************************************************)
EXTENDS UploadMemory, FiniteSetTheorems, TLAPS

Tables == {"uploadMap", "map", "sections"}

\* What an upInfo has when signals are selected, and when none are.
SessionUp ==
  /\ nSys > 0
  /\ {SysTables, CircBufs, Bufs, TidList} \subseteq ptr
  /\ \A s \in 1 .. nSys : At("uploadMap", s, 0) \in ptr
  /\ \A p \in ptr : p[1] = "map" => At("sections", p[2], p[3]) \in ptr

NothingUp == nSys = 0 /\ (careless \/ (ptr = {} /\ nBytes = 0))

BetweenInv == handler \in {"idle", "trigger", "triggerFailed"} => NothingUp \/ SessionUp

TermInv ==
  handler = "term" =>
    NothingUp /\ todo = Allocations(pkt) /\ (pkt.tids = <<>> => careless)

\* Tables belong to the systems that UploadLogInfoTerm goes through.
BoundedInv == \A p \in ptr : p[1] \in Tables => p[2] \in 1 .. nSys

Allocated == Allocations(pkt) \ todo

\* While signals are initialized: what precedes the next place is there, and of
\* the tables nothing else.
SignalsInv ==
  handler = "signals" =>
    /\ nSys = Len(pkt.tids) /\ (nSys = 0 => careless)
    /\ todo \subseteq Allocations(pkt)
    /\ \A q \in Allocated : q \in ptr /\ \A p \in todo : Precedes(q, p)
    /\ \A p \in ptr : p[1] \in Tables => p \in Allocated
    /\ ~careless => ptr \subseteq Allocated /\ nBytes = 0

\* When that failed: the tables are complete if there are circBufs.
FailedInv ==
  handler = "signalsFailed" =>
    /\ nSys = 0 => careless
    /\ ~careless /\ CircBufs \in ptr =>
         SysTables \in ptr /\ \A s \in 1 .. nSys : At("uploadMap", s, 0) \in ptr

TriggerInv ==
  handler = "trigger" =>
    /\ todo \subseteq TriggerPlaces
    /\ ~careless =>
         /\ nSys > 0 /\ todo \cap ptr = {}
         /\ TrigSections \in todo => nBytes = 0 /\ OldTrigSigVals \in todo
         /\ TrigSections \notin todo => nBytes = pkt.bytes
         /\ OldTrigSigVals \notin todo /\ pkt.bytes > 0 => oldSize = pkt.bytes

LostInv == ~careless => lost = 0

FiniteInv == IsFiniteSet(ptr)

IInv ==
  /\ TypeOK /\ FiniteInv /\ BetweenInv /\ TermInv /\ BoundedInv
  /\ SignalsInv /\ FailedInv /\ TriggerInv /\ LostInv

-------------------------------------------------------------------------------
\* The places that the allocations for a packet k are about.
LEMMA AllocationsHold ==
  ASSUME NEW k, k.tids \in Seq(SUBSET Tids)
  PROVE  /\ {SysTables, CircBufs, Bufs, TidList} \subseteq Allocations(k)
         /\ \A s \in 1 .. Len(k.tids) : At("uploadMap", s, 0) \in Allocations(k)
<1>1. {SysTables, CircBufs, Bufs, TidList} \subseteq Allocations(k)
  BY DEF Allocations
<1>2. ASSUME NEW s \in 1 .. Len(k.tids)
      PROVE  At("uploadMap", s, 0) \in Allocations(k)
  <2>1. s \in DOMAIN k.tids
    OBVIOUS
  <2>2. At("uploadMap", s, 0) \in TableOf(k.tids[s], s)
    BY DEF TableOf
  <2> QED  BY <2>1, <2>2 DEF Allocations
<1> QED  BY <1>1, <1>2

LEMMA AllocationIs ==
  ASSUME NEW k, k.tids \in Seq(SUBSET Tids), NEW p \in Allocations(k)
  PROVE  \/ p \in {SysTables, CircBufs, Bufs, TidList}
         \/ \E s \in 1 .. Len(k.tids) : p = At("uploadMap", s, 0)
         \/ \E s \in 1 .. Len(k.tids) : \E t \in k.tids[s] :
              p = At("map", s, t) \/ p = At("sections", s, t)
         \/ \E t \in Tids : p = At("buf", 0, t) \/ p = At("refused", 0, t)
<1>1. CASE \E s \in DOMAIN k.tids : p \in TableOf(k.tids[s], s)
  <2>1. PICK s \in DOMAIN k.tids : p \in TableOf(k.tids[s], s)
    BY <1>1
  <2>2. s \in 1 .. Len(k.tids)
    OBVIOUS
  <2> QED  BY <2>1, <2>2 DEF TableOf
<1>2. CASE \E t \in Tids : p \in BufOf(k.size[t], t)
  <2>1. PICK t \in Tids : p \in BufOf(k.size[t], t)
    BY <1>2
  <2> QED  BY <2>1, Zenon DEF BufOf
<1>3. CASE p \in {SysTables, CircBufs, Bufs, TidList}
  BY <1>3
<1>4. \/ p \in {SysTables, CircBufs, Bufs, TidList}
      \/ \E s \in DOMAIN k.tids : p \in TableOf(k.tids[s], s)
      \/ \E t \in Tids : p \in BufOf(k.size[t], t)
  BY Zenon DEF Allocations
<1> QED  BY <1>1, <1>2, <1>3, <1>4

\* A map is never allocated without its sections.
LEMMA SectionsWithMap ==
  ASSUME NEW k, k.tids \in Seq(SUBSET Tids), NEW p \in Allocations(k), p[1] = "map"
  PROVE  At("sections", p[2], p[3]) \in Allocations(k)
<1>1. PICK s \in 1 .. Len(k.tids) : \E t \in k.tids[s] : p = At("map", s, t)
  BY AllocationIs DEF At, SysTables, CircBufs, Bufs, TidList
<1> PICK t \in k.tids[s] : p = At("map", s, t)
  BY <1>1
<1>2. At("sections", s, t) \in TableOf(k.tids[s], s)
  BY DEF TableOf
<1>3. s \in DOMAIN k.tids
  OBVIOUS
<1>4. At("sections", s, t) \in Allocations(k)
  BY <1>2, <1>3 DEF Allocations
<1> QED  BY <1>4 DEF At

LEMMA AllocationsTyped ==
  ASSUME NEW k, k.tids \in Seq(SUBSET Tids)
  PROVE  Allocations(k) \subseteq Places
<1> SUFFICES ASSUME NEW p \in Allocations(k) PROVE p \in Places
  OBVIOUS
<1>1. \A s \in 1 .. Len(k.tids) : s \in Nat /\ k.tids[s] \subseteq Tids
  OBVIOUS
<1>2. CASE p \in {SysTables, CircBufs, Bufs, TidList}
  BY <1>2 DEF SysTables, CircBufs, Bufs, TidList, At, Places, Fields
<1>3. CASE \E s \in 1 .. Len(k.tids) : p = At("uploadMap", s, 0)
  BY <1>3 DEF At, Places, Fields
<1>4. CASE \E s \in 1 .. Len(k.tids) : \E t \in k.tids[s] :
             p = At("map", s, t) \/ p = At("sections", s, t)
  BY <1>1, <1>4 DEF At, Places, Fields
<1>5. CASE \E t \in Tids : p = At("buf", 0, t) \/ p = At("refused", 0, t)
  BY <1>5 DEF At, Places, Fields
<1> QED  BY <1>2, <1>3, <1>4, <1>5, AllocationIs

\* Precedes is an order of the places, and a block precedes what is inside of it.
LEMMA PrecedesOneWay ==
  ASSUME NEW p \in Places, NEW q \in Places, Precedes(p, q)
  PROVE  ~Precedes(q, p)
<1>1. /\ p[2] \in Nat /\ q[2] \in Nat
      /\ p[3] \in Tids \cup {0} /\ q[3] \in Tids \cup {0}
  BY DEF Places
<1>2. p[3] \in Int /\ q[3] \in Int
  BY <1>1 DEF Tids
<1>3. Stage(p) \in Int /\ Stage(q) \in Int
  BY DEF Stage
<1> HIDE DEF Stage
<1> QED  BY <1>1, <1>2, <1>3 DEF Precedes

LEMMA InsideComesLater ==
  ASSUME NEW k, k.tids \in Seq(SUBSET Tids),
         NEW p \in Allocations(k), NEW q \in Allocations(k), Inside(p, q)
  PROVE  Precedes(p, q)
<1>1. CASE p = SysTables
  BY <1>1 DEF Inside, Precedes, Stage, SysTables, At
<1>2. CASE p = CircBufs
  BY <1>2 DEF Inside, Precedes, Stage, CircBufs, SysTables, At
<1>3. CASE p[1] = "uploadMap"
  <2>1. PICK s \in 1 .. Len(k.tids) : p = At("uploadMap", s, 0)
    BY <1>3, AllocationIs DEF At, SysTables, CircBufs, Bufs, TidList
  <2>2. q[1] \in {"map", "sections"} /\ q[2] = s
    BY <2>1 DEF Inside, At, SysTables, CircBufs
  <2>3. PICK r \in 1 .. Len(k.tids) : \E t \in k.tids[r] :
          q = At("map", r, t) \/ q = At("sections", r, t)
    BY <2>2, AllocationIs DEF At, SysTables, CircBufs, Bufs, TidList
  <2>4. q[3] \in Tids /\ q[2] = r
    BY <2>3 DEF At
  <2>5. Stage(p) = 2 /\ Stage(q) = 2
    BY <2>1, <2>2 DEF Stage, At
  <2> QED  BY <2>1, <2>2, <2>4, <2>5 DEF Precedes, At, Tids
<1>4. CASE p[1] = "map"
  <2>1. PICK s \in 1 .. Len(k.tids) : \E t \in k.tids[s] : p = At("map", s, t)
    BY <1>4, AllocationIs DEF At, SysTables, CircBufs, Bufs, TidList
  <2>2. q[1] = "sections" /\ q[2] = p[2] /\ q[3] = p[3]
    BY <2>1 DEF Inside, At, SysTables, CircBufs
  <2> QED  BY <1>4, <2>2 DEF Precedes, Stage
<1> QED  BY <1>1, <1>2, <1>3, <1>4 DEF Inside

-------------------------------------------------------------------------------
LEMMA InitIInv == Init => IInv
<1> SUFFICES ASSUME Init PROVE IInv
  OBVIOUS
<1>0. pkt.tids = <<>> /\ pkt.size \in [Tids -> Int] /\ pkt.bytes = 0
  BY DEF Init, NoPkt
<1>1. TypeOK
  <2>1. pkt.tids \in Seq(SUBSET Tids)
    BY <1>0
  <2>2. ptr \subseteq Places /\ todo \subseteq Places
    BY DEF Init
  <2>3. nSys \in Nat /\ lost \in Nat /\ nBytes \in Nat /\ oldSize \in Nat /\ pkt.bytes \in Nat
    BY <1>0 DEF Init
  <2> QED  BY <1>0, <2>1, <2>2, <2>3, Zenon DEF Init, TypeOK
<1>2. FiniteInv
  BY FS_EmptySet DEF Init, FiniteInv
<1>3. BetweenInv /\ TermInv /\ BoundedInv /\ SignalsInv /\ FailedInv /\ TriggerInv /\ LostInv
  BY DEF Init, BetweenInv, TermInv, BoundedInv, SignalsInv, FailedInv, TriggerInv, LostInv, NothingUp
<1> QED  BY <1>1, <1>2, <1>3 DEF IInv

\* UploadLogInfoTerm frees all there is.
LEMMA TermFrees ==
  ASSUME IInv, NEW next, next # "crashed", UploadLogInfoTerm(next)
  PROVE  /\ nSys' \in Nat /\ ptr' \subseteq Places /\ IsFiniteSet(ptr')
         /\ lost' \in Nat /\ nBytes' \in Nat /\ oldSize' \in Nat
         /\ lost' = lost
         /\ \A p \in ptr' : p[1] \in Tables => p[2] \in 1 .. nSys'
         /\ \/ handler' = next /\ nSys' = 0 /\ nSys = 0 /\ ptr' = ptr /\ nBytes' = nBytes
            \/ handler' = next /\ nSys' = 0 /\ ptr' = {} /\ nBytes' = 0
            \/ handler' = "crashed" /\ nSys > 0 /\ FollowsNull
<1>1. CASE nSys = 0 /\ handler' = next /\ UNCHANGED <<nSys, blocks>>
  BY <1>1 DEF IInv, TypeOK, FiniteInv, BoundedInv, blocks
<1>2. CASE nSys > 0 /\ FollowsNull /\ handler' = "crashed" /\ UNCHANGED <<nSys, blocks>>
  BY <1>2 DEF IInv, TypeOK, FiniteInv, BoundedInv, blocks
<1>3. CASE nSys > 0 /\ ~FollowsNull /\ handler' = next /\ FreeAll
  <2>1. ptr \ Freed = {}
    BY DEF IInv, BoundedInv, Freed, Tables
  <2>2. Cardinality(ptr \ Freed) = 0
    BY <2>1, FS_EmptySet
  <2>3. lost' = lost
    BY <1>3, <2>2 DEF FreeAll, IInv, TypeOK
  <2> QED  BY <1>3, <2>3, FS_EmptySet DEF FreeAll, IInv, TypeOK
<1> QED  BY <1>1, <1>2, <1>3 DEF UploadLogInfoTerm

LEMMA EndSessionKeeps == IInv /\ EndSession => IInv'
<1> SUFFICES ASSUME IInv, EndSession PROVE IInv'
  OBVIOUS
<1>1. handler = "idle" /\ UploadLogInfoTerm("idle") /\ UNCHANGED <<todo, pkt, careless>>
  BY DEF EndSession
<1>2. /\ nSys' \in Nat /\ ptr' \subseteq Places /\ IsFiniteSet(ptr')
      /\ lost' \in Nat /\ nBytes' \in Nat /\ oldSize' \in Nat
      /\ lost' = lost
      /\ \A p \in ptr' : p[1] \in Tables => p[2] \in 1 .. nSys'
      /\ \/ handler' = "idle" /\ nSys' = 0 /\ nSys = 0 /\ ptr' = ptr /\ nBytes' = nBytes
         \/ handler' = "idle" /\ nSys' = 0 /\ ptr' = {} /\ nBytes' = 0
         \/ handler' = "crashed" /\ nSys > 0 /\ FollowsNull
  BY <1>1, TermFrees
<1>3. TypeOK' /\ FiniteInv' /\ BoundedInv' /\ LostInv'
  BY <1>1, <1>2 DEF IInv, TypeOK, FiniteInv, BoundedInv, LostInv
<1>4. nSys = 0 => NothingUp
  BY <1>1 DEF IInv, BetweenInv, SessionUp, NothingUp
<1>5. BetweenInv'
  BY <1>1, <1>2, <1>4 DEF BetweenInv, NothingUp
<1>6. TermInv' /\ SignalsInv' /\ FailedInv' /\ TriggerInv'
  BY <1>2 DEF TermInv, SignalsInv, FailedInv, TriggerInv
<1> QED  BY <1>3, <1>5, <1>6 DEF IInv

LEMMA SelectSignalsKeeps == ASSUME IInv, NEW p \in SignalPkts, SelectSignals(p) PROVE IInv'
<1>1. /\ handler = "idle" /\ UploadLogInfoTerm("term")
      /\ todo' = Allocations(p) /\ pkt' = [NoPkt EXCEPT !.tids = p.tids, !.size = p.size]
      /\ careless' = (careless \/ p.tids = <<>>)
  BY DEF SelectSignals
<1>2. /\ nSys' \in Nat /\ ptr' \subseteq Places /\ IsFiniteSet(ptr')
      /\ lost' \in Nat /\ nBytes' \in Nat /\ oldSize' \in Nat
      /\ lost' = lost
      /\ \A q \in ptr' : q[1] \in Tables => q[2] \in 1 .. nSys'
      /\ \/ handler' = "term" /\ nSys' = 0 /\ nSys = 0 /\ ptr' = ptr /\ nBytes' = nBytes
         \/ handler' = "term" /\ nSys' = 0 /\ ptr' = {} /\ nBytes' = 0
         \/ handler' = "crashed" /\ nSys > 0 /\ FollowsNull
  BY <1>1, TermFrees
<1>3. p.tids \in Seq(SUBSET Tids) /\ p.size \in [Tids -> Int]
  BY UploadMemoryAssumption
<1>4. pkt'.tids = p.tids /\ pkt'.size = p.size /\ pkt'.bytes = 0
  BY <1>1 DEF NoPkt
<1>5. TypeOK'
  BY SMTT(30), <1>1, <1>2, <1>3, <1>4, AllocationsTyped DEF IInv, TypeOK
<1>6. careless => careless'
  BY <1>1
<1>7. FiniteInv' /\ BoundedInv' /\ LostInv'
  BY <1>2, <1>6 DEF IInv, FiniteInv, BoundedInv, LostInv
<1>8. nSys = 0 => NothingUp
  BY <1>1 DEF IInv, BetweenInv, SessionUp, NothingUp
<1>9. TermInv'
  <2>1. todo' = Allocations(pkt)'
    BY <1>1, <1>4 DEF Allocations
  <2> QED  BY <1>1, <1>2, <1>4, <1>6, <1>8, <2>1 DEF TermInv, NothingUp
<1>10. BetweenInv' /\ SignalsInv' /\ FailedInv' /\ TriggerInv'
  BY <1>2 DEF BetweenInv, SignalsInv, FailedInv, TriggerInv
<1> QED  BY <1>5, <1>7, <1>9, <1>10 DEF IInv

LEMMA ReadNSysKeeps == IInv /\ ReadNSys => IInv'
<1> SUFFICES ASSUME IInv, ReadNSys PROVE IInv'
  OBVIOUS
<1>1. /\ handler = "term" /\ handler' = "signals" /\ nSys' = Len(pkt.tids)
      /\ ptr' = ptr /\ lost' = lost /\ nBytes' = nBytes /\ oldSize' = oldSize
      /\ todo' = todo /\ pkt' = pkt /\ careless' = careless
  BY DEF ReadNSys, blocks
<1>2. TypeOK'
  BY <1>1 DEF IInv, TypeOK
<1>3. FiniteInv' /\ LostInv'
  BY <1>1 DEF IInv, FiniteInv, LostInv
<1>4. nSys = 0 /\ (careless \/ (ptr = {} /\ nBytes = 0))
  BY <1>1 DEF IInv, TermInv, NothingUp
<1>5. \A p \in ptr : p[1] \notin Tables
  BY <1>4 DEF IInv, BoundedInv
<1>6. BoundedInv'
  BY <1>1, <1>5 DEF BoundedInv
<1>7. todo = Allocations(pkt) /\ (pkt.tids = <<>> => careless)
  BY <1>1 DEF IInv, TermInv
<1>8. SignalsInv'
  BY <1>1, <1>4, <1>5, <1>7 DEF SignalsInv, Allocated, IInv, TypeOK
<1>9. TermInv' /\ BetweenInv' /\ FailedInv' /\ TriggerInv'
  BY <1>1 DEF TermInv, BetweenInv, FailedInv, TriggerInv
<1> QED  BY <1>2, <1>3, <1>6, <1>8, <1>9 DEF IInv

LEMMA SelectTriggerKeeps == ASSUME IInv, NEW b \in TriggerPkts, SelectTrigger(b) PROVE IInv'
<1>1. /\ handler = "idle" /\ handler' = "trigger"
      /\ todo' = (IF b > 0 THEN TriggerPlaces ELSE {})
      /\ pkt' = [NoPkt EXCEPT !.bytes = b]
      /\ careless' = (careless \/ nSys = 0 \/ ptr \cap TriggerPlaces # {} \/ nBytes > 0)
      /\ nSys' = nSys /\ ptr' = ptr /\ lost' = lost /\ nBytes' = nBytes /\ oldSize' = oldSize
  BY DEF SelectTrigger, blocks
<1>2. b \in Nat
  BY UploadMemoryAssumption
<1>3. pkt'.tids = <<>> /\ pkt'.size \in [Tids -> Int] /\ pkt'.bytes = b
  BY <1>1 DEF NoPkt
<1>4. TypeOK'
  <2>1. TriggerPlaces \subseteq Places
    BY DEF TriggerPlaces, TrigSections, OldTrigSigVals, At, Places, Fields
  <2>2. pkt'.tids \in Seq(SUBSET Tids)
    BY <1>3
  <2> QED  BY <1>1, <1>2, <1>3, <2>1, <2>2 DEF IInv, TypeOK
<1>5. careless => careless'
  BY <1>1
<1>6. FiniteInv' /\ BoundedInv' /\ LostInv'
  BY <1>1, <1>5 DEF IInv, FiniteInv, BoundedInv, LostInv
<1>7. BetweenInv'
  BY <1>1, <1>5 DEF IInv, BetweenInv, NothingUp, SessionUp
<1>8. TriggerInv'
  <2>1. todo' \subseteq TriggerPlaces /\ (TrigSections \in todo' <=> OldTrigSigVals \in todo')
    BY <1>1 DEF TriggerPlaces
  <2>2. SUFFICES ASSUME ~careless'
                 PROVE  /\ nSys' > 0 /\ todo' \cap ptr' = {}
                        /\ nBytes' = 0
                        /\ TrigSections \in todo' \/ pkt'.bytes = 0
    BY <1>2, <1>3, <2>1 DEF TriggerInv
  <2>3. nSys # 0 /\ ptr \cap TriggerPlaces = {} /\ ~(nBytes > 0)
    BY <1>1, <2>2
  <2>4. nSys \in Nat /\ nBytes \in Nat
    BY DEF IInv, TypeOK
  <2>5. nSys' > 0 /\ nBytes' = 0
    BY <1>1, <2>3, <2>4
  <2>6. todo' \cap ptr' = {}
    BY <1>1, <2>1, <2>3
  <2>7. TrigSections \in todo' \/ pkt'.bytes = 0
    BY <1>1, <1>2, <1>3 DEF TriggerPlaces
  <2> QED  BY <2>5, <2>6, <2>7
<1>9. TermInv' /\ SignalsInv' /\ FailedInv'
  BY <1>1 DEF TermInv, SignalsInv, FailedInv
<1> QED  BY <1>4, <1>6, <1>7, <1>8, <1>9 DEF IInv

LEMMA TriggerFailedKeeps == IInv /\ TriggerFailed => IInv'
<1> SUFFICES ASSUME IInv, TriggerFailed PROVE IInv'
  OBVIOUS
<1>1. /\ handler = "triggerFailed" /\ handler' = "idle"
      /\ ptr' = ptr \ TriggerPlaces /\ nBytes' = 0 /\ oldSize' = 0
      /\ nSys' = nSys /\ lost' = lost /\ todo' = todo /\ pkt' = pkt /\ careless' = careless
  BY DEF TriggerFailed
<1>2. TypeOK' /\ FiniteInv' /\ BoundedInv' /\ LostInv'
  BY <1>1, FS_Subset DEF IInv, TypeOK, FiniteInv, BoundedInv, LostInv
<1>3. \A p \in TriggerPlaces : p[1] \in {"trigSections", "oldTrigSigVals"}
  BY DEF TriggerPlaces, TrigSections, OldTrigSigVals, At
<1>4. NothingUp => NothingUp'
  BY <1>1 DEF NothingUp
<1>5. ASSUME SessionUp PROVE SessionUp'
  <2>1. /\ \A q \in {SysTables, CircBufs, Bufs, TidList} : q \notin TriggerPlaces
        /\ \A s, t : At("uploadMap", s, t) \notin TriggerPlaces
        /\ \A s, t : At("sections", s, t) \notin TriggerPlaces
    BY <1>3 DEF SysTables, CircBufs, Bufs, TidList, At
  <2> QED  BY <1>1, <1>5, <2>1 DEF SessionUp
<1>6. BetweenInv'
  BY <1>1, <1>4, <1>5 DEF IInv, BetweenInv
<1>7. TermInv' /\ SignalsInv' /\ FailedInv' /\ TriggerInv'
  BY <1>1 DEF TermInv, SignalsInv, FailedInv, TriggerInv
<1> QED  BY <1>2, <1>6, <1>7 DEF IInv

LEMMA SignalsFailedKeeps == IInv /\ SignalsFailed => IInv'
<1> SUFFICES ASSUME IInv, SignalsFailed PROVE IInv'
  OBVIOUS
<1>1. handler = "signalsFailed" /\ UploadLogInfoTerm("idle") /\ UNCHANGED <<todo, pkt, careless>>
  BY DEF SignalsFailed, FreeSignals
<1>2. /\ nSys' \in Nat /\ ptr' \subseteq Places /\ IsFiniteSet(ptr')
      /\ lost' \in Nat /\ nBytes' \in Nat /\ oldSize' \in Nat
      /\ lost' = lost
      /\ \A p \in ptr' : p[1] \in Tables => p[2] \in 1 .. nSys'
      /\ \/ handler' = "idle" /\ nSys' = 0 /\ nSys = 0 /\ ptr' = ptr /\ nBytes' = nBytes
         \/ handler' = "idle" /\ nSys' = 0 /\ ptr' = {} /\ nBytes' = 0
         \/ handler' = "crashed" /\ nSys > 0 /\ FollowsNull
  BY <1>1, TermFrees
<1>3. TypeOK' /\ FiniteInv' /\ BoundedInv' /\ LostInv'
  BY <1>1, <1>2 DEF IInv, TypeOK, FiniteInv, BoundedInv, LostInv
<1>4. nSys = 0 => careless
  BY <1>1 DEF IInv, FailedInv
<1>5. BetweenInv'
  BY <1>1, <1>2, <1>4 DEF BetweenInv, NothingUp
<1>6. TermInv' /\ SignalsInv' /\ FailedInv' /\ TriggerInv'
  BY <1>2 DEF TermInv, SignalsInv, FailedInv, TriggerInv
<1> QED  BY <1>3, <1>5, <1>6 DEF IInv

LEMMA ReturnKeeps == IInv /\ Return => IInv'
<1> SUFFICES ASSUME IInv, Return PROVE IInv'
  OBVIOUS
<1>1. /\ handler \in {"signals", "trigger"} /\ todo = {} /\ handler' = "idle"
      /\ nSys' = nSys /\ ptr' = ptr /\ lost' = lost /\ nBytes' = nBytes /\ oldSize' = oldSize
      /\ todo' = todo /\ pkt' = pkt /\ careless' = careless
  BY DEF Return, blocks
<1>2. TypeOK' /\ FiniteInv' /\ BoundedInv' /\ LostInv'
  BY <1>1 DEF IInv, TypeOK, FiniteInv, BoundedInv, LostInv
<1>3. ASSUME handler = "trigger" PROVE NothingUp' \/ SessionUp'
  BY <1>1, <1>3 DEF IInv, BetweenInv, NothingUp, SessionUp
<1>4. ASSUME handler = "signals" PROVE NothingUp' \/ SessionUp'
  <2>1. /\ nSys = Len(pkt.tids) /\ (nSys = 0 => careless)
        /\ \A q \in Allocations(pkt) : q \in ptr
        /\ \A p \in ptr : p[1] \in Tables => p \in Allocations(pkt)
    BY <1>1, <1>4 DEF IInv, SignalsInv, Allocated
  <2>2. pkt.tids \in Seq(SUBSET Tids) /\ nSys \in Nat
    BY DEF IInv, TypeOK
  <2>3. CASE nSys = 0
    BY <1>1, <2>1, <2>3 DEF NothingUp
  <2>4. CASE nSys > 0
    <3>1. ASSUME NEW p \in ptr, p[1] = "map" PROVE At("sections", p[2], p[3]) \in ptr
      BY <2>1, <2>2, <3>1, SectionsWithMap DEF Tables
    <3>2. SessionUp
      BY <2>1, <2>2, <2>4, <3>1, AllocationsHold DEF SessionUp
    <3> QED  BY <1>1, <3>2 DEF SessionUp
  <2> QED  BY <2>2, <2>3, <2>4
<1>5. BetweenInv'
  BY <1>1, <1>3, <1>4 DEF BetweenInv
<1>6. TermInv' /\ SignalsInv' /\ FailedInv' /\ TriggerInv'
  BY <1>1 DEF TermInv, SignalsInv, FailedInv, TriggerInv
<1> QED  BY <1>2, <1>5, <1>6 DEF IInv

-------------------------------------------------------------------------------
\* What the places of a trigger, and those of the signals, have nothing to do with.
LEMMA TriggerPlacesApart ==
  ASSUME NEW p \in TriggerPlaces
  PROVE  /\ p[1] \notin Tables \cup {"refused"}
         /\ p \notin {SysTables, CircBufs, Bufs, TidList}
         /\ \A q : ~Inside(p, q)
<1>1. p = TrigSections \/ p = OldTrigSigVals
  BY DEF TriggerPlaces
<1> QED  BY <1>1 DEF TrigSections, OldTrigSigVals, SysTables, CircBufs, Bufs, TidList, At,
                     Tables, Inside

\* UploadInitTrigger leaves what a session of signals has as it is.
LEMMA TriggerKeepsSession ==
  ASSUME IInv, NEW p \in TriggerPlaces
  PROVE  /\ Overwritten(p) \subseteq {p}
         /\ SessionUp =>
              \A s : s = ptr \/ s = (ptr \ {p}) \cup {p} \/ s = ptr \ {p} =>
                /\ {SysTables, CircBufs, Bufs, TidList} \subseteq s
                /\ \A i \in 1 .. nSys : At("uploadMap", i, 0) \in s
                /\ \A q \in s : q[1] = "map" => At("sections", q[2], q[3]) \in s
<1>1. Overwritten(p) \subseteq {p}
  BY TriggerPlacesApart DEF Overwritten
<1>2. /\ p[1] \notin Tables
      /\ p \notin {SysTables, CircBufs, Bufs, TidList}
  BY TriggerPlacesApart
<1>3. \A i, t : At("uploadMap", i, t) # p /\ At("sections", i, t) # p
  BY <1>2 DEF At, Tables
<1>4. p[1] # "map"
  BY <1>2 DEF Tables
<1> QED  BY <1>1, <1>2, <1>3, <1>4 DEF SessionUp

\* UploadLogInfoInit overwrites nothing that it has allocated itself.
LEMMA AllocatedSurvives ==
  ASSUME IInv, handler = "signals", NEW p \in todo, NEW q \in Allocated
  PROVE  q \notin Overwritten(p)
<1>1. /\ p \in Allocations(pkt) /\ q \in Allocations(pkt) /\ q \notin todo
      /\ Precedes(q, p) /\ pkt.tids \in Seq(SUBSET Tids)
  BY DEF IInv, SignalsInv, Allocated, TypeOK
<1>2. p \in Places /\ q \in Places
  BY <1>1, AllocationsTyped
<1>3. ~Inside(p, q)
  BY <1>1, <1>2, InsideComesLater, PrecedesOneWay
<1> QED  BY <1>1, <1>3 DEF Overwritten

\* A host that selects as expected makes the program overwrite nothing at all.
LEMMA NothingOverwritten ==
  ASSUME IInv, ~careless, NEW p \in todo, Allocating(p)
  PROVE  Overwritten(p) = {}
<1>1. CASE handler = "signals"
  <2>1. ptr \subseteq Allocated
    BY <1>1 DEF IInv, SignalsInv
  <2>2. \A q \in ptr : q \notin Overwritten(p)
    BY <1>1, <2>1, AllocatedSurvives
  <2> QED  BY <2>2 DEF Overwritten
<1>2. CASE handler = "trigger"
  <2>1. p \in TriggerPlaces /\ p \notin ptr
    BY <1>2 DEF IInv, TriggerInv
  <2> QED  BY <2>1, TriggerPlacesApart DEF Overwritten
<1> QED  BY <1>1, <1>2 DEF Allocating

\* The blocks that get lost are counted, and none of a host that selects as expected.
LEMMA LossCounted ==
  ASSUME IInv, NEW p \in todo, Allocating(p), lost' = lost + Cardinality(Overwritten(p)),
         careless' = careless
  PROVE  lost' \in Nat /\ LostInv'
<1>1. IsFiniteSet(Overwritten(p))
  BY FS_Subset DEF Overwritten, IInv, FiniteInv
<1>2. Cardinality(Overwritten(p)) \in Nat
  BY <1>1, FS_CardinalityType
<1>3. ~careless => Cardinality(Overwritten(p)) = 0
  BY NothingOverwritten, FS_EmptySet
<1> QED  BY <1>2, <1>3 DEF IInv, TypeOK, LostInv

\* An allocation that succeeds: in UploadLogInfoInit, and in UploadInitTrigger.
LEMMA AllocateSignalsKeeps ==
  ASSUME IInv, NEW p \in todo, Allocate(p), handler = "signals" PROVE IInv'
<1>1. /\ Allocating(p) /\ p[1] # "refused" /\ handler' = handler
      /\ ptr' = (ptr \ Overwritten(p)) \cup {p}
      /\ lost' = lost + Cardinality(Overwritten(p))
      /\ nBytes' = (IF p = TrigSections THEN nBytes + pkt.bytes ELSE nBytes)
      /\ oldSize' = (IF p = OldTrigSigVals THEN nBytes ELSE oldSize)
      /\ todo' = todo \ {p} /\ nSys' = nSys /\ pkt' = pkt /\ careless' = careless
  BY DEF Allocate
<1>2. /\ nSys = Len(pkt.tids) /\ todo \subseteq Allocations(pkt)
      /\ pkt.tids \in Seq(SUBSET Tids) /\ p \in Places
  BY DEF IInv, SignalsInv, TypeOK
<1>3. /\ p \notin TriggerPlaces
      /\ p[1] \in Tables => p[2] \in 1 .. nSys
  BY <1>2, AllocationIs
     DEF TriggerPlaces, TrigSections, OldTrigSigVals, SysTables, CircBufs, Bufs, TidList, At, Tables
<1>4. nBytes' = nBytes /\ oldSize' = oldSize
  BY <1>1, <1>3 DEF TriggerPlaces
<1>5. lost' \in Nat /\ LostInv'
  BY <1>1, LossCounted
<1>6. TypeOK'
  BY <1>1, <1>2, <1>4, <1>5 DEF IInv, TypeOK
<1>7. FiniteInv'
  <2>1. IsFiniteSet(ptr \ Overwritten(p))
    BY FS_Subset DEF IInv, FiniteInv
  <2> QED  BY <1>1, <2>1, FS_AddElement DEF FiniteInv
<1>8. BoundedInv'
  BY <1>1, <1>3 DEF IInv, BoundedInv
<1>9. SignalsInv'
  <2>1. Allocated' = Allocated \cup {p}
    <3>1. Allocations(pkt)' = Allocations(pkt)
      BY <1>1 DEF Allocations
    <3> QED  BY <1>1, <1>2, <3>1 DEF Allocated
  <2>2. ASSUME NEW q \in Allocated' PROVE q \in ptr' /\ \A r \in todo' : Precedes(q, r)
    <3>1. CASE q = p
      BY <1>1, <3>1 DEF Allocating
    <3>2. CASE q \in Allocated
      <4>1. q \in ptr /\ q \notin Overwritten(p) /\ \A r \in todo : Precedes(q, r)
        BY <3>2, AllocatedSurvives DEF IInv, SignalsInv
      <4> QED  BY <1>1, <4>1
    <3> QED  BY <2>1, <2>2, <3>1, <3>2
  <2>3. \A q \in ptr' : q[1] \in Tables => q \in Allocated'
    BY <1>1, <2>1 DEF IInv, SignalsInv
  <2>4. ~careless' => ptr' \subseteq Allocated' /\ nBytes' = 0
    BY <1>1, <1>4, <2>1 DEF IInv, SignalsInv
  <2>5. nSys' = Len(pkt'.tids) /\ (nSys' = 0 => careless')
    BY <1>1, <1>2 DEF IInv, SignalsInv
  <2>6. todo' \subseteq Allocations(pkt)'
    BY <1>1, <1>2 DEF Allocations
  <2> QED  BY <2>2, <2>3, <2>4, <2>5, <2>6 DEF SignalsInv, Precedes, Stage
<1>10. BetweenInv' /\ TermInv' /\ FailedInv' /\ TriggerInv'
  BY <1>1 DEF BetweenInv, TermInv, FailedInv, TriggerInv
<1> QED  BY <1>5, <1>6, <1>7, <1>8, <1>9, <1>10 DEF IInv

LEMMA AllocateTriggerKeeps ==
  ASSUME IInv, NEW p \in todo, Allocate(p), handler = "trigger" PROVE IInv'
<1>1. /\ Allocating(p) /\ handler' = handler
      /\ ptr' = (ptr \ Overwritten(p)) \cup {p}
      /\ lost' = lost + Cardinality(Overwritten(p))
      /\ nBytes' = (IF p = TrigSections THEN nBytes + pkt.bytes ELSE nBytes)
      /\ oldSize' = (IF p = OldTrigSigVals THEN nBytes ELSE oldSize)
      /\ todo' = todo \ {p} /\ nSys' = nSys /\ pkt' = pkt /\ careless' = careless
  BY DEF Allocate
<1>2. todo \subseteq TriggerPlaces /\ p \in TriggerPlaces /\ p \in Places
  BY DEF IInv, TriggerInv, TypeOK
<1>3. p[1] \notin Tables /\ Overwritten(p) \subseteq {p}
  BY <1>2, TriggerPlacesApart, TriggerKeepsSession
<1>4. ptr' = (ptr \ {p}) \cup {p} /\ ptr' = ptr \cup {p}
  BY <1>1, <1>3
<1>5. lost' \in Nat /\ LostInv'
  BY <1>1, LossCounted
<1>6. nBytes' \in Nat /\ oldSize' \in Nat
  BY <1>1 DEF IInv, TypeOK
<1>7. TypeOK'
  BY <1>1, <1>2, <1>4, <1>5, <1>6 DEF IInv, TypeOK
<1>8. FiniteInv' /\ BoundedInv'
  BY <1>1, <1>3, <1>4, FS_AddElement DEF IInv, FiniteInv, BoundedInv
<1>9. BetweenInv'
  <2>1. NothingUp => careless
    BY <1>1 DEF IInv, TriggerInv, NothingUp, TypeOK
  <2>2. NothingUp => NothingUp'
    BY <1>1, <2>1 DEF NothingUp
  <2>3. SessionUp => SessionUp'
    BY <1>1, <1>2, <1>4, TriggerKeepsSession DEF SessionUp
  <2> QED  BY <1>1, <2>2, <2>3 DEF IInv, BetweenInv
<1>10. TriggerInv'
  <2>1. todo' \subseteq TriggerPlaces
    BY <1>1, <1>2
  <2>2. TrigSections # OldTrigSigVals /\ ~Precedes(OldTrigSigVals, TrigSections)
    BY DEF TrigSections, OldTrigSigVals, At, Precedes, Stage
  <2>3. SUFFICES ASSUME ~careless'
                 PROVE  /\ nSys' > 0 /\ todo' \cap ptr' = {}
                        /\ TrigSections \in todo' => nBytes' = 0 /\ OldTrigSigVals \in todo'
                        /\ TrigSections \notin todo' => nBytes' = pkt'.bytes
                        /\ OldTrigSigVals \notin todo' /\ pkt'.bytes > 0 => oldSize' = pkt'.bytes
    BY <2>1 DEF TriggerInv
  <2>4. /\ nSys > 0 /\ todo \cap ptr = {}
        /\ TrigSections \in todo => nBytes = 0 /\ OldTrigSigVals \in todo
        /\ TrigSections \notin todo => nBytes = pkt.bytes
        /\ OldTrigSigVals \notin todo /\ pkt.bytes > 0 => oldSize = pkt.bytes
        /\ pkt.bytes \in Nat
    BY <1>1, <2>3 DEF IInv, TriggerInv, TypeOK
  <2>5. nSys' > 0 /\ todo' \cap ptr' = {}
    BY <1>1, <1>4, <2>4
  <2>6. CASE p = TrigSections
    BY <1>1, <2>2, <2>4, <2>5, <2>6
  <2>7. CASE p = OldTrigSigVals
    <3>1. TrigSections \notin todo
      BY <1>1, <2>2, <2>7 DEF Allocating
    <3> QED  BY <1>1, <2>2, <2>4, <2>5, <2>7, <3>1
  <2> QED  BY <1>2, <2>6, <2>7 DEF TriggerPlaces
<1>11. TermInv' /\ FailedInv' /\ SignalsInv'
  BY <1>1 DEF TermInv, FailedInv, SignalsInv
<1> QED  BY <1>5, <1>7, <1>8, <1>9, <1>10, <1>11 DEF IInv

LEMMA AllocateKeeps == ASSUME IInv, NEW p \in todo, Allocate(p) PROVE IInv'
<1>1. handler = "signals" \/ handler = "trigger"
  BY DEF Allocate, Allocating
<1> QED  BY <1>1, AllocateSignalsKeeps, AllocateTriggerKeeps

\* What holds after an allocation that failed, whatever it was for.
LEMMA FailureKeeps ==
  ASSUME IInv, NEW p \in todo, Allocating(p), ptr' = ptr \ Overwritten(p),
         lost' = lost + Cardinality(Overwritten(p)), todo' = {},
         handler' \in {"signalsFailed", "triggerFailed", "crashed"},
         UNCHANGED <<nSys, nBytes, oldSize, pkt, careless>>
  PROVE  /\ TypeOK' /\ FiniteInv' /\ BoundedInv' /\ LostInv'
         /\ TermInv' /\ SignalsInv' /\ TriggerInv'
<1>1. lost' \in Nat /\ LostInv'
  BY LossCounted
<1>2. TypeOK'
  BY <1>1 DEF IInv, TypeOK
<1>3. FiniteInv' /\ BoundedInv'
  BY FS_Subset DEF IInv, FiniteInv, BoundedInv
<1>4. TermInv' /\ SignalsInv' /\ TriggerInv'
  BY DEF TermInv, SignalsInv, TriggerInv
<1> QED  BY <1>1, <1>2, <1>3, <1>4

LEMMA AllocationFailsKeeps == ASSUME IInv, NEW p \in todo, AllocationFails(p) PROVE IInv'
<1>1. /\ Allocating(p) /\ p # CircBufs /\ ptr' = ptr \ Overwritten(p)
      /\ lost' = lost + Cardinality(Overwritten(p)) /\ todo' = {}
      /\ handler' = (IF handler = "signals" THEN "signalsFailed" ELSE "triggerFailed")
      /\ UNCHANGED <<nSys, nBytes, oldSize, pkt, careless>>
  BY DEF AllocationFails
<1>2. /\ TypeOK' /\ FiniteInv' /\ BoundedInv' /\ LostInv'
      /\ TermInv' /\ SignalsInv' /\ TriggerInv'
  BY <1>1, FailureKeeps
<1>3. ASSUME handler = "signals" PROVE BetweenInv' /\ FailedInv'
  <2>1. BetweenInv'
    BY <1>1, <1>3 DEF BetweenInv
  <2>2. nSys = Len(pkt.tids) /\ (nSys = 0 => careless) /\ pkt.tids \in Seq(SUBSET Tids)
    BY <1>3 DEF IInv, SignalsInv, TypeOK
  <2>3. ASSUME ~careless, CircBufs \in ptr
        PROVE  SysTables \in ptr /\ \A s \in 1 .. nSys : At("uploadMap", s, 0) \in ptr
    <3>1. \A r \in todo : Precedes(CircBufs, r)
      BY <1>3, <2>3 DEF IInv, SignalsInv
    <3>2. SysTables \notin todo /\ \A s \in 1 .. nSys : At("uploadMap", s, 0) \notin todo
      BY <3>1 DEF Precedes, Stage, SysTables, CircBufs, At
    <3>3. \A q \in Allocated : q \in ptr
      BY <1>3 DEF IInv, SignalsInv
    <3> QED  BY <2>2, <3>2, <3>3, AllocationsHold DEF Allocated
  <2>4. ~careless => Overwritten(p) = {}
    BY <1>1, NothingOverwritten
  <2>5. FailedInv'
    BY <1>1, <2>2, <2>3, <2>4 DEF FailedInv
  <2> QED  BY <2>1, <2>5
<1>4. ASSUME handler = "trigger" PROVE BetweenInv' /\ FailedInv'
  <2>1. p \in TriggerPlaces
    BY <1>4 DEF IInv, TriggerInv
  <2>2. ptr' = ptr \/ ptr' = ptr \ {p}
    BY <1>1, <2>1, TriggerKeepsSession
  <2>3. NothingUp => NothingUp'
    BY <1>1, <2>2 DEF NothingUp
  <2>4. SessionUp => SessionUp'
    BY <1>1, <2>1, <2>2, TriggerKeepsSession DEF SessionUp
  <2>5. BetweenInv'
    BY <1>4, <2>3, <2>4 DEF IInv, BetweenInv
  <2>6. FailedInv'
    BY <1>1, <1>4 DEF FailedInv
  <2> QED  BY <2>5, <2>6
<1> QED  BY <1>1, <1>2, <1>3, <1>4 DEF IInv, Allocating

LEMMA CircBufsFailsKeeps == ASSUME IInv, NEW p \in todo, CircBufsFails(p) PROVE IInv'
<1>1. /\ Allocating(p) /\ p = CircBufs /\ ptr' = ptr \ Overwritten(p)
      /\ lost' = lost + Cardinality(Overwritten(p)) /\ todo' = {}
      /\ handler' \in {"signalsFailed", "crashed"}
      /\ UNCHANGED <<nSys, nBytes, oldSize, pkt, careless>>
  BY DEF CircBufsFails
<1>2. /\ TypeOK' /\ FiniteInv' /\ BoundedInv' /\ LostInv'
      /\ TermInv' /\ SignalsInv' /\ TriggerInv'
  BY <1>1, FailureKeeps
<1>3. handler = "signals"
  <2>1. handler = "trigger" => p \in TriggerPlaces
    BY DEF IInv, TriggerInv
  <2> QED  BY <1>1, <2>1, TriggerPlacesApart DEF Allocating
<1>4. CircBufs \notin ptr'
  BY <1>1 DEF Overwritten
<1>5. nSys = 0 => careless
  BY <1>3 DEF IInv, SignalsInv
<1>6. BetweenInv' /\ FailedInv'
  BY <1>1, <1>4, <1>5 DEF BetweenInv, FailedInv
<1> QED  BY <1>2, <1>6 DEF IInv

\* Every step keeps the invariant.
LEMMA NextIInv == IInv /\ [Next]_vars => IInv'
<1> SUFFICES ASSUME IInv, [Next]_vars PROVE IInv'
  OBVIOUS
<1>1. ASSUME NEW p \in SignalPkts, SelectSignals(p) PROVE IInv'
  BY <1>1, SelectSignalsKeeps
<1>2. ASSUME NEW b \in TriggerPkts, SelectTrigger(b) PROVE IInv'
  BY <1>2, SelectTriggerKeeps
<1>3. ASSUME NEW p \in todo, Allocate(p) \/ AllocationFails(p) \/ CircBufsFails(p) PROVE IInv'
  BY <1>3, AllocateKeeps, AllocationFailsKeeps, CircBufsFailsKeeps
<1>4. CASE ReadNSys
  BY <1>4, ReadNSysKeeps
<1>5. CASE SignalsFailed \/ TriggerFailed
  BY <1>5, SignalsFailedKeeps, TriggerFailedKeeps
<1>6. CASE Return \/ EndSession
  BY <1>6, ReturnKeeps, EndSessionKeeps
<1>7. CASE UNCHANGED vars
  <2>1. /\ nSys' = nSys /\ ptr' = ptr /\ lost' = lost /\ nBytes' = nBytes /\ oldSize' = oldSize
        /\ handler' = handler /\ todo' = todo /\ pkt' = pkt /\ careless' = careless
    BY <1>7 DEF vars, blocks
  <2>2. TypeOK' /\ FiniteInv' /\ BoundedInv' /\ LostInv'
    BY <2>1 DEF IInv, TypeOK, FiniteInv, BoundedInv, LostInv
  <2>3. BetweenInv' /\ TermInv' /\ FailedInv' /\ TriggerInv'
    BY <2>1 DEF IInv, BetweenInv, NothingUp, SessionUp, TermInv, Allocations, FailedInv, TriggerInv
  <2>4. SignalsInv'
    <3>1. Allocations(pkt)' = Allocations(pkt)
      BY <2>1 DEF Allocations
    <3>2. Allocated' = Allocated
      BY <2>1, <3>1 DEF Allocated
    <3> QED  BY <2>1, <3>1, <3>2 DEF IInv, SignalsInv
  <2> QED  BY <2>2, <2>3, <2>4 DEF IInv
<1> QED  BY <1>1, <1>2, <1>3, <1>4, <1>5, <1>6, <1>7 DEF Next

\* The inductive invariant holds in every state.
THEOREM Invariance == Spec => []IInv
BY InitIInv, NextIInv, PTL DEF Spec

-------------------------------------------------------------------------------
\* The state is of its types.
THEOREM TypeCorrect == Spec => []TypeOK
<1>1. IInv => TypeOK
  BY DEF IInv
<1> QED  BY <1>1, Invariance, PTL

\* No block gets lost, and a trigger's bytes are counted from zero, whatever fails,
\* if hosts select in the order that UploadLogInfoInit and UploadInitTrigger expect.
THEOREM NothingLost == Spec => []SessionsApart
<1>1. IInv => SessionsApart
  BY DEF IInv, LostInv, TriggerInv, SessionsApart
<1> QED  BY <1>1, Invariance, PTL

\* An upInfo between two packets is complete, or has no systems.
THEOREM NoHalfSession == Spec => []AllOrNothing
<1>1. IInv => AllOrNothing
  BY DEF IInv, BetweenInv, NothingUp, SessionUp, AllOrNothing
<1> QED  BY <1>1, Invariance, PTL

\* The steps that end the program are those of an initialization without circBufs.
LEMMA CrashStep ==
  ASSUME IInv, [Next]_vars
  PROVE  \/ handler' = "crashed" =>
              handler \in {"signals", "signalsFailed"} /\ (CircBufs \notin ptr \/ careless)
         \/ UNCHANGED vars
<1> SUFFICES ASSUME Next, handler' = "crashed"
             PROVE  handler \in {"signals", "signalsFailed"} /\ (CircBufs \notin ptr \/ careless)
  OBVIOUS
<1>1. ASSUME handler = "idle" PROVE ~(nSys > 0 /\ FollowsNull)
  BY <1>1 DEF IInv, BetweenInv, NothingUp, SessionUp, FollowsNull
<1>2. ASSUME NEW p \in SignalPkts, SelectSignals(p) PROVE FALSE
  BY <1>1, <1>2 DEF SelectSignals, UploadLogInfoTerm
<1>3. CASE EndSession
  BY <1>1, <1>3 DEF EndSession, UploadLogInfoTerm
<1>4. CASE SignalsFailed
  <2>1. handler = "signalsFailed" /\ FollowsNull
    BY <1>4 DEF SignalsFailed, FreeSignals, UploadLogInfoTerm
  <2> QED  BY <2>1 DEF IInv, FailedInv, FollowsNull
<1>5. ASSUME NEW p \in todo, CircBufsFails(p)
      PROVE  handler \in {"signals", "signalsFailed"} /\ (CircBufs \notin ptr \/ careless)
  <2>1. p = CircBufs /\ Allocating(p)
    BY <1>5 DEF CircBufsFails
  <2>2. handler = "trigger" => p \in TriggerPlaces
    BY DEF IInv, TriggerInv
  <2>3. handler = "signals"
    BY <2>1, <2>2, TriggerPlacesApart DEF Allocating
  <2>4. ~careless => Overwritten(p) = {}
    BY <2>1, NothingOverwritten
  <2> QED  BY <2>1, <2>3, <2>4 DEF Overwritten
<1>6. ASSUME NEW p \in todo, Allocate(p) \/ AllocationFails(p) PROVE FALSE
  BY <1>6 DEF Allocate, AllocationFails, Allocating
<1>7. ASSUME NEW b \in TriggerPkts, SelectTrigger(b) PROVE FALSE
  BY <1>7 DEF SelectTrigger
<1>8. CASE ReadNSys \/ TriggerFailed \/ Return
  BY <1>8 DEF ReadNSys, TriggerFailed, Return
<1> QED  BY <1>2, <1>3, <1>4, <1>5, <1>6, <1>7, <1>8 DEF Next

\* Lack of memory once there are circBufs does not end the program, nor does
\* the end of a session, if hosts select as expected.
THEOREM LateFailure == Spec => LateFailureSurvived
<1>1. IInv /\ [Next]_vars =>
        [handler' = "crashed" =>
           handler \in {"signals", "signalsFailed"} /\ (CircBufs \notin ptr \/ careless)]_vars
  BY CrashStep
<1> QED  BY <1>1, Invariance, PTL DEF Spec, LateFailureSurvived
===============================================================================
