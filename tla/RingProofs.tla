----------------------------- MODULE RingProofs -----------------------------
(***************************************************************************)
(* Proofs about Ring for a ring of any size, any callers and any order in  *)
(* which stores leave the write-combining buffer and the engine runs.      *)
(***************************************************************************)
EXTENDS Ring, SequenceTheorems, TLAPS

\* A submission has stored no more than its dwords, all behind the place where
\* it found the tail.
CallInv ==
  pc \in {"emit", "oops"} => emitted <= tail /\ emitted <= Len(job.dwords)

TypeInv == TypeOK /\ CallInv
-----------------------------------------------------------------------------
\* The constants and the ring's positions as numbers.
LEMMA RingNumbers ==
  ASSUME TypeInv
  PROVE  /\ Size \in Nat \ {0} /\ Size % 2 = 0 /\ FreeSpace \in Nat \ {0}
         /\ emitted \in Nat /\ tail \in Nat /\ space \in Int
         /\ tailReg \in Nat /\ head \in Nat /\ tailReg < Size /\ head < Size
         /\ Len(sent) \in Nat /\ Len(ran) \in Nat
         /\ job \in Job /\ job.reserve \in Nat /\ job.dwords \in Seq(Dwords)
         /\ Len(job.dwords) \in Nat
<1>1. Size \in Nat \ {0} /\ Size % 2 = 0 /\ FreeSpace \in Nat \ {0}
  BY RingAssumption
<1>2. /\ emitted \in Nat /\ tail \in Nat /\ space \in Int
      /\ tailReg \in Nat /\ head \in Nat /\ tailReg < Size /\ head < Size
  <2>1. /\ emitted \in 0 .. Size /\ tail \in 0 .. Size /\ space \in Int
        /\ tailReg \in 0 .. Size - 1 /\ head \in 0 .. Size - 1
    BY DEF TypeInv, TypeOK
  <2> QED
    BY <1>1, <2>1
<1>3. Len(sent) \in Nat /\ Len(ran) \in Nat
  <2>1. sent \in Seq(Dwords) /\ ran \in Seq(Dwords)
    BY DEF TypeInv, TypeOK
  <2> QED
    BY <2>1
<1>4. job \in Job
  <2>1. NoJob \in Job
    BY DEF NoJob, Job
  <2> QED
    BY <2>1, RingAssumption DEF TypeInv, TypeOK
<1>5. job.reserve \in Nat /\ job.dwords \in Seq(Dwords)
  BY <1>4 DEF Job
<1> QED
  BY <1>1, <1>2, <1>3, <1>4, <1>5

\* A position in the ring.
LEMMA Position ==
  ASSUME NEW p \in Int
  PROVE  p % Size \in 0 .. Size - 1
BY RingAssumption

\* RING_TAIL cuts a tail down to the quadword it ends.
LEMMA QuadwordBounds ==
  ASSUME NEW t \in Nat
  PROVE  /\ Quadword(t) \in Nat /\ Quadword(t) <= t /\ t <= Quadword(t) + 1
         /\ Quadword(t) % 2 = 0
BY DEF Quadword

\* The start of the ring.
LEMMA RingInitType == Init => TypeInv
<1> SUFFICES ASSUME Init PROVE TypeInv
  OBVIOUS
<1>1. Size \in Nat \ {0} /\ FreeSpace \in Nat \ {0} /\ MaxPolls \in Nat
  BY RingAssumption
<1>2. /\ emitted \in 0 .. Size /\ tail \in 0 .. Size /\ polls \in 0 .. MaxPolls
      /\ tailReg \in 0 .. Size - 1 /\ head \in 0 .. Size - 1
  BY <1>1 DEF Init
<1>3. space \in Int
  BY <1>1 DEF Init, RingSpace
<1>4. buffer \in [0 .. Size - 1 -> Dwords] /\ DOMAIN wc = {}
  BY DEF Init, Dwords
<1>5. /\ pc = "idle" /\ job = NoJob /\ verdict = "none" /\ tested = FALSE
      /\ ended \subseteq Batches /\ slot = "zero" /\ lost = FALSE /\ engine = "ring"
      /\ sent \in Seq(Dwords) /\ ran \in Seq(Dwords)
  BY DEF Init, Batches
<1>6. TypeOK
  BY <1>2, <1>3, <1>4, <1>5 DEF TypeOK
<1> QED
  BY <1>5, <1>6 DEF TypeInv, CallInv

\* Letting stores land leaves types as they are.
LEMMA RingLandTypes ==
  ASSUME TypeInv, NEW stores \in SUBSET DOMAIN wc, Land(stores)
  PROVE  /\ buffer' \in [0 .. Size - 1 -> Dwords]
         /\ DOMAIN wc' \subseteq 0 .. Size - 1
         /\ \A p \in DOMAIN wc' : wc'[p] \in Dwords
BY DEF TypeInv, TypeOK, Land

\* Submissions.
LEMMA SubmitType ==
  ASSUME TypeInv, (\E j \in Jobs : Pick(j)) \/ Submit
  PROVE  TypeInv'
<1> USE DEF callVars, roomVars, pollVars, storeVars, statusVars, engineVars
<1>t. TypeOK
  BY DEF TypeInv
<1>n. /\ Size \in Nat \ {0} /\ emitted \in Nat /\ tail \in Nat /\ space \in Int
      /\ Len(job.dwords) \in Nat /\ job.reserve \in Nat /\ job.dwords \in Seq(Dwords)
      /\ MaxPolls \in Nat
  BY RingNumbers, RingAssumption
<1>1. ASSUME NEW j \in Jobs, Pick(j) PROVE TypeInv'
  <2>1. ended' \subseteq Batches
    BY <1>1, <1>t DEF Pick, Terminated, TypeOK, Batches
  <2>2. slot' \in Dwords \cup {"zero", "mark"}
    BY <1>1, <1>t DEF Pick, Mark, TypeOK
  <2>3. tested' \in BOOLEAN
    <3>1. j.test \in BOOLEAN
      BY RingAssumption DEF Job
    <3> QED
      BY <1>1, <1>t, <3>1 DEF Pick, TypeOK
  <2>4. pc' = "begin" /\ job' \in Jobs
    BY <1>1 DEF Pick
  <2>5. TypeOK'
    BY <1>1, <1>t, <2>1, <2>2, <2>3, <2>4 DEF Pick, TypeOK
  <2> QED
    BY <2>4, <2>5 DEF TypeInv, CallInv
<1>2. CASE Begin
  <2>1. space' \in Int
    BY <1>2, <1>n DEF Begin, Taken
  <2>2. emitted' = 0 /\ 0 \in 0 .. Size /\ pc' = "emit" /\ job' = job /\ tail' = tail
    BY <1>2, <1>n DEF Begin
  <2>3. TypeOK'
    BY <1>2, <1>t, <2>1, <2>2 DEF Begin, TypeOK
  <2> QED
    BY <1>n, <2>2, <2>3 DEF TypeInv, CallInv
<1>3. CASE Emit
  <2> DEFINE dword == job.dwords[emitted + 1]
  <2>1. /\ pc = "emit" /\ pc' = "emit" /\ emitted < Len(job.dwords) /\ tail < Size
        /\ emitted <= tail /\ tail' = tail + 1 /\ emitted' = emitted + 1 /\ job' = job
    BY <1>3 DEF Emit, TypeInv, CallInv
  <2>2. dword \in Dwords /\ tail \in 0 .. Size - 1
    BY <1>n, <2>1
  <2>3. tail' \in 0 .. Size /\ emitted' \in 0 .. Size
    BY <1>n, <2>1
  <2> HIDE DEF dword
  <2>4. /\ wc' = [p \in DOMAIN wc \cup {tail} |-> IF p = tail THEN dword ELSE wc[p]]
        /\ sent' = Append(sent, dword)
    BY <1>3 DEF Emit, dword
  <2>5. /\ DOMAIN wc' \subseteq 0 .. Size - 1
        /\ \A p \in DOMAIN wc' : wc'[p] \in Dwords
        /\ sent' \in Seq(Dwords)
    <3>1. /\ DOMAIN wc \subseteq 0 .. Size - 1 /\ sent \in Seq(Dwords)
          /\ \A p \in DOMAIN wc : wc[p] \in Dwords
      BY <1>t DEF TypeOK
    <3>2. sent' \in Seq(Dwords)
      BY <2>2, <2>4, <3>1
    <3> QED
      BY <2>2, <2>4, <3>1, <3>2
  <2>6. TypeOK'
    BY <1>3, <1>t, <2>3, <2>5 DEF Emit, TypeOK
  <2>7. emitted' <= tail' /\ emitted' <= Len(job.dwords)
    BY <1>n, <2>1
  <2> QED
    BY <2>1, <2>6, <2>7 DEF TypeInv, CallInv
<1>4. CASE EmitBeyond
  <2>1. TypeOK'
    BY <1>4, <1>t DEF EmitBeyond, TypeOK
  <2> QED
    BY <1>4, <2>1 DEF EmitBeyond, TypeInv, CallInv
<1>5. CASE Advance
  <2>1. tail' \in 0 .. Size - 1 /\ tail' \in 0 .. Size /\ tail' \in Nat
    <3>1. tail' \in 0 .. Size - 1
      BY <1>5, <1>n, Position DEF Advance, Wrapped
    <3> QED
      BY <1>n, <3>1
  <2>2. Quadword(tail') \in 0 .. Size - 1
    <3>1. Quadword(tail') \in Nat /\ Quadword(tail') <= tail'
      BY <2>1, QuadwordBounds
    <3> QED
      BY <1>n, <2>1, <3>1
  <2>3. tailReg' \in 0 .. Size - 1
    BY <1>5, <1>t, <2>2 DEF Advance, TypeOK
  <2>4. /\ buffer' \in [0 .. Size - 1 -> Dwords]
        /\ DOMAIN wc' \subseteq 0 .. Size - 1
        /\ \A p \in DOMAIN wc' : wc'[p] \in Dwords
    BY <1>5, RingLandTypes DEF Advance, Pushed
  <2>5. /\ pc' \in {"poll", "idle"} /\ polls' = 0 /\ 0 \in 0 .. MaxPolls
        /\ lost' \in BOOLEAN
    BY <1>5, <1>n DEF Advance
  <2>6. TypeOK'
    BY <1>5, <1>t, <2>1, <2>3, <2>4, <2>5 DEF Advance, TypeOK
  <2> QED
    BY <2>5, <2>6 DEF TypeInv, CallInv
<1>6. CASE Poll
  <2>1. polls' \in 0 .. MaxPolls /\ pc' \in {"poll", "report"}
    <3>1. polls \in 0 .. MaxPolls /\ pc = "poll"
      BY <1>6, <1>t DEF Poll, TypeOK
    <3>2. CASE polls < MaxPolls /\ slot = "mark"
      BY <1>6, <1>n, <3>1, <3>2 DEF Poll
    <3>3. CASE ~(polls < MaxPolls /\ slot = "mark")
      BY <1>6, <1>n, <3>1, <3>3 DEF Poll
    <3> QED
      BY <3>2, <3>3
  <2>2. TypeOK'
    BY <1>6, <1>t, <2>1 DEF Poll, TypeOK
  <2> QED
    BY <2>1, <2>2 DEF TypeInv, CallInv
<1>7. CASE Report
  <2>1. pc' = "idle" /\ verdict' \in {"Thanks God", "Help GOD"}
    BY <1>7 DEF Report
  <2>2. TypeOK'
    BY <1>7, <1>t, <2>1 DEF Report, TypeOK
  <2> QED
    BY <2>1, <2>2 DEF TypeInv, CallInv
<1> QED
  BY <1>1, <1>2, <1>3, <1>4, <1>5, <1>6, <1>7 DEF Submit

\* What the engine finds at a place behind its head.
At(k) == buffer[(head + k) % Size]

\* A command has one to three dwords.
LEMMA CommandLength ==
  ASSUME NEW d
  PROVE  Length(d) \in 1 .. 3
BY DEF Length

\* What the engine does to run a command.
LEMMA ExecuteEffect ==
  ASSUME TypeInv, Execute
  PROVE  /\ \A k \in Nat : At(k) \in Dwords
         /\ Length(At(0)) <= (tailReg - head) % Size
         /\ head' = (head + Length(At(0))) % Size
         /\ ran' = ran \o [k \in 1 .. Length(At(0)) |-> At(k - 1)]
         /\ engine' \in Dwords \cup {"ring"} /\ slot' \in Dwords \cup {slot}
         /\ UNCHANGED <<driverVars, storeVars, ended, tailReg, lost>>
<1>1. \A k \in Nat : At(k) \in Dwords
  <2> SUFFICES ASSUME NEW k \in Nat PROVE At(k) \in Dwords
    OBVIOUS
  <2>1. (head + k) % Size \in 0 .. Size - 1
    <3>1. head + k \in Int
      BY RingNumbers
    <3> QED
      BY <3>1, Position
  <2> QED
    BY <2>1 DEF At, TypeInv, TypeOK
<1>2. At(0) \in Dwords /\ At(1) \in Dwords /\ At(2) \in Dwords
  BY <1>1
<1>3. /\ engine' \in Dwords \cup {"ring"} /\ slot' \in Dwords \cup {slot}
  BY <1>2 DEF Execute, At
<1> QED
  BY <1>1, <1>3 DEF Execute, At

\* The types of the driver's variables and of the rest: two halves of TypeOK,
\* which the provers take one at a time.
DriverTypes ==
  /\ pc \in {"idle", "begin", "emit", "poll", "report", "oops"}
  /\ job \in Jobs \cup {NoJob}
  /\ emitted \in 0 .. Size
  /\ space \in Int
  /\ tail \in 0 .. Size
  /\ polls \in 0 .. MaxPolls
  /\ verdict \in {"none", "Thanks God", "Help GOD"}
  /\ tested \in BOOLEAN
DeviceTypes ==
  /\ buffer \in [0 .. Size - 1 -> Dwords]
  /\ DOMAIN wc \subseteq 0 .. Size - 1
  /\ \A p \in DOMAIN wc : wc[p] \in Dwords
  /\ ended \subseteq Batches
  /\ slot \in Dwords \cup {"zero", "mark"}
  /\ lost \in BOOLEAN
  /\ tailReg \in 0 .. Size - 1 /\ head \in 0 .. Size - 1
  /\ engine \in Dwords \cup {"ring"}
  /\ sent \in Seq(Dwords) /\ ran \in Seq(Dwords)

\* TypeOK is its two halves.
LEMMA TypeHalves == TypeOK <=> DriverTypes /\ DeviceTypes
<1> QED
  BY DEF TypeOK, DriverTypes, DeviceTypes

\* And so it is after a step.
LEMMA TypeHalvesNext == TypeOK' <=> DriverTypes' /\ DeviceTypes'
<1> QED
  BY TypeHalves, PTL

\* The write-combining buffer and the engine.
LEMMA DeviceType ==
  ASSUME TypeInv, (\E p \in 0 .. Size - 1 : Drain(p)) \/ Engine
  PROVE  TypeInv'
<1> USE DEF driverVars, callVars, roomVars, pollVars, storeVars, statusVars, engineVars
<1>t. TypeOK /\ DriverTypes /\ DeviceTypes
  BY TypeHalves DEF TypeInv
<1>1. ASSUME NEW p \in 0 .. Size - 1, Drain(p) PROVE TypeInv'
  <2>1. /\ buffer' \in [0 .. Size - 1 -> Dwords]
        /\ DOMAIN wc' \subseteq 0 .. Size - 1
        /\ \A q \in DOMAIN wc' : wc'[q] \in Dwords
    BY <1>1, RingLandTypes DEF Drain
  <2>2. /\ pc' = pc /\ job' = job /\ emitted' = emitted /\ space' = space
        /\ tail' = tail /\ polls' = polls /\ verdict' = verdict /\ tested' = tested
        /\ ended' = ended /\ slot' = slot /\ tailReg' = tailReg /\ lost' = lost
        /\ head' = head /\ engine' = engine /\ sent' = sent /\ ran' = ran
    BY <1>1 DEF Drain
  <2>3. TypeOK'
    <3>1. DriverTypes'
      BY <1>t, <2>2 DEF DriverTypes
    <3>2. DeviceTypes'
      BY <1>t, <2>1, <2>2 DEF DeviceTypes
    <3> QED
      BY <3>1, <3>2, TypeHalvesNext
  <2> QED
    BY <2>2, <2>3 DEF TypeInv, CallInv
<1>2. CASE Execute
  <2> DEFINE n == Length(At(0))
  <2>1. n \in 1 .. 3
    BY CommandLength
  <2>2. head' \in 0 .. Size - 1
    <3>1. head + n \in Int
      BY <2>1, RingNumbers
    <3> QED
      BY <1>2, <3>1, ExecuteEffect, Position
  <2>3. ran' \in Seq(Dwords)
    <3>1. \A k \in 1 .. n : At(k - 1) \in Dwords
      <4>1. \A k \in 1 .. n : k - 1 \in Nat
        BY <2>1
      <4> QED
        BY <1>2, <4>1, ExecuteEffect
    <3> HIDE DEF n
    <3> DEFINE new == [k \in 1 .. n |-> At(k - 1)]
    <3>2. new \in Seq(Dwords)
      BY <2>1, <3>1
    <3>3. ran' = ran \o new
      BY <1>2, ExecuteEffect DEF n
    <3> HIDE DEF new
    <3>4. ran \in Seq(Dwords)
      BY <1>t DEF TypeOK
    <3> QED
      BY <3>2, <3>3, <3>4
  <2>4. /\ engine' \in Dwords \cup {"ring"} /\ slot' \in Dwords \cup {"zero", "mark"}
        /\ UNCHANGED <<driverVars, storeVars, ended, tailReg, lost>>
    BY <1>2, <1>t, ExecuteEffect DEF TypeOK
  <2>5. TypeOK'
    <3>1. DriverTypes'
      BY <1>t, <2>4 DEF DriverTypes
    <3>2. DeviceTypes'
      BY <1>t, <2>2, <2>3, <2>4 DEF DeviceTypes
    <3> QED
      BY <3>1, <3>2, TypeHalvesNext
  <2> QED
    BY <2>4, <2>5 DEF TypeInv, CallInv
<1>3. CASE BatchEnd
  <2>1. TypeOK'
    BY <1>3, <1>t DEF BatchEnd, TypeOK
  <2> QED
    BY <1>3, <2>1 DEF BatchEnd, TypeInv, CallInv
<1> QED
  BY <1>1, <1>2, <1>3 DEF Engine

\* No step leaves the types.
LEMMA RingTypeStep == TypeInv /\ [Next]_vars => TypeInv'
<1> SUFFICES ASSUME TypeInv, [Next]_vars PROVE TypeInv'
  OBVIOUS
<1>1. CASE UNCHANGED vars
  <2>1. /\ pc' = pc /\ job' = job /\ emitted' = emitted /\ space' = space
        /\ tail' = tail /\ polls' = polls /\ verdict' = verdict /\ tested' = tested
        /\ buffer' = buffer /\ wc' = wc /\ ended' = ended /\ slot' = slot
        /\ tailReg' = tailReg /\ lost' = lost /\ head' = head /\ engine' = engine
        /\ sent' = sent /\ ran' = ran
    BY <1>1 DEF vars, driverVars, callVars, roomVars, pollVars, storeVars, statusVars,
       engineVars
  <2>2. DriverTypes /\ DeviceTypes
    BY TypeHalves DEF TypeInv
  <2>3. DriverTypes'
    BY <2>1, <2>2 DEF DriverTypes
  <2>4. DeviceTypes'
    BY <2>1, <2>2 DEF DeviceTypes
  <2> QED
    BY <2>1, <2>3, <2>4, TypeHalvesNext DEF TypeInv, CallInv
<1> QED
  BY <1>1, SubmitType, DeviceType DEF Next

\* Type correctness, for any ring, callers and number of polls.
THEOREM RingTypeCorrect == Spec => []TypeOK
<1>1. TypeInv => TypeOK
  BY DEF TypeInv
<1> QED
  BY <1>1, RingInitType, RingTypeStep, PTL DEF Spec
-----------------------------------------------------------------------------
(* The account of nugpgpu_ring_begin *)

\* What the account does not show yet: dwords that are still to be emitted,
\* and before nugpgpu_ring_begin also the reservation.
Coming ==
  IF pc = "begin" THEN Len(job.dwords) - job.reserve
    ELSE IF pc \in {"emit", "oops"} THEN Len(job.dwords) - emitted ELSE 0

\* What has been sent, what is coming and what is left.
Account == Len(sent) + Coming + space

\* The reserve is there as long as the one test has not used it.
RoomInv == Account + (IF tested THEN 0 ELSE FreeSpace) <= Size

\* As long as the account is not overdrawn the ring has not been gone round.
TailInv ==
  space >= 0 => tail = Len(sent) \/ (tail = 0 /\ Len(sent) = Size)

\* The driver runs into the end of the mapping with something left to emit.
OopsInv == pc = "oops" => tail = Size /\ emitted < Len(job.dwords)

AccountInv == RoomInv /\ TailInv /\ OopsInv

\* The account changes only when a job is picked that will not emit what it
\* reserves.
LEMMA AccountStep ==
  ASSUME TypeInv, Next
  PROVE  \/ /\ \E j \in Jobs : /\ Pick(j)
                               /\ Account' = Account + Len(j.dwords) - j.reserve
            /\ UNCHANGED <<sent, space, tail>>
         \/ Account' = Account /\ UNCHANGED tested
<1> USE DEF callVars, roomVars, pollVars, storeVars, statusVars, engineVars, driverVars
<1>n. /\ emitted \in Nat /\ space \in Int /\ Len(sent) \in Nat
      /\ Len(job.dwords) \in Nat /\ job.reserve \in Nat /\ job.dwords \in Seq(Dwords)
      /\ sent \in Seq(Dwords)
  BY RingNumbers DEF TypeInv, TypeOK
<1>1. ASSUME NEW j \in Jobs, Pick(j)
      PROVE  /\ Account' = Account + Len(j.dwords) - j.reserve
             /\ UNCHANGED <<sent, space, tail>>
  <2>1. /\ Coming = 0 /\ Coming' = Len(j.dwords) - j.reserve
        /\ UNCHANGED <<sent, space, tail>>
    BY <1>1 DEF Pick, Coming
  <2>2. Len(j.dwords) \in Nat /\ j.reserve \in Nat
    BY RingAssumption DEF Job
  <2> QED
    BY <1>n, <2>1, <2>2 DEF Account
<1>2. CASE Begin
  <2>1. /\ Coming = Len(job.dwords) - job.reserve /\ Coming' = Len(job.dwords) - 0
        /\ space' = space - job.reserve /\ sent' = sent /\ tested' = tested
    BY <1>2 DEF Begin, Taken, Coming
  <2>2. /\ Account = Len(sent) + (Len(job.dwords) - job.reserve) + space
        /\ Account' = Len(sent) + (Len(job.dwords) - 0) + (space - job.reserve)
    BY <2>1 DEF Account
  <2>3. Account' = Account
    BY <1>n, <2>2
  <2> QED
    BY <2>1, <2>3
<1>3. CASE Emit
  <2> DEFINE dword == job.dwords[emitted + 1]
  <2>1. /\ Coming = Len(job.dwords) - emitted
        /\ Coming' = Len(job.dwords) - (emitted + 1)
        /\ space' = space /\ tested' = tested /\ emitted < Len(job.dwords)
        /\ sent' = Append(sent, dword)
    BY <1>3 DEF Emit, Coming
  <2>2. dword \in Dwords
    BY <1>n, <2>1
  <2> HIDE DEF dword
  <2>3. Len(sent') = Len(sent) + 1
    BY <1>n, <2>1, <2>2
  <2>4. /\ Account = Len(sent) + (Len(job.dwords) - emitted) + space
        /\ Account' = (Len(sent) + 1) + (Len(job.dwords) - (emitted + 1)) + space
    BY <2>1, <2>3 DEF Account
  <2> DEFINE a == Len(sent)
             b == Len(job.dwords)
  <2>5. a \in Int /\ b \in Int /\ emitted \in Int /\ space \in Int
    BY <1>n
  <2>6. /\ Account = a + (b - emitted) + space
        /\ Account' = (a + 1) + (b - (emitted + 1)) + space
    BY <2>4
  <2> HIDE DEF a, b
  <2>7. Account' = Account
    BY <2>5, <2>6
  <2> QED
    BY <2>1, <2>7
<1>4. CASE EmitBeyond
  <2>1. Coming' = Coming /\ UNCHANGED <<sent, space, tested>>
    BY <1>4 DEF EmitBeyond, Coming
  <2> QED
    BY <2>1 DEF Account
<1>5. CASE Advance
  <2>1. pc = "emit" /\ emitted = Len(job.dwords) /\ pc' \in {"poll", "idle"}
    BY <1>5 DEF Advance
  <2>2. Coming = 0 /\ Coming' = 0
    BY <1>n, <2>1 DEF Coming
  <2> QED
    BY <1>5, <2>2 DEF Account, Advance
<1>6. CASE Poll \/ Report
  <2>1. Coming' = Coming /\ UNCHANGED <<sent, space, tested>>
    BY <1>6 DEF Poll, Report, Coming
  <2> QED
    BY <2>1 DEF Account
<1>7. CASE (\E p \in 0 .. Size - 1 : Drain(p)) \/ Engine
  <2>1. UNCHANGED driverVars
    BY <1>7 DEF Drain, Engine, Execute, BatchEnd
  <2>2. Coming' = Coming
    BY <2>1 DEF Coming
  <2> QED
    BY <2>1, <2>2 DEF Account
<1> QED
  BY <1>1, <1>2, <1>3, <1>4, <1>5, <1>6, <1>7 DEF Next, Submit

\* The account of an empty ring.
LEMMA AccountInit == Init => Account = Size - FreeSpace /\ AccountInv
<1> SUFFICES ASSUME Init PROVE Account = Size - FreeSpace /\ AccountInv
  OBVIOUS
<1>1. Size \in Nat /\ FreeSpace \in Nat \ {0} /\ FreeSpace < Size
  BY RingAssumption
<1>2. space = Size - FreeSpace
  <2>1. space = LET free == 0 - (0 + FreeSpace) IN IF free < 0 THEN free + Size ELSE free
    BY DEF Init, RingSpace
  <2> QED
    BY <1>1, <2>1
<1>3. Len(sent) = 0 /\ Coming = 0 /\ tail = 0 /\ pc = "idle" /\ tested = FALSE
  BY DEF Init, Coming
<1>4. Account = Size - FreeSpace
  BY <1>1, <1>2, <1>3 DEF Account
<1>5. RoomInv
  BY <1>1, <1>3, <1>4 DEF RoomInv
<1> QED
  BY <1>3, <1>4, <1>5 DEF AccountInv, TailInv, OopsInv

\* It may be below zero before nugpgpu_ring_begin.
LEMMA ComingIsInt ==
  ASSUME TypeInv
  PROVE  Coming \in Int
<1>1. /\ Len(job.dwords) \in Nat /\ job.reserve \in Nat /\ emitted \in Nat
  BY RingNumbers
<1> QED
  BY <1>1 DEF Coming

\* What a job takes beyond its reservation comes out of the reserve.
LEMMA RoomStep ==
  ASSUME SmallExcess, TypeInv, RoomInv, Next
  PROVE  RoomInv'
<1> USE DEF callVars
<1>n. Account \in Int /\ FreeSpace \in Nat /\ Size \in Nat
  BY ComingIsInt, RingNumbers DEF Account
<1>1. CASE Account' = Account /\ UNCHANGED tested
  BY <1>1 DEF RoomInv
<1>2. ASSUME NEW j \in Jobs, Pick(j), Account' = Account + Len(j.dwords) - j.reserve
      PROVE  RoomInv'
  <2>1. /\ Len(j.dwords) \in Nat /\ j.reserve \in Nat /\ j.test \in BOOLEAN
    BY RingAssumption DEF Job
  <2>2. CASE j.test
    <3>1. ~tested /\ tested'
      BY <1>2, <2>2 DEF Pick
    <3>2. Len(j.dwords) <= j.reserve + FreeSpace
      BY <2>2 DEF SmallExcess
    <3>3. Account + FreeSpace <= Size
      BY <3>1 DEF RoomInv
    <3>4. Account' <= Size
      BY <1>n, <1>2, <2>1, <3>2, <3>3
    <3> QED
      BY <1>n, <1>2, <2>1, <3>1, <3>4 DEF RoomInv
  <2>3. CASE ~j.test
    <3>1. tested' <=> tested
      BY <1>2, <2>3 DEF Pick
    <3>2. Len(j.dwords) <= j.reserve
      <4>1. Len(j.dwords) <= j.reserve + 0
        BY <2>3 DEF SmallExcess
      <4> QED
        BY <2>1, <4>1
    <3> DEFINE r == IF tested THEN 0 ELSE FreeSpace
               new == Account'
    <3>3. Account + r <= Size /\ r \in Int
      BY <1>n DEF RoomInv
    <3>4. new = Account + Len(j.dwords) - j.reserve
      BY <1>2
    <3>5. (RoomInv)' <=> new + r <= Size
      BY <3>1 DEF RoomInv
    <3> HIDE DEF new, r
    <3>6. new + r <= Size
      BY <1>n, <2>1, <3>2, <3>3, <3>4
    <3> QED
      BY <3>5, <3>6
  <2> QED
    BY <2>1, <2>2, <2>3
<1> QED
  BY <1>1, <1>2, AccountStep

\* While the account is not overdrawn, what is sent and coming fits the ring.
LEMMA RoomLeft ==
  ASSUME TypeInv, RoomInv, space >= 0
  PROVE  Len(sent) + Coming <= Size /\ Coming \in Int
<1>1. /\ Len(sent) \in Int /\ space \in Int /\ Size \in Nat /\ FreeSpace \in Nat
      /\ Coming \in Int
  BY ComingIsInt, RingNumbers
<1> DEFINE r == IF tested THEN 0 ELSE FreeSpace
<1>2. r \in Nat
  BY <1>1
<1>3. Len(sent) + Coming + space + r <= Size
  BY DEF RoomInv, Account
<1> HIDE DEF r
<1> QED
  BY <1>1, <1>2, <1>3

\* A dword that is emitted while the account is not overdrawn goes right behind
\* what was sent before, in a place of its own.
LEMMA EmitTail ==
  ASSUME TypeInv, AccountInv, Emit, space >= 0
  PROVE  tail = Len(sent) /\ Len(sent) < Size
<1>1. /\ emitted \in Nat /\ Len(sent) \in Nat /\ Size \in Nat \ {0}
      /\ Len(job.dwords) \in Nat
  BY RingNumbers
<1>2. /\ Coming = Len(job.dwords) - emitted /\ emitted < Len(job.dwords)
  BY DEF Emit, Coming
<1>3. Len(sent) + Coming <= Size
  BY RoomLeft DEF AccountInv
<1>4. Len(sent) < Size
  BY <1>1, <1>2, <1>3
<1> QED
  BY <1>1, <1>4 DEF AccountInv, TailInv

\* The tail goes round the ring only with the last dword there is room for.
LEMMA TailStep ==
  ASSUME SmallExcess, TypeInv, AccountInv, Next
  PROVE  AccountInv'
<1> USE DEF callVars, roomVars, pollVars, storeVars, statusVars, engineVars, driverVars
<1>n. /\ emitted \in Nat /\ space \in Int /\ Len(sent) \in Nat /\ tail \in Nat
      /\ Size \in Nat \ {0}
      /\ Len(job.dwords) \in Nat /\ job.reserve \in Nat /\ job.dwords \in Seq(Dwords)
      /\ sent \in Seq(Dwords)
  BY RingNumbers DEF TypeInv, TypeOK
<1>r. RoomInv'
  BY RoomStep DEF AccountInv
<1>t. /\ space >= 0 => tail = Len(sent) \/ (tail = 0 /\ Len(sent) = Size)
      /\ pc = "oops" => tail = Size /\ emitted < Len(job.dwords)
  BY DEF AccountInv, TailInv, OopsInv
<1>1. CASE \/ (\E j \in Jobs : Pick(j)) \/ EmitBeyond \/ Poll \/ Report
           \/ (\E p \in 0 .. Size - 1 : Drain(p)) \/ Engine
  <2>1. UNCHANGED <<sent, space, tail>>
    BY <1>1 DEF Pick, EmitBeyond, Poll, Report, Drain, Engine, Execute, BatchEnd
  <2>2. TailInv'
    BY <1>t, <2>1 DEF TailInv
  <2>3. OopsInv'
    BY <1>1, <1>t DEF Pick, EmitBeyond, Poll, Report, Drain, Engine, Execute,
       BatchEnd, OopsInv
  <2> QED
    BY <1>r, <2>2, <2>3 DEF AccountInv
<1>2. CASE Begin
  <2>1. UNCHANGED <<sent, tail>> /\ space' = space - job.reserve /\ pc' = "emit"
    BY <1>2 DEF Begin, Taken
  <2>2. space' >= 0 => space >= 0
    BY <1>n, <2>1
  <2>3. TailInv' /\ OopsInv'
    BY <1>t, <2>1, <2>2 DEF TailInv, OopsInv
  <2> QED
    BY <1>r, <2>3 DEF AccountInv
<1>3. CASE Emit
  <2> DEFINE dword == job.dwords[emitted + 1]
  <2>1. /\ pc = "emit" /\ pc' = "emit" /\ emitted < Len(job.dwords)
        /\ tail' = tail + 1 /\ space' = space /\ sent' = Append(sent, dword)
    BY <1>3 DEF Emit
  <2>2. dword \in Dwords
    BY <1>n, <2>1
  <2> HIDE DEF dword
  <2>3. Len(sent') = Len(sent) + 1
    BY <1>n, <2>1, <2>2
  <2>4. ASSUME space >= 0 PROVE tail = Len(sent)
    BY <1>3, <2>4, EmitTail
  <2>5. TailInv' /\ OopsInv'
    BY <2>1, <2>3, <2>4 DEF TailInv, OopsInv
  <2> QED
    BY <1>r, <2>5 DEF AccountInv
<1>4. CASE Advance
  <2>1. tail' = tail % Size /\ UNCHANGED <<space, sent>> /\ pc' \in {"poll", "idle"}
    BY <1>4 DEF Advance, Wrapped
  <2>2. tail \in 0 .. Size
    BY DEF TypeInv, TypeOK
  <2>3. CASE tail < Size
    <3>1. tail % Size = tail
      BY <1>n, <2>2, <2>3
    <3> QED
      BY <1>r, <1>t, <2>1, <3>1 DEF AccountInv, TailInv, OopsInv
  <2>4. CASE tail = Size
    <3>1. tail % Size = 0
      BY <1>n, <2>4
    <3>2. TailInv' /\ OopsInv'
      BY <1>t, <1>n, <2>1, <2>4, <3>1 DEF TailInv, OopsInv
    <3> QED
      BY <1>r, <3>2 DEF AccountInv
  <2> QED
    BY <1>n, <2>2, <2>3, <2>4
<1> QED
  BY <1>1, <1>2, <1>3, <1>4 DEF Next, Submit

\* The account is kept by every step.
LEMMA AccountStutter ==
  ASSUME SmallExcess, TypeInv, AccountInv, [Next]_vars
  PROVE  AccountInv'
<1>1. CASE UNCHANGED vars
  BY <1>1 DEF vars, driverVars, callVars, roomVars, AccountInv, RoomInv, TailInv,
     OopsInv, Account, Coming
<1> QED
  BY <1>1, TailStep

\* ring_emit stays inside the mapping until the account that nobody looks at is
\* overdrawn.
THEOREM RingKeepsInside ==
  ASSUME SmallExcess
  PROVE  Spec => []SpaceKeepsInside
<1>1. Init => TypeInv /\ AccountInv
  BY RingInitType, AccountInit
<1>2. TypeInv /\ AccountInv /\ [Next]_vars => (TypeInv /\ AccountInv)'
  BY RingTypeStep, AccountStutter
<1>3. TypeInv /\ AccountInv => SpaceKeepsInside
  <2> SUFFICES ASSUME TypeInv, AccountInv, pc = "oops", space >= 0 PROVE FALSE
    BY RingNumbers DEF SpaceKeepsInside
  <2>1. tail = Size /\ emitted < Len(job.dwords) /\ Coming = Len(job.dwords) - emitted
    BY DEF AccountInv, OopsInv, Coming
  <2>2. Len(sent) + Coming <= Size
    BY RoomLeft DEF AccountInv
  <2>3. Size \in Nat \ {0} /\ emitted \in Nat /\ Len(job.dwords) \in Nat
    BY RingNumbers
  <2>4. Len(sent) = Size
    BY <2>1, <2>3 DEF AccountInv, TailInv
  <2> QED
    BY <2>1, <2>2, <2>3, <2>4
<1> QED
  BY <1>1, <1>2, <1>3, PTL DEF Spec

\* Between submissions ring->space agrees with head and tail, if every caller
\* emits what it reserves.
THEOREM RingSpaceMatches ==
  ASSUME ExactJobs
  PROVE  Spec => []SpaceMatchesTail
<1>0. SmallExcess
  <2> SUFFICES ASSUME NEW j \in Jobs
               PROVE  Len(j.dwords) <= j.reserve + (IF j.test THEN FreeSpace ELSE 0)
    BY DEF SmallExcess
  <2>1. j.reserve \in Nat /\ Len(j.dwords) = j.reserve
    BY RingAssumption DEF ExactJobs, Job
  <2> DEFINE e == IF j.test THEN FreeSpace ELSE 0
  <2>2. e \in Nat
    BY RingAssumption
  <2> HIDE DEF e
  <2>3. Len(j.dwords) <= j.reserve + e
    BY <2>1, <2>2
  <2> QED
    BY <2>3 DEF e
<1> DEFINE Exact == Account = Size - FreeSpace
<1>1. Init => TypeInv /\ AccountInv /\ Exact
  BY RingInitType, AccountInit
<1>2. TypeInv /\ AccountInv /\ Exact /\ [Next]_vars => (TypeInv /\ AccountInv /\ Exact)'
  <2> SUFFICES ASSUME TypeInv, AccountInv, Exact, [Next]_vars
               PROVE  (TypeInv /\ AccountInv /\ Exact)'
    OBVIOUS
  <2>1. (TypeInv /\ AccountInv)'
    BY <1>0, RingTypeStep, AccountStutter
  <2>2. Account' = Account
    <3>1. CASE UNCHANGED vars
      BY <3>1 DEF vars, driverVars, callVars, roomVars, Account, Coming
    <3>2. CASE Next
      <4>1. ASSUME NEW j \in Jobs, Account' = Account + Len(j.dwords) - j.reserve
            PROVE  Account' = Account
        <5>1. Len(j.dwords) = j.reserve /\ j.reserve \in Nat
          BY RingAssumption DEF ExactJobs, Job
        <5>2. Account \in Int
          BY RingAssumption
        <5> QED
          BY <4>1, <5>1, <5>2
      <4> QED
        BY <3>2, <4>1, AccountStep
    <3> QED
      BY <3>1, <3>2
  <2> QED
    BY <2>1, <2>2
<1>3. TypeInv /\ AccountInv /\ Exact => SpaceMatchesTail
  <2> SUFFICES ASSUME TypeInv, AccountInv, Exact, pc = "idle", space >= 0
               PROVE  space = RingSpace(0, tail)
    BY DEF SpaceMatchesTail
  <2>1. /\ Size \in Nat /\ FreeSpace \in Nat \ {0} /\ FreeSpace < Size
        /\ space \in Int /\ Len(sent) \in Nat
    BY RingNumbers, RingAssumption
  <2>2. Coming = 0 /\ Len(sent) + Coming + space = Size - FreeSpace
    BY DEF Coming, Account
  <2>3. Len(sent) + space = Size - FreeSpace
    BY <2>1, <2>2
  <2>4. Len(sent) # Size
    BY <2>1, <2>3
  <2>5. tail = Len(sent)
    BY <2>4 DEF AccountInv, TailInv
  <2>6. RingSpace(0, tail) = Size - FreeSpace - tail
    <3> DEFINE free == 0 - (tail + FreeSpace)
    <3>1. free < 0 /\ free + Size = Size - FreeSpace - tail
      BY <2>1, <2>5
    <3> QED
      BY <3>1 DEF RingSpace
  <2> QED
    BY <2>1, <2>3, <2>5, <2>6
<1> QED
  BY <1>1, <1>2, <1>3, PTL DEF Spec
-----------------------------------------------------------------------------
(* What the engine runs *)

\* How many dwords have been run or lie between head and RING_TAIL.
Published == Len(ran) + ((tailReg - head) % Size)

\* What the engine may run is whole quadwords that were sent, the first ones.
PublishedInv ==
  space >= 0 =>
    /\ head = Len(ran) % Size
    /\ Published <= Len(sent)
    /\ Published % 2 = 0

\* What a place of the ring holds, or will when its store arrives.
InRing(p) == IF p \in DOMAIN wc THEN wc[p] ELSE buffer[p]

\* The dwords sent are in the ring or on their way to it, the published ones
\* in the ring, and those that were run are the first ones.
StoredInv ==
  space >= 0 =>
    /\ \A p \in 0 .. Len(sent) - 1 : InRing(p) = sent[p + 1]
    /\ \A p \in DOMAIN wc : Published <= p
    /\ \A k \in 1 .. Len(ran) : ran[k] = sent[k]

DataInv == PublishedInv /\ StoredInv

\* Positions modulo the size of the ring.
LEMMA Ahead ==
  ASSUME NEW t \in 0 .. Size - 1, NEW h \in 0 .. Size - 1
  PROVE  /\ t >= h => (t - h) % Size = t - h
         /\ t < h => (t - h) % Size = t - h + Size
<1>1. Size \in Nat \ {0}
  BY RingAssumption
<1>2. ASSUME NEW d \in Int, 0 <= d, d < Size PROVE d % Size = d
  BY <1>1, <1>2
<1>3. ASSUME NEW d \in Int, 0 - Size < d, d < 0 PROVE d % Size = d + Size
  <2> DEFINE q == d \div Size
             r == d % Size
  <2>1. q \in Int /\ r \in 0 .. Size - 1
    BY <1>1
  <2>2. d = Size * q + r
    BY <1>1
  <2> HIDE DEF q, r
  <2>3. q = -1
    BY <1>1, <1>3, <2>1, <2>2
  <2>4. r = d + Size
    BY <1>1, <2>1, <2>2, <2>3
  <2> QED
    BY <2>4 DEF r
<1> QED
  BY <1>1, <1>2, <1>3

\* The invariant as numbers, while the account is not overdrawn.
LEMMA DataNumbers ==
  ASSUME TypeInv, AccountInv, DataInv, space >= 0
  PROVE  /\ Len(ran) \in Nat /\ Published \in Nat /\ Len(sent) \in Nat
         /\ Len(ran) <= Published /\ Published <= Len(sent) /\ Len(sent) <= Size
         /\ head = Len(ran) % Size
<1>1. Len(ran) \in Nat /\ Len(sent) \in Nat /\ Size \in Nat \ {0} /\ tail \in 0 .. Size
  BY RingNumbers DEF TypeInv, TypeOK
<1>2. (tailReg - head) % Size \in 0 .. Size - 1
  <2>1. tailReg - head \in Int
    BY RingNumbers
  <2> QED
    BY <2>1, Position
<1> DEFINE d == (tailReg - head) % Size
<1>3. Published = Len(ran) + d /\ d \in 0 .. Size - 1
  BY <1>2 DEF Published
<1> HIDE DEF d
<1>4. Published \in Nat /\ Len(ran) <= Published
  BY <1>1, <1>3
<1>5. Len(sent) <= Size
  BY <1>1 DEF AccountInv, TailInv
<1> QED
  BY <1>1, <1>4, <1>5 DEF DataInv, PublishedInv

\* The empty ring.
LEMMA DataInit == Init => DataInv
<1> SUFFICES ASSUME Init PROVE DataInv
  OBVIOUS
<1>1. /\ tailReg = 0 /\ head = 0 /\ Len(ran) = 0 /\ Len(sent) = 0 /\ DOMAIN wc = {}
  BY DEF Init
<1>2. 0 % Size = 0 /\ (0 - 0) % Size = 0
  BY RingAssumption
<1>3. Published = 0
  BY <1>1, <1>2 DEF Published
<1> QED
  BY <1>1, <1>2, <1>3 DEF DataInv, PublishedInv, StoredInv

\* Letting stores land changes nothing about what the ring will hold.
LEMMA RingLand ==
  ASSUME TypeInv, NEW stores \in SUBSET DOMAIN wc, Land(stores)
  PROVE  /\ \A p \in 0 .. Size - 1 : InRing(p)' = InRing(p)
         /\ DOMAIN wc' = DOMAIN wc \ stores
<1>1. /\ buffer' = [p \in DOMAIN buffer |-> IF p \in stores THEN wc[p] ELSE buffer[p]]
      /\ wc' = [p \in DOMAIN wc \ stores |-> wc[p]]
      /\ DOMAIN buffer = 0 .. Size - 1
  BY DEF Land, TypeInv, TypeOK
<1> QED
  BY <1>1 DEF InRing

\* The submissions but for the tail write leave what is published alone.
LEMMA DataKept ==
  ASSUME TypeInv, AccountInv, DataInv, UNCHANGED <<sent, ran, head, tailReg>>,
         space' >= 0 => space >= 0,
         \A p \in 0 .. Size - 1 : InRing(p)' = InRing(p),
         DOMAIN wc' \subseteq DOMAIN wc
  PROVE  DataInv'
<1>1. Published' = Published
  BY DEF Published
<1>2. PublishedInv'
  BY <1>1 DEF DataInv, PublishedInv
<1>3. ASSUME space' >= 0, NEW p \in 0 .. Len(sent) - 1 PROVE InRing(p)' = sent[p + 1]
  <2>1. p \in 0 .. Size - 1
    BY <1>3, DataNumbers, RingNumbers
  <2> QED
    BY <1>3, <2>1 DEF DataInv, StoredInv
<1>4. StoredInv'
  BY <1>1, <1>3 DEF DataInv, StoredInv
<1> QED
  BY <1>2, <1>4 DEF DataInv

\* A dword that is emitted goes to a place the engine may not run yet.
LEMMA DataEmit ==
  ASSUME TypeInv, AccountInv, DataInv, Emit
  PROVE  DataInv'
<1> USE DEF engineVars
<1> DEFINE dword == job.dwords[emitted + 1]
           S == Len(sent)
<1>1. /\ space' = space /\ emitted < Len(job.dwords) /\ buffer' = buffer
      /\ sent' = Append(sent, dword)
      /\ wc' = [p \in DOMAIN wc \cup {tail} |-> IF p = tail THEN dword ELSE wc[p]]
      /\ UNCHANGED <<tailReg, head, ran>>
  BY DEF Emit
<1>2. dword \in Dwords /\ sent \in Seq(Dwords) /\ S \in Nat
  <2>1. /\ job.dwords \in Seq(Dwords) /\ Len(job.dwords) \in Nat /\ emitted \in Nat
    BY RingNumbers
  <2>2. sent \in Seq(Dwords)
    BY DEF TypeInv, TypeOK
  <2>3. emitted + 1 \in 1 .. Len(job.dwords)
    BY <1>1, <2>1
  <2> QED
    BY <2>1, <2>2, <2>3
<1> HIDE DEF dword
<1>3. /\ Len(sent') = S + 1 /\ sent'[S + 1] = dword
      /\ \A k \in 1 .. S : sent'[k] = sent[k]
  BY <1>1, <1>2
<1>4. Published' = Published
  BY <1>1 DEF Published
<1>5. SUFFICES ASSUME space >= 0
               PROVE  DataInv'
  BY <1>1 DEF DataInv, PublishedInv, StoredInv
<1>6. /\ tail = S /\ Len(ran) \in Nat /\ Published \in Nat
      /\ Len(ran) <= Published /\ Published <= S
  BY <1>5, EmitTail, DataNumbers
<1>7. PublishedInv'
  BY <1>1, <1>2, <1>3, <1>4, <1>5, <1>6 DEF DataInv, PublishedInv
<1>8. ASSUME NEW p \in 0 .. S PROVE InRing(p)' = sent'[p + 1]
  <2>1. CASE p = S
    BY <1>1, <1>3, <1>6, <2>1 DEF InRing
  <2>2. CASE p # S
    <3>1. p \in 0 .. S - 1 /\ p + 1 \in 1 .. S /\ p # tail
      BY <1>2, <1>6, <2>2
    <3>2. InRing(p) = sent[p + 1]
      BY <1>5, <3>1 DEF DataInv, StoredInv
    <3>3. InRing(p)' = InRing(p)
      BY <1>1, <3>1 DEF InRing
    <3> QED
      BY <1>3, <3>1, <3>2, <3>3
  <2> QED
    BY <2>1, <2>2
<1>9. ASSUME NEW k \in 1 .. Len(ran) PROVE ran[k] = sent'[k]
  <2>1. k \in 1 .. S
    BY <1>2, <1>6
  <2> QED
    BY <1>3, <1>5, <2>1 DEF DataInv, StoredInv
<1>10. \A p \in DOMAIN wc' : Published <= p
  <2>1. \A p \in DOMAIN wc : Published <= p
    BY <1>5 DEF DataInv, StoredInv
  <2> QED
    BY <1>1, <1>6, <2>1
<1>11. Len(sent') - 1 = S
  BY <1>2, <1>3
<1>12. StoredInv'
  BY <1>1, <1>4, <1>8, <1>9, <1>10, <1>11 DEF StoredInv
<1> QED
  BY <1>7, <1>12 DEF DataInv

\* The tail register moves on to the quadwords that have been sent, none of
\* which is still on its way to the ring.
LEMMA DataAdvance ==
  ASSUME TypeInv, AccountInv, DataInv, Advance
  PROVE  DataInv'
<1> USE DEF callVars
<1> DEFINE S == Len(sent)
           R == Len(ran)
           P == Published
<1>1. /\ UNCHANGED <<space, sent, head, ran>> /\ tail' = tail % Size
      /\ Land(DOMAIN wc)
      /\ tailReg' = tailReg \/ tailReg' = Quadword(tail % Size)
  BY DEF Advance, Wrapped, Pushed
<1>2. /\ DOMAIN wc' = {}
      /\ \A p \in 0 .. Size - 1 : InRing(p)' = InRing(p)
  BY <1>1, RingLand
<1>3. SUFFICES ASSUME space >= 0
               PROVE  DataInv'
  BY <1>1 DEF DataInv, PublishedInv, StoredInv
<1>4. /\ R \in Nat /\ P \in Nat /\ S \in Nat /\ R <= P /\ P <= S /\ S <= Size
      /\ head = R % Size /\ P % 2 = 0 /\ Size \in Nat \ {0} /\ Size % 2 = 0
      /\ tail \in 0 .. Size
  BY <1>3, DataNumbers, RingNumbers DEF DataInv, PublishedInv, TypeInv, TypeOK
<1>5. CASE tailReg' = tailReg
  <2>1. DOMAIN wc' \subseteq DOMAIN wc
    BY <1>2
  <2> QED
    BY <1>1, <1>2, <1>5, <2>1, DataKept
<1>6. ASSUME R + ((tailReg' - head) % Size) <= S,
             (R + ((tailReg' - head) % Size)) % 2 = 0
      PROVE  DataInv'
  <2>1. Published' = R + ((tailReg' - head) % Size)
    BY <1>1 DEF Published
  <2>2. PublishedInv'
    BY <1>1, <1>3, <1>4, <1>6, <2>1 DEF PublishedInv
  <2>3. StoredInv'
    BY <1>1, <1>2, <1>3, <1>4 DEF DataInv, StoredInv
  <2> QED
    BY <2>2, <2>3 DEF DataInv
<1>n. R \in Nat /\ P \in Nat /\ S \in Nat /\ Size \in Nat \ {0}
  BY <1>4
<1> HIDE DEF S, R, P
<1>z. \A d \in 0 .. Size - 1 : d % Size = d
  BY <1>n
<1>7. CASE tailReg' = Quadword(tail % Size) /\ tail = S /\ S < Size
  <2> DEFINE q == Quadword(S)
  <2>1. tailReg' = q
    BY <1>7, <1>n
  <2>2. q \in Nat /\ q <= S /\ S <= q + 1 /\ q % 2 = 0
    BY <1>n, QuadwordBounds
  <2> HIDE DEF q
  <2>3. P <= q
    <3>1. P # q + 1
      BY <1>4, <1>n, <2>2
    <3> QED
      BY <1>4, <1>n, <2>2, <3>1
  <2>4. R \in 0 .. Size - 1 /\ q \in 0 .. Size - 1 /\ q >= R
    BY <1>4, <1>7, <1>n, <2>2, <2>3
  <2>5. head = R
    BY <1>4, <1>z, <2>4
  <2>6. (q - R) % Size = q - R
    BY <2>4, Ahead
  <2>7. R + ((tailReg' - head) % Size) = q
    BY <1>n, <2>1, <2>2, <2>5, <2>6
  <2> QED
    BY <1>6, <2>2, <2>7
<1>8. CASE tailReg' = Quadword(tail % Size) /\ S = Size /\ tail \in {0, Size}
  <2>1. tailReg' = 0
    <3>1. tail % Size = 0
      BY <1>8, <1>n
    <3> QED
      BY <1>8, <3>1 DEF Quadword
  <2>2. CASE R = Size
    <3>1. head = 0 /\ (0 - 0) % Size = 0
      BY <1>4, <1>n, <2>2
    <3>2. R + ((tailReg' - head) % Size) = Size
      BY <1>n, <2>1, <2>2, <3>1
    <3> QED
      BY <1>4, <1>6, <1>8, <3>2
  <2>3. CASE R = 0
    <3>1. head = 0 /\ (0 - 0) % Size = 0
      BY <1>4, <1>n, <2>3
    <3>2. R + ((tailReg' - head) % Size) = 0
      BY <1>n, <2>1, <2>3, <3>1
    <3> QED
      BY <1>n, <1>6, <3>2
  <2>4. CASE R # Size /\ R # 0
    <3>1. R \in 0 .. Size - 1 /\ 0 \in 0 .. Size - 1 /\ 0 < R
      BY <1>4, <1>n, <2>4
    <3>2. head = R
      BY <1>4, <1>z, <3>1
    <3>3. (0 - R) % Size = 0 - R + Size
      BY <3>1, Ahead
    <3>4. R + ((tailReg' - head) % Size) = Size
      BY <1>n, <2>1, <3>2, <3>3
    <3> QED
      BY <1>4, <1>6, <1>8, <3>4
  <2> QED
    BY <2>2, <2>3, <2>4
<1>9. \/ tail = S /\ S < Size
      \/ S = Size /\ tail \in {0, Size}
  <2>1. tail = S \/ (tail = 0 /\ S = Size)
    BY <1>3 DEF AccountInv, TailInv, S
  <2>2. S <= Size
    BY <1>4
  <2>3. S < Size \/ S = Size
    BY <1>n, <2>2
  <2> QED
    BY <2>1, <2>3
<1> QED
  BY <1>1, <1>5, <1>7, <1>8, <1>9

\* The head moves within what is published, which stays what it is.
LEMMA HeadMoves ==
  ASSUME NEW R \in Nat, NEW n \in 1 .. 3, NEW t \in 0 .. Size - 1,
         n <= (t - (R % Size)) % Size,
         R + ((t - (R % Size)) % Size) <= Size
  PROVE  /\ R % Size = R /\ R + n <= Size
         /\ ((R % Size) + n) % Size = (R + n) % Size
         /\ R + n + ((t - ((R + n) % Size)) % Size) = R + ((t - (R % Size)) % Size)
<1>1. Size \in Nat \ {0}
  BY RingAssumption
<1>2. \A d \in 0 .. Size - 1 : d % Size = d
  BY <1>1
<1> DEFINE a == (t - (R % Size)) % Size
<1>3. a \in 0 .. Size - 1
  <2>1. t - (R % Size) \in Int
    BY <1>1
  <2> QED
    BY <2>1, Position
<1>4. R + a <= Size /\ n <= a
  OBVIOUS
<1>5. R \in 0 .. Size - 1 /\ R + n <= Size
  <2> HIDE DEF a
  <2> QED
    BY <1>1, <1>3, <1>4
<1>6. R % Size = R
  BY <1>2, <1>5
<1>7. a = (t - R) % Size
  BY <1>6
<1> HIDE DEF a
<1>8. CASE t >= R
  <2>1. a = t - R
    BY <1>5, <1>7, <1>8, Ahead
  <2>2. R + n \in 0 .. Size - 1 /\ t >= R + n
    BY <1>1, <1>4, <1>5, <2>1
  <2>3. (R + n) % Size = R + n
    BY <1>2, <2>2
  <2>4. (t - (R + n)) % Size = t - (R + n)
    BY <2>2, Ahead
  <2>5. R + n + ((t - ((R + n) % Size)) % Size) = R + a
    BY <1>5, <2>1, <2>3, <2>4
  <2> QED
    BY <1>5, <1>6, <2>5 DEF a
<1>9. CASE t < R
  <2>1. a = t - R + Size
    BY <1>5, <1>7, <1>9, Ahead
  <2>2. t = 0 /\ R + a = Size
    BY <1>1, <1>4, <1>5, <2>1
  <2>3. CASE R + n = Size
    <3>1. (R + n) % Size = 0 /\ (0 - 0) % Size = 0
      BY <1>1, <2>3
    <3>2. R + n + ((t - ((R + n) % Size)) % Size) = R + a
      BY <1>1, <2>2, <2>3, <3>1
    <3> QED
      BY <1>5, <1>6, <3>2 DEF a
  <2>4. CASE R + n # Size
    <3>1. R + n \in 0 .. Size - 1 /\ 0 \in 0 .. Size - 1 /\ 0 < R + n
      BY <1>1, <1>5, <2>4
    <3>2. (R + n) % Size = R + n
      BY <1>2, <3>1
    <3>3. (0 - (R + n)) % Size = 0 - (R + n) + Size
      BY <3>1, Ahead
    <3>4. R + n + ((t - ((R + n) % Size)) % Size) = R + a
      BY <1>1, <1>5, <2>2, <3>2, <3>3
    <3> QED
      BY <1>5, <1>6, <3>4 DEF a
  <2> QED
    BY <2>3, <2>4
<1> QED
  BY <1>1, <1>5, <1>8, <1>9

\* The engine runs the next dwords that were sent.
LEMMA RunsNext ==
  ASSUME TypeInv, AccountInv, DataInv, Execute, space >= 0
  PROVE  /\ Len(ran') = Len(ran) + Length(At(0)) /\ Len(ran') <= Len(sent)
         /\ head' = Len(ran') % Size /\ Published' = Published
         /\ \A k \in 1 .. Len(ran') : ran'[k] = sent[k]
         /\ \A k \in 1 .. Len(ran) : ran'[k] = ran[k]
         /\ \A k \in Len(ran) + 1 .. Len(ran') : ran'[k] = At(k - Len(ran) - 1)
<1> USE DEF driverVars, callVars, roomVars, storeVars
<1> DEFINE n == Length(At(0))
           R == Len(ran)
           new == [k \in 1 .. n |-> At(k - 1)]
<1>1. /\ n <= (tailReg - head) % Size /\ head' = (head + n) % Size
      /\ ran' = ran \o new
      /\ UNCHANGED <<sent, space, buffer, wc, tailReg>>
  BY ExecuteEffect
<1>2. /\ R \in Nat /\ Published \in Nat /\ Len(sent) \in Nat
      /\ R <= Published /\ Published <= Len(sent) /\ Len(sent) <= Size
      /\ head = R % Size
  BY DataNumbers
<1>3. n \in 1 .. 3
  BY CommandLength
<1>4. tailReg \in 0 .. Size - 1
  BY DEF TypeInv, TypeOK
<1> HIDE DEF n, R
<1>5. Published = R + ((tailReg - (R % Size)) % Size)
  BY <1>2 DEF Published, R
<1>6. R + ((tailReg - (R % Size)) % Size) <= Size
  <2>1. Published <= Size
    BY <1>2, RingNumbers
  <2> QED
    BY <1>5, <2>1
<1>7. /\ R % Size = R /\ R + n <= Size
      /\ head' = (R + n) % Size
      /\ R + n + ((tailReg - ((R + n) % Size)) % Size) = Published
  <2>1. n <= (tailReg - (R % Size)) % Size
    BY <1>1, <1>2
  <2>2. /\ R % Size = R /\ R + n <= Size
        /\ ((R % Size) + n) % Size = (R + n) % Size
        /\ R + n + ((tailReg - ((R + n) % Size)) % Size)
             = R + ((tailReg - (R % Size)) % Size)
    BY <1>2, <1>3, <1>4, <1>6, <2>1, HeadMoves
  <2> QED
    BY <1>1, <1>2, <1>5, <2>2
<1>8. R + n <= Published
  <2> DEFINE a == (tailReg - (R % Size)) % Size
  <2>1. n <= a /\ Published = R + a
    BY <1>1, <1>2, <1>5
  <2>2. a \in Int
    <3>1. tailReg - (R % Size) \in Int
      BY <1>2, <1>4, RingAssumption
    <3> QED
      BY <3>1, Position
  <2> HIDE DEF a
  <2> QED
    BY <1>2, <1>3, <2>1, <2>2
<1>9. /\ Len(ran') = R + n
      /\ \A k \in 1 .. R : ran'[k] = ran[k]
      /\ \A k \in R + 1 .. R + n : ran'[k] = At(k - R - 1)
  <2>1. ran \in Seq(Dwords)
    BY DEF TypeInv, TypeOK
  <2>2. \A k \in 1 .. n : At(k - 1) \in Dwords
    <3>1. \A k \in 1 .. n : k - 1 \in Nat
      BY <1>3
    <3> QED
      BY <3>1, ExecuteEffect
  <2>3. /\ new \in Seq(Dwords) /\ Len(new) = n /\ \A k \in 1 .. n : new[k] = At(k - 1)
    BY <1>3, <2>2
  <2> HIDE DEF new
  <2>4. /\ Len(ran') = R + n
        /\ \A k \in 1 .. R + n : ran'[k] = IF k <= R THEN ran[k] ELSE new[k - R]
    BY <1>1, <2>1, <2>3, ConcatProperties DEF R
  <2>5. ASSUME NEW k \in R + 1 .. R + n PROVE ran'[k] = At(k - R - 1)
    <3>1. k \in 1 .. R + n /\ ~(k <= R) /\ k - R \in 1 .. n
      BY <1>2, <1>3
    <3> QED
      BY <2>3, <2>4, <3>1
  <2>6. ASSUME NEW k \in 1 .. R PROVE ran'[k] = ran[k]
    <3>1. k \in 1 .. R + n /\ k <= R
      BY <1>2, <1>3
    <3> QED
      BY <2>4, <3>1
  <2> QED
    BY <2>4, <2>5, <2>6
<1>10. Published' = Published
  BY <1>1, <1>7, <1>9 DEF Published
<1>11. ASSUME NEW k \in 1 .. R + n PROVE ran'[k] = sent[k]
  <2>1. CASE k \in 1 .. R
    BY <1>9, <2>1 DEF DataInv, StoredInv, R
  <2>2. CASE k \in R + 1 .. R + n
    <3> DEFINE p == k - 1
    <3>1. /\ head + (k - R - 1) = p /\ p \in 0 .. Size - 1 /\ p < Published
          /\ p \in 0 .. Len(sent) - 1 /\ p + 1 = k
      <4>1. head = R /\ R + n <= Size /\ k <= R + n /\ R + 1 <= k /\ k \in Nat
        BY <1>2, <1>3, <1>7, <2>2
      <4>2. Size \in Nat
        BY RingNumbers
      <4> QED
        BY <1>2, <1>3, <1>8, <4>1, <4>2
    <3> HIDE DEF p
    <3>2. p % Size = p
      BY <3>1, RingAssumption
    <3>3. ran'[k] = buffer[p]
      BY <1>9, <2>2, <3>1, <3>2 DEF At
    <3>4. p \notin DOMAIN wc
      <4>1. \A q \in DOMAIN wc : Published <= q
        BY DEF DataInv, StoredInv
      <4>2. ~(Published <= p)
        BY <1>2, <3>1
      <4> QED
        BY <4>1, <4>2
    <3>5. InRing(p) = sent[p + 1]
      BY <3>1 DEF DataInv, StoredInv
    <3> QED
      BY <3>1, <3>3, <3>4, <3>5 DEF InRing
  <2> QED
    BY <1>2, <1>3, <2>1, <2>2
<1>12. R + n <= Len(sent)
  BY <1>2, <1>3, <1>8
<1> QED
  BY <1>7, <1>9, <1>10, <1>11, <1>12 DEF n, R

\* So they stay in order.
LEMMA DataExecute ==
  ASSUME TypeInv, AccountInv, DataInv, Execute
  PROVE  DataInv'
<1> USE DEF driverVars, callVars, roomVars, storeVars
<1>1. UNCHANGED <<sent, space, buffer, wc, tailReg>>
  BY ExecuteEffect
<1>2. SUFFICES ASSUME space >= 0
               PROVE  DataInv'
  BY <1>1 DEF DataInv, PublishedInv, StoredInv
<1>3. /\ head' = Len(ran') % Size /\ Published' = Published
      /\ \A k \in 1 .. Len(ran') : ran'[k] = sent[k]
  BY <1>2, RunsNext
<1>4. PublishedInv'
  BY <1>1, <1>2, <1>3 DEF DataInv, PublishedInv
<1>5. StoredInv'
  BY <1>1, <1>2, <1>3 DEF DataInv, StoredInv, InRing
<1> QED
  BY <1>4, <1>5 DEF DataInv

\* Every step keeps the ring's contents and what the engine has run in order.
LEMMA DataStep ==
  ASSUME TypeInv, AccountInv, DataInv, [Next]_vars
  PROVE  DataInv'
<1> USE DEF callVars, roomVars, pollVars, storeVars, statusVars, engineVars, driverVars
<1>1. CASE \/ (\E j \in Jobs : Pick(j)) \/ Begin \/ EmitBeyond \/ Poll \/ Report
           \/ BatchEnd \/ UNCHANGED vars
  <2>1. UNCHANGED <<sent, ran, head, tailReg, buffer, wc>>
    BY <1>1 DEF Pick, Begin, EmitBeyond, Poll, Report, BatchEnd, vars
  <2>2. space' >= 0 => space >= 0
    <3>1. CASE Begin
      <4>1. space' = space - job.reserve
        BY <3>1 DEF Begin, Taken
      <4> QED
        BY <4>1, RingNumbers
    <3>2. CASE UNCHANGED space
      BY <3>2
    <3> QED
      BY <1>1, <3>1, <3>2 DEF Pick, EmitBeyond, Poll, Report, BatchEnd, vars
  <2> QED
    BY <2>1, <2>2, DataKept DEF InRing
<1>2. ASSUME NEW p \in 0 .. Size - 1, Drain(p) PROVE DataInv'
  <2>1. /\ {p} \in SUBSET DOMAIN wc /\ Land({p})
        /\ UNCHANGED <<sent, ran, head, tailReg, space>>
    BY <1>2 DEF Drain
  <2>2. /\ \A q \in 0 .. Size - 1 : InRing(q)' = InRing(q)
        /\ DOMAIN wc' \subseteq DOMAIN wc
    BY <2>1, RingLand
  <2> QED
    BY <2>1, <2>2, DataKept
<1> QED
  BY <1>1, <1>2, DataEmit, DataAdvance, DataExecute DEF Next, Submit, Engine

\* The engine runs what was emitted, in order and nothing else, until the
\* account is overdrawn.
THEOREM RingRunsWhatWasSent ==
  ASSUME SmallExcess
  PROVE  Spec => []RunsWhatWasSent
<1>1. Init => TypeInv /\ AccountInv /\ DataInv
  BY RingInitType, AccountInit, DataInit
<1>2. TypeInv /\ AccountInv /\ DataInv /\ [Next]_vars
        => (TypeInv /\ AccountInv /\ DataInv)'
  BY RingTypeStep, AccountStutter, DataStep
<1>3. TypeInv /\ AccountInv /\ DataInv => RunsWhatWasSent
  <2> SUFFICES ASSUME TypeInv, AccountInv, DataInv, space >= 0 PROVE IsPrefix(ran, sent)
    BY DEF RunsWhatWasSent
  <2>1. ran \in Seq(Dwords) /\ sent \in Seq(Dwords)
    BY DEF TypeInv, TypeOK
  <2>2. Len(ran) <= Len(sent) /\ Len(ran) \in Nat /\ Len(sent) \in Nat
    BY DataNumbers
  <2>3. \A k \in 1 .. Len(ran) : ran[k] = sent[k]
    BY DEF DataInv, StoredInv
  <2>4. SubSeq(ran, 1, Len(ran)) = ran
    BY <2>1
  <2>5. /\ SubSeq(sent, 1, Len(ran)) \in Seq(Dwords)
        /\ Len(SubSeq(sent, 1, Len(ran))) = Len(ran)
        /\ \A k \in 1 .. Len(ran) : SubSeq(sent, 1, Len(ran))[k] = sent[k]
    BY <2>1, <2>2
  <2>6. SubSeq(sent, 1, Len(ran)) = ran
    BY <2>1, <2>3, <2>5, SeqEqual
  <2> QED
    BY <2>2, <2>4, <2>6 DEF IsPrefix
<1> QED
  BY <1>1, <1>2, <1>3, PTL DEF Spec
-----------------------------------------------------------------------------
(* What a self test concludes *)

\* What was sent before the job at hand.
Earlier == Len(sent) - (IF pc \in {"emit", "oops"} THEN emitted ELSE 0)

\* Behind it comes what the job at hand has emitted.
CurrentInv ==
  pc \in {"emit", "oops"} =>
    emitted <= Len(sent) /\ \A k \in 1 .. emitted : sent[Earlier + k] = job.dwords[k]

\* Earlier jobs were sent whole, and none was a test if this one is.
OrderInv ==
  /\ Shaped(sent, Earlier)
  /\ ~tested \/ (job.test /\ pc \in {"begin", "emit", "oops"}) => Plain(sent, Earlier)

\* The mark is gone when the polling loop has left before its last turn.
TestInv ==
  /\ job.test \/ pc \in {"poll", "report"} => tested
  /\ tested => slot # "zero"
  /\ pc = "report" /\ polls < MaxPolls => slot # "mark"
  /\ verdict = "Thanks God" => tested /\ slot # "mark"

\* Until the account is overdrawn nothing but a store that was sent has written
\* the slot, and its batch does not start again.
SlotInv ==
  space >= 0 =>
    /\ slot \in {"zero", "mark", "value"}
    /\ slot = "value" =>
         engine # "temp" /\ \E p \in 1 .. Len(ran) : ran[p] = "STORE"

SentInv == CurrentInv /\ OrderInv

\* A job behind what was sent, or as much of it as has been emitted, when not
\* both of them store to the status page.
LEMMA Joined ==
  ASSUME NEW s, NEW d, NEW m \in Nat, NEW e \in Nat, NEW n \in Nat, e <= n,
         Shaped(s, m), Shaped(d, n), \A k \in 1 .. e : s[m + k] = d[k],
         Plain(s, m) \/ Plain(d, n)
  PROVE  /\ \A i \in 1 .. m + e :
              s[i] = "STORE" /\ i + 2 <= m + e => s[i + 2] = "value"
         /\ \A i, k \in 1 .. m + e : s[i] = "STORE" /\ s[k] = "temp" => k < i
         /\ e = n => Shaped(s, m + e)
         /\ Plain(s, m) /\ Plain(d, n) => Plain(s, m + e)
<1>1. \A i \in 1 .. m + e : i \in 1 .. m \/ (i - m \in 1 .. e /\ i - m \in 1 .. n)
  OBVIOUS
<1>2. \A i \in 1 .. m + e : i - m \in 1 .. e => s[i] = d[i - m]
  <2> SUFFICES ASSUME NEW i \in 1 .. m + e, i - m \in 1 .. e PROVE s[i] = d[i - m]
    OBVIOUS
  <2>1. m + (i - m) = i
    OBVIOUS
  <2> QED
    BY <2>1
<1>3. ASSUME NEW i \in 1 .. m + e, s[i] = "STORE", i + 2 <= m + e
      PROVE  s[i + 2] = "value"
  <2>1. CASE i \in 1 .. m
    BY <1>3, <2>1 DEF Shaped
  <2>2. CASE i - m \in 1 .. e /\ i - m \in 1 .. n
    <3>1. d[(i - m) + 2] = "value"
      BY <1>2, <1>3, <2>2 DEF Shaped
    <3>2. i + 2 \in 1 .. m + e /\ (i + 2) - m \in 1 .. e /\ (i + 2) - m = (i - m) + 2
      BY <1>3, <2>2
    <3> QED
      BY <1>2, <3>1, <3>2
  <2> QED
    BY <1>1, <2>1, <2>2
<1>4. ASSUME NEW i \in 1 .. m + e, NEW k \in 1 .. m + e, s[i] = "STORE", s[k] = "temp"
      PROVE  k < i
  <2>1. CASE i \in 1 .. m /\ k \in 1 .. m
    BY <1>4, <2>1 DEF Shaped
  <2>2. CASE i - m \in 1 .. n /\ k - m \in 1 .. n /\ i - m \in 1 .. e /\ k - m \in 1 .. e
    <3>1. d[i - m] = "STORE" /\ d[k - m] = "temp"
      BY <1>2, <1>4, <2>2
    <3>2. k - m < i - m
      BY <2>2, <3>1 DEF Shaped
    <3> QED
      BY <3>2
  <2>3. CASE k \in 1 .. m /\ i - m \in 1 .. e
    BY <2>3
  <2>4. CASE i \in 1 .. m /\ k - m \in 1 .. e /\ k - m \in 1 .. n
    <3>1. d[k - m] = "temp"
      BY <1>2, <1>4, <2>4
    <3> QED
      BY <1>4, <2>4, <3>1 DEF Plain
  <2> QED
    BY <1>1, <2>1, <2>2, <2>3, <2>4
<1>5. ASSUME e = n PROVE Shaped(s, m + e)
  <2>1. ASSUME NEW i \in 1 .. m + e, s[i] = "STORE" PROVE i + 2 <= m + e
    <3>1. CASE i \in 1 .. m
      BY <2>1, <3>1 DEF Shaped
    <3>2. CASE i - m \in 1 .. e /\ i - m \in 1 .. n
      <4>1. (i - m) + 2 <= n
        BY <1>2, <2>1, <3>2 DEF Shaped
      <4> QED
        BY <1>5, <4>1
    <3> QED
      BY <1>1, <3>1, <3>2
  <2> QED
    BY <1>3, <1>4, <2>1 DEF Shaped
<1>6. ASSUME Plain(s, m), Plain(d, n) PROVE Plain(s, m + e)
  BY <1>1, <1>2, <1>6 DEF Plain
<1> QED
  BY <1>3, <1>4, <1>5, <1>6

\* The job at hand is one of the callers', or none.
LEMMA JobShape ==
  ASSUME TestShape, TypeInv
  PROVE  /\ Shaped(job.dwords, Len(job.dwords))
         /\ ~job.test => Plain(job.dwords, Len(job.dwords))
<1>1. CASE job \in Jobs
  BY <1>1 DEF TestShape
<1>2. CASE job = NoJob
  <2>1. job.dwords = <<>> /\ Len(job.dwords) = 0
    BY <1>2 DEF NoJob
  <2> QED
    BY <2>1 DEF Shaped, Plain
<1> QED
  BY <1>1, <1>2 DEF TypeInv, TypeOK

\* All that was sent is in the order of the jobs.
LEMMA SentShaped ==
  ASSUME TestShape, TypeInv, TestInv, SentInv
  PROVE  /\ \A i \in 1 .. Len(sent) :
              sent[i] = "STORE" /\ i + 2 <= Len(sent) => sent[i + 2] = "value"
         /\ \A i, k \in 1 .. Len(sent) : sent[i] = "STORE" /\ sent[k] = "temp" => k < i
         /\ pc = "emit" /\ emitted = Len(job.dwords) => Shaped(sent, Len(sent))
         /\ ~tested => Plain(sent, Len(sent))
<1>1. Len(sent) \in Nat /\ emitted \in Nat /\ Len(job.dwords) \in Nat
  BY RingNumbers
<1>2. CASE pc \notin {"emit", "oops"}
  <2>1. Earlier = Len(sent)
    BY <1>1, <1>2 DEF Earlier
  <2> QED
    BY <1>2, <2>1 DEF SentInv, OrderInv, Shaped
<1>3. CASE pc \in {"emit", "oops"}
  <2> DEFINE m == Earlier
             n == Len(job.dwords)
  <2>1. m \in Nat /\ m + emitted = Len(sent) /\ emitted <= n
    <3>1. m = Len(sent) - emitted /\ emitted <= Len(sent) /\ emitted <= n
      BY <1>3 DEF Earlier, SentInv, CurrentInv, TypeInv, CallInv
    <3> QED
      BY <1>1, <3>1
  <2>2. \A k \in 1 .. emitted : sent[m + k] = job.dwords[k]
    BY <1>3 DEF SentInv, CurrentInv
  <2>3. Shaped(sent, m) /\ Shaped(job.dwords, n)
    BY JobShape DEF SentInv, OrderInv
  <2>4. /\ job.test => Plain(sent, m)
        /\ ~job.test => Plain(job.dwords, n)
        /\ ~tested => Plain(sent, m) /\ Plain(job.dwords, n)
    BY <1>3, JobShape DEF SentInv, OrderInv, TestInv
  <2> HIDE DEF m, n
  <2>5. n \in Nat
    BY <1>1 DEF n
  <2>6. /\ \A i \in 1 .. m + emitted :
             sent[i] = "STORE" /\ i + 2 <= m + emitted => sent[i + 2] = "value"
        /\ \A i, k \in 1 .. m + emitted : sent[i] = "STORE" /\ sent[k] = "temp" => k < i
        /\ emitted = n => Shaped(sent, m + emitted)
        /\ Plain(sent, m) /\ Plain(job.dwords, n) => Plain(sent, m + emitted)
    <3>1. Plain(sent, m) \/ Plain(job.dwords, n)
      BY <2>4
    <3> QED
      BY <1>1, <2>1, <2>2, <2>3, <2>5, <3>1, Joined
  <2> QED
    BY <2>1, <2>4, <2>6 DEF n
<1> QED
  BY <1>2, <1>3

\* What is sent stays in the order of the jobs.
LEMMA SentStep ==
  ASSUME TestShape, TypeInv, TestInv, SentInv, Next
  PROVE  SentInv'
<1> USE DEF callVars, roomVars, pollVars, storeVars, statusVars, engineVars, driverVars
<1>n. Len(sent) \in Nat /\ emitted \in Nat /\ sent \in Seq(Dwords)
  BY RingNumbers DEF TypeInv, TypeOK
<1>1. ASSUME NEW j \in Jobs, Pick(j) PROVE SentInv'
  <2>1. /\ pc = "idle" /\ pc' = "begin" /\ sent' = sent /\ job' = j
        /\ (j.test => ~tested) /\ (tested => tested')
    BY <1>1 DEF Pick
  <2>2. Earlier = Len(sent) /\ Earlier' = Len(sent)
    BY <1>n, <2>1 DEF Earlier
  <2>3. Shaped(sent, Earlier) /\ (~tested => Plain(sent, Earlier))
    BY DEF SentInv, OrderInv
  <2> QED
    BY <2>1, <2>2, <2>3 DEF SentInv, OrderInv, CurrentInv, Shaped, Plain
<1>2. CASE Begin
  <2>1. /\ pc = "begin" /\ pc' = "emit" /\ UNCHANGED <<sent, job, tested>>
        /\ emitted' = 0 /\ Earlier = Len(sent)
    BY <1>2, <1>n DEF Begin, Earlier
  <2>2. Earlier' = Len(sent)
    BY <1>n, <2>1 DEF Earlier
  <2>3. CurrentInv'
    BY <1>n, <2>1 DEF CurrentInv
  <2> QED
    BY <2>1, <2>2, <2>3 DEF SentInv, OrderInv, Shaped, Plain
<1>3. CASE Emit
  <2> DEFINE dword == job.dwords[emitted + 1]
             S == Len(sent)
             m == Earlier
  <2>1. /\ pc = "emit" /\ pc' = "emit" /\ UNCHANGED <<job, tested>>
        /\ emitted' = emitted + 1 /\ sent' = Append(sent, dword)
        /\ emitted < Len(job.dwords)
    BY <1>3 DEF Emit
  <2>2. dword \in Dwords
    <3>1. job.dwords \in Seq(Dwords) /\ Len(job.dwords) \in Nat
      BY RingNumbers
    <3>2. emitted + 1 \in 1 .. Len(job.dwords)
      BY <1>n, <2>1, <3>1
    <3> QED
      BY <3>1, <3>2
  <2> HIDE DEF dword
  <2>3. /\ Len(sent') = S + 1 /\ sent'[S + 1] = dword
        /\ \A k \in 1 .. S : sent'[k] = sent[k]
    BY <1>n, <2>1, <2>2
  <2>4. /\ emitted <= S /\ m = S - emitted
        /\ \A k \in 1 .. emitted : sent[m + k] = job.dwords[k]
    BY <2>1 DEF SentInv, CurrentInv, Earlier
  <2>5. S \in Nat /\ m \in Nat
    BY <1>n, <2>4
  <2> HIDE DEF S, m
  <2>6. Earlier' = m
    <3>1. Earlier' = Len(sent') - emitted'
      BY <2>1 DEF Earlier
    <3> QED
      BY <1>n, <2>1, <2>3, <2>4, <2>5, <3>1
  <2>7. \A k \in 1 .. m : sent'[k] = sent[k]
    BY <1>n, <2>3, <2>4, <2>5
  <2>8. ASSUME NEW k \in 1 .. emitted + 1 PROVE sent'[m + k] = job.dwords[k]
    <3>1. CASE k = emitted + 1
      <4>1. m + k = S + 1
        BY <1>n, <2>4, <2>5, <3>1
      <4> QED
        BY <2>3, <3>1, <4>1 DEF dword
    <3>2. CASE k # emitted + 1
      <4>1. k \in 1 .. emitted /\ m + k \in 1 .. S
        BY <1>n, <2>4, <2>5, <3>2
      <4> QED
        BY <2>3, <2>4, <4>1
    <3> QED
      BY <3>1, <3>2
  <2>9. CurrentInv'
    <3>1. emitted' <= Len(sent')
      BY <1>n, <2>1, <2>3, <2>4, <2>5
    <3> QED
      BY <2>1, <2>6, <2>8, <3>1 DEF CurrentInv
  <2>10. OrderInv'
    <3>1. Shaped(sent, m) /\ (~tested \/ job.test => Plain(sent, m))
      BY <2>1 DEF SentInv, OrderInv, m
    <3>2. Shaped(sent', m)
      <4>1. \A i \in 1 .. m : i + 2 <= m => i + 2 \in 1 .. m
        BY <2>5
      <4> QED
        BY <2>7, <3>1, <4>1 DEF Shaped
    <3>3. Plain(sent, m) => Plain(sent', m)
      BY <2>7 DEF Plain
    <3> QED
      BY <2>1, <2>6, <3>1, <3>2, <3>3 DEF OrderInv
  <2> QED
    BY <2>9, <2>10 DEF SentInv
<1>4. CASE EmitBeyond
  <2>1. /\ pc = "emit" /\ pc' = "oops" /\ UNCHANGED <<sent, job, tested, emitted>>
        /\ Earlier' = Earlier
    BY <1>4 DEF EmitBeyond, Earlier
  <2> QED
    BY <2>1 DEF SentInv, OrderInv, CurrentInv, Shaped, Plain
<1>5. CASE Advance
  <2>1. /\ pc = "emit" /\ pc' \in {"poll", "idle"} /\ emitted = Len(job.dwords)
        /\ UNCHANGED <<sent, job, tested>>
    BY <1>5 DEF Advance
  <2>2. Earlier' = Len(sent)
    BY <1>n, <2>1 DEF Earlier
  <2>3. Shaped(sent, Len(sent)) /\ (~tested => Plain(sent, Len(sent)))
    BY <2>1, SentShaped
  <2> QED
    BY <2>1, <2>2, <2>3 DEF SentInv, OrderInv, CurrentInv, Shaped, Plain
<1>6. CASE Poll \/ Report
  <2>1. /\ pc \in {"poll", "report"} /\ pc' \in {"poll", "report", "idle"}
        /\ UNCHANGED <<sent, job, tested, emitted>> /\ Earlier' = Earlier
    BY <1>6 DEF Poll, Report, Earlier
  <2> QED
    BY <2>1 DEF SentInv, OrderInv, CurrentInv, Shaped, Plain
<1>7. CASE (\E p \in 0 .. Size - 1 : Drain(p)) \/ Engine
  <2>1. UNCHANGED <<pc, sent, job, tested, emitted>> /\ Earlier' = Earlier
    BY <1>7 DEF Drain, Engine, Execute, BatchEnd, Earlier
  <2> QED
    BY <2>1 DEF SentInv, OrderInv, CurrentInv, Shaped, Plain
<1> QED
  BY <1>1, <1>2, <1>3, <1>4, <1>5, <1>6, <1>7 DEF Next, Submit

\* The mark does not come back.
LEMMA TestStep ==
  ASSUME TypeInv, TestInv, Next
  PROVE  TestInv'
<1> USE DEF callVars, roomVars, pollVars, storeVars, statusVars, engineVars, driverVars
<1>1. ASSUME NEW j \in Jobs, Pick(j) PROVE TestInv'
  <2>1. /\ pc' = "begin" /\ tested' = (tested \/ j.test) /\ (j.test => ~tested)
        /\ job' = j /\ verdict' = verdict
        /\ slot' = IF j.test THEN "mark" ELSE slot
    BY <1>1 DEF Pick, Mark
  <2> QED
    BY <2>1 DEF TestInv
<1>2. CASE Begin \/ Emit \/ EmitBeyond
  <2>1. /\ UNCHANGED <<job, tested, slot, verdict>>
        /\ pc' \in {"emit", "oops"}
    BY <1>2 DEF Begin, Emit, EmitBeyond
  <2> QED
    BY <2>1 DEF TestInv
<1>3. CASE Advance
  <2>1. /\ UNCHANGED <<job, tested, slot, verdict>>
        /\ pc' = IF job.test THEN "poll" ELSE "idle"
    BY <1>3 DEF Advance
  <2> QED
    BY <2>1 DEF TestInv
<1>4. CASE Poll
  <2>1. /\ UNCHANGED <<job, tested, slot, verdict>> /\ pc = "poll"
        /\ \/ pc' = "poll"
           \/ pc' = "report" /\ polls' = polls /\ ~(polls < MaxPolls /\ slot = "mark")
    BY <1>4 DEF Poll
  <2> QED
    BY <2>1 DEF TestInv
<1>5. CASE Report
  <2>1. /\ UNCHANGED <<job, tested, slot>> /\ pc = "report" /\ pc' = "idle"
        /\ verdict' = IF polls < MaxPolls THEN "Thanks God" ELSE "Help GOD"
    BY <1>5 DEF Report
  <2> QED
    BY <2>1 DEF TestInv
<1>6. CASE (\E p \in 0 .. Size - 1 : Drain(p)) \/ Engine
  <2>1. UNCHANGED <<pc, job, tested, verdict, polls>>
    BY <1>6 DEF Drain, Engine, Execute, BatchEnd
  <2>2. slot' \in Dwords \cup {slot}
    BY <1>6, ExecuteEffect DEF Drain, Engine, BatchEnd
  <2>3. "zero" \notin Dwords /\ "mark" \notin Dwords
    BY DEF Dwords, Batches
  <2> QED
    BY <2>1, <2>2, <2>3 DEF TestInv
<1> QED
  BY <1>1, <1>2, <1>3, <1>4, <1>5, <1>6 DEF Next, Submit

\* The engine writes the slot when it runs the test's store, behind its batch.
LEMMA SlotExecute ==
  ASSUME TestShape, TypeInv, AccountInv, DataInv, TestInv, SentInv, SlotInv, Execute
  PROVE  SlotInv'
<1> USE DEF driverVars, roomVars
<1> DEFINE R == Len(ran)
<1>1. space' = space
  BY ExecuteEffect
<1>2. SUFFICES ASSUME space >= 0
               PROVE  SlotInv'
  BY <1>1 DEF SlotInv
<1>3. /\ engine' = IF At(0) = "START" THEN At(1) ELSE "ring"
      /\ slot' = IF At(0) = "STORE" THEN At(2) ELSE slot
  BY DEF Execute, At
<1>4. R \in Nat /\ Len(sent) \in Nat
  BY RingNumbers
<1>5. /\ Len(ran') = R + Length(At(0)) /\ Len(ran') <= Len(sent)
      /\ \A k \in 1 .. Len(ran') : ran'[k] = sent[k]
      /\ \A k \in 1 .. R : ran'[k] = ran[k]
      /\ \A k \in R + 1 .. Len(ran') : ran'[k] = At(k - R - 1)
  BY <1>2, RunsNext
<1> HIDE DEF R
<1>6. CASE At(0) = "STORE"
  <2>1. Len(ran') = R + 3
    BY <1>5, <1>6 DEF Length
  <2>2. ran'[R + 1] = "STORE" /\ sent[R + 1] = "STORE" /\ sent[R + 3] = At(2)
    <3>1. /\ R + 1 \in 1 .. Len(ran') /\ R + 1 \in R + 1 .. Len(ran') /\ (R + 1) - R - 1 = 0
          /\ R + 3 \in 1 .. Len(ran') /\ R + 3 \in R + 1 .. Len(ran') /\ (R + 3) - R - 1 = 2
      BY <1>4, <2>1
    <3>2. ran'[R + 1] = At(0) /\ ran'[R + 3] = At(2)
      BY <1>5, <3>1
    <3> QED
      BY <1>5, <1>6, <3>1, <3>2
  <2>3. sent[R + 3] = "value"
    <3>1. R + 1 \in 1 .. Len(sent) /\ (R + 1) + 2 <= Len(sent) /\ (R + 1) + 2 = R + 3
      BY <1>4, <1>5, <2>1
    <3>2. sent[(R + 1) + 2] = "value"
      BY <2>2, <3>1, SentShaped
    <3> QED
      BY <3>1, <3>2
  <2>4. slot' = "value" /\ engine' = "ring"
    BY <1>3, <1>6, <2>2, <2>3
  <2>5. \E p \in 1 .. Len(ran') : ran'[p] = "STORE"
    <3>1. R + 1 \in 1 .. Len(ran')
      BY <1>4, <2>1
    <3> QED
      BY <2>2, <3>1
  <2> QED
    BY <2>4, <2>5 DEF SlotInv
<1>7. CASE At(0) # "STORE"
  <2>1. slot' = slot
    BY <1>3, <1>7
  <2>2. ASSUME slot = "value"
        PROVE  engine' # "temp" /\ \E p \in 1 .. Len(ran') : ran'[p] = "STORE"
    <3>1. PICK p \in 1 .. R : ran[p] = "STORE"
      BY <1>2, <2>2 DEF SlotInv, R
    <3>2. Length(At(0)) \in 1 .. 3
      BY CommandLength
    <3>3. p \in 1 .. Len(ran') /\ p \in 1 .. Len(sent)
      <4> DEFINE n == Length(At(0))
      <4>1. Len(ran') = R + n /\ n \in 1 .. 3
        BY <1>5, <3>2
      <4> HIDE DEF n
      <4> QED
        BY <1>4, <1>5, <4>1
    <3>4. ran'[p] = "STORE" /\ sent[p] = "STORE"
      BY <1>5, <3>1, <3>3
    <3>5. engine' # "temp"
      <4>1. CASE At(0) # "START"
        BY <1>3, <4>1
      <4>2. CASE At(0) = "START"
        <5>1. Len(ran') = R + 2
          BY <1>5, <4>2 DEF Length
        <5>2. /\ R + 2 \in 1 .. Len(ran') /\ R + 2 \in R + 1 .. Len(ran')
              /\ (R + 2) - R - 1 = 1 /\ R + 2 \in 1 .. Len(sent) /\ ~(R + 2 < p)
          BY <1>4, <1>5, <5>1
        <5>3. sent[R + 2] = At(1)
          BY <1>5, <5>2
        <5>4. sent[R + 2] # "temp"
          BY <3>3, <3>4, <5>2, SentShaped
        <5> QED
          BY <1>3, <4>2, <5>3, <5>4
      <4> QED
        BY <4>1, <4>2
    <3> QED
      BY <3>3, <3>4, <3>5
  <2> QED
    BY <1>2, <2>1, <2>2 DEF SlotInv
<1> QED
  BY <1>6, <1>7

\* Nothing else writes the slot but the test that marks it.
LEMMA SlotStep ==
  ASSUME TestShape, TypeInv, AccountInv, DataInv, TestInv, SentInv, SlotInv, Next
  PROVE  SlotInv'
<1> USE DEF callVars, roomVars, pollVars, storeVars, statusVars, engineVars, driverVars
<1>1. ASSUME NEW j \in Jobs, Pick(j) PROVE SlotInv'
  <2>1. UNCHANGED <<space, engine, ran>> /\ slot' \in {"mark", slot}
    BY <1>1 DEF Pick, Mark
  <2> QED
    BY <2>1 DEF SlotInv
<1>2. CASE Begin
  <2>1. UNCHANGED <<slot, engine, ran>> /\ space' = space - job.reserve
    BY <1>2 DEF Begin, Taken
  <2>2. space' >= 0 => space >= 0
    BY <2>1, RingNumbers
  <2> QED
    BY <2>1, <2>2 DEF SlotInv
<1>3. CASE \/ Emit \/ EmitBeyond \/ Advance \/ Poll \/ Report
           \/ (\E p \in 0 .. Size - 1 : Drain(p))
  <2>1. UNCHANGED <<slot, space, engine, ran>>
    BY <1>3 DEF Emit, EmitBeyond, Advance, Poll, Report, Drain
  <2> QED
    BY <2>1 DEF SlotInv
<1>4. CASE BatchEnd
  <2>1. UNCHANGED <<slot, space, ran>> /\ engine' = "ring"
    BY <1>4 DEF BatchEnd
  <2> QED
    BY <2>1 DEF SlotInv
<1> QED
  BY <1>1, <1>2, <1>3, <1>4, SlotExecute DEF Next, Submit, Engine

\* What the verdict rests on.
VerdictInv == TestInv /\ SentInv /\ SlotInv

\* "Thanks God" is said only when the engine has run the test's batch to its
\* end and the store behind it, until the account is overdrawn.
THEOREM RingVerdictSound ==
  ASSUME SmallExcess, TestShape
  PROVE  Spec => []VerdictSound
<1>1. Init => TypeInv /\ AccountInv /\ DataInv /\ VerdictInv
  <2> SUFFICES ASSUME Init PROVE VerdictInv
    BY RingInitType, AccountInit, DataInit
  <2>1. /\ pc = "idle" /\ job.test = FALSE /\ tested = FALSE /\ verdict = "none"
        /\ slot = "zero" /\ sent = <<>> /\ Len(sent) = 0 /\ Earlier = 0
    BY DEF Init, NoJob, Earlier
  <2>2. SentInv
    BY <2>1 DEF SentInv, CurrentInv, OrderInv, Shaped, Plain
  <2> QED
    BY <2>1, <2>2 DEF VerdictInv, TestInv, SlotInv
<1>2. TypeInv /\ AccountInv /\ DataInv /\ VerdictInv /\ [Next]_vars
        => (TypeInv /\ AccountInv /\ DataInv /\ VerdictInv)'
  <2> SUFFICES ASSUME TypeInv, AccountInv, DataInv, VerdictInv, [Next]_vars
               PROVE  VerdictInv'
    BY RingTypeStep, AccountStutter, DataStep
  <2>1. CASE Next
    BY <2>1, TestStep, SentStep, SlotStep DEF VerdictInv
  <2>2. CASE UNCHANGED vars
    <3>1. UNCHANGED <<pc, job, emitted, space, polls, verdict, tested, slot, engine,
                      sent, ran>>
      BY <2>2 DEF vars, driverVars, callVars, roomVars, pollVars, statusVars, engineVars
    <3>2. TestInv' /\ SlotInv'
      BY <3>1 DEF VerdictInv, TestInv, SlotInv
    <3>3. Earlier' = Earlier
      BY <3>1 DEF Earlier
    <3>4. CurrentInv' /\ OrderInv'
      BY <3>1, <3>3 DEF VerdictInv, SentInv, CurrentInv, OrderInv, Shaped, Plain
    <3> QED
      BY <3>2, <3>4 DEF VerdictInv, SentInv
  <2> QED
    BY <2>1, <2>2
<1>3. TypeInv /\ VerdictInv => VerdictSound
  <2> SUFFICES ASSUME TypeInv, VerdictInv, verdict = "Thanks God", space >= 0
               PROVE  /\ slot = "value" /\ engine # "temp"
                      /\ \E p \in DOMAIN ran : ran[p] = "STORE"
    BY DEF VerdictSound
  <2>1. slot = "value"
    <3>1. slot # "zero" /\ slot # "mark"
      BY DEF VerdictInv, TestInv
    <3>2. slot \in {"zero", "mark", "value"}
      BY DEF VerdictInv, SlotInv
    <3> QED
      BY <3>1, <3>2
  <2>2. DOMAIN ran = 1 .. Len(ran)
    <3>1. ran \in Seq(Dwords)
      BY DEF TypeInv, TypeOK
    <3> QED
      BY <3>1, LenProperties
  <2> QED
    BY <2>1, <2>2 DEF VerdictInv, SlotInv
<1> QED
  BY <1>1, <1>2, <1>3, PTL DEF Spec
=============================================================================
