-------------------------- MODULE HackrfRingProofs --------------------------
(***************************************************************************)
(* Proofs about HackrfRing for every number and size of buffers, every     *)
(* block, chunk and transfer size and every interleaving of the threads.   *)
(***************************************************************************)
EXTENDS HackrfRing, TLAPS

-----------------------------------------------------------------------------
(* The ring's successor *)

\* Stepping to the next buffer wraps exactly at the last one.
LEMMA SuccCases ==
    ASSUME NEW i \in Index
    PROVE  Succ(i) = IF i = Count - 1 THEN 0 ELSE i + 1
<1>1. CASE i = Count - 1
  BY <1>1, RingAssumption DEF Index, Succ
<1>2. CASE i # Count - 1
  BY <1>2, RingAssumption DEF Index, Succ
<1> QED BY <1>1, <1>2

\* Succ stays in the ring, never stands still and never merges two buffers.
LEMMA SuccFacts ==
    /\ \A i \in Index : Succ(i) \in Index /\ Succ(i) # i
    /\ \A i, j \in Index : Succ(i) = Succ(j) => i = j
BY SuccCases, RingAssumption DEF Index

-----------------------------------------------------------------------------
(* The inductive invariant *)

\* The ring that _buffer_init leaves satisfies the invariant.
LEMMA InitRingInv == Init => RingInv
<1> SUFFICES ASSUME Init PROVE RingInv
  OBVIOUS
<1> USE RingAssumption
<1>1. TypeOK
  <2>1. mutex \in [Index -> {"free", "writer", "reader"}]
    BY DEF Init
  <2>2. /\ data \in [Index -> [Offset -> Int]]
        /\ start \in [Index -> 0..Length] /\ length \in [Index -> 0..Length]
    BY DEF Init, Junk
  <2>3. /\ in \in Index /\ out \in Index
        /\ samples \in 0..BlockOctets /\ b \in 0..ChunkOctets /\ l \in 0..TransferOctets
        /\ blocks \in Nat /\ written \in Nat /\ played \in Nat
    BY DEF Init, Index
  <2>4. wpc \in MainPC /\ rpc \in TxPC /\ dev \in Dev /\ abort \in BOOLEAN /\ freed \in BOOLEAN
    BY DEF Init, MainPC, TxPC, Dev
  <2> QED BY <2>1, <2>2, <2>3, <2>4 DEF TypeOK
<1>2. LocksOK
  BY DEF Init, LocksOK, Holder, Index
<1>3. FillOK
  BY DEF Init, FillOK, Between, Index
<1>4. ProgressOK
  BY DEF Init, ProgressOK
<1>5. OctetsOK
  <2>1. Succ(Count - 1) = 0 /\ Count - 1 \in Index
    BY SuccCases DEF Index
  <2> QED BY <2>1 DEF Init, OctetsOK, Base, Between, Index, Offset
<1> QED BY <1>1, <1>2, <1>3, <1>4, <1>5 DEF RingInv

\* A step that moves neither a buffer nor a thread into or out of a critical
\* point keeps the locks, the fill levels and the octets in order.
LEMMA QuietStep ==
    ASSUME LocksOK, FillOK, OctetsOK,
           UNCHANGED <<mutex, data, start, length, in, out, written, played>>,
           (wpc' = "unlock") = (wpc = "unlock"), (wpc' = "copy") = (wpc = "copy"),
           (rpc' = "unlock") = (rpc = "unlock"), (rpc' = "copy") = (rpc = "copy")
    PROVE  LocksOK' /\ FillOK' /\ OctetsOK'
<1>1. LocksOK'
  BY DEF LocksOK, Holder
<1>2. FillOK'
  BY DEF FillOK, Between
<1>3. OctetsOK'
  BY DEF OctetsOK, Between, Base
<1> QED BY <1>1, <1>2, <1>3

\* The steps of the main loop outside _buffer_write.
LEMMA LoopSteps ==
    ASSUME RingInv, RfWrite \/ NextChunk \/ BlockDone PROVE RingInv'
<1> USE RingAssumption DEF RingInv
<1>1. TypeOK' /\ ProgressOK'
  BY DEF TypeOK, ProgressOK, RfWrite, NextChunk, BlockDone, Smaller, MainPC,
         mainVars, txVars, devVars, streamVars
<1>2. LocksOK' /\ FillOK' /\ OctetsOK'
  BY QuietStep DEF RfWrite, NextChunk, BlockDone, txVars, devVars, streamVars
<1> QED BY <1>1, <1>2

\* The steps of _rf_close, of the signal handler and of libhackrf, and stuttering.
LEMMA CloseSteps ==
    ASSUME RingInv, Closer \/ Device \/ Signal \/ Finished \/ UNCHANGED vars
    PROVE  RingInv'
<1> USE DEF RingInv, Closer, Device
<1>a. /\ UNCHANGED <<mutex, data, start, length, in, out, written, played, samples, b, blocks>>
      /\ \/ UNCHANGED <<wpc, abort>>
         \/ wpc' \in {"stop", "done", "wait", "close", "free"} /\ abort' = abort
         \/ abort' = TRUE /\ wpc' = wpc
  BY DEF LoopExit, StopTx, StopTxFails, WaitStopped, HackrfClose, BufferFree,
         TxCallback, StreamEnds, Vanish, Signal, Finished,
         vars, mainVars, txVars, devVars, streamVars
<1>b. /\ UNCHANGED <<rpc, l>> \/ (rpc' = "call" /\ l' = TransferOctets)
      /\ dev' \in {dev, "stopping", "stopped", "vanished", "closed"}
      /\ freed' \in {freed, TRUE}
  BY DEF LoopExit, StopTx, StopTxFails, WaitStopped, HackrfClose, BufferFree,
         TxCallback, StreamEnds, Vanish, Signal, Finished,
         vars, mainVars, txVars, devVars, streamVars
<1>1. TypeOK'
  <2>1. /\ wpc' \in MainPC /\ abort' \in BOOLEAN
        /\ samples' \in 0..BlockOctets /\ b' \in 0..ChunkOctets /\ blocks' \in Nat
    BY <1>a DEF TypeOK, MainPC
  <2>2. /\ rpc' \in TxPC /\ l' \in 0..TransferOctets
        /\ dev' \in Dev
    BY <1>b, RingAssumption DEF TypeOK, TxPC, Dev
  <2>3. freed' \in BOOLEAN
    BY <1>b, Zenon DEF TypeOK
  <2> QED BY <1>a, <2>1, <2>2, <2>3 DEF TypeOK
<1>2. ProgressOK'
  BY RingAssumption DEF TypeOK, ProgressOK, LoopExit, StopTx, StopTxFails, WaitStopped, HackrfClose, BufferFree,
         TxCallback, StreamEnds, Vanish, Signal, Finished,
         vars, mainVars, txVars, devVars, streamVars
<1>3. LocksOK' /\ FillOK' /\ OctetsOK'
  BY QuietStep DEF LoopExit, StopTx, StopTxFails, WaitStopped, HackrfClose, BufferFree,
         TxCallback, StreamEnds, Vanish, Signal, Finished,
         vars, mainVars, txVars, devVars, streamVars
<1> QED BY <1>1, <1>2, <1>3

\* An underrun changes nothing in the ring.
LEMMA ReadUnderrunStep ==
    ASSUME RingInv, ReadUnderrun PROVE RingInv'
<1> USE DEF RingInv
<1>1. TypeOK' /\ ProgressOK'
  BY RingAssumption DEF TypeOK, ProgressOK, ReadUnderrun, TxPC, mainVars, devVars
<1>2. LocksOK' /\ FillOK' /\ OctetsOK'
  BY QuietStep DEF ReadUnderrun, mainVars, devVars
<1> QED BY <1>1, <1>2

-----------------------------------------------------------------------------
(* The steps of _buffer_write *)

\* Taking the next buffer's mutex: it was free, so it is not the reader's.
LEMMA WriteLockStep ==
    ASSUME RingInv, WriteLock PROVE RingInv'
<1> USE DEF RingInv
<1> /\ Succ(in) \in Index /\ Succ(in) # in /\ in \in Index /\ out \in Index
  BY SuccFacts DEF TypeOK
<1>1. TypeOK' /\ ProgressOK'
  BY DEF TypeOK, ProgressOK, WriteLock, MainPC, txVars, devVars, streamVars
<1>2. LocksOK'
  <2>1. Succ(in) # out
    BY DEF LocksOK, WriteLock, Holder
  <2>2. ASSUME NEW i \in Index PROVE mutex'[i] = Holder(i)'
    BY <2>1 DEF LocksOK, WriteLock, Holder, TypeOK, txVars
  <2> QED BY <2>1, <2>2 DEF LocksOK, WriteLock, txVars
<1>3. FillOK'
  BY DEF FillOK, WriteLock, Between, txVars
<1>4. OctetsOK'
  BY DEF OctetsOK, WriteLock, Between, Base, streamVars
<1> QED BY <1>1, <1>2, <1>3, <1>4

\* Between' of the step that hands a full buffer over.
LEMMA WriteUnlockBetween ==
    ASSUME TypeOK, LocksOK, WriteUnlock
    PROVE  /\ in' = Succ(in) /\ out' = out /\ in' \in Index /\ in' # in /\ in' # out
           /\ ~Between(in')
           /\ \A i \in Index : Between(i)' <=> Between(i) \/ i = in
<1>1. /\ in' = Succ(in) /\ out' = out /\ in' \in Index /\ in' # in /\ in' # out
  BY SuccFacts DEF TypeOK, LocksOK, WriteUnlock
<1>2. in' = IF in = Count - 1 THEN 0 ELSE in + 1
  BY <1>1, SuccCases DEF TypeOK
<1> QED BY <1>1, <1>2, RingAssumption DEF Between, Index, TypeOK, LocksOK

\* Handing the full buffer over: it joins the buffers between the two threads.
LEMMA WriteUnlockStep ==
    ASSUME RingInv, WriteUnlock PROVE RingInv'
<1> USE DEF RingInv
<1>0. PICK p \in Index, q \in Index, r \in Index : p = in /\ q = Succ(in) /\ r = out
  BY SuccFacts DEF TypeOK
<1>a. /\ in' = q /\ out' = r /\ q # p /\ q # r /\ ~Between(q)
      /\ \A i \in Index : Between(i)' <=> Between(i) \/ i = p
  BY <1>0, WriteUnlockBetween
<1>b. /\ UNCHANGED <<start, length, data, played, written, rpc>> /\ p # r
      /\ wpc = "unlock" /\ wpc' = "copy"
  BY <1>0 DEF WriteUnlock, txVars, streamVars, TypeOK, LocksOK
<1>c. length[p] = Length /\ start[p] = 0 /\ length[q] = 0 /\ start[q] = 0
  BY <1>0, <1>a, <1>b DEF FillOK
<1>1. TypeOK' /\ ProgressOK'
  BY <1>0, <1>a DEF TypeOK, ProgressOK, WriteUnlock, MainPC, txVars, devVars, streamVars
<1>2. LocksOK'
  <2>1. rpc = "unlock" => Succ(r) # q
    BY <1>0, <1>b, SuccFacts
  <2>2. ASSUME NEW i \in Index PROVE mutex'[i] = Holder(i)'
    BY <1>0, <1>a, <1>b, <2>1 DEF LocksOK, WriteUnlock, Holder, TypeOK, txVars
  <2> QED BY <1>0, <1>a, <1>b, <2>1, <2>2 DEF LocksOK
<1>3. FillOK'
  BY <1>0, <1>a, <1>b, <1>c DEF FillOK
<1>4. OctetsOK'
  <2>1. Base(p)' = Base(p) /\ Base(p) = written - Length
    <3>1. Base(p) = written - Length
      BY <1>0, <1>c DEF Base
    <3>2. Base(p)' = data[p][0]
      BY <1>0, <1>a, <1>b DEF Base
    <3>3. data[p][0] = Base(p)
      <4>1. 0 \in Offset /\ start[p] <= 0 /\ 0 < start[p] + length[p]
        BY <1>c, RingAssumption DEF Offset
      <4>2. data[p][0] = Base(p) + 0
        BY <4>1 DEF OctetsOK
      <4>3. Base(p) \in Int
        BY <3>1, RingAssumption DEF TypeOK
      <4> QED BY <4>2, <4>3
    <3> QED BY <3>1, <3>2, <3>3
  <2>2. Base(q)' = written
    <3>1. written \in Int
      BY DEF TypeOK
    <3> QED BY <1>a, <1>b, <1>c, <3>1 DEF Base
  <2>3. Base(r)' = Base(r)
    BY <1>0, <1>a, <1>b DEF Base
  <2>4. ASSUME NEW i \in Index, Between(i)
        PROVE  Base(i)' = Base(i) /\ i # p /\ i # q /\ i # r
    BY <2>4, <1>0, <1>a, <1>b DEF Base, Between, Index
  <2>5. ASSUME NEW i \in Index, NEW o \in Offset,
               start[i] <= o, o < start[i] + length[i]
        PROVE  data[i][o] = Base(i)' + o
    <3>1. i = p \/ i = r \/ Between(i)
      BY <2>5, <1>0, <1>a, <1>b DEF FillOK, Offset, TypeOK
    <3> QED BY <3>1, <2>1, <2>3, <2>4, <2>5 DEF OctetsOK
  <2>6. ASSUME NEW i \in Index, i = r \/ Between(i) \/ i = p
        PROVE  Base(Succ(i))' = Base(i)' + start[i] + length[i]
    <3>1. CASE i = p
      BY <3>1, <2>1, <2>2, <1>0, <1>a, <1>b, <1>c DEF TypeOK
    <3>2. CASE i # p
      <4>0. PICK j \in Index : j = Succ(i)
        BY SuccFacts
      <4>1. j # q
        BY <3>2, <4>0, <1>0, SuccFacts
      <4>2. Base(j) = Base(i) + start[i] + length[i]
        BY <4>0, <2>6, <3>2, <1>0 DEF OctetsOK
      <4>3. j = p \/ j = r \/ Between(j)
        BY <4>0, <2>6, <3>2, <1>0, <1>b, SuccCases, RingAssumption DEF Between, Index
      <4>4. Base(j)' = Base(j) /\ Base(i)' = Base(i)
        BY <4>3, <2>6, <3>2, <2>1, <2>3, <2>4
      <4> QED BY <4>0, <4>2, <4>4
    <3> QED BY <3>1, <3>2
  <2>7. ASSUME NEW i \in Index, Between(i)' PROVE Base(i)' + Length <= written
    BY <2>7, <2>1, <2>4, <1>a, RingAssumption DEF OctetsOK, TypeOK
  <2> QED BY <1>0, <1>a, <1>b, <2>5, <2>6, <2>7 DEF OctetsOK
<1> QED BY <1>1, <1>2, <1>3, <1>4

\* What the copy of _buffer_write moves: at least one octet, never past the end.
LEMMA WriteCopyAmount ==
    ASSUME RingInv, WriteCopy
    PROVE  \E n \in 1..ChunkOctets :
              /\ n <= b /\ length[in] + n <= Length
              /\ data' = [data EXCEPT ![in] = [o \in Offset |->
                             IF length[in] <= o /\ o < length[in] + n
                             THEN written + (o - length[in]) ELSE @[o]]]
              /\ length' = [length EXCEPT ![in] = @ + n]
              /\ b' = b - n /\ written' = written + n
<1>1. /\ start[in] = 0 /\ length[in] \in Nat /\ length[in] < Length
      /\ b \in 1..ChunkOctets
  <2>1. start[in] = 0 /\ length[in] \in 0..Length
    BY DEF RingInv, TypeOK, FillOK
  <2>2. length[in] # Length
    BY <2>1, RingAssumption DEF RingInv, FillOK, WriteCopy
  <2>3. b \in 0..ChunkOctets /\ b > 0
    BY DEF RingInv, TypeOK, ProgressOK, WriteCopy
  <2> QED BY <2>1, <2>2, <2>3, RingAssumption
<1> DEFINE n == Smaller(b, Length - length[in])
<1>2. start[in] + length[in] = length[in]
  BY <1>1
<1>3. n \in 1..ChunkOctets /\ n <= b /\ length[in] + n <= Length
  BY <1>1, RingAssumption DEF Smaller
<1>4. /\ data' = [data EXCEPT ![in] = [o \in Offset |->
                     IF length[in] <= o /\ o < length[in] + n
                     THEN written + (o - length[in]) ELSE @[o]]]
      /\ length' = [length EXCEPT ![in] = @ + n]
      /\ b' = b - n /\ written' = written + n
  BY <1>2 DEF WriteCopy
<1> QED BY <1>3, <1>4

\* Copying into the writer's buffer appends to what it holds and to the stream.
LEMMA WriteCopyStep ==
    ASSUME RingInv, WriteCopy PROVE RingInv'
<1> USE DEF RingInv
<1>0. PICK p \in Index, r \in Index : p = in /\ r = out /\ p # r
  BY DEF TypeOK, LocksOK
<1>1. PICK n \in 1..ChunkOctets :
         /\ n <= b /\ length[p] + n <= Length
         /\ data' = [data EXCEPT ![p] = [o \in Offset |->
                        IF length[p] <= o /\ o < length[p] + n
                        THEN written + (o - length[p]) ELSE @[o]]]
         /\ length' = [length EXCEPT ![p] = @ + n]
         /\ b' = b - n /\ written' = written + n
  BY <1>0, WriteCopyAmount
<1>2. /\ UNCHANGED <<mutex, start, in, out, samples, blocks, abort, rpc, l, dev, freed, played>>
      /\ wpc \in {"call", "copy"} /\ wpc' \in {"chunk", "call"}
      /\ (b' > 0) <=> (wpc' = "call")
  <2>1. b' \in Nat
    BY <1>1 DEF TypeOK
  <2> QED BY <2>1 DEF WriteCopy, txVars, devVars
<1>3. /\ length[p] \in Nat /\ written \in Nat /\ b \in Nat /\ start[p] = 0
      /\ length[p]' = length[p] + n
      /\ \A i \in Index \ {p} : length[i]' = length[i] /\ data[i]' = data[i]
      /\ \A o \in Offset : data[p]'[o] = IF length[p] <= o /\ o < length[p] + n
                                         THEN written + (o - length[p]) ELSE data[p][o]
  BY <1>0, <1>1 DEF TypeOK, FillOK
<1>4. \A i \in Index : Between(i)' = Between(i) /\ (Between(i) => i # p /\ i # r)
  BY <1>0, <1>2 DEF Between, Index
<1>5. TypeOK'
  <2>1. data' \in [Index -> [Offset -> Int]]
    <3>1. [o \in Offset |-> IF length[p] <= o /\ o < length[p] + n
                            THEN written + (o - length[p]) ELSE data[p][o]] \in [Offset -> Int]
      <4>1. \A o \in Offset : o \in Int /\ data[p][o] \in Int
        BY RingAssumption DEF TypeOK, Offset
      <4> QED BY <4>1, <1>3
    <3> QED BY <1>1, <3>1 DEF TypeOK
  <2>2. length' \in [Index -> 0..Length]
    BY <1>1, <1>3, RingAssumption DEF TypeOK
  <2>3. b' \in 0..ChunkOctets /\ written' \in Nat
    BY <1>1, <1>3, RingAssumption DEF TypeOK
  <2>4. wpc' \in MainPC
    BY <1>2 DEF MainPC
  <2> QED BY <1>2, <2>1, <2>2, <2>3, <2>4 DEF TypeOK
<1>6. ProgressOK'
  BY <1>2, Zenon DEF ProgressOK
<1>7. LocksOK'
  BY <1>2 DEF LocksOK, Holder
<1>8. FillOK'
  BY <1>0, <1>2, <1>3, <1>4 DEF FillOK
<1>9. OctetsOK'
  <2>1. Base(p)' = Base(p) /\ Base(p) = written - length[p]
    BY <1>0, <1>1, <1>2, <1>3 DEF Base
  <2>2. Base(r)' = Base(r)
    BY <1>0, <1>2 DEF Base
  <2>3. \A i \in Index : Between(i) => Base(i)' = Base(i)
    BY <1>0, <1>2, <1>3, <1>4 DEF Base
  <2>4. ASSUME NEW i \in Index, NEW o \in Offset,
               start[i] <= o, o < start[i] + length[i]'
        PROVE  data[i]'[o] = Base(i)' + o
    <3>1. CASE i = p /\ length[p] <= o
      BY <3>1, <2>1, <2>4, <1>3 DEF Offset
    <3>2. CASE i = p /\ ~(length[p] <= o)
      <4>1. start[i] <= o /\ o < start[i] + length[i]
        BY <3>2, <2>4, <1>3, RingAssumption DEF Offset
      <4> QED BY <3>2, <4>1, <2>1, <1>3 DEF OctetsOK
    <3>3. CASE i # p
      <4>1. length[i] # 0 /\ length[i]' = length[i] /\ data[i]' = data[i]
        BY <3>3, <2>4, <1>3, SMTT(30) DEF Offset, TypeOK
      <4>2. i = r \/ Between(i)
        BY <3>3, <4>1, <1>0 DEF FillOK
      <4> QED BY <4>1, <4>2, <2>2, <2>3, <2>4 DEF OctetsOK
    <3> QED BY <3>1, <3>2, <3>3
  <2>5. ASSUME NEW i \in Index, i = r \/ Between(i)
        PROVE  Base(Succ(i))' = Base(i)' + start[i] + length[i]'
    <3>0. PICK j \in Index : j = Succ(i)
      BY SuccFacts
    <3>1. Base(j) = Base(i) + start[i] + length[i]
      BY <3>0, <2>5, <1>0 DEF OctetsOK
    <3>2. j = p \/ Between(j)
      BY <3>0, <2>5, <1>0, SuccCases, RingAssumption DEF Between, Index
    <3>3. i # p /\ length[i]' = length[i]
      BY <2>5, <1>0, <1>3, <1>4
    <3> QED BY <3>0, <3>1, <3>2, <3>3, <2>1, <2>2, <2>3, <2>5
  <2>6. ASSUME NEW i \in Index, Between(i) PROVE Base(i)' + Length <= written'
    <3>1. Base(i) = data[i][0] /\ Base(i) \in Int
      BY <2>6, <1>0, <1>4, RingAssumption DEF Base, TypeOK, Offset
    <3> QED BY <3>1, <2>6, <2>3, <1>1, <1>3, RingAssumption DEF OctetsOK
  <2> QED BY <1>0, <1>2, <1>4, <2>4, <2>5, <2>6 DEF OctetsOK
<1> QED BY <1>5, <1>6, <1>7, <1>8, <1>9

-----------------------------------------------------------------------------
(* The steps of _buffer_read *)

\* Taking the next buffer's mutex and resetting the drained buffer.
LEMMA ReadTryLockStep ==
    ASSUME RingInv, ReadTryLock PROVE RingInv'
<1> USE DEF RingInv
<1>0. PICK p \in Index, r \in Index, q \in Index :
         p = in /\ r = out /\ q = Succ(out) /\ p # r /\ q # r
  BY SuccFacts DEF TypeOK, LocksOK
<1>1. /\ UNCHANGED <<data, length, in, out, wpc, samples, b, blocks, abort, l, dev, freed,
                     written, played, handed>>
      /\ rpc = "call" /\ rpc' = "unlock" /\ length[r] = 0 /\ mutex[q] = "free"
      /\ mutex' = [mutex EXCEPT ![q] = "reader"] /\ start' = [start EXCEPT ![r] = 0]
  BY <1>0 DEF ReadTryLock, mainVars, devVars, streamVars
<1>2. q # p
  BY <1>0, <1>1 DEF LocksOK, Holder
<1>3. start[r]' = 0 /\ start[r] \in Int /\ \A i \in Index \ {r} : start[i]' = start[i]
  BY <1>1 DEF TypeOK
<1>4. \A i \in Index : Between(i)' = Between(i) /\ (Between(i) => i # p /\ i # r)
  BY <1>0, <1>1 DEF Between, Index
<1>5. TypeOK' /\ ProgressOK'
  BY <1>0, <1>1, RingAssumption DEF TypeOK, ProgressOK, TxPC
<1>6. LocksOK'
  <2>1. ASSUME NEW i \in Index PROVE mutex'[i] = Holder(i)'
    BY <1>0, <1>1, <1>2 DEF LocksOK, Holder, TypeOK
  <2> QED BY <1>0, <1>1, <1>2, <2>1 DEF LocksOK
<1>7. FillOK'
  BY <1>0, <1>1, <1>3, <1>4, RingAssumption DEF FillOK
<1>8. OctetsOK'
  <2>1. Base(r)' = played /\ Base(r) + start[r] = played
    BY <1>0, <1>1, <1>3 DEF Base, TypeOK
  <2>2. \A i \in Index \ {r} : Base(i)' = Base(i)
    BY <1>0, <1>1 DEF Base
  <2>3. ASSUME NEW i \in Index, NEW o \in Offset,
               start[i]' <= o, o < start[i]' + length[i]
        PROVE  data[i][o] = Base(i)' + o
    <3>1. i # r
      BY <2>3, <1>1, <1>3 DEF Offset
    <3> QED BY <3>1, <2>2, <2>3, <1>3 DEF OctetsOK
  <2>4. ASSUME NEW i \in Index, i = r \/ Between(i)
        PROVE  Base(Succ(i))' = Base(i)' + start[i]' + length[i]
    <3>0. PICK j \in Index : j = Succ(i)
      BY SuccFacts
    <3>1. Base(j) = Base(i) + start[i] + length[i]
      BY <3>0, <2>4, <1>0 DEF OctetsOK
    <3>2. j # r
      BY <3>0, <2>4, <1>0, SuccCases, RingAssumption DEF Between, Index
    <3>3. played \in Int
      BY DEF TypeOK
    <3> QED BY <3>0, <3>1, <3>2, <3>3, <2>1, <2>2, <2>4, <1>1, <1>3
  <2>5. ASSUME NEW i \in Index, Between(i) PROVE Base(i)' + Length <= written
    BY <2>5, <2>2, <1>4 DEF OctetsOK
  <2> QED BY <1>0, <1>1, <1>4, <2>3, <2>4, <2>5 DEF OctetsOK
<1> QED BY <1>5, <1>6, <1>7, <1>8

\* The buffer the reader adopts is the oldest full one; the one it leaves is empty.
LEMMA ReadUnlockStep ==
    ASSUME RingInv, ReadUnlock PROVE RingInv'
<1> USE DEF RingInv
<1>0. PICK p \in Index, r \in Index, q \in Index :
         p = in /\ r = out /\ q = Succ(out) /\ p # r /\ q # r /\ q # p
  BY SuccFacts DEF TypeOK, LocksOK, ReadUnlock
<1>1. /\ UNCHANGED <<data, start, length, in, wpc, samples, b, blocks, abort, l, dev, freed,
                     written, played, handed>>
      /\ rpc = "unlock" /\ rpc' = "copy" /\ out' = q
      /\ mutex' = [mutex EXCEPT ![r] = "free"]
  BY <1>0 DEF ReadUnlock, mainVars, devVars, streamVars
<1>2. /\ Between(q)
      /\ \A i \in Index : Between(i)' <=> Between(i) /\ i # q
      /\ \A i \in Index : Between(i) => i # p /\ i # r
  <2>1. q = IF r = Count - 1 THEN 0 ELSE r + 1
    BY <1>0, SuccCases
  <2> QED BY <2>1, <1>0, <1>1, RingAssumption DEF Between, Index
<1>3. length[r] = 0 /\ start[r] = 0 /\ length[q] = Length /\ start[q] = 0
  BY <1>0, <1>1, <1>2 DEF FillOK
<1>5. TypeOK' /\ ProgressOK'
  BY <1>0, <1>1, RingAssumption DEF TypeOK, ProgressOK, TxPC
<1>6. LocksOK'
  <2>1. wpc = "unlock" => Succ(p) # q
    BY <1>0, SuccFacts
  <2>2. ASSUME NEW i \in Index PROVE mutex'[i] = Holder(i)'
    BY <1>0, <1>1, <2>1 DEF LocksOK, Holder, TypeOK
  <2> QED BY <1>0, <1>1, <2>1, <2>2 DEF LocksOK
<1>7. FillOK'
  BY <1>0, <1>1, <1>2, <1>3, RingAssumption DEF FillOK
<1>8. OctetsOK'
  <2>1. Base(q)' = Base(q)
    <3>1. Base(q) = Base(r) + start[r] + length[r]
      BY <1>0 DEF OctetsOK
    <3>2. Base(r) = played /\ played \in Int
      BY <1>0, <1>3 DEF Base, TypeOK
    <3>3. Base(q)' = played
      BY <1>0, <1>1, <1>3, <3>2 DEF Base
    <3> QED BY <3>1, <3>2, <3>3, <1>3
  <2>2. \A i \in Index \ {q, r} : Base(i)' = Base(i)
    BY <1>0, <1>1 DEF Base
  <2>3. ASSUME NEW i \in Index, NEW o \in Offset,
               start[i] <= o, o < start[i] + length[i]
        PROVE  data[i][o] = Base(i)' + o
    <3>1. i # r
      BY <2>3, <1>3 DEF Offset
    <3> QED BY <3>1, <2>1, <2>2, <2>3 DEF OctetsOK
  <2>4. ASSUME NEW i \in Index, Between(i)
        PROVE  Base(Succ(i))' = Base(i)' + start[i] + length[i]
    <3>0. PICK j \in Index : j = Succ(i)
      BY SuccFacts
    <3>1. Base(j) = Base(i) + start[i] + length[i]
      BY <3>0, <2>4 DEF OctetsOK
    <3>2. j # r
      BY <3>0, <2>4, <1>0, SuccCases, RingAssumption DEF Between, Index
    <3> QED BY <3>0, <3>1, <3>2, <1>2, <2>1, <2>2, <2>4
  <2>5. ASSUME NEW i \in Index, Between(i) PROVE Base(i)' + Length <= written
    BY <2>5, <2>1, <2>2, <1>2 DEF OctetsOK
  <2> QED BY <1>1, <1>2, <2>3, <2>4, <2>5 DEF OctetsOK
<1> QED BY <1>5, <1>6, <1>7, <1>8

\* What the copy of _buffer_read moves: at least one octet, never more than there is.
LEMMA ReadCopyAmount ==
    ASSUME RingInv, ReadCopy
    PROVE  \E n \in 1..TransferOctets :
              /\ n <= l /\ n <= length[out]
              /\ handed' = [k \in 1..n |-> data[out][start[out] + k - 1]]
              /\ l' = l - n /\ played' = played + n
              /\ start' = [start EXCEPT ![out] = @ + n]
              /\ length' = [length EXCEPT ![out] = @ - n]
<1>1. length[out] \in Nat \ {0} /\ l \in 1..TransferOctets
  BY RingAssumption DEF RingInv, TypeOK, FillOK, ProgressOK, ReadCopy
<1> DEFINE n == Smaller(l, length[out])
<1>2. n \in 1..TransferOctets /\ n <= l /\ n <= length[out] /\ n # 0
  BY <1>1, RingAssumption DEF Smaller
<1>3. /\ handed' = [k \in 1..n |-> data[out][start[out] + k - 1]]
      /\ l' = l - n /\ played' = played + n
      /\ start' = [start EXCEPT ![out] = @ + n]
      /\ length' = [length EXCEPT ![out] = @ - n]
  BY <1>2 DEF ReadCopy
<1> QED BY <1>2, <1>3

\* Copying out of the reader's buffer takes the oldest octets from it.
LEMMA ReadCopyStep ==
    ASSUME RingInv, ReadCopy PROVE RingInv'
<1> USE DEF RingInv
<1>0. PICK p \in Index, r \in Index : p = in /\ r = out /\ p # r
  BY DEF TypeOK, LocksOK
<1>1. PICK n \in 1..TransferOctets :
         /\ n <= l /\ n <= length[r]
         /\ l' = l - n /\ played' = played + n
         /\ start' = [start EXCEPT ![r] = @ + n]
         /\ length' = [length EXCEPT ![r] = @ - n]
  BY <1>0, ReadCopyAmount
<1>2. l \in 0..TransferOctets /\ played \in Nat /\ start[r] \in 0..Length /\ length[r] \in 0..Length
  BY DEF TypeOK
<1>3. /\ UNCHANGED <<mutex, data, in, out, wpc, samples, b, blocks, abort, dev, freed, written>>
      /\ rpc \in {"call", "copy"} /\ rpc' \in {"idle", "call"}
      /\ (l' > 0) <=> (rpc' = "call")
  <2>1. l' \in Nat
    BY <1>1, <1>2 
  <2> QED BY <2>1 DEF ReadCopy, mainVars, devVars
<1>4. /\ start[r]' = start[r] + n /\ length[r]' = length[r] - n
      /\ \A i \in Index \ {r} : start[i]' = start[i] /\ length[i]' = length[i]
  BY <1>1 DEF TypeOK
<1>5. \A i \in Index : Between(i)' = Between(i) /\ (Between(i) => i # p /\ i # r)
  BY <1>0, <1>3 DEF Between, Index
<1>6. start[r] + length[r] <= Length
  BY <1>0 DEF FillOK
<1>7. TypeOK'
  <2>1. start' \in [Index -> 0..Length] /\ length' \in [Index -> 0..Length]
    <3>1. start[r] + n \in 0..Length /\ length[r] - n \in 0..Length
      BY <1>1, <1>2, <1>6, RingAssumption
    <3> QED BY <1>1, <3>1 DEF TypeOK
  <2>2. l' \in 0..TransferOctets /\ played' \in Nat
    BY <1>1, <1>2, RingAssumption
  <2>3. rpc' \in TxPC
    BY <1>3 DEF TxPC
  <2> QED BY <1>3, <2>1, <2>2, <2>3 DEF TypeOK
<1>8. ProgressOK'
  <2>1. rpc' # "idle" => l' > 0
    BY <1>3
  <2> QED BY <1>3, <2>1 DEF ProgressOK
<1>9. LocksOK'
  BY <1>3 DEF LocksOK, Holder
<1>10. FillOK'
  BY <1>0, <1>1, <1>2, <1>3, <1>4, <1>5, <1>6 DEF FillOK
<1>11. OctetsOK'
  <2>1. ASSUME NEW i \in Index PROVE Base(i)' = Base(i)
    <3>1. CASE i = r
      <4>1. Base(r) = played - start[r] /\ Base(r)' = played' - start[r]'
        BY <1>0, <1>3 DEF Base
      <4>2. played' - start[r]' = played - start[r]
        BY <1>1, <1>2, <1>4
      <4> QED BY <3>1, <4>1, <4>2
    <3>2. CASE i # r
      BY <3>2, <1>0, <1>3, <1>4 DEF Base
    <3> QED BY <3>1, <3>2
  <2>2. ASSUME NEW i \in Index, NEW o \in Offset,
               start[i]' <= o, o < start[i]' + length[i]'
        PROVE  data[i][o] = Base(i)' + o
    <3>1. start[i] <= o /\ o < start[i] + length[i]
      BY <2>2, <1>1, <1>2, <1>4 DEF Offset
    <3> QED BY <3>1, <2>1 DEF OctetsOK
  <2>3. ASSUME NEW i \in Index, i = r \/ Between(i)
        PROVE  Base(Succ(i))' = Base(i)' + start[i]' + length[i]'
    <3>0. PICK j \in Index : j = Succ(i)
      BY SuccFacts
    <3>1. Base(j) = Base(i) + start[i] + length[i]
      BY <3>0, <2>3, <1>0 DEF OctetsOK
    <3>2. Base(r) \in Int
      BY <1>0, <1>2 DEF Base
    <3>3. CASE i = r
      BY <3>0, <3>1, <3>2, <3>3, <2>1, <1>1, <1>2, <1>4
    <3>4. CASE i # r
      BY <3>0, <3>1, <3>4, <2>1, <1>4
    <3> QED BY <3>3, <3>4
  <2>4. ASSUME NEW i \in Index, Between(i) PROVE Base(i)' + Length <= written
    BY <2>4, <2>1 DEF OctetsOK
  <2> QED BY <1>0, <1>3, <1>5, <2>2, <2>3, <2>4 DEF OctetsOK
<1> QED BY <1>7, <1>8, <1>9, <1>10, <1>11

-----------------------------------------------------------------------------
(* The theorems *)

\* Every step of either thread, of the device and of the closing keeps the invariant.
LEMMA RingInvStep == RingInv /\ [Next]_vars => RingInv'
<1> SUFFICES ASSUME RingInv, [Next]_vars PROVE RingInv'
  OBVIOUS
<1>1. CASE Writer
  BY <1>1, LoopSteps, WriteLockStep, WriteUnlockStep, WriteCopyStep DEF Writer
<1>2. CASE Reader
  BY <1>2, ReadTryLockStep, ReadUnderrunStep, ReadUnlockStep, ReadCopyStep DEF Reader
<1>3. CASE Closer \/ Device \/ Signal \/ Finished \/ UNCHANGED vars
  BY <1>3, CloseSteps
<1> QED BY <1>1, <1>2, <1>3 DEF Next

\* Every state dsrtx reaches satisfies the inductive invariant, whatever the number
\* and size of the buffers and the interleaving of the two threads.
THEOREM RingInvHolds == Spec => []RingInv
BY InitRingInv, RingInvStep, PTL DEF Spec

\* No buffer ever holds more than it has room for, and the variables keep their types.
THEOREM TypeCorrect == Spec => []TypeOK
<1>1. RingInv => TypeOK
  BY DEF RingInv
<1> QED BY <1>1, RingInvHolds, PTL

\* The two threads never touch the same buffer, so _buffer_read and _buffer_write
\* do not race although they run without a common lock.
THEOREM ExclusiveBuffers == Spec => []NoSharedBuffer
<1>1. RingInv => NoSharedBuffer
  BY DEF RingInv, TypeOK, LocksOK, Holder, NoSharedBuffer
<1> QED BY <1>1, RingInvHolds, PTL

\* The reader only ever adopts buffers the writer has filled.
THEOREM ReaderGetsWholeBuffers == Spec => []WholeBuffers
<1>1. RingInv => WholeBuffers
  BY DEF RingInv, FillOK, WholeBuffers
<1> QED BY <1>1, RingInvHolds, PTL

\* while(b) in _rf_write cannot loop without copying anything.
THEOREM WriterNeverSpins == Spec => []NeverSpins
<1>1. RingInv => NeverSpins
  <2> SUFFICES ASSUME RingInv PROVE NeverSpins
    OBVIOUS
  <2>1. start[in] = 0 /\ length[in] \in 0..Length /\ (wpc = "copy" => length[in] = 0)
    BY DEF RingInv, TypeOK, FillOK
  <2> QED BY <2>1, RingAssumption DEF NeverSpins
<1> QED BY <1>1, RingInvHolds, PTL

\* The main thread is held up by the ring only when the ring is full.
THEOREM WriterBlocksOnlyWhenFull == Spec => []BlockedMeansFull
<1>1. RingInv => BlockedMeansFull
  <2> SUFFICES ASSUME RingInv, wpc = "call", length[in] = Length, mutex[Succ(in)] # "free",
                      NEW i \in Index, i # out
               PROVE  length[i] = Length
    BY DEF BlockedMeansFull
  <2>1. PICK p \in Index, q \in Index, r \in Index :
           p = in /\ q = Succ(p) /\ r = out /\ p # r /\ q # p
    BY SuccFacts DEF RingInv, TypeOK, LocksOK
  <2>2. q = r
    <3>1. Succ(r) # q
      BY <2>1, SuccFacts
    <3> QED BY <3>1, <2>1 DEF RingInv, LocksOK, Holder
  <2>3. i = p \/ Between(i)
    <3>1. r = IF p = Count - 1 THEN 0 ELSE p + 1
      BY <2>1, <2>2, SuccCases
    <3> QED BY <3>1, <2>1, RingAssumption DEF Between, Index
  <2> QED BY <2>1, <2>3 DEF RingInv, FillOK
<1> QED BY <1>1, RingInvHolds, PTL

\* _buffer_free runs only once no callback can run any more.
THEOREM FreedAfterLastCallback == Spec => []NoUseAfterFree
<1>1. RingInv => NoUseAfterFree
  BY DEF RingInv, ProgressOK, NoUseAfterFree
<1> QED BY <1>1, RingInvHolds, PTL

-----------------------------------------------------------------------------
(* The ring implements the stream *)

\* The ring starts as an empty stream.
LEMMA StreamInit == Init => Stream!StreamInit
BY DEF Init, Stream!StreamInit

\* Every step of the ring is a step of the stream or invisible in it.
LEMMA StreamStep ==
    ASSUME RingInv, [Next]_vars PROVE [Stream!StreamNext]_Stream!streamVars
<1> USE DEF Stream!StreamNext, Stream!streamVars, Stream!Push, Stream!Hand, Stream!Silence
<1>1. CASE WriteCopy
  <2>1. PICK n \in 1..ChunkOctets : written' = written + n
    BY <1>1, WriteCopyAmount
  <2>2. UNCHANGED <<played, handed>>
    BY <1>1 DEF WriteCopy
  <2> QED BY <2>1, <2>2
<1>2. CASE ReadCopy
  <2>0. PICK r \in Index : r = out /\ r # in
    BY DEF RingInv, TypeOK, LocksOK
  <2>1. PICK n \in 1..TransferOctets :
           /\ n <= length[r] /\ played' = played + n
           /\ handed' = [k \in 1..n |-> data[r][start[r] + k - 1]]
    BY <1>2, <2>0, ReadCopyAmount
  <2>2. /\ Base(r) = played - start[r] /\ played \in Nat /\ written \in Nat
        /\ start[r] \in Nat /\ length[r] \in Nat /\ start[r] + length[r] <= Length
    BY <2>0 DEF Base, RingInv, TypeOK, FillOK
  <2>3. ASSUME NEW k \in 1..n PROVE data[r][start[r] + k - 1] = played + k - 1
    <3>1. PICK o \in Offset : /\ o = start[r] + k - 1
                              /\ start[r] <= o /\ o < start[r] + length[r]
      <4>1. /\ start[r] + k - 1 \in 0..Length - 1 /\ start[r] <= start[r] + k - 1
            /\ start[r] + k - 1 < start[r] + length[r]
        <5>1. k \in Int /\ 1 <= k /\ k <= length[r]
          BY <2>1, <2>2
        <5> QED BY <5>1, <2>2, RingAssumption
      <4> QED BY <4>1 DEF Offset
    <3>2. data[r][o] = Base(r) + o
      BY <3>1 DEF RingInv, OctetsOK
    <3>3. Base(r) + o = played + k - 1
      BY <3>1, <2>2
    <3> QED BY <3>1, <3>2, <3>3
  <2>4. played + n <= written
    <3>1. PICK j \in Index : j = Succ(r)
      BY SuccFacts
    <3>2. Base(j) = played + length[r]
      BY <3>1, <2>0, <2>2 DEF RingInv, OctetsOK
    <3>3. j = in \/ Between(j)
      <4>1. j = IF r = Count - 1 THEN 0 ELSE r + 1
        BY <3>1, SuccCases
      <4>2. in \in Index
        BY DEF RingInv, TypeOK
      <4> QED BY <4>1, <4>2, <2>0, RingAssumption DEF Between, Index
    <3>4. CASE j = in
      <4>1. length[j] \in Nat
        BY <3>4 DEF RingInv, TypeOK
      <4>2. Base(j) = written - length[j]
        BY <3>4 DEF Base
      <4> QED BY <4>1, <4>2, <3>2, <2>1, <2>2
    <3>5. CASE Between(j)
      BY <3>2, <3>5, <2>1, <2>2, RingAssumption DEF RingInv, OctetsOK
    <3> QED BY <3>3, <3>4, <3>5
  <2>5. handed' = [k \in 1..n |-> played + k - 1] /\ written' = written
    BY <2>1, <2>3, <1>2 DEF ReadCopy
  <2> QED BY <2>1, <2>4, <2>5
<1>3. CASE ReadUnderrun
  <2>0. PICK r \in Index, j \in Index : r = out /\ r # in /\ j = Succ(r) /\ j # r
    BY SuccFacts DEF RingInv, TypeOK, LocksOK
  <2>1. j = in
    <3>1. Succ(in) # j
      BY <2>0, SuccFacts DEF RingInv, TypeOK
    <3> QED BY <3>1, <2>0, <1>3 DEF RingInv, LocksOK, Holder, ReadUnderrun
  <2>2. written - length[j] = played + length[r] /\ length[r] = 0 /\ length[j] \in 0..Length
    <3>1. Base(j) = Base(r) + start[r] + length[r]
      BY <2>0 DEF RingInv, OctetsOK
    <3>2. Base(r) = played - start[r] /\ Base(j) = written - length[j]
      BY <2>0, <2>1 DEF Base
    <3>3. played \in Nat /\ start[r] \in Nat /\ length[r] \in Nat /\ length[j] \in 0..Length
      BY DEF RingInv, TypeOK
    <3>4. length[r] = 0
      BY <2>0, <1>3 DEF ReadUnderrun
    <3> QED BY <3>1, <3>2, <3>3, <3>4
  <2>3. written - played <= Length
    BY <2>2, RingAssumption DEF RingInv, TypeOK
  <2>4. l \in 1..TransferOctets
    BY <1>3 DEF RingInv, TypeOK, ProgressOK, ReadUnderrun
  <2> QED BY <1>3, <2>3, <2>4 DEF ReadUnderrun
<1>4. CASE Writer /\ ~WriteCopy
  BY <1>4 DEF Writer, RfWrite, NextChunk, BlockDone, WriteLock, WriteUnlock, streamVars
<1>5. CASE ReadTryLock \/ ReadUnlock
  BY <1>5 DEF ReadTryLock, ReadUnlock, streamVars
<1>6. CASE Closer \/ Device \/ Signal \/ Finished \/ UNCHANGED vars
  BY <1>6 DEF Closer, Device, LoopExit, StopTx, StopTxFails, WaitStopped, HackrfClose,
     BufferFree, TxCallback, StreamEnds, Vanish, Signal, Finished, vars, streamVars
<1> QED BY <1>1, <1>2, <1>3, <1>4, <1>5, <1>6 DEF Next, Reader

\* Whatever the sizes and the schedule, the device receives the octets written, in
\* order and once each, with zeros inserted only when at most one buffer is pending.
THEOREM RingImplementsStream == Spec => StreamRefined
<1>1. RingInv /\ [Next]_vars => [Stream!StreamNext]_Stream!streamVars
  BY StreamStep
<1> QED BY <1>1, StreamInit, RingInvHolds, PTL DEF Spec, StreamRefined, Stream!StreamSpec
=============================================================================
