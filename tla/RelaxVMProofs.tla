--------------------------- MODULE RelaxVMProofs ---------------------------
(***************************************************************************)
(* Proofs about the Relax virtual machine: its frames, its control and,    *)
(* in the last part, its references; for every executable that satisfies   *)
(* CodeAssumption and OperandAssumption, every number of buffers, all      *)
(* register counts and every depth of calls.                               *)
(*                                                                         *)
(* First the frame pool of RelaxVMFrames.  Its inductive invariant PoolOK  *)
(* is stated over any array F of C slots with s of them in use, so that    *)
(* the growth of the array and the push into it can be treated one after   *)
(* the other.  Beyond the invariants that are model-checked it says that a *)
(* slot with a buffer has a capacity above zero: that is why an address    *)
(* the allocator calls free is behind no slot.                             *)
(*                                                                         *)
(* Then the machine.  It uses its frames as RelaxVMFrames says             *)
(* (Spec => FramesSpec), so that what is proved of the pool holds of the   *)
(* machine.  And as long as no packed call has failed, the bottom frame is *)
(* the one of the function the user called, and the frame above it returns *)
(* there.                                                                  *)
(***************************************************************************)
EXTENDS RelaxVM, FiniteSetTheorems, WellFoundedInduction, TLAPS

SlotsOK(F, C, bc) ==
  /\ C \in Nat
  /\ F \in [0 .. C - 1 -> Frame]
  /\ bc \in [Buffer -> Nat]

IdleOK(F, C, s) == \A i \in s .. C - 1 : F[i].register_size = 0

UnsharedOK(F, C) ==
  \A i, j \in 0 .. C - 1 :
    F[i].registers = F[j].registers /\ F[i].registers # NoBuffer => i = j

BoundsOK(F, C, bc) ==
  \A i \in 0 .. C - 1 :
    /\ F[i].register_size <= F[i].register_capacity
    /\ F[i].registers = NoBuffer => F[i].register_capacity = 0
    /\ F[i].registers # NoBuffer =>
         F[i].register_capacity = bc[F[i].registers] /\ F[i].register_capacity > 0

ReachableOK(F, C, bc) ==
  \A b \in Buffer : bc[b] > 0 => \E i \in 0 .. C - 1 : F[i].registers = b

PoolOK(F, C, s, bc) ==
  /\ SlotsOK(F, C, bc)
  /\ s \in 0 .. C
  /\ IdleOK(F, C, s)
  /\ UnsharedOK(F, C)
  /\ BoundsOK(F, C, bc)
  /\ ReachableOK(F, C, bc)

IInv == PoolOK(frames, frame_capacity, frame_size, bufcap)

-----------------------------------------------------------------------------
(* A push enters slots of the frame type. *)
LEMMA EnteredType ==
  ASSUME NEW f \in Frame, NEW n \in Nat, NEW p \in PC, NEW d \in RegisterName
  PROVE  /\ Entered(f, n, p, d) \in Frame
         /\ Entered(f, n, p, d).registers = f.registers
         /\ Entered(f, n, p, d).register_capacity = f.register_capacity
         /\ Entered(f, n, p, d).register_size = n
  BY DEF Entered, Frame

(* Growing the array (relax_vm_runner.c:19-36) keeps every slot, adds idle *)
(* ones and makes room for one more frame.                                 *)
LEMMA GrownOK ==
  ASSUME IInv
  PROVE  /\ PoolOK(GrownFrames, GrownCapacity, frame_size, bufcap)
         /\ frame_size < GrownCapacity
         /\ frame_capacity <= GrownCapacity
         /\ \A i \in 0 .. frame_capacity - 1 : GrownFrames[i] = frames[i]
  <1> DEFINE C == GrownCapacity
             G == GrownFrames
  <1>a. /\ frame_capacity \in Nat
        /\ frame_size \in 0 .. frame_capacity
        /\ frames \in [0 .. frame_capacity - 1 -> Frame]
    BY DEF IInv, PoolOK, SlotsOK
  <1>1. C \in Nat /\ frame_size < C /\ frame_capacity <= C
    BY <1>a, FramesAssumption DEF GrownCapacity
  <1>2. ZeroFrame \in Frame
    BY FramesAssumption DEF ZeroFrame, Frame
  <1>3. \A i \in 0 .. C - 1 :
          G[i] = IF i < frame_capacity THEN frames[i] ELSE ZeroFrame
    BY DEF GrownFrames
  <1> HIDE DEF C
  <1>4. G \in [0 .. C - 1 -> Frame]
    BY <1>a, <1>1, <1>2 DEF GrownFrames, C
  <1>5. \A i \in 0 .. frame_capacity - 1 : i \in 0 .. C - 1 /\ G[i] = frames[i]
    BY <1>a, <1>1, <1>3
  <1>6. \A i \in 0 .. C - 1 : i >= frame_capacity =>
          G[i].registers = NoBuffer /\ G[i].register_size = 0
            /\ G[i].register_capacity = 0
    BY <1>a, <1>1, <1>3 DEF ZeroFrame
  <1> HIDE DEF G
  <1>7. IdleOK(G, C, frame_size)
    BY <1>a, <1>1, <1>5, <1>6 DEF IInv, PoolOK, IdleOK
  <1>8. UnsharedOK(G, C)
    BY <1>a, <1>1, <1>5, <1>6 DEF IInv, PoolOK, UnsharedOK
  <1>9. BoundsOK(G, C, bufcap)
    BY <1>a, <1>1, <1>5, <1>6 DEF IInv, PoolOK, BoundsOK
  <1>10. ReachableOK(G, C, bufcap)
    BY <1>a, <1>1, <1>5 DEF IInv, PoolOK, ReachableOK
  <1> QED
    BY <1>1, <1>4, <1>5, <1>7, <1>8, <1>9, <1>10 DEF IInv, PoolOK, SlotsOK, C, G

(* Entering a slot with the buffer it has. *)
LEMMA OwnOK ==
  ASSUME NEW F, NEW C, NEW s, NEW bc, PoolOK(F, C, s, bc), s < C,
         NEW n \in Nat, NEW p \in PC, NEW d \in RegisterName,
         F[s].register_capacity >= n
  PROVE  PoolOK([F EXCEPT ![s] = Entered(@, n, p, d)], C, s + 1, bc)
  <1> DEFINE H == [F EXCEPT ![s] = Entered(@, n, p, d)]
  <1>1. /\ C \in Nat /\ s \in 0 .. C - 1
        /\ F \in [0 .. C - 1 -> Frame]
        /\ bc \in [Buffer -> Nat]
    BY DEF PoolOK, SlotsOK
  <1>2. /\ Entered(F[s], n, p, d) \in Frame
        /\ Entered(F[s], n, p, d).registers = F[s].registers
        /\ Entered(F[s], n, p, d).register_capacity = F[s].register_capacity
        /\ Entered(F[s], n, p, d).register_size = n
    BY <1>1, EnteredType
  <1>3. /\ H \in [0 .. C - 1 -> Frame]
        /\ H[s].register_size = n
        /\ \A i \in 0 .. C - 1 :
             /\ H[i].registers = F[i].registers
             /\ H[i].register_capacity = F[i].register_capacity
             /\ i # s => H[i] = F[i]
    BY <1>1, <1>2
  <1> HIDE DEF H
  <1>4. SlotsOK(H, C, bc) /\ s + 1 \in 0 .. C
    BY <1>1, <1>3 DEF SlotsOK
  <1>5. IdleOK(H, C, s + 1)
    BY <1>1, <1>3 DEF PoolOK, IdleOK
  <1>6. UnsharedOK(H, C)
    BY <1>3 DEF PoolOK, UnsharedOK
  <1>7. BoundsOK(H, C, bc)
    BY <1>1, <1>3 DEF PoolOK, BoundsOK
  <1>8. ReachableOK(H, C, bc)
    BY <1>3 DEF PoolOK, ReachableOK
  <1> QED
    BY <1>4, <1>5, <1>6, <1>7, <1>8 DEF PoolOK, H

(* Entering a slot after its buffer was exchanged with that of an idle     *)
(* slot k (relax_vm_runner.c:39-51).                                       *)
LEMMA SwapOK ==
  ASSUME NEW F, NEW C, NEW s, NEW bc, PoolOK(F, C, s, bc), s < C,
         NEW n \in Nat, NEW p \in PC, NEW d \in RegisterName,
         NEW k \in s + 1 .. C - 1, F[k].register_capacity >= n
  PROVE  PoolOK([F EXCEPT
                   ![k] = [F[k] EXCEPT !.registers = F[s].registers,
                             !.register_capacity = F[s].register_capacity],
                   ![s] = Entered([F[s] EXCEPT !.registers = F[k].registers,
                             !.register_capacity = F[k].register_capacity],
                             n, p, d)], C, s + 1, bc)
  <1> DEFINE Idle == [F[k] EXCEPT !.registers = F[s].registers,
                        !.register_capacity = F[s].register_capacity]
             Opened == [F[s] EXCEPT !.registers = F[k].registers,
                        !.register_capacity = F[k].register_capacity]
             H    == [F EXCEPT ![k] = Idle, ![s] = Entered(Opened, n, p, d)]
  <1>1. /\ C \in Nat /\ s \in 0 .. C - 1
        /\ k \in 0 .. C - 1 /\ k # s /\ s < k
        /\ F \in [0 .. C - 1 -> Frame]
        /\ bc \in [Buffer -> Nat]
    BY DEF PoolOK, SlotsOK
  <1>2. F[k] \in Frame /\ F[s] \in Frame /\ F[k].register_size = 0
    BY <1>1 DEF PoolOK, IdleOK
  <1>3. /\ Idle \in Frame
        /\ Idle.registers = F[s].registers
        /\ Idle.register_capacity = F[s].register_capacity
        /\ Idle.register_size = 0
    BY <1>2 DEF Frame
  <1>4. /\ Opened \in Frame
        /\ Opened.registers = F[k].registers
        /\ Opened.register_capacity = F[k].register_capacity
    BY <1>2 DEF Frame
  <1> HIDE DEF Idle, Opened
  <1>5. /\ Entered(Opened, n, p, d) \in Frame
        /\ Entered(Opened, n, p, d).registers = F[k].registers
        /\ Entered(Opened, n, p, d).register_capacity = F[k].register_capacity
        /\ Entered(Opened, n, p, d).register_size = n
    <2>1. /\ Entered(Opened, n, p, d) \in Frame
          /\ Entered(Opened, n, p, d).registers = Opened.registers
          /\ Entered(Opened, n, p, d).register_capacity = Opened.register_capacity
          /\ Entered(Opened, n, p, d).register_size = n
      <3>1. Opened \in Frame
        BY <1>4
      <3> HIDE DEF H
      <3> QED
        BY <3>1, EnteredType
    <2> QED
      BY <1>4, <2>1
  <1>6. /\ H \in [0 .. C - 1 -> Frame]
        /\ H[k] = Idle
        /\ H[s] = Entered(Opened, n, p, d)
        /\ \A i \in 0 .. C - 1 : i # k /\ i # s => H[i] = F[i]
    BY <1>1, <1>3, <1>5
  <1> HIDE DEF H
  <1>7. SlotsOK(H, C, bc) /\ s + 1 \in 0 .. C
    BY <1>1, <1>6 DEF SlotsOK
  <1>8. IdleOK(H, C, s + 1)
    BY <1>1, <1>3, <1>6 DEF PoolOK, IdleOK
  <1>9. UnsharedOK(H, C)
    BY <1>1, <1>3, <1>5, <1>6 DEF PoolOK, UnsharedOK
  <1>10. BoundsOK(H, C, bc)
    <2>1. \A i \in 0 .. C - 1 : F[i].register_capacity \in Nat
      BY <1>1 DEF Frame
    <2> QED
      BY <1>1, <1>3, <1>5, <1>6, <2>1, SMTT(60) DEF PoolOK, BoundsOK
  <1>11. ReachableOK(H, C, bc)
    BY <1>1, <1>3, <1>5, <1>6, SMTT(60) DEF PoolOK, ReachableOK
  <1> QED
    BY <1>7, <1>8, <1>9, <1>10, <1>11 DEF PoolOK, H, Idle, Opened

(* Entering a slot with a newly allocated buffer b, its old one freed      *)
(* (relax_vm_runner.c:52-60).                                              *)
LEMMA AllocOK ==
  ASSUME NEW F, NEW C, NEW s, NEW bc, PoolOK(F, C, s, bc), s < C,
         NEW n \in Nat \ {0}, NEW p \in PC, NEW d \in RegisterName,
         NEW b \in Buffer, bc[b] = 0,
         NEW bd, bd = [c \in Buffer |-> IF c = b THEN n
                                        ELSE IF c = F[s].registers THEN 0
                                        ELSE bc[c]]
  PROVE  PoolOK([F EXCEPT ![s] = Entered([F[s] EXCEPT !.registers = b,
                                                      !.register_capacity = n],
                                         n, p, d)], C, s + 1, bd)
  <1> DEFINE Opened == [F[s] EXCEPT !.registers = b, !.register_capacity = n]
             H   == [F EXCEPT ![s] = Entered(Opened, n, p, d)]
  <1>1. /\ C \in Nat /\ s \in 0 .. C - 1
        /\ F \in [0 .. C - 1 -> Frame]
        /\ bc \in [Buffer -> Nat]
        /\ b # NoBuffer
    BY FramesAssumption DEF PoolOK, SlotsOK
  <1>2. F[s] \in Frame
    BY <1>1
  <1>3. Opened \in Frame /\ Opened.registers = b /\ Opened.register_capacity = n
    BY <1>2 DEF Frame
  <1> HIDE DEF Opened
  <1>4. /\ Entered(Opened, n, p, d) \in Frame
        /\ Entered(Opened, n, p, d).registers = b
        /\ Entered(Opened, n, p, d).register_capacity = n
        /\ Entered(Opened, n, p, d).register_size = n
    <2>1. Opened \in Frame
      BY <1>3
    <2> HIDE DEF H
    <2>2. /\ Entered(Opened, n, p, d) \in Frame
          /\ Entered(Opened, n, p, d).registers = Opened.registers
          /\ Entered(Opened, n, p, d).register_capacity = Opened.register_capacity
          /\ Entered(Opened, n, p, d).register_size = n
      BY <2>1, EnteredType
    <2> QED
      BY <1>3, <2>2
  <1>5. /\ H \in [0 .. C - 1 -> Frame]
        /\ H[s] = Entered(Opened, n, p, d)
        /\ \A i \in 0 .. C - 1 : i # s => H[i] = F[i]
    BY <1>1, <1>4
  <1>6. /\ bd \in [Buffer -> Nat]
        /\ bd[b] = n
        /\ \A c \in Buffer : c # b /\ c # F[s].registers => bd[c] = bc[c]
        /\ \A c \in Buffer : c # b /\ c = F[s].registers => bd[c] = 0
    BY <1>1
  <1> HIDE DEF H
  <1>7. \A i \in 0 .. C - 1 : F[i].registers # b
    BY <1>1, SMTT(60) DEF PoolOK, BoundsOK
  <1>8. \A i \in 0 .. C - 1 : i # s /\ F[i].registers # NoBuffer =>
          /\ F[i].registers # F[s].registers
          /\ F[i].registers \in Buffer
    BY <1>1 DEF PoolOK, UnsharedOK, Frame
  <1>9. SlotsOK(H, C, bd) /\ s + 1 \in 0 .. C
    BY <1>1, <1>5, <1>6 DEF SlotsOK
  <1>10. IdleOK(H, C, s + 1)
    BY <1>1, <1>5, SMTT(60) DEF PoolOK, IdleOK
  <1>11. UnsharedOK(H, C)
    BY <1>1, <1>4, <1>5, <1>7 DEF PoolOK, UnsharedOK
  <1>12. BoundsOK(H, C, bd)
    BY <1>1, <1>4, <1>5, <1>6, <1>7, <1>8 DEF PoolOK, BoundsOK
  <1>13. ReachableOK(H, C, bd)
    <2> SUFFICES ASSUME NEW c \in Buffer, bd[c] > 0
                 PROVE  \E i \in 0 .. C - 1 : H[i].registers = c
      BY DEF ReachableOK
    <2>1. CASE c = b
      BY <1>1, <1>4, <1>5, <2>1
    <2>2. CASE c # b
      <3>1. c # F[s].registers /\ bc[c] > 0
        BY <1>6, <2>2
      <3>2. PICK i \in 0 .. C - 1 : F[i].registers = c
        BY <3>1 DEF PoolOK, ReachableOK
      <3> QED
        BY <1>5, <3>1, <3>2
    <2> QED
      BY <2>1, <2>2
  <1> QED
    BY <1>9, <1>10, <1>11, <1>12, <1>13 DEF PoolOK, H, Opened

(* Popping a frame leaves the buffer with its slot. *)
LEMMA PopOK ==
  ASSUME NEW F, NEW C, NEW s, NEW bc, PoolOK(F, C, s, bc), s > 0
  PROVE  PoolOK([F EXCEPT ![s - 1].register_size = 0], C, s - 1, bc)
  <1> DEFINE H == [F EXCEPT ![s - 1].register_size = 0]
  <1>1. /\ C \in Nat /\ s - 1 \in 0 .. C - 1
        /\ F \in [0 .. C - 1 -> Frame]
        /\ bc \in [Buffer -> Nat]
    BY DEF PoolOK, SlotsOK
  <1>2. /\ H \in [0 .. C - 1 -> Frame]
        /\ H[s - 1].register_size = 0
        /\ \A i \in 0 .. C - 1 :
             /\ H[i].registers = F[i].registers
             /\ H[i].register_capacity = F[i].register_capacity
             /\ i # s - 1 => H[i] = F[i]
    BY <1>1, ZenonT(60) DEF Frame
  <1> HIDE DEF H
  <1>3. SlotsOK(H, C, bc) /\ s - 1 \in 0 .. C
    BY <1>1, <1>2 DEF SlotsOK
  <1>4. IdleOK(H, C, s - 1)
    BY <1>1, <1>2 DEF PoolOK, IdleOK
  <1>5. UnsharedOK(H, C)
    BY <1>2 DEF PoolOK, UnsharedOK
  <1>6. BoundsOK(H, C, bc)
    <2>1. \A i \in 0 .. C - 1 : F[i].register_capacity \in Nat
      BY <1>1 DEF Frame
    <2> QED
      BY <1>1, <1>2, <2>1, SMTT(60) DEF PoolOK, BoundsOK
  <1>7. ReachableOK(H, C, bc)
    BY <1>2 DEF PoolOK, ReachableOK
  <1> QED
    BY <1>3, <1>4, <1>5, <1>6, <1>7 DEF PoolOK, H

(* The first idle slot that fits is an idle slot that fits. *)
LEMMA FirstReusableOK ==
  ASSUME IInv, NEW n \in Nat, Reusable(n) # {}
  PROVE  FirstReusable(n) \in Reusable(n)
  <1>1. Reusable(n) \subseteq Nat
    BY DEF Reusable, IInv, PoolOK, SlotsOK
  <1>2. PICK i \in Reusable(n) :
          \A j \in Reusable(n) : <<j, i>> \notin OpToRel(<, Nat)
    BY <1>1, WFMin, NatLessThanWellFounded, Zenon
  <1>3. \A j \in Reusable(n) : ~ (j < i)
    BY <1>1, <1>2, Zenon DEF OpToRel
  <1>4. \A j \in Reusable(n) : i <= j
    BY <1>1, <1>3
  <1> QED
    BY <1>4 DEF FirstReusable

-----------------------------------------------------------------------------
(* The steps. *)
LEMMA InitOK == FramesInit => IInv
  BY FramesAssumption
     DEF FramesInit, IInv, PoolOK, SlotsOK, IdleOK, UnsharedOK, BoundsOK,
         ReachableOK

LEMMA PushStepOK ==
  ASSUME IInv, NEW n \in Nat, NEW p \in PC, NEW d \in RegisterName,
         FramePush(n, p, d)
  PROVE  IInv'
  <1> DEFINE C == GrownCapacity
             G == GrownFrames
             s == frame_size
  <1>1. PoolOK(G, C, s, bufcap) /\ s < C
    BY GrownOK
  <1>2. frame_size' = s + 1 /\ frame_capacity' = C
    BY DEF FramePush
  <1>3. SUFFICES PoolOK(frames', C, s + 1, bufcap')
    BY <1>2 DEF IInv
  <1>4. CASE PushOwn(n, p, d)
    <2>1. G[s].register_capacity >= n
      BY <1>4 DEF PushOwn, Fits
    <2>2. PoolOK([G EXCEPT ![s] = Entered(@, n, p, d)], C, s + 1, bufcap)
      BY <1>1, <2>1, OwnOK
    <2> QED
      BY <1>4, <2>2 DEF PushOwn
  <1>5. CASE PushSwap(n, p, d)
    <2> DEFINE k == FirstReusable(n)
    <2>1. k \in s + 1 .. C - 1 /\ G[k].register_capacity >= n
      BY <1>5, FirstReusableOK DEF PushSwap, Reusable
    <2> HIDE DEF k
    <2>2. PoolOK([G EXCEPT
                    ![k] = [G[k] EXCEPT !.registers = G[s].registers,
                              !.register_capacity = G[s].register_capacity],
                    ![s] = Entered([G[s] EXCEPT !.registers = G[k].registers,
                              !.register_capacity = G[k].register_capacity],
                              n, p, d)], C, s + 1, bufcap)
      BY <1>1, <2>1, SwapOK, Zenon
    <2> QED
      BY <1>5, <2>2 DEF PushSwap, k
  <1>6. CASE PushAlloc(n, p, d)
    <2> DEFINE b == CHOOSE c \in Unallocated : TRUE
    <2>1. b \in Buffer /\ bufcap[b] = 0
      BY <1>6 DEF PushAlloc, Unallocated
    <2>2. n \in Nat \ {0}
      <3>1. G[s] \in Frame
        BY <1>1 DEF PoolOK, SlotsOK
      <3>2. ~ (G[s].register_capacity >= n)
        BY <1>6 DEF PushAlloc, Fits
      <3> QED
        BY <3>1, <3>2 DEF Frame
    <2>3. bufcap' = [c \in Buffer |-> IF c = b THEN n
                                      ELSE IF c = G[s].registers THEN 0
                                      ELSE bufcap[c]]
      BY <1>6 DEF PushAlloc
    <2> HIDE DEF b, C, G, s
    <2>4. PoolOK([G EXCEPT ![s] = Entered([G[s] EXCEPT !.registers = b,
                                                       !.register_capacity = n],
                                          n, p, d)], C, s + 1, bufcap')
      BY <1>1, <2>1, <2>2, <2>3, AllocOK, ZenonT(60)
    <2> QED
      BY <1>6, <2>4 DEF PushAlloc, b, C, G, s
  <1> QED
    BY <1>4, <1>5, <1>6 DEF FramePush

LEMMA PopStepOK ==
  ASSUME IInv, FramePop
  PROVE  IInv'
  <1>1. PoolOK([frames EXCEPT ![frame_size - 1].register_size = 0],
               frame_capacity, frame_size - 1, bufcap)
    BY PopOK DEF IInv, FramePop
  <1> QED
    BY <1>1 DEF IInv, FramePop

LEMMA FreeStepOK ==
  ASSUME IInv, FramesFree
  PROVE  IInv'
  <1>1. bufcap \in [Buffer -> Nat] /\ frame_capacity \in Nat
        /\ frames \in [0 .. frame_capacity - 1 -> Frame]
    BY DEF IInv, PoolOK, SlotsOK
  <1>2. \A b \in Buffer : bufcap'[b] = 0
    BY <1>1 DEF FramesFree, IInv, PoolOK, ReachableOK
  <1>3. bufcap' \in [Buffer -> Nat]
    BY <1>1 DEF FramesFree
  <1>4. frames' \in [0 .. 0 - 1 -> Frame]
    BY DEF FramesFree
  <1> QED
    BY <1>2, <1>3, <1>4
       DEF FramesFree, IInv, PoolOK, SlotsOK, IdleOK, UnsharedOK, BoundsOK,
           ReachableOK

LEMMA StepOK == IInv /\ [FramesNext]_frameVars => IInv'
  <1> SUFFICES ASSUME IInv, [FramesNext]_frameVars
               PROVE  IInv'
    OBVIOUS
  <1>1. ASSUME NEW n \in RegisterCount, NEW p \in PC, NEW d \in RegisterName,
               FramePush(n, p, d)
        PROVE  IInv'
    BY <1>1, PushStepOK, FramesAssumption
  <1>2. CASE FramePop
    BY <1>2, PopStepOK
  <1>3. CASE FramesFree
    BY <1>3, FreeStepOK
  <1>4. CASE UNCHANGED frameVars
    BY <1>4 DEF frameVars, IInv
  <1> QED
    BY <1>1, <1>2, <1>3, <1>4 DEF FramesNext

LEMMA Invariant == FramesSpec => []IInv
  BY InitOK, StepOK, PTL DEF FramesSpec

-----------------------------------------------------------------------------
(* The frame pool is well typed: the slots in use are slots of the array.  *)
THEOREM FramesTypeCorrect == FramesSpec => []FramesTypeOK
  <1>1. IInv => FramesTypeOK
    BY DEF IInv, PoolOK, SlotsOK, FramesTypeOK
  <1> QED
    BY <1>1, Invariant, PTL

(* No slot above the stack has a register in use, which the search for a   *)
(* buffer to take over relies on (relax_vm_runner.c:40).                   *)
THEOREM IdleFramesEmpty == FramesSpec => []IdleFramesAreEmpty
  <1>1. IInv => IdleFramesAreEmpty
    BY DEF IInv, PoolOK, IdleOK, IdleFramesAreEmpty
  <1> QED
    BY <1>1, Invariant, PTL

(* Keeping, exchanging and replacing register buffers never leaves one     *)
(* behind two slots, and freeing the buffers of all slots frees all        *)
(* buffers (relax_vm_runner.c:37-60, relax_vm.c:196-207).                  *)
THEOREM BuffersKeepOneSlot == FramesSpec => []BuffersHaveOneSlot
  <1>1. IInv => BuffersHaveOneSlot
    BY DEF IInv, PoolOK, UnsharedOK, ReachableOK, BuffersHaveOneSlot
  <1> QED
    BY <1>1, Invariant, PTL

(* A frame's registers lie in the memory its buffer has.                   *)
THEOREM RegistersStayInBounds == FramesSpec => []RegistersInBounds
  <1>1. IInv => RegistersInBounds
    BY DEF IInv, PoolOK, BoundsOK, RegistersInBounds
  <1> QED
    BY <1>1, Invariant, PTL

(* A push or a pop leaves the frames that stay below it as they are, also  *)
(* when the array is reallocated and when buffers are exchanged.           *)
LEMMA KeptStep ==
  ASSUME IInv, FramesNext, frame_capacity' # 0,
         NEW i \in 0 .. frame_capacity - 1, i < frame_size, i < frame_size'
  PROVE  frames'[i] = frames[i]
  <1>a. frame_capacity \in Nat /\ frame_size \in 0 .. frame_capacity
        /\ frames \in [0 .. frame_capacity - 1 -> Frame]
    BY DEF IInv, PoolOK, SlotsOK
  <1>1. ASSUME NEW n \in RegisterCount, NEW p \in PC, NEW d \in RegisterName,
               FramePush(n, p, d)
        PROVE  frames'[i] = frames[i]
    <2> DEFINE C == GrownCapacity
               G == GrownFrames
    <2>1. /\ G \in [0 .. C - 1 -> Frame]
          /\ i \in 0 .. C - 1
          /\ G[i] = frames[i]
      BY <1>a, GrownOK DEF PoolOK, SlotsOK
    <2>2. n \in Nat
      BY FramesAssumption
    <2>3. CASE PushSwap(n, p, d)
      <3>1. FirstReusable(n) # i
        BY <1>a, <2>2, <2>3, FirstReusableOK DEF PushSwap, Reusable
      <3> QED
        BY <1>a, <2>1, <2>3, <3>1 DEF PushSwap
    <2>4. CASE PushOwn(n, p, d)
      BY <1>a, <2>1, <2>4 DEF PushOwn
    <2>5. CASE PushAlloc(n, p, d)
      BY <1>a, <2>1, <2>5 DEF PushAlloc
    <2> QED
      BY <1>1, <2>3, <2>4, <2>5 DEF FramePush
  <1>2. CASE FramePop
    BY <1>a, <1>2 DEF FramePop
  <1>3. CASE FramesFree
    BY <1>3 DEF FramesFree
  <1> QED
    BY <1>1, <1>2, <1>3 DEF FramesNext

(* The frames below the top are kept, whatever the pool does.              *)
THEOREM LowerFramesStay == FramesSpec => LowerFramesKept
  <1> DEFINE Kept == frame_capacity' # 0 =>
               \A i \in 0 .. frame_capacity - 1 :
                 i < frame_size /\ i < frame_size' => frames'[i] = frames[i]
  <1>1. IInv /\ [FramesNext]_frameVars => [Kept]_frameVars
    BY KeptStep
  <1> QED
    BY <1>1, Invariant, PTL DEF FramesSpec, LowerFramesKept

-----------------------------------------------------------------------------
(* The machine.                                                            *)

(* The frames of a machine none of whose packed calls has failed.          *)
CleanOK ==
  ~ failed =>
    /\ state = "idle" => frame_size = 0
    /\ state = "running" =>
         /\ cur \in Func
         /\ frame_size > 0
         /\ frame_size = 1 => pc \in Body(cur)
         /\ frame_size > 1 => frames[1].return_pc \in Body(cur)

VMInv == IInv /\ pc \in PC /\ CleanOK

LEMMA PoolTypes ==
  ASSUME IInv
  PROVE  /\ frame_capacity \in Nat
         /\ frame_size \in 0 .. frame_capacity
         /\ frames \in [0 .. frame_capacity - 1 -> Frame]
  BY DEF IInv, PoolOK, SlotsOK

-----------------------------------------------------------------------------
(* What each action does to the frames.                                    *)

(* A call or a run pushes a frame of the pool's. *)
LEMMA PushIsPool ==
  ASSUME NEW f \in Func, NEW p \in PC, NEW d \in RegisterName,
         FramePush(NumRegs(f), p, d)
  PROVE  FramesNext
  BY CodeAssumption DEF FramesNext

(* The register a run finds in its slot (RunFunction does not write it).   *)
LEMMA StaleDstOK ==
  ASSUME IInv
  PROVE  StaleDst \in RegisterName
  <1>1. /\ GrownFrames \in [0 .. GrownCapacity - 1 -> Frame]
        /\ frame_size \in 0 .. GrownCapacity - 1
    BY GrownOK DEF PoolOK, SlotsOK
  <1>2. GrownFrames[frame_size] \in Frame
    BY <1>1
  <1> QED
    BY <1>2 DEF StaleDst, Frame

LEMMA CallPushes ==
  ASSUME pc \in PC, CallVMFunc
  PROVE  /\ Instr.func \in Func /\ pc + 1 \in PC
         /\ pc + 1 \in Follows(pc)
         /\ FramePush(NumRegs(Instr.func), pc + 1, Instr.dst)
         /\ FramesNext
         /\ pc' = FuncInfo[Instr.func].start
         /\ state = "running"
         /\ UNCHANGED <<cur, state, failed>>
  <1>1. /\ Instr.func \in Func
        /\ FramePush(NumRegs(Instr.func), pc + 1, Instr.dst)
        /\ pc' = FuncInfo[Instr.func].start
        /\ state = "running"
        /\ UNCHANGED <<cur, state, failed>>
    BY DEF CallVMFunc, Enter, Fetch
  <1>2. Code[pc].op = "Call" /\ Instr.dst = Code[pc].dst
    BY DEF CallVMFunc, Fetch, Instr
  <1>3. pc + 1 \in Follows(pc)
    BY <1>2 DEF Follows
  <1>4. pc + 1 \in PC /\ Instr.dst \in RegisterName
    BY <1>2, <1>3, CodeAssumption
  <1>5. FramesNext
    BY <1>1, <1>4, PushIsPool
  <1> QED
    BY <1>1, <1>3, <1>4, <1>5

LEMMA RunPushes ==
  ASSUME IInv, pc \in PC, NEW f \in Callable, Run(f)
  PROVE  /\ f \in Func
         /\ FramePush(NumRegs(f), pc, StaleDst)
         /\ FramesNext
         /\ pc' = FuncInfo[f].start /\ cur' = f
         /\ state = "idle" /\ state' = "running"
         /\ failed' = failed
  <1>1. /\ f \in Func
        /\ FramePush(NumRegs(f), pc, StaleDst)
        /\ pc' = FuncInfo[f].start /\ cur' = f
        /\ state = "idle" /\ state' = "running"
        /\ failed' = failed
    BY RelaxAssumption DEF Run, Enter
  <1>2. FramesNext
    BY <1>1, StaleDstOK, PushIsPool
  <1> QED
    BY <1>1, <1>2

LEMMA RetPops ==
  ASSUME RetToUser \/ RetToCaller
  PROVE  FramePop /\ FramesNext /\ pc' = Top.return_pc /\ state = "running"
  <1>1. CASE RetToUser
    BY <1>1 DEF RetToUser, Leave, FramesNext, Fetch
  <1>2. CASE RetToCaller
    BY <1>2 DEF RetToCaller, Leave, FramesNext, Fetch
  <1> QED
    BY <1>1, <1>2

(* The other instructions leave the frames, and go on to an instruction    *)
(* that follows; a packed call that fails is remembered in failed.         *)
Stays ==
  /\ state = "running"
  /\ UNCHANGED <<frameVars, cur>>
  /\ \/ pc' \in Follows(pc) /\ state' = "running" /\ failed' = failed
     \/ pc' \in Follows(pc) /\ state' = "idle" /\ status' # 0 /\ failed'
     \/ pc' = pc /\ state' = "undefined" /\ failed' = failed

LEMMA StepStays ==
  ASSUME CallPacked \/ CallNullValue \/ CallUndefined \/ Goto \/ If
  PROVE  Stays
  <1>1. CASE CallPacked
    <2>1. pc + 1 \in Follows(pc) /\ state = "running"
      BY <1>1 DEF CallPacked, Fetch, Instr, Follows
    <2>2. PICK answer \in Answers(Instr.func, Args) :
            PackedReturns(answer) \/ PackedFails(answer)
      BY <1>1 DEF CallPacked
    <2>3. CASE PackedReturns(answer)
      BY <2>1, <2>3 DEF PackedReturns, Stays
    <2>4. CASE PackedFails(answer)
      BY <2>1, <2>4 DEF PackedFails, Stays
    <2> QED
      BY <2>2, <2>3, <2>4
  <1>2. CASE CallNullValue
    BY <1>2 DEF CallNullValue, Fetch, Instr, Follows, Stays
  <1>3. CASE CallUndefined
    BY <1>3 DEF CallUndefined, Fetch, Stays
  <1>4. CASE Goto
    BY <1>4 DEF Goto, Fetch, Instr, Follows, Stays
  <1>5. CASE If
    <2>1. Code[pc].op = "If" /\ state = "running"
      BY <1>5 DEF If, Fetch, Instr
    <2>2. pc' \in Follows(pc)
      BY <1>5, <2>1 DEF If, Instr, Follows
    <2> QED
      BY <1>5, <2>1, <2>2 DEF If, Stays
  <1> QED
    BY <1>1, <1>2, <1>3, <1>4, <1>5

-----------------------------------------------------------------------------
(* The invariant.                                                          *)

LEMMA VMInitOK == Init => VMInv
  <1>1. Init => IInv
    BY InitOK DEF Init
  <1> QED
    BY <1>1, FramesAssumption DEF Init, VMInv, CleanOK, FramesInit

LEMMA StaysOK ==
  ASSUME VMInv, Stays
  PROVE  VMInv'
  <1>1. IInv'
    BY StepOK DEF VMInv, Stays
  <1>2. pc' \in PC
    BY CodeAssumption DEF VMInv, Stays
  <1>3. CleanOK'
    <2>1. UNCHANGED <<frames, frame_size, cur>>
      BY DEF Stays, frameVars
    <2> QED
      BY <2>1, CodeAssumption DEF VMInv, Stays, CleanOK, Body
  <1> QED
    BY <1>1, <1>2, <1>3 DEF VMInv

(* A push at the bottom, or above it: the frames that stay are as before.  *)
LEMMA PushKeeps ==
  ASSUME IInv, NEW f \in Func, NEW p \in PC, NEW d \in RegisterName,
         FramePush(NumRegs(f), p, d)
  PROVE  /\ frame_size' = frame_size + 1
         /\ frames'[frame_size].return_pc = p
         /\ frames'[frame_size].register_size = NumRegs(f)
         /\ frame_size > 1 => frames'[1] = frames[1]
  <1> DEFINE C == GrownCapacity
             G == GrownFrames
             n == NumRegs(f)
  <1>1. /\ C \in Nat /\ frame_size \in 0 .. C - 1
        /\ G \in [0 .. C - 1 -> Frame]
    BY GrownOK DEF PoolOK, SlotsOK
  <1>2. frame_size' = frame_size + 1 /\ frame_capacity' = C
    BY DEF FramePush
  <1>3. /\ frames'[frame_size].return_pc = p
        /\ frames'[frame_size].register_size = n
    <2>0. G[frame_size] \in Frame
      BY <1>1
    <2>1. CASE PushOwn(n, p, d)
      BY <1>1, <2>0, <2>1 DEF PushOwn, Entered, Frame
    <2>2. CASE PushSwap(n, p, d)
      <3>1. frames' = [G EXCEPT
               ![FirstReusable(n)] =
                 [G[FirstReusable(n)] EXCEPT
                    !.registers = G[frame_size].registers,
                    !.register_capacity = G[frame_size].register_capacity],
               ![frame_size] =
                 Entered([G[frame_size] EXCEPT
                    !.registers = G[FirstReusable(n)].registers,
                    !.register_capacity = G[FirstReusable(n)].register_capacity],
                  n, p, d)]
        BY <2>2 DEF PushSwap
      <3> DEFINE Base0 == [G EXCEPT
               ![FirstReusable(n)] =
                 [G[FirstReusable(n)] EXCEPT
                    !.registers = G[frame_size].registers,
                    !.register_capacity = G[frame_size].register_capacity]]
                 T == [G[frame_size] EXCEPT
                    !.registers = G[FirstReusable(n)].registers,
                    !.register_capacity = G[FirstReusable(n)].register_capacity]
      <3>2. frames'[frame_size] = Entered(T, n, p, d)
        BY <1>1, <3>1
      <3>3. "return_pc" \in DOMAIN T /\ "register_size" \in DOMAIN T
        BY <2>0 DEF Frame
      <3> HIDE DEF T
      <3>4. Entered(T, n, p, d).return_pc = p /\ Entered(T, n, p, d).register_size = n
        BY <3>3 DEF Entered
      <3> QED
        BY <3>2, <3>4
    <2>3. CASE PushAlloc(n, p, d)
      BY <1>1, <2>0, <2>3 DEF PushAlloc, Entered, Frame
    <2> QED
      BY <2>1, <2>2, <2>3 DEF FramePush
  <1>4. ASSUME frame_size > 1
        PROVE  frames'[1] = frames[1]
    <2>1. FramesNext
      BY PushIsPool
    <2>2. /\ 1 \in 0 .. frame_capacity - 1
          /\ 1 < frame_size /\ 1 < frame_size'
          /\ frame_capacity' # 0
      BY <1>1, <1>2, <1>4, PoolTypes
    <2> QED
      BY <2>1, <2>2, KeptStep
  <1> QED
    BY <1>2, <1>3, <1>4

LEMMA CallVMFuncOK ==
  ASSUME VMInv, CallVMFunc
  PROVE  VMInv'
  <1> USE DEF VMInv
  <1>1. /\ Instr.func \in Func /\ pc + 1 \in PC /\ pc + 1 \in Follows(pc)
        /\ FramePush(NumRegs(Instr.func), pc + 1, Instr.dst)
        /\ FramesNext
        /\ pc' = FuncInfo[Instr.func].start
        /\ state = "running"
        /\ UNCHANGED <<cur, state, failed>>
    BY CallPushes
  <1>2. IInv'
    BY <1>1, StepOK
  <1>3. pc' \in PC
    BY <1>1, CodeAssumption
  <1>4. CleanOK'
    <2> SUFFICES ASSUME ~ failed
                 PROVE  /\ cur \in Func
                        /\ frame_size' \in Nat /\ frame_size' > 1
                        /\ frames'[1].return_pc \in Body(cur)
      BY <1>1 DEF CleanOK, Body
    <2>1. /\ cur \in Func /\ frame_size > 0 /\ frame_size \in Nat
          /\ frame_size = 1 => pc \in Body(cur)
          /\ frame_size > 1 => frames[1].return_pc \in Body(cur)
      BY <1>1, PoolTypes DEF CleanOK
    <2>2. Instr.dst \in RegisterName
      BY CodeAssumption DEF CallVMFunc, Fetch, Instr
    <2>3. /\ frame_size' = frame_size + 1
          /\ frames'[frame_size].return_pc = pc + 1
          /\ frame_size > 1 => frames'[1] = frames[1]
      BY <1>1, <2>2, PushKeeps
    <2>4. CASE frame_size = 1
      BY <1>1, <2>1, <2>3, <2>4, CodeAssumption
    <2>5. CASE frame_size > 1
      BY <2>1, <2>3, <2>5
    <2> QED
      BY <2>1, <2>3, <2>4, <2>5
  <1> QED
    BY <1>2, <1>3, <1>4

LEMMA RunOK ==
  ASSUME VMInv, NEW f \in Callable, Run(f)
  PROVE  VMInv'
  <1> USE DEF VMInv
  <1>1. /\ f \in Func
        /\ FramePush(NumRegs(f), pc, StaleDst)
        /\ FramesNext
        /\ pc' = FuncInfo[f].start /\ cur' = f
        /\ state = "idle" /\ state' = "running"
        /\ failed' = failed
    BY RunPushes
  <1>2. IInv'
    BY <1>1, StepOK
  <1>3. pc' \in PC /\ pc' \in Body(f)
    BY <1>1, CodeAssumption
  <1>4. frame_size' = frame_size + 1
    BY <1>1 DEF FramePush
  <1>5. CleanOK'
    <2>1. ~ failed => frame_size' = 1
      BY <1>1, <1>4 DEF CleanOK
    <2> QED
      BY <1>1, <1>3, <2>1 DEF CleanOK, Body
  <1> QED
    BY <1>2, <1>3, <1>5

LEMMA RetOK ==
  ASSUME VMInv, RetToUser \/ RetToCaller
  PROVE  VMInv'
  <1> USE DEF VMInv
  <1>1. FramePop /\ FramesNext /\ pc' = Top.return_pc /\ state = "running"
    BY RetPops
  <1>2. IInv'
    BY <1>1, StepOK
  <1>3. /\ frame_capacity \in Nat
        /\ frame_size \in 1 .. frame_capacity
        /\ frame_size' = frame_size - 1
        /\ frame_capacity' = frame_capacity
        /\ frames \in [0 .. frame_capacity - 1 -> Frame]
    BY <1>1, PoolTypes DEF FramePop
  <1>4. pc' \in PC
    <2>1. Top \in Frame
      BY <1>3 DEF Top
    <2> QED
      BY <1>1, <2>1 DEF Frame
  <1>5. CASE RetToUser
    <2>1. frame_size' = 0 /\ state' = "idle"
      BY <1>3, <1>5 DEF RetToUser
    <2> QED
      BY <1>2, <1>4, <2>1 DEF CleanOK
  <1>6. CASE RetToCaller
    <2>1. frame_size > 1 /\ UNCHANGED <<cur, state, failed>>
      BY <1>6 DEF RetToCaller
    <2>2. CASE frame_size = 2
      <3>1. pc' = frames[1].return_pc /\ frame_size' = 1
        BY <1>1, <1>3, <2>2 DEF Top
      <3> QED
        BY <1>1, <1>2, <1>4, <2>1, <3>1 DEF CleanOK, Body
    <2>3. CASE frame_size > 2
      <3>1. /\ 1 \in 0 .. frame_capacity - 1
            /\ 1 < frame_size /\ 1 < frame_size' /\ frame_capacity' # 0
        BY <1>3, <2>3
      <3>2. frames'[1] = frames[1]
        BY <1>1, <3>1, KeptStep
      <3>3. frame_size' \in Nat /\ frame_size' > 1
        BY <1>3, <2>3
      <3>4. CleanOK'
        BY <1>1, <2>1, <3>2, <3>3 DEF CleanOK, Body
      <3> QED
        BY <1>2, <1>4, <3>4
    <2> QED
      BY <1>3, <2>1, <2>2, <2>3
  <1> QED
    BY <1>5, <1>6

LEMMA FreeOK ==
  ASSUME VMInv, Free
  PROVE  VMInv'
  <1>1. FramesFree /\ pc' = pc /\ state' = "freed"
    BY DEF Free
  <1>2. IInv'
    BY <1>1, StepOK DEF VMInv, FramesNext
  <1> QED
    BY <1>1, <1>2 DEF VMInv, CleanOK

LEMMA OtherOK ==
  ASSUME VMInv, UNCHANGED <<frameVars, pc, state, failed>>,
         cur' = cur \/ state = "idle"
  PROVE  VMInv'
  <1>1. IInv'
    BY StepOK DEF VMInv
  <1> QED
    BY <1>1 DEF VMInv, CleanOK, Body, frameVars

(* What a step of the machine can be. *)
LEMMA NextCases ==
  ASSUME Next
  PROVE  \/ CallPacked \/ CallNullValue \/ CallUndefined \/ Goto \/ If
         \/ CallVMFunc
         \/ RetToUser \/ RetToCaller
         \/ \E f \in Callable : Run(f)
         \/ Free
         \/ /\ UNCHANGED <<frameVars, pc, state, failed>>
            /\ state = "idle"
  <1>1. ASSUME NEW f \in Callable, NEW i \in 0 .. NumParams(f) - 1,
               NEW t \in Tensor, SetInput(f, i, t)
        PROVE  UNCHANGED <<frameVars, pc, state, failed>> /\ state = "idle"
    BY <1>1 DEF SetInput
  <1>2. ASSUME NEW f \in Callable, RunRefused(f)
        PROVE  UNCHANGED <<frameVars, pc, state, failed>> /\ state = "idle"
    BY <1>2 DEF RunRefused
  <1> QED
    BY <1>1, <1>2, Zenon DEF Next, Step

LEMMA VMStepOK == VMInv /\ [Next]_vars => VMInv'
  <1> SUFFICES ASSUME VMInv, [Next]_vars
               PROVE  VMInv'
    OBVIOUS
  <1>1. CASE CallPacked \/ CallNullValue \/ CallUndefined \/ Goto \/ If
    BY <1>1, StepStays, StaysOK
  <1>2. CASE CallVMFunc
    BY <1>2, CallVMFuncOK
  <1>3. CASE RetToUser \/ RetToCaller
    BY <1>3, RetOK
  <1>4. CASE \E f \in Callable : Run(f)
    BY <1>4, RunOK
  <1>5. CASE Free
    BY <1>5, FreeOK
  <1>6. CASE UNCHANGED <<frameVars, pc, state, failed>> /\ state = "idle"
    BY <1>6, OtherOK
  <1>7. CASE UNCHANGED vars
    BY <1>7, OtherOK DEF vars, vmVars
  <1> QED
    BY <1>1, <1>2, <1>3, <1>4, <1>5, <1>6, <1>7, NextCases

LEMMA VMInvariant == Spec => []VMInv
  BY VMInitOK, VMStepOK, PTL DEF Spec

-----------------------------------------------------------------------------
(* Calls, returns, runs and the release of the machine are pushes, pops    *)
(* and the release of the frame pool (relax_vm_runner.c:14-83): the        *)
(* machine implements RelaxVMFrames.                                       *)
THEOREM MachineUsesItsFrames == Spec => FramesSpec
  <1>1. Init => FramesInit
    BY DEF Init
  <1>2. VMInv /\ [Next]_vars => [FramesNext]_frameVars
    <2> SUFFICES ASSUME VMInv, [Next]_vars
                 PROVE  [FramesNext]_frameVars
      OBVIOUS
    <2>1. CASE CallPacked \/ CallNullValue \/ CallUndefined \/ Goto \/ If
      BY <2>1, StepStays DEF Stays
    <2>2. CASE CallVMFunc
      BY <2>2, CallPushes DEF VMInv
    <2>3. CASE RetToUser \/ RetToCaller
      BY <2>3, RetPops
    <2>4. CASE \E f \in Callable : Run(f)
      BY <2>4, RunPushes DEF VMInv
    <2>5. CASE Free
      BY <2>5 DEF Free, FramesNext
    <2>6. CASE UNCHANGED vars
      BY <2>6 DEF vars
    <2> QED
      BY <2>1, <2>2, <2>3, <2>4, <2>5, <2>6, NextCases
  <1> QED
    BY <1>1, <1>2, VMInvariant, PTL DEF Spec, FramesSpec

(* No two calls of the machine ever share registers, and none are lost.    *)
THEOREM CallsHaveTheirRegisters == Spec => []BuffersHaveOneSlot
  BY MachineUsesItsFrames, BuffersKeepOneSlot, PTL

(* No call indexes past the registers it has.                              *)
THEOREM CallsStayInBounds == Spec => []RegistersInBounds
  BY MachineUsesItsFrames, RegistersStayInBounds, PTL

(* The frames below a call are as they were when it returns.               *)
THEOREM CallsKeepLowerFrames == Spec => LowerFramesKept
  BY MachineUsesItsFrames, LowerFramesStay, PTL

(* A run that succeeds ended in its own function with no frame left, for   *)
(* every executable and every nesting of calls, as long as no packed call  *)
(* has failed before (relax_vm_runner.c:213-240).                          *)
THEOREM CleanRunsEndInTheirFunction == Spec => CleanRunsReturnTheirOwn
  <1> DEFINE Own == RunSucceeds /\ ~ failed => pc \in Body(cur) /\ frame_size' = 0
  <1>1. VMInv /\ [Next]_vars => [Own]_vars
    <2> SUFFICES ASSUME VMInv, Next, RunSucceeds, ~ failed
                 PROVE  pc \in Body(cur) /\ frame_size' = 0
      OBVIOUS
    <2>1. state = "running" /\ state' = "idle" /\ status' = 0
      BY DEF RunSucceeds
    <2>2. ~ (CallPacked \/ CallNullValue \/ CallUndefined \/ Goto \/ If)
      BY <2>1, StepStays DEF Stays
    <2>3. ~ CallVMFunc /\ ~ RetToCaller /\ ~ Free
      BY <2>1 DEF CallVMFunc, RetToCaller, Free
    <2>4. ~ \E f \in Callable : Run(f)
      BY <2>1 DEF Run
    <2>5. RetToUser
      BY <2>1, <2>2, <2>3, <2>4, NextCases
    <2>6. frame_size <= 1 /\ FramePop
      BY <2>5, RetPops DEF RetToUser
    <2> QED
      BY <2>1, <2>6, PoolTypes DEF VMInv, CleanOK, FramePop
  <1> QED
    BY <1>1, VMInvariant, PTL DEF Spec, CleanRunsReturnTheirOwn

-----------------------------------------------------------------------------
(* The references.                                                         *)
(*                                                                         *)
(* RefCountsAreExact counts the registers of the frames in use, which is a *)
(* different set after every call and return.  The inductive invariant     *)
(* CountInv counts all registers of all buffers instead (Config), and says *)
(* apart from that (SpareOK) that those of no frame in use refer to        *)
(* nothing.  Config has one more value, the one an instruction has in hand *)
(* between the two halves of its work: a result is freed from one place    *)
(* and copied before it is stored in another.  FramesAt says which         *)
(* function each frame is in the middle of, through errors too: from it    *)
(* come the sizes of the frames, and that the operands of an instruction   *)
(* are registers of the frame that runs it.                                *)
(*                                                                         *)
(* The order is: the heap alone, whatever refers to it (ReleaseExact,      *)
(* RetainExact, NewTensorExact); the counts of the registers when some are *)
(* written; what each step of an instruction does to a Config; the         *)
(* actions; the theorems.                                                  *)

(* A well-formed heap: a tensor leads to a live shape and, if it has one,  *)
(* to a live storage.                                                      *)
HeapOK(h) ==
  /\ h \in [Obj -> Cell]
  /\ \A t \in Obj : h[t].kind = "tensor" =>
       /\ h[t].shape \in Obj /\ h[h[t].shape].kind = "shape"
       /\ h[t].storage # NoObj => h[h[t].storage].kind = "storage"

(* The counts of h are exact if N[o] references to o come from outside it. *)
Exact(h, N) ==
  \A o \in Obj :
    /\ h[o].ref_num = N[o] + Cardinality(ShapeHolders(h, o))
                           + Cardinality(StorageHolders(h, o))
    /\ h[o].kind = "free" <=> h[o].ref_num = 0

(* The release of R[o] references to each o. *)
DeadBy(h, R) == {t \in Obj : h[t].kind = "tensor" /\ R[t] > 0 /\ h[t].ref_num = R[t]}

DropsBy(h, R, o) ==
  R[o] + Cardinality(ShapeHolders(h, o) \cap DeadBy(h, R))
       + Cardinality(StorageHolders(h, o) \cap DeadBy(h, R))

ReleaseBy(h, R) ==
  [o \in Obj |-> IF DropsBy(h, R, o) > 0 /\ h[o].ref_num = DropsBy(h, R, o)
                 THEN FreeCell
                 ELSE [h[o] EXCEPT !.ref_num = @ - DropsBy(h, R, o)]]

Refs(rs, D) == [o \in Obj |-> References(rs, D, o)]

-----------------------------------------------------------------------------
(* The tensors over a cell are finitely many.                              *)
LEMMA HoldersFinite ==
  ASSUME NEW h, NEW o
  PROVE  /\ IsFiniteSet(ShapeHolders(h, o)) /\ Cardinality(ShapeHolders(h, o)) \in Nat
         /\ IsFiniteSet(StorageHolders(h, o)) /\ Cardinality(StorageHolders(h, o)) \in Nat
  <1>1. ShapeHolders(h, o) \in SUBSET Obj /\ StorageHolders(h, o) \in SUBSET Obj
    BY DEF ShapeHolders, StorageHolders
  <1> QED
    BY <1>1, RegisterAssumption, FS_Subset, FS_CardinalityType

(* How many of finitely many values refer to o; if any, there is one.      *)
LEMMA ReferencesNat ==
  ASSUME NEW rs, NEW D, IsFiniteSet(D), NEW o
  PROVE  /\ References(rs, D, o) \in Nat
         /\ References(rs, D, o) > 0 <=> \E i \in D : Owns(rs[i], o)
  <1> DEFINE S == {i \in D : Owns(rs[i], o)}
  <1>1. IsFiniteSet(S)
    BY FS_Subset
  <1>2. Cardinality(S) \in Nat /\ (Cardinality(S) = 0 <=> S = {})
    BY <1>1, FS_CardinalityType, FS_EmptySet
  <1> QED
    BY <1>2 DEF References

(* Release of a set of values, by the number of references to each cell.   *)
LEMMA ReleaseIs ==
  ASSUME NEW h \in [Obj -> Cell], NEW rs, NEW D, IsFiniteSet(D)
  PROVE  Release(h, rs, D) = ReleaseBy(h, Refs(rs, D))
  <1> DEFINE R == Refs(rs, D)
             dead == {t \in Obj : /\ h[t].kind = "tensor"
                              /\ References(rs, D, t) > 0
                              /\ h[t].ref_num - References(rs, D, t) = 0}
             dropped(o) == References(rs, D, o)
                      + Cardinality(ShapeHolders(h, o) \cap dead)
                      + Cardinality(StorageHolders(h, o) \cap dead)
  <1>1. \A o \in Obj : R[o] = References(rs, D, o) /\ R[o] \in Nat /\ h[o].ref_num \in Int
    BY ReferencesNat DEF Refs, Cell
  <1>2. dead = DeadBy(h, R)
    BY <1>1 DEF DeadBy
  <1>3. \A o \in Obj : dropped(o) = DropsBy(h, R, o)
    BY <1>1, <1>2 DEF DropsBy
  <1>4. Release(h, rs, D) = [o \in Obj |->
        IF dropped(o) > 0 /\ h[o].ref_num = dropped(o)
        THEN FreeCell
        ELSE [h[o] EXCEPT !.ref_num = @ - dropped(o)]]
    BY DEF Release
  <1> HIDE DEF dropped, dead, R
  <1> QED
    BY <1>3, <1>4 DEF ReleaseBy, R

(* What has lost its last reference is freed, a tensor before its storage  *)
(* and shape: the heap that is left is well formed and its counts are      *)
(* exact.                                                                  *)
LEMMA ReleaseExact ==
  ASSUME NEW h, HeapOK(h), NEW N \in [Obj -> Nat], Exact(h, N),
         NEW R \in [Obj -> Nat], \A o \in Obj : R[o] <= N[o],
         NEW M \in [Obj -> Nat], \A o \in Obj : M[o] = N[o] - R[o]
  PROVE  LET k == ReleaseBy(h, R)
         IN /\ HeapOK(k) /\ Exact(k, M)
            /\ \A o \in Obj : k[o].kind \in {h[o].kind, "free"}
  <1> DEFINE k == ReleaseBy(h, R)
             dead == DeadBy(h, R)
             SH(o) == ShapeHolders(h, o)
             ST(o) == StorageHolders(h, o)
             s(o) == Cardinality(SH(o) \cap dead)
             t(o) == Cardinality(ST(o) \cap dead)
             d(o) == DropsBy(h, R, o)
  <1>0. \A o \in Obj : h[o] \in Cell
    BY DEF HeapOK
  <1>1. ASSUME NEW o \in Obj
        PROVE  /\ s(o) \in Nat /\ t(o) \in Nat
               /\ s(o) <= Cardinality(SH(o)) /\ t(o) <= Cardinality(ST(o))
               /\ Cardinality(SH(o) \ dead) = Cardinality(SH(o)) - s(o)
               /\ Cardinality(ST(o) \ dead) = Cardinality(ST(o)) - t(o)
               /\ Cardinality(SH(o)) \in Nat /\ Cardinality(ST(o)) \in Nat
               /\ d(o) = R[o] + s(o) + t(o)
    <2>1. IsFiniteSet(SH(o)) /\ IsFiniteSet(ST(o))
          /\ Cardinality(SH(o)) \in Nat /\ Cardinality(ST(o)) \in Nat
      BY HoldersFinite
    <2>2. /\ IsFiniteSet(SH(o) \cap dead) /\ s(o) <= Cardinality(SH(o))
          /\ Cardinality(SH(o) \ dead) = Cardinality(SH(o)) - s(o)
      BY <2>1, FS_Intersection, FS_Difference
    <2>3. /\ IsFiniteSet(ST(o) \cap dead) /\ t(o) <= Cardinality(ST(o))
          /\ Cardinality(ST(o) \ dead) = Cardinality(ST(o)) - t(o)
      BY <2>1, FS_Intersection, FS_Difference
    <2>4. s(o) \in Nat /\ t(o) \in Nat
      BY <2>2, <2>3, FS_CardinalityType
    <2>5. d(o) = R[o] + s(o) + t(o)
      BY DEF DropsBy
    <2> HIDE DEF s, t, d, SH, ST, dead
    <2> QED
      BY <2>1, <2>2, <2>3, <2>4, <2>5
  <1>2. ASSUME NEW o \in Obj
        PROVE  /\ h[o].ref_num = N[o] + Cardinality(SH(o)) + Cardinality(ST(o))
               /\ h[o].kind = "free" <=> h[o].ref_num = 0
    BY DEF Exact
  <1>3. ASSUME NEW o \in Obj
        PROVE  IF d(o) > 0 /\ h[o].ref_num = d(o) THEN k[o] = FreeCell
               ELSE k[o] = [h[o] EXCEPT !.ref_num = @ - d(o)]
    BY DEF ReleaseBy
  <1>4. ASSUME NEW o \in Obj
        PROVE  /\ k[o] \in Cell
               /\ k[o].ref_num = h[o].ref_num - d(o)
               /\ k[o].kind = IF d(o) > 0 /\ h[o].ref_num = d(o) THEN "free"
                              ELSE h[o].kind
               /\ k[o].kind = h[o].kind => k[o].kind = "free"
                              \/ (k[o].shape = h[o].shape /\ k[o].storage = h[o].storage)
    <2>1. h[o] \in Cell /\ R[o] \in Nat
      BY <1>0
    <2> HIDE DEF d, k, s, t, SH, ST
    <2>2. d(o) \in Nat
      <3>1. d(o) = R[o] + s(o) + t(o) /\ s(o) \in Nat /\ t(o) \in Nat
        BY <1>1
      <3> QED
        BY <2>1, <3>1
    <2>3. CASE d(o) > 0 /\ h[o].ref_num = d(o)
      <3>1. k[o] = FreeCell
        BY <1>3, <2>3
      <3> QED
        BY <2>1, <2>2, <2>3, <3>1 DEF FreeCell, Cell, Kind
    <2>4. CASE ~ (d(o) > 0 /\ h[o].ref_num = d(o))
      <3>1. k[o] = [h[o] EXCEPT !.ref_num = @ - d(o)]
        BY <1>3, <2>4
      <3> QED
        BY <2>1, <2>2, <2>4, <3>1 DEF Cell
    <2> QED
      BY <2>3, <2>4
  <1>5. ASSUME NEW x \in Obj, h[x].kind = "tensor"
        PROVE  /\ SH(x) = {} /\ ST(x) = {}
               /\ d(x) = R[x] /\ (k[x].kind = "free" <=> x \in dead)
    <2>1. SH(x) = {} /\ ST(x) = {}
      BY <1>5, RegisterAssumption DEF HeapOK, ShapeHolders, StorageHolders
    <2>2. s(x) = 0 /\ t(x) = 0
      BY <2>1, FS_EmptySet
    <2>3. d(x) = R[x]
      <3>1. d(x) = R[x] + s(x) + t(x) /\ R[x] \in Nat
        BY <1>1
      <3> HIDE DEF d, s, t
      <3> QED
        BY <3>1, <2>2
    <2>4. x \in dead <=> R[x] > 0 /\ h[x].ref_num = R[x]
      BY <1>5 DEF DeadBy
    <2>5. k[x].kind = "free" <=> d(x) > 0 /\ h[x].ref_num = d(x)
      <3> HIDE DEF d, k
      <3> QED
        BY <1>4, <1>5
    <2> HIDE DEF d, k, dead, SH, ST
    <2> QED
      BY <2>1, <2>3, <2>4, <2>5
  <1>6. ASSUME NEW o \in Obj
        PROVE  /\ ShapeHolders(k, o) = SH(o) \ dead
               /\ StorageHolders(k, o) = ST(o) \ dead
    <2>1. \A x \in Obj : k[x].kind = "tensor" <=> h[x].kind = "tensor" /\ x \notin dead
      <3> HIDE DEF k, d, dead, SH, ST
      <3> QED BY <1>4, <1>5
    <2>2. \A x \in Obj : k[x].kind = "tensor" => k[x].shape = h[x].shape
                                                   /\ k[x].storage = h[x].storage
      <3> HIDE DEF k, d, dead, SH, ST
      <3> QED BY <1>4, <2>1
    <2> HIDE DEF k, dead
    <2> QED
      BY <2>1, <2>2 DEF ShapeHolders, StorageHolders
  <1>7. ASSUME NEW o \in Obj
        PROVE  /\ k[o].ref_num = M[o] + Cardinality(ShapeHolders(k, o))
                                 + Cardinality(StorageHolders(k, o))
               /\ k[o].kind = "free" <=> k[o].ref_num = 0
    <2>1. N[o] \in Nat /\ R[o] \in Nat /\ R[o] <= N[o] /\ M[o] = N[o] - R[o]
      OBVIOUS
    <2> HIDE DEF k, d, dead, SH, ST, s, t
    <2>2. h[o].ref_num \in Int
      BY <1>0 DEF Cell
    <2>3. /\ h[o].ref_num = N[o] + Cardinality(SH(o)) + Cardinality(ST(o))
          /\ d(o) = R[o] + s(o) + t(o) /\ s(o) \in Nat /\ t(o) \in Nat
          /\ Cardinality(SH(o)) \in Nat /\ Cardinality(ST(o)) \in Nat
          /\ Cardinality(ShapeHolders(k, o)) = Cardinality(SH(o)) - s(o)
          /\ Cardinality(StorageHolders(k, o)) = Cardinality(ST(o)) - t(o)
      BY <1>1, <1>2, <1>6
    <2>4. s(o) <= Cardinality(SH(o)) /\ t(o) <= Cardinality(ST(o))
      BY <1>1
    <2>5. d(o) \in Nat /\ d(o) <= h[o].ref_num
      BY <2>1, <2>3, <2>4
    <2>6. k[o].ref_num = h[o].ref_num - d(o)
      BY <1>4
    <2>7. k[o].kind = "free" <=> k[o].ref_num = 0
      <3>1. CASE d(o) > 0 /\ h[o].ref_num = d(o)
        BY <1>4, <2>2, <2>5, <2>6, <3>1
      <3>2. CASE ~ (d(o) > 0 /\ h[o].ref_num = d(o))
        <4>1. k[o].kind = h[o].kind
          BY <1>4, <3>2
        <4>2. h[o].kind = "free" <=> h[o].ref_num = 0
          BY <1>2
        <4>3. k[o].ref_num = 0 <=> h[o].ref_num = 0
          <5> DEFINE n == h[o].ref_num
                     m == d(o)
                     x == k[o].ref_num
          <5>1. n \in Int /\ m \in Nat /\ m <= n /\ x = n - m /\ ~ (m > 0 /\ n = m)
            BY <2>2, <2>5, <2>6, <3>2
          <5> HIDE DEF n, m, x
          <5>2. x = 0 <=> n = 0
            BY <5>1
          <5> QED
            BY <5>2 DEF n, x
        <4> QED
          BY <4>1, <4>2, <4>3
      <3> QED
        BY <3>1, <3>2
    <2> QED
      BY <2>1, <2>3, <2>6, <2>7
  <1>8. Exact(k, M)
    <2> HIDE DEF k
    <2> QED BY <1>7 DEF Exact
  <1>9. ASSUME NEW x \in Obj, k[x].kind = "tensor"
        PROVE  /\ k[x].shape \in Obj /\ k[k[x].shape].kind = "shape"
               /\ k[x].storage # NoObj => k[k[x].storage].kind = "storage"
    <2>1. h[x].kind = "tensor" /\ k[x].shape = h[x].shape /\ k[x].storage = h[x].storage
      <3> HIDE DEF k, d
      <3> QED BY <1>4, <1>9
    <2>2. h[x].shape \in Obj /\ h[h[x].shape].kind = "shape"
          /\ (h[x].storage # NoObj => h[x].storage \in Obj /\ h[h[x].storage].kind = "storage")
      BY <2>1, <1>0 DEF HeapOK, Cell
    <2>3. x \in ShapeHolders(k, k[x].shape) /\ x \in StorageHolders(k, k[x].storage)
      BY <1>9 DEF ShapeHolders, StorageHolders
    <2>4. ASSUME NEW o \in Obj, x \in ShapeHolders(k, o) \/ x \in StorageHolders(k, o)
          PROVE  k[o].kind = h[o].kind
      <3>1. Cardinality(ShapeHolders(k, o)) > 0 \/ Cardinality(StorageHolders(k, o)) > 0
        <4> HIDE DEF k
        <4> QED BY <2>4, HoldersFinite, FS_EmptySet
      <3>2. k[o].ref_num # 0
        <4>1. M[o] \in Nat
          OBVIOUS
        <4> HIDE DEF k
        <4> QED BY <1>7, <3>1, HoldersFinite, <4>1
      <3> HIDE DEF k, d
      <3> QED BY <1>4, <1>7, <3>2
    <2> HIDE DEF k
    <2> QED
      BY <2>1, <2>2, <2>3, <2>4
  <1>10. HeapOK(k)
    <2>1. k \in [Obj -> Cell]
      <3>1. k = [o \in Obj |-> k[o]]
        BY DEF ReleaseBy
      <3> HIDE DEF k
      <3> QED BY <1>4, <3>1
    <2> HIDE DEF k
    <2> QED BY <1>9, <2>1 DEF HeapOK
  <1>11. \A o \in Obj : k[o].kind \in {h[o].kind, "free"}
    <2> HIDE DEF k, d
    <2> QED BY <1>4
  <1> HIDE DEF k
  <1> QED
    BY <1>8, <1>10, <1>11 DEF k

-----------------------------------------------------------------------------
RetainBy(h, R) == [o \in Obj |-> [h[o] EXCEPT !.ref_num = @ + R[o]]]

(* Retain of a set of values, by the number of references to each cell.    *)
LEMMA RetainIs ==
  ASSUME NEW h, NEW rs, NEW D
  PROVE  Retain(h, rs, D) = RetainBy(h, Refs(rs, D))
  BY DEF Retain, RetainBy, Refs

(* New references to live cells are counted.                               *)
LEMMA RetainExact ==
  ASSUME NEW h, HeapOK(h), NEW N \in [Obj -> Nat], Exact(h, N),
         NEW R \in [Obj -> Nat], \A o \in Obj : R[o] > 0 => h[o].kind # "free",
         NEW M \in [Obj -> Nat], \A o \in Obj : M[o] = N[o] + R[o]
  PROVE  LET k == RetainBy(h, R)
         IN /\ HeapOK(k) /\ Exact(k, M)
            /\ \A o \in Obj : k[o].kind = h[o].kind
  <1> DEFINE k == RetainBy(h, R)
  <1>1. ASSUME NEW o \in Obj
        PROVE  /\ h[o] \in Cell /\ k[o] \in Cell
               /\ k[o].ref_num = h[o].ref_num + R[o]
               /\ k[o].kind = h[o].kind
               /\ k[o].shape = h[o].shape /\ k[o].storage = h[o].storage
    <2>1. h[o] \in Cell /\ R[o] \in Nat
      BY DEF HeapOK
    <2>2. k[o] = [h[o] EXCEPT !.ref_num = @ + R[o]]
      BY DEF RetainBy
    <2> HIDE DEF k
    <2> QED
      BY <2>1, <2>2 DEF Cell
  <1>2. k \in [Obj -> Cell]
    <2>1. k = [o \in Obj |-> k[o]]
      BY DEF RetainBy
    <2> HIDE DEF k
    <2> QED
      BY <1>1, <2>1
  <1>3. ASSUME NEW o \in Obj
        PROVE  /\ ShapeHolders(k, o) = ShapeHolders(h, o)
               /\ StorageHolders(k, o) = StorageHolders(h, o)
    <2> HIDE DEF k
    <2> QED
      BY <1>1 DEF ShapeHolders, StorageHolders
  <1>4. HeapOK(k)
    <2> HIDE DEF k
    <2>1. ASSUME NEW t \in Obj, k[t].kind = "tensor"
          PROVE  /\ k[t].shape \in Obj /\ k[k[t].shape].kind = "shape"
                 /\ k[t].storage # NoObj => k[k[t].storage].kind = "storage"
      <3>1. /\ h[t].shape \in Obj /\ h[h[t].shape].kind = "shape"
            /\ h[t].storage # NoObj => h[t].storage \in Obj /\ h[h[t].storage].kind = "storage"
        BY <1>1, <2>1 DEF HeapOK, Cell
      <3> QED
        BY <1>1, <3>1
    <2> QED
      BY <1>2, <2>1 DEF HeapOK
  <1>5. ASSUME NEW o \in Obj
        PROVE  /\ k[o].ref_num = M[o] + Cardinality(ShapeHolders(k, o))
                                 + Cardinality(StorageHolders(k, o))
               /\ k[o].kind = "free" <=> k[o].ref_num = 0
    <2>1. /\ h[o].ref_num = N[o] + Cardinality(ShapeHolders(h, o))
                            + Cardinality(StorageHolders(h, o))
          /\ h[o].kind = "free" <=> h[o].ref_num = 0
      BY DEF Exact
    <2>2. Cardinality(ShapeHolders(h, o)) \in Nat /\ Cardinality(StorageHolders(h, o)) \in Nat
      BY HoldersFinite
    <2> DEFINE n == h[o].ref_num
               x == k[o].ref_num
    <2>3. n \in Nat /\ R[o] \in Nat /\ N[o] \in Nat /\ M[o] = N[o] + R[o] /\ x = n + R[o]
      BY <1>1, <2>1, <2>2
    <2>4. x = 0 <=> n = 0 /\ R[o] = 0
      <3> HIDE DEF n, x
      <3> QED BY <2>3
    <2>5. R[o] > 0 => h[o].kind # "free"
      OBVIOUS
    <2>6. k[o].kind = "free" <=> x = 0
      <3> HIDE DEF x, k
      <3> QED BY <1>1, <2>1, <2>3, <2>4, <2>5, SMTT(60)
    <2> HIDE DEF k
    <2> QED
      BY <1>3, <2>1, <2>2, <2>3, <2>6
  <1> HIDE DEF k
  <1>6. Exact(k, M)
    BY <1>5 DEF Exact
  <1> QED
    BY <1>1, <1>4, <1>6 DEF k

(* Nothing leads to a free cell.                                           *)
LEMMA FreeHasNoHolders ==
  ASSUME NEW h, HeapOK(h), NEW N \in [Obj -> Nat], Exact(h, N),
         NEW t \in Obj, h[t].kind = "free"
  PROVE  N[t] = 0 /\ ShapeHolders(h, t) = {} /\ StorageHolders(h, t) = {}
  <1> DEFINE a == Cardinality(ShapeHolders(h, t))
             b == Cardinality(StorageHolders(h, t))
  <1>1. /\ a \in Nat /\ b \in Nat
        /\ a = 0 <=> ShapeHolders(h, t) = {}
        /\ b = 0 <=> StorageHolders(h, t) = {}
    BY HoldersFinite, FS_EmptySet
  <1>2. 0 = N[t] + a + b
    BY DEF Exact
  <1>3. N[t] \in Nat
    OBVIOUS
  <1>4. N[t] = 0 /\ a = 0 /\ b = 0
    <2> HIDE DEF a, b
    <2> QED
      BY <1>1, <1>2, <1>3
  <1> QED
    BY <1>1, <1>4

(* A new object that nothing else leads to, with the one reference that is *)
(* returned.                                                               *)
LEMMA NewObjectExact ==
  ASSUME NEW h, HeapOK(h), NEW N \in [Obj -> Nat], Exact(h, N),
         NEW t \in Obj, h[t].kind = "free",
         NEW M \in [Obj -> Nat],
         \A o \in Obj : M[o] = N[o] + (IF o = t THEN 1 ELSE 0)
  PROVE  LET k == [h EXCEPT ![t] = ObjectCell("storage")]
         IN /\ HeapOK(k) /\ Exact(k, M)
            /\ \A o \in Obj : o # t => k[o].kind = h[o].kind
  <1> DEFINE k == [h EXCEPT ![t] = ObjectCell("storage")]
  <1>1. h \in [Obj -> Cell] /\ k \in [Obj -> Cell]
    BY DEF HeapOK, ObjectCell, Cell, Kind
  <1>2. \A o \in Obj : o # t => k[o] = h[o]
    BY <1>1
  <1>3. k[t].kind = "storage" /\ k[t].ref_num = 1
    BY <1>1 DEF ObjectCell
  <1>4. ASSUME NEW o \in Obj
        PROVE  /\ ShapeHolders(k, o) = ShapeHolders(h, o)
               /\ StorageHolders(k, o) = StorageHolders(h, o)
    <2> HIDE DEF k
    <2> QED
      BY <1>2, <1>3 DEF ShapeHolders, StorageHolders
  <1>5. HeapOK(k)
    <2> HIDE DEF k
    <2>1. ASSUME NEW x \in Obj, k[x].kind = "tensor"
          PROVE  /\ k[x].shape \in Obj /\ k[k[x].shape].kind = "shape"
                 /\ k[x].storage # NoObj => k[k[x].storage].kind = "storage"
      <3>1. x # t /\ k[x] = h[x]
        BY <1>2, <1>3, <2>1
      <3>2. /\ h[x].shape \in Obj /\ h[h[x].shape].kind = "shape"
            /\ h[x].storage # NoObj => h[x].storage \in Obj /\ h[h[x].storage].kind = "storage"
        BY <1>1, <2>1, <3>1 DEF HeapOK, Cell
      <3> QED
        BY <1>2, <3>1, <3>2
    <2> QED
      BY <1>1, <2>1 DEF HeapOK
  <1>6. Exact(k, M)
    <2> HIDE DEF k
    <2>1. N[t] = 0 /\ ShapeHolders(h, t) = {} /\ StorageHolders(h, t) = {}
      BY FreeHasNoHolders
    <2>2. M[t] = 1
      BY <2>1
    <2>3. k[t].ref_num = M[t] + Cardinality(ShapeHolders(k, t))
                         + Cardinality(StorageHolders(k, t))
      BY <1>3, <1>4, <2>1, <2>2, FS_EmptySet
    <2>4. ASSUME NEW o \in Obj, o # t
          PROVE  /\ k[o].ref_num = M[o] + Cardinality(ShapeHolders(k, o))
                                   + Cardinality(StorageHolders(k, o))
                 /\ k[o].kind = "free" <=> k[o].ref_num = 0
      <3>1. M[o] = N[o]
        BY <2>4
      <3> QED
        BY <1>2, <1>4, <2>4, <3>1 DEF Exact
    <2> QED
      BY <1>3, <2>3, <2>4 DEF Exact
  <1> HIDE DEF k
  <1> QED
    BY <1>2, <1>5, <1>6 DEF k

(* A new tensor over the shape z and the storage s. *)
TensorHeap(h, t, z, s) ==
  [o \in Obj |-> [[h EXCEPT ![t] = TensorCell(z, s)][o] EXCEPT !.ref_num =
                    @ + (IF o = z THEN 1 ELSE 0) + (IF o = s THEN 1 ELSE 0)]]

(* It has one reference, and its shape and its storage each one more.      *)
LEMMA NewTensorExact ==
  ASSUME NEW h, HeapOK(h), NEW N \in [Obj -> Nat], Exact(h, N),
         NEW t \in Obj, h[t].kind = "free",
         NEW z \in Obj, h[z].kind = "shape",
         NEW s \in Obj \cup {NoObj}, s # NoObj => h[s].kind = "storage",
         NEW M \in [Obj -> Nat],
         \A o \in Obj : M[o] = N[o] + (IF o = t THEN 1 ELSE 0)
  PROVE  LET k == TensorHeap(h, t, z, s)
         IN /\ HeapOK(k) /\ Exact(k, M) /\ k[t].kind = "tensor"
            /\ \A o \in Obj : o # t => k[o].kind = h[o].kind
  <1> DEFINE k == TensorHeap(h, t, z, s)
             one(o) == (IF o = z THEN 1 ELSE 0) + (IF o = s THEN 1 ELSE 0)
  <1>0. h \in [Obj -> Cell] /\ \A o \in Obj : h[o] \in Cell
    BY DEF HeapOK
  <1>1. t # z /\ t # s
    BY RegisterAssumption
  <1>2. ASSUME NEW o \in Obj, o # t
        PROVE  /\ k[o] \in Cell /\ k[o].kind = h[o].kind
               /\ k[o].shape = h[o].shape /\ k[o].storage = h[o].storage
               /\ k[o].ref_num = h[o].ref_num + one(o)
    <2>1. k[o] = [h[o] EXCEPT !.ref_num = @
                 + (IF o = z THEN 1 ELSE 0) + (IF o = s THEN 1 ELSE 0)]
      BY <1>0, <1>2 DEF TensorHeap
    <2> HIDE DEF k
    <2> QED
      BY <1>0, <2>1 DEF Cell
  <1>3. /\ k[t] \in Cell /\ k[t].kind = "tensor" /\ k[t].ref_num = 1
        /\ k[t].shape = z /\ k[t].storage = s
    <2>1. k[t] = [TensorCell(z, s) EXCEPT !.ref_num = @ + 0 + 0]
      BY <1>0, <1>1 DEF TensorHeap
    <2> HIDE DEF k
    <2> QED
      BY <2>1 DEF TensorCell, Cell, Kind
  <1>4. k \in [Obj -> Cell]
    <2>1. k = [o \in Obj |-> k[o]]
      BY DEF TensorHeap
    <2> HIDE DEF k
    <2> QED
      BY <1>2, <1>3, <2>1
  <1> HIDE DEF k
  <1>5. HeapOK(k)
    <2>1. ASSUME NEW x \in Obj, k[x].kind = "tensor"
          PROVE  /\ k[x].shape \in Obj /\ k[k[x].shape].kind = "shape"
                 /\ k[x].storage # NoObj => k[k[x].storage].kind = "storage"
      <3>1. CASE x = t
        BY <1>1, <1>2, <1>3, <3>1
      <3>2. CASE x # t
        <4>1. /\ h[x].shape \in Obj /\ h[h[x].shape].kind = "shape"
              /\ h[x].storage # NoObj => h[x].storage \in Obj /\ h[h[x].storage].kind = "storage"
          BY <1>0, <1>2, <2>1, <3>2 DEF HeapOK, Cell
        <4> QED
          BY <1>2, <3>2, <4>1
      <3> QED
        BY <3>1, <3>2
    <2> QED
      BY <1>4, <2>1 DEF HeapOK
  <1>6. ASSUME NEW o \in Obj
        PROVE  /\ ShapeHolders(k, o) = IF o = z
                                       THEN ShapeHolders(h, o) \cup {t} ELSE ShapeHolders(h, o)
               /\ StorageHolders(k, o) = IF o = s
                                         THEN StorageHolders(h, o) \cup {t} ELSE StorageHolders(h, o)
               /\ t \notin ShapeHolders(h, o) /\ t \notin StorageHolders(h, o)
    BY <1>2, <1>3 DEF ShapeHolders, StorageHolders
  <1>7. ASSUME NEW o \in Obj
        PROVE  /\ Cardinality(ShapeHolders(k, o)) = Cardinality(ShapeHolders(h, o))
                                                    + (IF o = z THEN 1 ELSE 0)
               /\ Cardinality(StorageHolders(k, o)) = Cardinality(StorageHolders(h, o))
                                                      + (IF o = s THEN 1 ELSE 0)
               /\ Cardinality(ShapeHolders(h, o)) \in Nat
               /\ Cardinality(StorageHolders(h, o)) \in Nat
    <2>1. /\ Cardinality(ShapeHolders(h, o) \cup {t}) = Cardinality(ShapeHolders(h, o)) + 1
          /\ Cardinality(StorageHolders(h, o) \cup {t}) = Cardinality(StorageHolders(h, o)) + 1
      BY <1>6, HoldersFinite, FS_AddElement
    <2>2. Cardinality(ShapeHolders(h, o)) \in Nat /\ Cardinality(StorageHolders(h, o)) \in Nat
      BY HoldersFinite
    <2>3. Cardinality(ShapeHolders(k, o)) = Cardinality(ShapeHolders(h, o))
                                            + (IF o = z THEN 1 ELSE 0)
      <3>1. CASE o = z
        <4>1. ShapeHolders(k, o) = ShapeHolders(h, o) \cup {t}
          BY <1>6, <3>1
        <4> QED
          BY <2>1, <3>1, <4>1
      <3>2. CASE o # z
        <4>1. ShapeHolders(k, o) = ShapeHolders(h, o)
          BY <1>6, <3>2
        <4> QED
          BY <2>2, <3>2, <4>1
      <3> QED
        BY <3>1, <3>2
    <2>4. Cardinality(StorageHolders(k, o)) = Cardinality(StorageHolders(h, o))
                                              + (IF o = s THEN 1 ELSE 0)
      <3>1. CASE o = s
        <4>1. StorageHolders(k, o) = StorageHolders(h, o) \cup {t}
          BY <1>6, <3>1
        <4> QED
          BY <2>1, <3>1, <4>1
      <3>2. CASE o # s
        <4>1. StorageHolders(k, o) = StorageHolders(h, o)
          BY <1>6, <3>2
        <4> QED
          BY <2>2, <3>2, <4>1
      <3> QED
        BY <3>1, <3>2
    <2> QED
      BY <2>2, <2>3, <2>4
  <1>8. ASSUME NEW o \in Obj
        PROVE  /\ k[o].ref_num = M[o] + Cardinality(ShapeHolders(k, o))
                                 + Cardinality(StorageHolders(k, o))
               /\ k[o].kind = "free" <=> k[o].ref_num = 0
    <2>1. CASE o = t
      <3>1. N[t] = 0 /\ ShapeHolders(h, t) = {} /\ StorageHolders(h, t) = {}
        BY FreeHasNoHolders
      <3>2. M[t] = 1
        BY <3>1
      <3>3. ShapeHolders(k, t) = {} /\ StorageHolders(k, t) = {}
        BY <1>1, <1>6, <3>1
      <3> QED
        BY <1>3, <2>1, <3>2, <3>3, FS_EmptySet
    <2>2. CASE o # t
      <3>1. /\ h[o].ref_num = N[o] + Cardinality(ShapeHolders(h, o))
                              + Cardinality(StorageHolders(h, o))
            /\ h[o].kind = "free" <=> h[o].ref_num = 0
        BY DEF Exact
      <3> DEFINE n == h[o].ref_num
                 x == k[o].ref_num
      <3>2. n \in Nat /\ M[o] = N[o] /\ N[o] \in Nat /\ x = n + one(o)
        BY <1>2, <1>7, <2>2, <3>1
      <3>3. one(o) > 0 => h[o].kind # "free"
        <4>1. one(o) > 0 => o = z \/ o = s
          OBVIOUS
        <4> HIDE DEF one
        <4> QED
          BY <4>1, RegisterAssumption
      <3>4. k[o].kind = "free" <=> x = 0
        <4>1. one(o) \in Nat
          OBVIOUS
        <4>2. k[o].kind = h[o].kind
          BY <1>2, <2>2
        <4> HIDE DEF one, x
        <4> QED
          BY <3>1, <3>2, <3>3, <4>1, <4>2
      <3> QED
        BY <1>7, <3>1, <3>2, <3>4
    <2> QED
      BY <2>1, <2>2
  <1>9. Exact(k, M)
    BY <1>8 DEF Exact
  <1> QED
    BY <1>2, <1>3, <1>5, <1>9 DEF k

-----------------------------------------------------------------------------
(* The machine and all that refers to its heap.                            *)

(* All registers, and all inputs and outputs, that refer to o.             *)
RegRefs(rs, o) == {l \in Buffer \X RegIdx : Owns(rs[l[1]][l[2]], o)}
IoRefs(x, o)   == {l \in IoLocs : Owns(x[l[1]][l[2]], o)}
One(v, o)      == IF Owns(v, o) THEN 1 ELSE 0

(* The references to each cell from outside the heap, with one more held   *)
(* by the value v that is on its way to a register.                        *)
Outside(rs, x, v) ==
  [o \in Obj |-> Base(o) + Cardinality(RegRefs(rs, o))
                         + Cardinality(IoRefs(x, o)) + One(v, o)]

RegsOK(rs) == rs \in [Buffer -> [RegIdx -> Value]]
IoOK(x) == /\ x = [f \in Func |-> x[f]]
           /\ \A f \in Func : x[f] \in [0 .. NumParams(f) -> Value]

SoundIn(h, v) == v.typecode \in Counted => h[v.value].kind = KindOf[v.typecode]

Uncounted(v) == v.typecode \notin Counted

(* The heap h and everything that refers to it.                            *)
Config(h, rs, x, v) ==
  /\ HeapOK(h)
  /\ Exact(h, Outside(rs, x, v))
  /\ RegsOK(rs) /\ IoOK(x) /\ v \in Value
  /\ \A b \in Buffer, r \in RegIdx : SoundIn(h, rs[b][r])
  /\ \A f \in Func : \A i \in 0 .. NumParams(f) : SoundIn(h, x[f][i])
  /\ SoundIn(h, v)
  /\ \A o \in DOMAIN ConstCell : h[o].kind = ConstCell[o].kind

-----------------------------------------------------------------------------
(* The registers of all buffers, and all inputs and outputs, are finitely  *)
(* many.                                                                   *)
LEMMA RegIdxFinite ==
  /\ Special \in Nat
  /\ IsFiniteSet(RegIdx) /\ IsFiniteSet(Buffer \X RegIdx)
  /\ IsFiniteSet(IoLocs)
  <1>1. Special \in Nat /\ IsFiniteSet(RegIdx)
    BY RelaxAssumption, FS_Interval DEF RegIdx
  <1>2. IsFiniteSet(Buffer \X RegIdx)
    BY <1>1, OperandAssumption, FS_Product
  <1>3. IsFiniteSet(IoLocs)
    <2> DEFINE P(f) == {<<f, i>> : i \in 0 .. NumParams(f)}
               Q == {P(f) : f \in Func}
    <2>1. ASSUME NEW f \in Func
          PROVE  IsFiniteSet(P(f))
      <3>1. NumParams(f) \in Nat /\ IsFiniteSet(0 .. NumParams(f))
        BY OperandAssumption, FS_Interval
      <3>2. IsFiniteSet(Func \X (0 .. NumParams(f)))
        BY <3>1, OperandAssumption, FS_Product
      <3>3. P(f) \in SUBSET (Func \X (0 .. NumParams(f)))
        OBVIOUS
      <3> QED
        BY <3>2, <3>3, FS_Subset
    <2>2. IsFiniteSet(Q)
      <3> DEFINE g == [f \in Func |-> P(f)]
      <3>1. g \in Surjection(Func, Q)
        BY DEF Surjection
      <3> QED
        BY <3>1, OperandAssumption, FS_Surjection
    <2>3. \A T \in Q : IsFiniteSet(T)
      BY <2>1
    <2>4. IsFiniteSet(UNION Q)
      <3> HIDE DEF Q
      <3> QED
        BY <2>2, <2>3, FS_UNION
    <2> QED
      BY <2>4 DEF IoLocs
  <1> QED
    BY <1>1, <1>2, <1>3

(* So are those that refer to o.                                           *)
LEMMA RefsFinite ==
  ASSUME NEW rs, NEW x, NEW o
  PROVE  /\ IsFiniteSet(RegRefs(rs, o)) /\ Cardinality(RegRefs(rs, o)) \in Nat
         /\ IsFiniteSet(IoRefs(x, o)) /\ Cardinality(IoRefs(x, o)) \in Nat
  <1>1. RegRefs(rs, o) \in SUBSET (Buffer \X RegIdx) /\ IoRefs(x, o) \in SUBSET IoLocs
    BY DEF RegRefs, IoRefs
  <1> QED
    BY <1>1, RegIdxFinite, FS_Subset, FS_CardinalityType

(* The references to one cell from outside the heap.                       *)
LEMMA OutsideAt ==
  ASSUME NEW rs, NEW x, NEW v, NEW o \in Obj
  PROVE  /\ Outside(rs, x, v)[o] = Base(o) + Cardinality(RegRefs(rs, o))
                                     + Cardinality(IoRefs(x, o)) + One(v, o)
         /\ Base(o) \in Nat /\ One(v, o) \in Nat
         /\ Cardinality(RegRefs(rs, o)) \in Nat
         /\ Cardinality(IoRefs(x, o)) \in Nat
  <1>1. Base(o) \in Nat /\ One(v, o) \in Nat
    BY DEF Base, One
  <1> QED
    BY <1>1, RefsFinite DEF Outside

(* They are a number for every cell.                                       *)
LEMMA OutsideType ==
  ASSUME NEW rs, NEW x, NEW v
  PROVE  Outside(rs, x, v) \in [Obj -> Nat]
  <1>1. \A o \in Obj : Base(o) + Cardinality(RegRefs(rs, o))
                         + Cardinality(IoRefs(x, o)) + One(v, o) \in Nat
    <2> SUFFICES ASSUME NEW o \in Obj
                 PROVE  Base(o) + Cardinality(RegRefs(rs, o))
                         + Cardinality(IoRefs(x, o)) + One(v, o) \in Nat
      OBVIOUS
    <2> QED
      BY OutsideAt
  <1> QED
    BY <1>1 DEF Outside

(* Whatever refers to o counts for o. *)
LEMMA OutsidePositive ==
  ASSUME NEW rs, NEW x, NEW v, NEW o \in Obj
  PROVE  /\ \A b \in Buffer, r \in RegIdx :
              Owns(rs[b][r], o) => Outside(rs, x, v)[o] > 0
         /\ \A f \in Func : \A i \in 0 .. NumParams(f) :
              Owns(x[f][i], o) => Outside(rs, x, v)[o] > 0
         /\ Owns(v, o) => Outside(rs, x, v)[o] > 0
         /\ o \in DOMAIN ConstCell => Outside(rs, x, v)[o] > 0
  <1> DEFINE n == Outside(rs, x, v)[o]
             a == Cardinality(RegRefs(rs, o))
             b == Cardinality(IoRefs(x, o))
  <1>1. /\ n = Base(o) + a + b + One(v, o)
        /\ Base(o) \in Nat /\ One(v, o) \in Nat /\ a \in Nat /\ b \in Nat
    BY OutsideAt
  <1>2. ASSUME NEW c \in Buffer, NEW r \in RegIdx, Owns(rs[c][r], o)
        PROVE  n > 0
    <2>1. <<c, r>> \in RegRefs(rs, o)
      BY <1>2 DEF RegRefs
    <2>2. a # 0
      BY <2>1, RefsFinite, FS_EmptySet
    <2> HIDE DEF n, a, b
    <2> QED
      BY <1>1, <2>2
  <1>3. ASSUME NEW f \in Func, NEW i \in 0 .. NumParams(f), Owns(x[f][i], o)
        PROVE  n > 0
    <2>1. <<f, i>> \in IoRefs(x, o)
      BY <1>3 DEF IoRefs, IoLocs
    <2>2. b # 0
      BY <2>1, RefsFinite, FS_EmptySet
    <2> HIDE DEF n, a, b
    <2> QED
      BY <1>1, <2>2
  <1>4. Owns(v, o) => n > 0
    <2>1. Owns(v, o) => One(v, o) = 1
      BY DEF One
    <2> HIDE DEF n, a, b
    <2> QED
      BY <1>1, <2>1
  <1>5. o \in DOMAIN ConstCell => n > 0
    <2>1. o \in DOMAIN ConstCell => Base(o) = 1
      BY DEF Base
    <2> HIDE DEF n, a, b
    <2> QED
      BY <1>1, <2>1
  <1> QED
    BY <1>2, <1>3, <1>4, <1>5

-----------------------------------------------------------------------------
(* A cell that is counted from outside is not free. *)
LEMMA CountedIsLive ==
  ASSUME NEW h, NEW N \in [Obj -> Nat], Exact(h, N), NEW o \in Obj, N[o] > 0
  PROVE  h[o].kind # "free"
  <1> DEFINE n == N[o]
             a == Cardinality(ShapeHolders(h, o))
             b == Cardinality(StorageHolders(h, o))
             c == h[o].ref_num
  <1>1. n \in Nat /\ n > 0 /\ a \in Nat /\ b \in Nat /\ c = n + a + b
    BY HoldersFinite DEF Exact
  <1>2. c # 0
    <2> HIDE DEF n, a, b, c
    <2> QED BY <1>1
  <1> QED
    BY <1>2 DEF Exact

(* A counted value leads to a cell, and owns a reference to it.            *)
LEMMA ValueCounted ==
  ASSUME NEW v \in Value, v.typecode \in Counted
  PROVE  v.value \in Obj /\ Owns(v, v.value) /\ KindOf[v.typecode] # "free"
  BY DEF Value, Counted, Owns, KindOf

(* A heap that changes under values that stay, or hold nothing: they stay  *)
(* sound.                                                                  *)
LEMMA SoundKept ==
  ASSUME NEW h, NEW k, NEW rs, NEW x, NEW v, RegsOK(rs), IoOK(x), v \in Value,
         Exact(k, Outside(rs, x, v)),
         \A o \in Obj : k[o].kind \in {h[o].kind, "free"},
         \A b \in Buffer, r \in RegIdx : SoundIn(h, rs[b][r]),
         \A f \in Func : \A i \in 0 .. NumParams(f) : SoundIn(h, x[f][i]),
         SoundIn(h, v),
         \A o \in DOMAIN ConstCell : h[o].kind = ConstCell[o].kind
  PROVE  /\ \A b \in Buffer, r \in RegIdx : SoundIn(k, rs[b][r])
         /\ \A f \in Func : \A i \in 0 .. NumParams(f) : SoundIn(k, x[f][i])
         /\ SoundIn(k, v)
         /\ \A o \in DOMAIN ConstCell : k[o].kind = ConstCell[o].kind
  <1> DEFINE N == Outside(rs, x, v)
  <1>1. N \in [Obj -> Nat]
    BY OutsideType
  <1>2. \A o \in Obj : N[o] > 0 => k[o].kind = h[o].kind
    <2>1. Exact(k, N) /\ \A o \in Obj : k[o].kind \in {h[o].kind, "free"}
      OBVIOUS
    <2> HIDE DEF N
    <2> QED
      BY <1>1, <2>1, CountedIsLive
  <1>3. ASSUME NEW w \in Value, SoundIn(h, w), \A o \in Obj : Owns(w, o) => N[o] > 0
        PROVE  SoundIn(k, w)
    <2> HIDE DEF N
    <2> QED
      BY <1>2, <1>3, ValueCounted DEF SoundIn
  <1>4. ASSUME NEW b \in Buffer, NEW r \in RegIdx
        PROVE  SoundIn(k, rs[b][r])
    <2>1. rs[b][r] \in Value
      BY DEF RegsOK
    <2> QED
      BY <1>3, <2>1, OutsidePositive
  <1>5. ASSUME NEW f \in Func, NEW i \in 0 .. NumParams(f)
        PROVE  SoundIn(k, x[f][i])
    <2>1. x[f][i] \in Value
      BY DEF IoOK
    <2> QED
      BY <1>3, <2>1, OutsidePositive
  <1>6. SoundIn(k, v)
    BY <1>3, OutsidePositive
  <1>7. ASSUME NEW o \in DOMAIN ConstCell
        PROVE  k[o].kind = ConstCell[o].kind
    <2>1. o \in Obj
      BY RelaxAssumption
    <2>2. N[o] > 0
      BY <2>1, OutsidePositive
    <2> HIDE DEF N
    <2> QED
      BY <1>2, <2>1, <2>2
  <1> QED
    BY <1>4, <1>5, <1>6, <1>7

(* References are released: what referred to them is gone. *)
LEMMA ReleaseConfig ==
  ASSUME NEW h, NEW rs, NEW x, NEW v, Config(h, rs, x, v),
         NEW rs2, NEW x2, NEW v2, RegsOK(rs2), IoOK(x2), v2 \in Value,
         NEW R \in [Obj -> Nat],
         \A o \in Obj : Outside(rs2, x2, v2)[o] + R[o] = Outside(rs, x, v)[o],
         \A b \in Buffer, r \in RegIdx : SoundIn(h, rs2[b][r]),
         \A f \in Func : \A i \in 0 .. NumParams(f) : SoundIn(h, x2[f][i]),
         SoundIn(h, v2)
  PROVE  Config(ReleaseBy(h, R), rs2, x2, v2)
  <1> DEFINE N == Outside(rs, x, v)
             M == Outside(rs2, x2, v2)
             k == ReleaseBy(h, R)
  <1>1. N \in [Obj -> Nat] /\ M \in [Obj -> Nat]
    BY OutsideType
  <1>2. HeapOK(h) /\ Exact(h, N) /\ \A o \in DOMAIN ConstCell : h[o].kind = ConstCell[o].kind
    BY DEF Config
  <1>3. \A o \in Obj : R[o] <= N[o] /\ M[o] = N[o] - R[o]
    <2>1. \A o \in Obj : M[o] + R[o] = N[o]
      OBVIOUS
    <2> HIDE DEF M, N
    <2> QED
      BY <1>1, <2>1
  <1>4. HeapOK(k) /\ Exact(k, M) /\ \A o \in Obj : k[o].kind \in {h[o].kind, "free"}
    <2> HIDE DEF M, N
    <2> QED
      BY <1>1, <1>2, <1>3, ReleaseExact
  <1> HIDE DEF k
  <1> QED
    BY <1>2, <1>4, SoundKept DEF Config, k

(* References are added to cells that are live. *)
LEMMA RetainConfig ==
  ASSUME NEW h, NEW rs, NEW x, NEW v, Config(h, rs, x, v),
         NEW rs2, NEW x2, NEW v2, RegsOK(rs2), IoOK(x2), v2 \in Value,
         NEW R \in [Obj -> Nat], \A o \in Obj : R[o] > 0 => h[o].kind # "free",
         \A o \in Obj : Outside(rs2, x2, v2)[o] = Outside(rs, x, v)[o] + R[o],
         \A b \in Buffer, r \in RegIdx : SoundIn(h, rs2[b][r]),
         \A f \in Func : \A i \in 0 .. NumParams(f) : SoundIn(h, x2[f][i]),
         SoundIn(h, v2)
  PROVE  Config(RetainBy(h, R), rs2, x2, v2)
  <1> DEFINE N == Outside(rs, x, v)
             M == Outside(rs2, x2, v2)
             k == RetainBy(h, R)
  <1>1. N \in [Obj -> Nat] /\ M \in [Obj -> Nat]
    BY OutsideType
  <1>2. HeapOK(h) /\ Exact(h, N) /\ \A o \in DOMAIN ConstCell : h[o].kind = ConstCell[o].kind
    BY DEF Config
  <1>3. \A o \in Obj : M[o] = N[o] + R[o]
    OBVIOUS
  <1>4. HeapOK(k) /\ Exact(k, M) /\ \A o \in Obj : k[o].kind = h[o].kind
    <2> HIDE DEF M, N
    <2> QED
      BY <1>1, <1>2, <1>3, RetainExact
  <1> HIDE DEF k
  <1> QED
    BY <1>2, <1>4, SoundKept DEF Config, k

(* A value moves, and the heap stays. *)
LEMMA MoveConfig ==
  ASSUME NEW h, NEW rs, NEW x, NEW v, Config(h, rs, x, v),
         NEW rs2, NEW x2, NEW v2, RegsOK(rs2), IoOK(x2), v2 \in Value,
         \A o \in Obj : Outside(rs2, x2, v2)[o] = Outside(rs, x, v)[o],
         \A b \in Buffer, r \in RegIdx : SoundIn(h, rs2[b][r]),
         \A f \in Func : \A i \in 0 .. NumParams(f) : SoundIn(h, x2[f][i]),
         SoundIn(h, v2)
  PROVE  Config(h, rs2, x2, v2)
  <1>1. Exact(h, Outside(rs2, x2, v2))
    BY DEF Config, Exact
  <1> QED
    BY <1>1 DEF Config

-----------------------------------------------------------------------------
(* Counting references.                                                    *)

(* The sizes of two sets that differ at most in one element.               *)
LEMMA SwapOne ==
  ASSUME NEW A, NEW B, NEW l, IsFiniteSet(A), IsFiniteSet(B),
         A \ {l} = B \ {l}
  PROVE  Cardinality(A) + (IF l \in B THEN 1 ELSE 0) =
           Cardinality(B) + (IF l \in A THEN 1 ELSE 0)
  <1> DEFINE n == Cardinality(A \ {l})
             a == Cardinality(A)
             b == Cardinality(B)
  <1>1. /\ a \in Nat /\ b \in Nat /\ n \in Nat
        /\ n = IF l \in A THEN a - 1 ELSE a
        /\ n = IF l \in B THEN b - 1 ELSE b
    BY FS_RemoveElement, FS_CardinalityType
  <1> HIDE DEF n, a, b
  <1>2. a + (IF l \in B THEN 1 ELSE 0) = b + (IF l \in A THEN 1 ELSE 0)
    BY <1>1
  <1> QED
    BY <1>2 DEF a, b

(* One value is a set of one value.                                        *)
LEMMA OneIsReferences ==
  ASSUME NEW v, NEW o
  PROVE  References(<<v>>, {1}, o) = One(v, o)
  <1>1. {i \in {1} : Owns(<<v>>[i], o)} = IF Owns(v, o) THEN {1} ELSE {}
    OBVIOUS
  <1> QED
    BY <1>1, FS_Singleton, FS_EmptySet DEF References, One

(* One register, or one input or output, is written. *)
RegSet(rs2, rs, b, r, w) ==
  /\ RegsOK(rs2)
  /\ rs2[b][r] = w
  /\ \A c \in Buffer, q \in RegIdx : <<c, q>> # <<b, r>> => rs2[c][q] = rs[c][q]

IoSet(x2, x, f, i, w) ==
  /\ IoOK(x2)
  /\ x2[f][i] = w
  /\ \A g \in Func : \A j \in 0 .. NumParams(g) :
       <<g, j>> # <<f, i>> => x2[g][j] = x[g][j]

(* The assignment of a register writes it and no other.                    *)
LEMMA RegExcept ==
  ASSUME NEW rs, RegsOK(rs), NEW b \in Buffer, NEW r \in RegIdx, NEW w \in Value
  PROVE  RegSet([rs EXCEPT ![b][r] = w], rs, b, r, w)
  BY DEF RegsOK, RegSet

(* The same of an input or output.                                         *)
LEMMA IoExcept ==
  ASSUME NEW x, IoOK(x), NEW f \in Func, NEW i \in 0 .. NumParams(f), NEW w \in Value
  PROVE  IoSet([x EXCEPT ![f][i] = w], x, f, i, w)
  <1> DEFINE x2 == [x EXCEPT ![f][i] = w]
  <1>1. x = [g \in Func |-> x[g]] /\ \A g \in Func : x[g] \in [0 .. NumParams(g) -> Value]
    BY DEF IoOK
  <1>2. x2 = [g \in Func |-> IF g = f THEN [x[f] EXCEPT ![i] = w] ELSE x[g]]
    BY <1>1
  <1> HIDE DEF x2
  <1>3. \A g \in Func : x2[g] = IF g = f THEN [x[f] EXCEPT ![i] = w] ELSE x[g]
    BY <1>2
  <1>4. x2 = [g \in Func |-> x2[g]]
    BY <1>2
  <1>5. \A g \in Func : x2[g] \in [0 .. NumParams(g) -> Value]
    BY <1>1, <1>3, ZenonT(60)
  <1>6. /\ x2[f][i] = w
        /\ \A g \in Func : \A j \in 0 .. NumParams(g) :
             <<g, j>> # <<f, i>> => x2[g][j] = x[g][j]
    BY <1>1, <1>3, ZenonT(60)
  <1> QED
    BY <1>4, <1>5, <1>6 DEF IoOK, IoSet, x2

(* The references to o when one register is written.                       *)
LEMMA RegWritten ==
  ASSUME NEW rs, NEW rs2, NEW b \in Buffer, NEW r \in RegIdx, NEW w,
         RegSet(rs2, rs, b, r, w), NEW o
  PROVE  Cardinality(RegRefs(rs2, o)) + One(rs[b][r], o) =
           Cardinality(RegRefs(rs, o)) + One(w, o)
  <1> DEFINE A == RegRefs(rs2, o)
             B == RegRefs(rs, o)
             l == <<b, r>>
  <1>1. IsFiniteSet(A) /\ IsFiniteSet(B)
    BY RefsFinite
  <1>2. A \ {l} = B \ {l}
    <2>1. \A c \in Buffer, q \in RegIdx : <<c, q>> # l =>
            (<<c, q>> \in A <=> <<c, q>> \in B)
      BY DEF RegRefs, RegSet
    <2>2. A \subseteq Buffer \X RegIdx /\ B \subseteq Buffer \X RegIdx
      BY DEF RegRefs
    <2> HIDE DEF A, B, l
    <2> QED
      BY <2>1, <2>2
  <1>3. (l \in A <=> Owns(w, o)) /\ (l \in B <=> Owns(rs[b][r], o))
    BY DEF RegRefs, RegSet
  <1> HIDE DEF A, B, l
  <1>4. Cardinality(A) + (IF l \in B THEN 1 ELSE 0) =
         Cardinality(B) + (IF l \in A THEN 1 ELSE 0)
    BY <1>1, <1>2, SwapOne
  <1> QED
    BY <1>3, <1>4 DEF One, A, B

(* The same of an input or output.                                         *)
LEMMA IoWritten ==
  ASSUME NEW x, NEW x2, NEW f \in Func, NEW i \in 0 .. NumParams(f), NEW w,
         IoSet(x2, x, f, i, w), NEW o
  PROVE  Cardinality(IoRefs(x2, o)) + One(x[f][i], o) =
           Cardinality(IoRefs(x, o)) + One(w, o)
  <1> DEFINE A == IoRefs(x2, o)
             B == IoRefs(x, o)
             l == <<f, i>>
  <1>1. IsFiniteSet(A) /\ IsFiniteSet(B)
    BY RefsFinite
  <1>2. A \ {l} = B \ {l}
    <2>1. \A g \in Func : \A j \in 0 .. NumParams(g) : <<g, j>> # l =>
            (<<g, j>> \in A <=> <<g, j>> \in B)
      BY DEF IoRefs, IoSet
    <2>2. \A m \in A \cup B : \E g \in Func : \E j \in 0 .. NumParams(g) : m = <<g, j>>
      BY DEF IoRefs, IoLocs
    <2> HIDE DEF A, B, l
    <2> QED
      BY <2>1, <2>2
  <1>3. (l \in A <=> Owns(w, o)) /\ (l \in B <=> Owns(x[f][i], o))
    BY DEF IoRefs, IoLocs, IoSet
  <1> HIDE DEF A, B, l
  <1>4. Cardinality(A) + (IF l \in B THEN 1 ELSE 0) =
         Cardinality(B) + (IF l \in A THEN 1 ELSE 0)
    BY <1>1, <1>2, SwapOne
  <1> QED
    BY <1>3, <1>4 DEF One, A, B

(* Sets with a bijection between them have the same size.                  *)
LEMMA CountByBijection ==
  ASSUME NEW S, IsFiniteSet(S), NEW T, NEW F \in [S -> T],
         \A a, b \in S : F[a] = F[b] => a = b,
         \A t \in T : \E a \in S : F[a] = t
  PROVE  IsFiniteSet(T) /\ Cardinality(T) = Cardinality(S)
  <1>1. F \in Bijection(S, T)
    BY DEF Bijection, Injection, Surjection, IsInjective
  <1> QED
    BY <1>1, FS_Bijection DEF ExistsBijection

(* A buffer lets go of its registers in live. *)
RegsEmptied(rs2, rs, b, live) ==
  /\ RegsOK(rs2)
  /\ \A q \in live : Uncounted(rs2[b][q])
  /\ \A c \in Buffer, q \in RegIdx : c # b \/ q \notin live => rs2[c][q] = rs[c][q]

(* That is what the pop of a frame does to its buffer.                     *)
LEMMA EmptiedExcept ==
  ASSUME NEW rs, RegsOK(rs), NEW b \in Buffer, NEW live, live \subseteq RegIdx
  PROVE  RegsEmptied([rs EXCEPT ![b] =
           [r \in RegIdx |-> IF r \in live THEN Emptied(@[r]) ELSE @[r]]], rs, b, live)
  <1>1. \A v \in Value : Emptied(v) \in Value /\ Uncounted(Emptied(v))
    BY DEF Emptied, Uncounted, Nullptr, Value, Counted
  <1>2. \A q \in RegIdx : rs[b][q] \in Value
    BY DEF RegsOK
  <1>3. [r \in RegIdx |-> IF r \in live THEN Emptied(rs[b][r]) ELSE rs[b][r]] \in [RegIdx -> Value]
    BY <1>1, <1>2
  <1> QED
    BY <1>1, <1>2, <1>3 DEF RegsOK, RegsEmptied

(* What referred to o from the registers that are emptied no longer does.  *)
LEMMA RegsLeft ==
  ASSUME NEW rs, NEW b \in Buffer, NEW live, live \subseteq RegIdx,
         NEW rs2, RegsEmptied(rs2, rs, b, live), NEW o
  PROVE  Cardinality(RegRefs(rs2, o)) + References(rs[b], live, o) =
           Cardinality(RegRefs(rs, o))
  <1> DEFINE A == RegRefs(rs, o)
             S == {q \in live : Owns(rs[b][q], o)}
             T == {l \in A : l[1] = b /\ l[2] \in live}
             F == [q \in S |-> <<b, q>>]
  <1>1. IsFiniteSet(A) /\ IsFiniteSet(S)
    <2>1. S \in SUBSET RegIdx
      OBVIOUS
    <2> QED
      BY <2>1, RefsFinite, RegIdxFinite, FS_Subset
  <1>2. Cardinality(T) = Cardinality(S)
    <2>1. F \in [S -> T]
      BY DEF RegRefs
    <2>2. \A a, d \in S : F[a] = F[d] => a = d
      OBVIOUS
    <2>3. \A t \in T : \E a \in S : F[a] = t
      BY DEF RegRefs
    <2> HIDE DEF F, S, T
    <2> QED
      BY <1>1, <2>1, <2>2, <2>3, CountByBijection
  <1>3. RegRefs(rs2, o) = A \ T
    <2>1. \A c \in Buffer, q \in RegIdx :
            Owns(rs2[c][q], o) <=> Owns(rs[c][q], o) /\ ~ (c = b /\ q \in live)
      BY DEF Owns, Uncounted, RegsEmptied
    <2> QED
      BY <2>1 DEF RegRefs
  <1>4. Cardinality(A \ T) = Cardinality(A) - Cardinality(T)
    <2>1. A \cap T = T
      OBVIOUS
    <2> HIDE DEF A, T
    <2> QED
      BY <1>1, <2>1, FS_Difference, ZenonT(60)
  <1>5. Cardinality(A) \in Nat /\ Cardinality(S) \in Nat
    BY <1>1, FS_CardinalityType
  <1>6. References(rs[b], live, o) = Cardinality(S)
    BY DEF References
  <1> HIDE DEF S, T
  <1>7. Cardinality(A \ T) + Cardinality(S) = Cardinality(A)
    <2> HIDE DEF A
    <2> QED
      BY <1>2, <1>4, <1>5
  <1> QED
    BY <1>3, <1>6, <1>7, Zenon

(* The first n registers of a buffer, which refer to nothing, are given    *)
(* values; the others keep theirs, or refer to nothing before and after.   *)
LEMMA RegsEntered ==
  ASSUME NEW rs, RegsOK(rs), NEW rs2, RegsOK(rs2), NEW b \in Buffer,
         NEW n \in Nat, n <= Special, NEW values,
         \A r \in RegIdx : r < n => Uncounted(rs[b][r]) /\ rs2[b][r] = values[r + 1],
         \A c \in Buffer, r \in RegIdx : c # b \/ r >= n =>
           \/ rs2[c][r] = rs[c][r]
           \/ Uncounted(rs2[c][r]) /\ Uncounted(rs[c][r]),
         NEW o
  PROVE  Cardinality(RegRefs(rs2, o)) = Cardinality(RegRefs(rs, o))
                                        + References(values, 1 .. n, o)
  <1> DEFINE A == RegRefs(rs, o)
             A2 == RegRefs(rs2, o)
             S == {i \in 1 .. n : Owns(values[i], o)}
             T == {l \in A2 : l[1] = b /\ l[2] < n}
             F == [i \in S |-> <<b, i - 1>>]
  <1>1. IsFiniteSet(A) /\ IsFiniteSet(A2) /\ IsFiniteSet(S)
    <2>1. IsFiniteSet(1 .. n) /\ S \in SUBSET (1 .. n)
      BY FS_Interval
    <2> QED
      BY <2>1, RefsFinite, FS_Subset
  <1>2. Cardinality(T) = Cardinality(S)
    <2>1. F \in [S -> T]
      <3> SUFFICES ASSUME NEW i \in S
                   PROVE  <<b, i - 1>> \in T
        OBVIOUS
      <3>1. i - 1 \in RegIdx /\ i - 1 < n /\ i - 1 + 1 = i
        BY RegIdxFinite DEF RegIdx
      <3>2. rs2[b][i - 1] = values[i]
        BY <3>1
      <3> QED
        BY <3>1, <3>2 DEF RegRefs
    <2>2. \A a, d \in S : F[a] = F[d] => a = d
      OBVIOUS
    <2>3. \A t \in T : \E a \in S : F[a] = t
      <3> SUFFICES ASSUME NEW t \in T
                   PROVE  \E a \in S : <<b, a - 1>> = t
        OBVIOUS
      <3>1. /\ t = <<b, t[2]>> /\ t[2] \in RegIdx /\ t[2] < n
            /\ Owns(rs2[b][t[2]], o)
        BY DEF RegRefs
      <3>2. t[2] + 1 \in 1 .. n /\ (t[2] + 1) - 1 = t[2]
        BY <3>1 DEF RegIdx
      <3>3. Owns(values[t[2] + 1], o)
        BY <3>1
      <3> QED
        BY <3>1, <3>2, <3>3
    <2> HIDE DEF F, S, T
    <2> QED
      BY <1>1, <2>1, <2>2, <2>3, CountByBijection
  <1>3. A = A2 \ T
    <2>1. ASSUME NEW c \in Buffer, NEW q \in RegIdx
          PROVE  Owns(rs[c][q], o) <=> Owns(rs2[c][q], o) /\ ~ (c = b /\ q < n)
      <3>1. CASE c = b /\ q < n
        BY <3>1 DEF Owns, Uncounted
      <3>2. CASE ~ (c = b /\ q < n)
        <4>1. c # b \/ q >= n
          BY <3>2 DEF RegIdx
        <4> QED
          BY <3>2, <4>1 DEF Owns, Uncounted
      <3> QED
        BY <3>1, <3>2
    <2> QED
      BY <2>1 DEF RegRefs
  <1>4. Cardinality(A2 \ T) = Cardinality(A2) - Cardinality(T)
    <2>1. A2 \cap T = T
      OBVIOUS
    <2> HIDE DEF A2, T
    <2> QED
      BY <1>1, <2>1, FS_Difference, ZenonT(60)
  <1>5. Cardinality(A2) \in Nat /\ Cardinality(S) \in Nat
    BY <1>1, FS_CardinalityType
  <1>6. References(values, 1 .. n, o) = Cardinality(S)
    BY DEF References
  <1> HIDE DEF A, A2, S, T
  <1> QED
    BY <1>2, <1>3, <1>4, <1>5, <1>6 DEF A, A2

-----------------------------------------------------------------------------
(* Steps from one configuration to another. *)

(* The references of a single value.                                       *)
LEMMA RefsOne ==
  ASSUME NEW v
  PROVE  /\ \A o \in Obj : Refs(<<v>>, {1})[o] = One(v, o)
         /\ Refs(<<v>>, {1}) \in [Obj -> Nat]
  <1>1. \A o \in Obj : References(<<v>>, {1}, o) = One(v, o) /\ One(v, o) \in Nat
    BY OneIsReferences DEF One
  <1> QED
    BY <1>1 DEF Refs

(* A value that is not counted refers to nothing, and is sound.            *)
LEMMA NothingHeld ==
  /\ Nullptr \in Value /\ Uncounted(Nullptr)
  /\ \A w, o : Uncounted(w) => One(w, o) = 0
  /\ \A w, h : Uncounted(w) => SoundIn(h, w)
  BY DEF Nullptr, Value, SoundIn, One, Owns, Counted, Uncounted

(* What a configuration says, part by part. *)
LEMMA ConfigParts ==
  ASSUME NEW h, NEW rs, NEW x, NEW v, Config(h, rs, x, v)
  PROVE  /\ RegsOK(rs) /\ IoOK(x) /\ v \in Value /\ h \in [Obj -> Cell]
         /\ \A c \in Buffer, q \in RegIdx : rs[c][q] \in Value /\ SoundIn(h, rs[c][q])
         /\ \A f \in Func : \A i \in 0 .. NumParams(f) :
              x[f][i] \in Value /\ SoundIn(h, x[f][i])
         /\ SoundIn(h, v)
  BY DEF Config, HeapOK, RegsOK, IoOK

(* The release of a single value.                                          *)
LEMMA ReleaseOneIs ==
  ASSUME NEW h, HeapOK(h), NEW v
  PROVE  ReleaseOne(h, v) = ReleaseBy(h, Refs(<<v>>, {1}))
  <1>1. IsFiniteSet({1}) /\ h \in [Obj -> Cell]
    BY FS_Singleton DEF HeapOK
  <1> QED
    BY <1>1, ReleaseIs DEF ReleaseOne

(* A register lets go of its value, and is left with one that is not       *)
(* counted.                                                                *)
LEMMA DropReg ==
  ASSUME NEW h, NEW rs, NEW x, NEW v, Config(h, rs, x, v),
         NEW b \in Buffer, NEW r \in RegIdx, NEW w \in Value, Uncounted(w),
         NEW rs2, RegSet(rs2, rs, b, r, w)
  PROVE  Config(ReleaseOne(h, rs[b][r]), rs2, x, v)
  <1> DEFINE R == Refs(<<rs[b][r]>>, {1})
  <1>1. RegsOK(rs2) /\ \A c \in Buffer, q \in RegIdx : SoundIn(h, rs2[c][q])
    BY ConfigParts DEF RegSet, SoundIn, Uncounted
  <1>2. R \in [Obj -> Nat] /\ \A o \in Obj : R[o] = One(rs[b][r], o)
    BY RefsOne
  <1> HIDE DEF R
  <1>3. ASSUME NEW o \in Obj
        PROVE  Outside(rs2, x, v)[o] + R[o] = Outside(rs, x, v)[o]
    <2> DEFINE m == Cardinality(RegRefs(rs2, o))
               n == Cardinality(RegRefs(rs, o))
               k == Cardinality(IoRefs(x, o))
               l == R[o]
    <2>1. m + l = n + One(w, o) /\ One(w, o) = 0 /\ l \in Nat
      BY <1>2, RegWritten, NothingHeld
    <2>2. /\ Outside(rs2, x, v)[o] = Base(o) + m + k + One(v, o)
          /\ Outside(rs, x, v)[o] = Base(o) + n + k + One(v, o)
          /\ m \in Nat /\ n \in Nat /\ k \in Nat /\ Base(o) \in Nat /\ One(v, o) \in Nat
      BY OutsideAt
    <2> HIDE DEF m, n, k, l
    <2> QED
      BY <2>1, <2>2 DEF l
  <1>4. Config(ReleaseBy(h, R), rs2, x, v)
    BY <1>1, <1>2, <1>3, ConfigParts, ReleaseConfig
  <1> QED
    BY <1>4, ReleaseOneIs DEF Config, R

(* An input or output lets go of its value.                                *)
LEMMA DropIo ==
  ASSUME NEW h, NEW rs, NEW x, NEW v, Config(h, rs, x, v),
         NEW f \in Func, NEW i \in 0 .. NumParams(f), NEW w \in Value, Uncounted(w),
         NEW x2, IoSet(x2, x, f, i, w)
  PROVE  Config(ReleaseOne(h, x[f][i]), rs, x2, v)
  <1> DEFINE R == Refs(<<x[f][i]>>, {1})
  <1>1. IoOK(x2) /\ \A g \in Func : \A j \in 0 .. NumParams(g) : SoundIn(h, x2[g][j])
    BY ConfigParts DEF IoSet, SoundIn, Uncounted
  <1>2. R \in [Obj -> Nat] /\ \A o \in Obj : R[o] = One(x[f][i], o)
    BY RefsOne
  <1> HIDE DEF R
  <1>3. ASSUME NEW o \in Obj
        PROVE  Outside(rs, x2, v)[o] + R[o] = Outside(rs, x, v)[o]
    <2> DEFINE m == Cardinality(IoRefs(x2, o))
               n == Cardinality(IoRefs(x, o))
               k == Cardinality(RegRefs(rs, o))
               l == R[o]
    <2>1. m + l = n + One(w, o) /\ One(w, o) = 0 /\ l \in Nat
      BY <1>2, IoWritten, NothingHeld
    <2>2. /\ Outside(rs, x2, v)[o] = Base(o) + k + m + One(v, o)
          /\ Outside(rs, x, v)[o] = Base(o) + k + n + One(v, o)
          /\ m \in Nat /\ n \in Nat /\ k \in Nat /\ Base(o) \in Nat /\ One(v, o) \in Nat
      BY OutsideAt
    <2> HIDE DEF m, n, k, l
    <2> QED
      BY <2>1, <2>2 DEF l
  <1>4. Config(ReleaseBy(h, R), rs, x2, v)
    BY <1>1, <1>2, <1>3, ConfigParts, ReleaseConfig
  <1> QED
    BY <1>4, ReleaseOneIs DEF Config, R

(* A sound value is copied: it is on its way to a register. *)
LEMMA Copied ==
  ASSUME NEW h, NEW rs, NEW x, Config(h, rs, x, Nullptr),
         NEW w \in Value, SoundIn(h, w)
  PROVE  Config(RetainOne(h, w), rs, x, w)
  <1> DEFINE R == Refs(<<w>>, {1})
  <1>1. R \in [Obj -> Nat] /\ \A o \in Obj : R[o] = One(w, o)
    BY RefsOne
  <1> HIDE DEF R
  <1>2. ASSUME NEW o \in Obj, R[o] > 0
        PROVE  h[o].kind # "free"
    <2>1. Owns(w, o)
      BY <1>1, <1>2 DEF One
    <2> QED
      BY <2>1, ValueCounted DEF SoundIn, Owns
  <1>3. ASSUME NEW o \in Obj
        PROVE  Outside(rs, x, w)[o] = Outside(rs, x, Nullptr)[o] + R[o]
    <2>1. One(Nullptr, o) = 0
      BY NothingHeld
    <2> QED
      BY <1>1, <2>1, OutsideAt
  <1>4. Config(RetainBy(h, R), rs, x, w)
    BY <1>1, <1>2, <1>3, ConfigParts, RetainConfig
  <1> QED
    BY <1>4, RetainIs DEF RetainOne, R

(* The value on its way is stored where nothing counted is. *)
LEMMA StoreReg ==
  ASSUME NEW h, NEW rs, NEW x, NEW v, Config(h, rs, x, v),
         NEW b \in Buffer, NEW r \in RegIdx, Uncounted(rs[b][r]),
         NEW rs2, RegSet(rs2, rs, b, r, v)
  PROVE  Config(h, rs2, x, Nullptr)
  <1>1. RegsOK(rs2) /\ \A c \in Buffer, q \in RegIdx : SoundIn(h, rs2[c][q])
    BY ConfigParts DEF RegSet
  <1>2. ASSUME NEW o \in Obj
        PROVE  Outside(rs2, x, Nullptr)[o] = Outside(rs, x, v)[o]
    <2> DEFINE m == Cardinality(RegRefs(rs2, o))
               n == Cardinality(RegRefs(rs, o))
               k == Cardinality(IoRefs(x, o))
    <2>1. m + One(rs[b][r], o) = n + One(v, o) /\ One(rs[b][r], o) = 0
          /\ One(Nullptr, o) = 0
      BY RegWritten, NothingHeld
    <2>2. /\ Outside(rs2, x, Nullptr)[o] = Base(o) + m + k + One(Nullptr, o)
          /\ Outside(rs, x, v)[o] = Base(o) + n + k + One(v, o)
          /\ m \in Nat /\ n \in Nat /\ k \in Nat /\ Base(o) \in Nat /\ One(v, o) \in Nat
      BY OutsideAt
    <2> HIDE DEF m, n, k
    <2> QED
      BY <2>1, <2>2
  <1>3. Nullptr \in Value /\ SoundIn(h, Nullptr)
    BY NothingHeld
  <1> QED
    BY <1>1, <1>2, <1>3, ConfigParts, MoveConfig

(* The same, where the place is an input or output.                        *)
LEMMA StoreIo ==
  ASSUME NEW h, NEW rs, NEW x, NEW v, Config(h, rs, x, v),
         NEW f \in Func, NEW i \in 0 .. NumParams(f), Uncounted(x[f][i]),
         NEW x2, IoSet(x2, x, f, i, v)
  PROVE  Config(h, rs, x2, Nullptr)
  <1>1. IoOK(x2) /\ \A g \in Func : \A j \in 0 .. NumParams(g) : SoundIn(h, x2[g][j])
    BY ConfigParts DEF IoSet
  <1>2. ASSUME NEW o \in Obj
        PROVE  Outside(rs, x2, Nullptr)[o] = Outside(rs, x, v)[o]
    <2> DEFINE m == Cardinality(IoRefs(x2, o))
               n == Cardinality(IoRefs(x, o))
               k == Cardinality(RegRefs(rs, o))
    <2>1. m + One(x[f][i], o) = n + One(v, o) /\ One(x[f][i], o) = 0
          /\ One(Nullptr, o) = 0
      BY IoWritten, NothingHeld
    <2>2. /\ Outside(rs, x2, Nullptr)[o] = Base(o) + k + m + One(Nullptr, o)
          /\ Outside(rs, x, v)[o] = Base(o) + k + n + One(v, o)
          /\ m \in Nat /\ n \in Nat /\ k \in Nat /\ Base(o) \in Nat /\ One(v, o) \in Nat
      BY OutsideAt
    <2> HIDE DEF m, n, k
    <2> QED
      BY <2>1, <2>2
  <1>3. Nullptr \in Value /\ SoundIn(h, Nullptr)
    BY NothingHeld
  <1> QED
    BY <1>1, <1>2, <1>3, ConfigParts, MoveConfig

-----------------------------------------------------------------------------
(* The registers of the frames, when one is pushed. *)

(* The instruction frame i goes on with, and the functions the frames are  *)
(* in the middle of, through errors in packed calls too.                   *)
Resume(i) == IF i = frame_size - 1 THEN pc ELSE frames[i + 1].return_pc

FramesAt ==
  \A i \in 0 .. frame_size - 1 : \E f \in Func :
    frames[i].register_size = NumRegs(f) /\ Resume(i) \in Body(f)

(* The registers the n frames of F have. *)
InUse(F, n, b, r) ==
  \E i \in 0 .. n - 1 : F[i].registers = b /\ r \in 0 .. F[i].register_size - 1

SpareOK(F, n, rs) ==
  \A b \in Buffer, r \in RegIdx : ~ InUse(F, n, b, r) => Uncounted(rs[b][r])

(* The registers in use are those that can hold a value.                   *)
LEMMA LocsInUse ==
  ASSUME NEW b, NEW r
  PROVE  <<b, r>> \in FrameLocs <=> InUse(frames, frame_size, b, r)
  BY DEF FrameLocs, InUse

(* A frame in use has a buffer, and no more registers than there are       *)
(* names.                                                                  *)
LEMMA FrameInUse ==
  ASSUME IInv, FramesAt, NEW i \in 0 .. frame_size - 1
  PROVE  /\ frames[i].registers \in Buffer
         /\ frames[i].register_size \in 1 .. Special
         /\ 0 .. frames[i].register_size - 1 \subseteq RegIdx
         /\ frame_size \in Nat
         /\ i \in 0 .. frame_capacity - 1
  <1>1. /\ frame_capacity \in Nat /\ frame_size \in 0 .. frame_capacity
        /\ frames \in [0 .. frame_capacity - 1 -> Frame]
        /\ i \in 0 .. frame_capacity - 1
    BY PoolTypes
  <1>2. PICK f \in Func : frames[i].register_size = NumRegs(f)
    BY DEF FramesAt
  <1>3. NumRegs(f) \in 1 .. Special
    BY CodeAssumption, OperandAssumption
  <1>4. frames[i].registers \in Buffer \cup {NoBuffer}
    BY <1>1 DEF Frame
  <1>5. frames[i].registers # NoBuffer
    BY <1>1, <1>2, <1>3 DEF IInv, PoolOK, BoundsOK
  <1>6. 0 .. frames[i].register_size - 1 \subseteq RegIdx
    BY <1>2, <1>3, RegIdxFinite DEF RegIdx
  <1> QED
    BY <1>1, <1>2, <1>3, <1>4, <1>5, <1>6

(* A push leaves the slots of the other frames where they are.             *)
LEMMA Room ==
  ASSUME NEW s \in Nat, NEW t, t = s + 1, NEW c \in Nat, t \in 0 .. c
  PROVE  /\ s \in 0 .. c - 1 /\ c # 0
         /\ \A i \in 0 .. s - 1 : i \in 0 .. c - 1 /\ i # s /\ i < s /\ i < t
  OBVIOUS

(* The frame that is pushed has a buffer of its own, and no buffer of a    *)
(* frame in use is allocated or freed by it.                               *)
LEMMA PushedFrame ==
  ASSUME IInv, NEW f \in Func, NEW p \in PC, NEW d \in RegisterName,
         FramePush(NumRegs(f), p, d)
  PROVE  /\ frame_size \in Nat /\ frame_size' = frame_size + 1
         /\ frames'[frame_size].register_size = NumRegs(f)
         /\ frames'[frame_size].return_pc = p
         /\ frames'[frame_size].registers \in Buffer
         /\ \A i \in 0 .. frame_size - 1 :
              /\ frames'[i] = frames[i]
              /\ frames[i].registers # frames'[frame_size].registers
              /\ \A c \in Buffer :
                   bufcap'[c] # bufcap[c] => frames[i].registers # c
  <1> DEFINE s == frame_size
             b == frames'[s].registers
  <1>2. FramesNext /\ IInv'
    BY PushIsPool, StepOK
  <1>3. /\ s \in Nat /\ s <= frame_capacity /\ frame_capacity \in Nat
        /\ frame_size' = s + 1
        /\ frames'[s].register_size = NumRegs(f)
        /\ frames'[s].return_pc = p
    BY PushKeeps, PoolTypes
  <1>4. /\ frame_capacity' \in Nat /\ s \in 0 .. frame_capacity' - 1
        /\ frame_capacity' # 0
        /\ \A i \in 0 .. s - 1 :
             i \in 0 .. frame_capacity' - 1 /\ i # s /\ i < s /\ i < frame_size'
        /\ \A i \in 0 .. s - 1 : i \in 0 .. frame_capacity - 1
    <2>1. frame_size' \in 0 .. frame_capacity' /\ frame_capacity' \in Nat
      BY <1>2 DEF IInv, PoolOK, SlotsOK
    <2>2. \A i \in 0 .. s - 1 : i \in 0 .. frame_capacity - 1
      BY <1>3
    <2> QED
      BY <1>3, <2>1, <2>2, Room, ZenonT(60)
  <1>5. ASSUME NEW i \in 0 .. s - 1
        PROVE  frames'[i] = frames[i]
    <2>1. i \in 0 .. frame_capacity - 1 /\ i < s /\ i < frame_size' /\ frame_capacity' # 0
      BY <1>3, <1>4
    <2> QED
      BY <1>2, <2>1, KeptStep
  <1>6. NumRegs(f) \in 1 .. Special
    BY CodeAssumption, OperandAssumption
  <1>7. b \in Buffer
    <2>1. frames'[s] \in Frame
      BY <1>2, <1>4 DEF IInv, PoolOK, SlotsOK
    <2>2. frames'[s].registers # NoBuffer
      <3> DEFINE F == frames'[s]
      <3>1. /\ F.register_size <= F.register_capacity
            /\ F.registers = NoBuffer => F.register_capacity = 0
        BY <1>2, <1>4 DEF IInv, PoolOK, BoundsOK
      <3>2. F.register_size \in 1 .. Special
        BY <1>3, <1>6
      <3> HIDE DEF F
      <3>3. F.registers # NoBuffer
        BY <3>1, <3>2, RegIdxFinite
      <3> QED
        BY <3>3 DEF F
    <2> QED
      BY <2>1, <2>2 DEF Frame
  <1>8. ASSUME NEW i \in 0 .. s - 1
        PROVE  frames[i].registers # b
    <2>1. s \in 0 .. frame_capacity' - 1 /\ i \in 0 .. frame_capacity' - 1 /\ i # s
      BY <1>3, <1>4
    <2>2. b # NoBuffer
      BY <1>7, FramesAssumption
    <2>3. frames'[i].registers # b
      BY <1>2, <2>1, <2>2 DEF IInv, PoolOK, UnsharedOK
    <2> QED
      BY <1>5, <2>3
  <1>9. ASSUME NEW c \in Buffer, bufcap'[c] # bufcap[c], NEW i \in 0 .. s - 1
        PROVE  frames[i].registers # c
    <2> SUFFICES ASSUME frames[i].registers = c
                 PROVE  FALSE
      OBVIOUS
    <2>1. i \in 0 .. frame_capacity' - 1 /\ i \in 0 .. frame_capacity - 1
      BY <1>3, <1>4
    <2>2. c # NoBuffer
      BY FramesAssumption
    <2>3. frames[i].register_capacity = bufcap[c]
      BY <2>1, <2>2 DEF IInv, PoolOK, BoundsOK
    <2>4. frames'[i].register_capacity = bufcap'[c]
      BY <1>2, <1>5, <2>1, <2>2 DEF IInv, PoolOK, BoundsOK
    <2> QED
      BY <1>5, <1>9, <2>3, <2>4
  <1> QED
    BY <1>3, <1>5, <1>7, <1>8, <1>9

(* A frame is pushed, and its first registers get the arguments. *)
LEMMA EnterOK ==
  ASSUME IInv, FramesAt, Config(heap, regs, io, Nullptr),
         SpareOK(frames, frame_size, regs),
         NEW f \in Func, NEW p \in PC, NEW d \in RegisterName, NEW values,
         \A i \in 1 .. NumParams(f) : values[i] \in Value /\ SoundIn(heap, values[i]),
         Enter(f, values, p, d)
  PROVE  /\ Config(heap', regs', io, Nullptr)
         /\ SpareOK(frames', frame_size', regs')
         /\ frame_size' = frame_size + 1
         /\ frames'[frame_size].register_size = NumRegs(f)
         /\ frames'[frame_size].return_pc = p
         /\ \A i \in 0 .. frame_size - 1 : frames'[i] = frames[i]
  <1> DEFINE s == frame_size
             n == NumParams(f)
             b == frames'[s].registers
             R == Refs(values, 1 .. n)
  <1>1. FramePush(NumRegs(f), p, d)
    BY DEF Enter
  <1>3. /\ s \in Nat /\ s' = s + 1
        /\ frames'[s].register_size = NumRegs(f)
        /\ frames'[s].return_pc = p
        /\ b \in Buffer
        /\ \A i \in 0 .. s - 1 : frames'[i] = frames[i] /\ frames[i].registers # b
        /\ \A i \in 0 .. s - 1 : \A c \in Buffer :
             bufcap'[c] # bufcap[c] => frames[i].registers # c
    BY <1>1, PushedFrame
  <1>6. n \in Nat /\ n <= NumRegs(f) /\ NumRegs(f) \in 1 .. Special
    BY CodeAssumption, RelaxAssumption, OperandAssumption DEF NumParams, NumRegs
  <1>10. \A c \in Buffer, r \in RegIdx :
           c = b \/ bufcap'[c] # bufcap[c] => Uncounted(regs[c][r])
    BY <1>3 DEF SpareOK, InUse
  <1>11. ASSUME NEW c \in Buffer, NEW r \in RegIdx
         PROVE  /\ c = b /\ r < n => regs'[c][r] = values[r + 1]
                /\ ~ (c = b /\ r < n) =>
                     \/ regs'[c][r] = regs[c][r]
                     \/ regs'[c][r] = Int64(0) /\ Uncounted(regs[c][r])
    <2>1. regs'[c][r] = IF c = b /\ r < n THEN values[r + 1] ELSE Pushed(c)[r]
      BY DEF Enter
    <2>2. Pushed(c)[r] = regs[c][r] \/ (Pushed(c)[r] = Int64(0) /\ bufcap'[c] # bufcap[c])
      BY DEF Pushed, Zeroed
    <2> QED
      BY <1>10, <2>1, <2>2
  <1>12. Int64(0) \in Value /\ Uncounted(Int64(0))
    BY DEF Int64, Value, Uncounted, Counted
  <1>13. \A c \in Buffer, r \in RegIdx :
           c = b /\ r < n => values[r + 1] \in Value /\ SoundIn(heap, values[r + 1])
    BY <1>6, RegIdxFinite DEF RegIdx
  <1>14. \A c \in Buffer, r \in RegIdx : regs'[c][r] \in Value /\ SoundIn(heap, regs'[c][r])
    BY <1>11, <1>12, <1>13, ConfigParts DEF SoundIn, Uncounted
  <1>15. RegsOK(regs')
    <2>1. regs' = [c \in Buffer |-> [r \in RegIdx |-> regs'[c][r]]]
      BY DEF Enter
    <2> QED
      BY <1>14, <2>1 DEF RegsOK
  <1> HIDE DEF b, s
  <1>16. R \in [Obj -> Nat] /\ \A o \in Obj : R[o] = References(values, 1 .. n, o)
    <2>1. IsFiniteSet(1 .. n)
      BY <1>6, FS_Interval
    <2> QED
      BY <2>1, ReferencesNat DEF Refs
  <1>17. ASSUME NEW o \in Obj, R[o] > 0
         PROVE  heap[o].kind # "free"
    <2>1. IsFiniteSet(1 .. n)
      BY <1>6, FS_Interval
    <2>2. PICK i \in 1 .. n : Owns(values[i], o)
      BY <1>16, <1>17, <2>1, ReferencesNat
    <2> QED
      BY <2>2, ValueCounted DEF SoundIn, Owns
  <1> HIDE DEF n, R
  <1>18. ASSUME NEW o \in Obj
         PROVE  Outside(regs', io, Nullptr)[o] = Outside(regs, io, Nullptr)[o] + R[o]
    <2>1. RegsOK(regs)
      BY ConfigParts
    <2>2. \A r \in RegIdx : r < n => Uncounted(regs[b][r]) /\ regs'[b][r] = values[r + 1]
      BY <1>3, <1>10, <1>11
    <2>3. \A c \in Buffer, r \in RegIdx : c # b \/ r >= n =>
            \/ regs'[c][r] = regs[c][r]
            \/ Uncounted(regs'[c][r]) /\ Uncounted(regs[c][r])
      BY <1>6, <1>11, <1>12 DEF RegIdx
    <2>4. n <= Special
      BY <1>6, RegIdxFinite
    <2>5. Cardinality(RegRefs(regs', o)) = Cardinality(RegRefs(regs, o))
                                           + References(values, 1 .. n, o)
      BY <1>6, <1>3, <1>15, <2>1, <2>2, <2>3, <2>4, RegsEntered, SMTT(60) DEF n
    <2> QED
      BY <1>16, <2>5, OutsideAt, SMTT(60)
  <1>19. heap' = RetainBy(heap, R)
    BY RetainIs DEF Enter, R, n
  <1>20. Config(heap', regs', io, Nullptr)
    BY <1>14, <1>15, <1>16, <1>17, <1>18, <1>19, ConfigParts, RetainConfig
  <1>21. SpareOK(frames', s', regs')
    <2> SUFFICES ASSUME NEW c \in Buffer, NEW r \in RegIdx, ~ InUse(frames', s', c, r)
                 PROVE  Uncounted(regs'[c][r])
      BY DEF SpareOK
    <2>1. ~ (c = b /\ r < n)
      <3>1. SUFFICES ASSUME c = b, r < n PROVE FALSE
        OBVIOUS
      <3>2. r \in 0 .. frames'[s].register_size - 1
        BY <1>3, <1>6, <3>1 DEF RegIdx
      <3>3. s \in 0 .. s' - 1
        BY <1>3
      <3> QED
        BY <3>1, <3>2, <3>3 DEF InUse, b
    <2>2. ~ InUse(frames, s, c, r)
      <3>1. 0 .. s - 1 \subseteq 0 .. s' - 1
        BY <1>3
      <3> QED
        BY <1>3, <3>1 DEF InUse
    <2>3. Uncounted(regs[c][r])
      BY <2>2 DEF SpareOK, s
    <2> QED
      BY <1>11, <1>12, <2>1, <2>3
  <1> QED
    BY <1>3, <1>20, <1>21 DEF s

-----------------------------------------------------------------------------
(* The inductive invariant; the frames when one is popped. *)

MachineOK ==
  /\ cur \in Func \cup {NoFunc}
  /\ state \in {"idle", "running", "freed", "undefined"}
  /\ status \in {0, -1, -2}
  /\ failed \in BOOLEAN
  /\ state = "running" => cur \in Func /\ frame_size > 0

CountOK ==
  /\ Config(heap, regs, io, Nullptr)
  /\ SpareOK(frames, frame_size, regs)

CountInv == VMInv /\ FramesAt /\ MachineOK /\ CountOK

(* The top frame goes, and lets go of its registers. *)
LEMMA LeaveOK ==
  ASSUME IInv, FramesAt, NEW h, NEW rs, NEW x, Config(h, rs, x, Nullptr),
         SpareOK(frames, frame_size, rs), Leave(h, rs)
  PROVE  /\ Config(heap', regs', x, Nullptr)
         /\ SpareOK(frames', frame_size', regs')
  <1> DEFINE s == frame_size
             b == Top.registers
             live == 0 .. Top.register_size - 1
             R == Refs(rs[b], live)
  <1>1. /\ FramePop
        /\ heap' = Release(h, rs[b], live)
        /\ regs' = [rs EXCEPT ![b] =
             [r \in RegIdx |-> IF r \in live THEN Emptied(@[r]) ELSE @[r]]]
    BY DEF Leave
  <1>2. /\ s \in Nat /\ s - 1 \in 0 .. s - 1 /\ s' = s - 1
        /\ frames' = [frames EXCEPT ![s - 1].register_size = 0]
        /\ frames \in [0 .. frame_capacity - 1 -> Frame]
    BY <1>1, PoolTypes DEF FramePop
  <1>3. b \in Buffer /\ live \subseteq RegIdx
    BY <1>2, FrameInUse DEF Top
  <1>4. IsFiniteSet(live)
    BY <1>3, RegIdxFinite, FS_Subset
  <1> HIDE DEF live
  <1>5. RegsEmptied(regs', rs, b, live)
    BY <1>1, <1>3, ConfigParts, EmptiedExcept
  <1>6. R \in [Obj -> Nat] /\ \A o \in Obj : R[o] = References(rs[b], live, o)
    BY <1>4, ReferencesNat DEF Refs
  <1>7. ASSUME NEW c \in Buffer, NEW r \in RegIdx
        PROVE  regs'[c][r] = rs[c][r] \/ Uncounted(regs'[c][r])
    BY <1>5 DEF RegsEmptied
  <1>8. RegsOK(regs') /\ \A c \in Buffer, r \in RegIdx : SoundIn(h, regs'[c][r])
    BY <1>5, <1>7, ConfigParts DEF RegsEmptied, SoundIn, Uncounted
  <1>9. ASSUME NEW o \in Obj
        PROVE  Outside(regs', x, Nullptr)[o] + R[o] = Outside(rs, x, Nullptr)[o]
    <2> DEFINE m == Cardinality(RegRefs(regs', o))
               n == Cardinality(RegRefs(rs, o))
               k == Cardinality(IoRefs(x, o))
               l == R[o]
    <2>1. m + l = n /\ l \in Nat
      BY <1>3, <1>5, <1>6, RegsLeft
    <2>2. /\ Outside(regs', x, Nullptr)[o] = Base(o) + m + k + One(Nullptr, o)
          /\ Outside(rs, x, Nullptr)[o] = Base(o) + n + k + One(Nullptr, o)
          /\ m \in Nat /\ n \in Nat /\ k \in Nat /\ Base(o) \in Nat /\ One(Nullptr, o) \in Nat
      BY OutsideAt
    <2> HIDE DEF m, n, k, l, R
    <2> QED
      BY <2>1, <2>2 DEF l
  <1>10. heap' = ReleaseBy(h, R)
    BY <1>1, <1>4, ConfigParts, ReleaseIs
  <1> HIDE DEF R
  <1>11. Config(heap', regs', x, Nullptr)
    BY <1>6, <1>8, <1>9, <1>10, ConfigParts, ReleaseConfig, ZenonT(60)
  <1>12. SpareOK(frames', frame_size', regs')
    <2> SUFFICES ASSUME NEW c \in Buffer, NEW r \in RegIdx, ~ InUse(frames', frame_size', c, r)
                 PROVE  Uncounted(regs'[c][r])
      BY DEF SpareOK
    <2>1. CASE c = b /\ r \in live
      BY <1>5, <2>1 DEF RegsEmptied
    <2>2. CASE ~ (c = b /\ r \in live)
      <3>1. \A i \in 0 .. s - 1 : i # s - 1 =>
              i \in 0 .. (s - 1) - 1 /\ frames'[i] = frames[i]
        BY <1>2
      <3>2. ~ InUse(frames, s, c, r)
        <4> SUFFICES ASSUME NEW i \in 0 .. s - 1, frames[i].registers = c,
                            r \in 0 .. frames[i].register_size - 1
                     PROVE  FALSE
          BY DEF InUse
        <4>1. i # s - 1
          BY <2>2 DEF Top, live
        <4> QED
          BY <1>2, <3>1, <4>1 DEF InUse
      <3>3. regs'[c][r] = rs[c][r]
        BY <1>5, <2>2 DEF RegsEmptied
      <3> QED
        BY <3>2, <3>3 DEF SpareOK
    <2> QED
      BY <2>1, <2>2
  <1> QED
    BY <1>11, <1>12

(* Where the frames are when one is pushed, and the one below goes on      *)
(* after the call.                                                         *)
LEMMA PushAt ==
  ASSUME FramesAt, frame_size \in Nat, NEW f \in Func, NEW p,
         frame_size' = frame_size + 1,
         frames'[frame_size].register_size = NumRegs(f),
         frames'[frame_size].return_pc = p,
         \A i \in 0 .. frame_size - 1 : frames'[i] = frames[i],
         pc' = FuncInfo[f].start,
         \A g \in Func : pc \in Body(g) => p \in Body(g)
  PROVE  FramesAt'
  <1> DEFINE s == frame_size
  <1>1. FramesAt' <=> \A i \in 0 .. s' - 1 : \E g \in Func :
          frames'[i].register_size = NumRegs(g)
            /\ (IF i = s' - 1 THEN pc' ELSE frames'[i + 1].return_pc) \in Body(g)
    BY DEF FramesAt, Resume
  <1> SUFFICES ASSUME NEW i \in 0 .. s' - 1
               PROVE  \E g \in Func :
                        frames'[i].register_size = NumRegs(g)
                          /\ (IF i = s' - 1 THEN pc' ELSE frames'[i + 1].return_pc) \in Body(g)
    BY <1>1
  <1>2. s' - 1 = s /\ i \in 0 .. s
    OBVIOUS
  <1>3. CASE i = s
    <2>1. FuncInfo[f].start \in Body(f)
      BY CodeAssumption
    <2> QED
      BY <1>2, <1>3, <2>1
  <1>4. CASE i < s
    <2>1. i \in 0 .. s - 1 /\ i # s
      BY <1>2, <1>4
    <2>2. PICK g \in Func : frames[i].register_size = NumRegs(g) /\ Resume(i) \in Body(g)
      BY <2>1 DEF FramesAt
    <2>3. CASE i = s - 1
      <3>1. p \in Body(g) /\ i + 1 = s
        BY <2>1, <2>2, <2>3 DEF Resume
      <3> QED
        BY <1>2, <2>1, <2>2, <3>1
    <2>4. CASE i # s - 1
      <3>1. i + 1 \in 0 .. s - 1
        BY <2>1, <2>4
      <3> QED
        BY <1>2, <2>1, <2>2, <2>4, <3>1 DEF Resume
    <2> QED
      BY <2>3, <2>4
  <1> QED
    BY <1>2, <1>3, <1>4

(* Where they are when one is popped.                                      *)
LEMMA PopAt ==
  ASSUME IInv, FramesAt, FramePop, pc' = Top.return_pc
  PROVE  FramesAt'
  <1> DEFINE s == frame_size
  <1>1. /\ s \in Nat /\ s > 0 /\ s' = s - 1
        /\ frames' = [frames EXCEPT ![s - 1].register_size = 0]
        /\ frames \in [0 .. frame_capacity - 1 -> Frame]
        /\ s <= frame_capacity /\ frame_capacity \in Nat
    BY PoolTypes DEF FramePop
  <1>2. FramesAt' <=> \A i \in 0 .. s' - 1 : \E g \in Func :
          frames'[i].register_size = NumRegs(g)
            /\ (IF i = s' - 1 THEN pc' ELSE frames'[i + 1].return_pc) \in Body(g)
    BY DEF FramesAt, Resume
  <1> SUFFICES ASSUME NEW i \in 0 .. (s - 1) - 1
               PROVE  \E g \in Func :
                        frames'[i].register_size = NumRegs(g)
                          /\ (IF i = (s - 1) - 1 THEN pc' ELSE frames'[i + 1].return_pc) \in Body(g)
    BY <1>1, <1>2
  <1>3. /\ i \in 0 .. s - 1 /\ i # s - 1 /\ i + 1 \in 0 .. s - 1
        /\ i \in 0 .. frame_capacity - 1 /\ i + 1 \in 0 .. frame_capacity - 1
    BY <1>1
  <1>4. PICK g \in Func : frames[i].register_size = NumRegs(g)
                                                    /\ frames[i + 1].return_pc \in Body(g)
    BY <1>3 DEF FramesAt, Resume
  <1>5. frames'[i] = frames[i]
    BY <1>1, <1>3
  <1>6. CASE i = (s - 1) - 1
    <2>1. pc' = frames[i + 1].return_pc
      BY <1>1, <1>6 DEF Top
    <2> QED
      BY <1>4, <1>5, <1>6, <2>1
  <1>7. CASE i # (s - 1) - 1
    <2>1. i + 1 # s - 1
      BY <1>3, <1>7
    <2>2. frames'[i + 1] = frames[i + 1]
      BY <1>1, <1>3, <2>1
    <2> QED
      BY <1>4, <1>5, <1>7, <2>2
  <1> QED
    BY <1>6, <1>7

(* An instruction that stays in its frame goes on in its function. *)
LEMMA StaysAt ==
  ASSUME FramesAt, UNCHANGED <<frames, frame_size>>,
         pc' \in Follows(pc) \/ pc' = pc \/ frame_size = 0
  PROVE  FramesAt'
  <1>1. FramesAt' <=> \A i \in 0 .. frame_size - 1 : \E g \in Func :
          frames[i].register_size = NumRegs(g)
            /\ (IF i = frame_size - 1 THEN pc' ELSE frames[i + 1].return_pc) \in Body(g)
    BY DEF FramesAt, Resume
  <1> SUFFICES ASSUME NEW i \in 0 .. frame_size - 1
               PROVE  \E g \in Func :
          frames[i].register_size = NumRegs(g)
            /\ (IF i = frame_size - 1 THEN pc' ELSE frames[i + 1].return_pc) \in Body(g)
    BY <1>1
  <1>2. PICK g \in Func : frames[i].register_size = NumRegs(g) /\ Resume(i) \in Body(g)
    BY DEF FramesAt
  <1>3. CASE i = frame_size - 1
    <2>1. pc \in Body(g) /\ frame_size # 0
      BY <1>2, <1>3 DEF Resume
    <2>2. pc' \in Body(g)
      BY <2>1, CodeAssumption
    <2> QED
      BY <1>2, <1>3, <2>2
  <1>4. CASE i # frame_size - 1
    BY <1>2, <1>4 DEF Resume
  <1> QED
    BY <1>3, <1>4

-----------------------------------------------------------------------------
(* What an instruction reads and allocates. *)

(* The frame and the function an instruction runs in. *)
LEMMA RunningTop ==
  ASSUME CountInv, state = "running"
  PROVE  /\ Top.registers \in Buffer
         /\ cur \in Func /\ frame_size \in Nat /\ frame_size > 0 /\ pc \in PC
         /\ \E f \in Func : Top.register_size = NumRegs(f) /\ pc \in Body(f)
         /\ Top.register_size \in 1 .. Special
         /\ \A r \in RegIdx : r < Top.register_size =>
              InUse(frames, frame_size, Top.registers, r)
  <1>1. IInv /\ FramesAt /\ cur \in Func /\ frame_size > 0 /\ pc \in PC /\ frame_size \in Nat
    BY PoolTypes DEF CountInv, VMInv, MachineOK
  <1>2. frame_size - 1 \in 0 .. frame_size - 1
    BY <1>1
  <1>3. Top.registers \in Buffer /\ Top.register_size \in 1 .. Special
    BY <1>1, <1>2, FrameInUse DEF Top
  <1>4. \E f \in Func : Top.register_size = NumRegs(f) /\ pc \in Body(f)
    BY <1>1, <1>2 DEF FramesAt, Resume, Top
  <1>5. ASSUME NEW r \in RegIdx, r < Top.register_size
        PROVE  InUse(frames, frame_size, Top.registers, r)
    <2>1. r \in 0 .. frames[frame_size - 1].register_size - 1
      BY <1>3, <1>5 DEF Top, RegIdx
    <2> QED
      BY <1>2, <2>1 DEF InUse, Top
  <1> QED
    BY <1>1, <1>3, <1>4, <1>5

(* What a register name an instruction may read stands for. *)
LEMMA NamedOK ==
  ASSUME NEW h, NEW rs, NEW x, NEW v, Config(h, rs, x, v), NEW b \in Buffer,
         NEW f \in Func, NEW r, Readable(f, r)
  PROVE  Named(rs[b], r) \in Value /\ SoundIn(h, Named(rs[b], r))
  <1>1. NumRegs(f) \in 1 .. Special /\ Special \in Nat /\ r \in Nat
    BY CodeAssumption, OperandAssumption, RegIdxFinite DEF Readable
  <1>2. CASE r < Special
    <2>1. r \in RegIdx
      BY <1>1, <1>2 DEF RegIdx
    <2> QED
      BY <1>2, <2>1, ConfigParts DEF Named
  <1>3. CASE ~ (r < Special)
    <2>1. Named(rs[b], r) \in {Nullptr, ObjectHandle}
      BY <1>3 DEF Named
    <2> QED
      BY <2>1 DEF Nullptr, ObjectHandle, Value, SoundIn, Counted
  <1> QED
    BY <1>2, <1>3

(* The arguments of a call are sound values, and there are as many as the  *)
(* function takes.                                                         *)
LEMMA ArgsOK ==
  ASSUME CountInv, Fetch("Call")
  PROVE  /\ \A i \in DOMAIN Args : Args[i] \in Value /\ SoundIn(heap, Args[i])
         /\ Instr.func \in Func \cup Packed
         /\ Takes(Instr.func) \subseteq DOMAIN Args
         /\ Instr.func \in NeedsRegister => Instr.dst < Top.register_size
         /\ Instr.dst \in RegisterName /\ Instr.dst \in Nat
  <1>1. state = "running" /\ Code[pc].op = "Call" /\ Instr = Code[pc]
    BY DEF Fetch, Instr
  <1>2. PICK f \in Func : Top.register_size = NumRegs(f) /\ pc \in Body(f)
    BY <1>1, RunningTop
  <1>3. /\ Instr.func \in Func \cup Packed
        /\ \A a \in DOMAIN Instr.args : Operand(f, Instr.args[a])
        /\ Takes(Instr.func) \subseteq DOMAIN Instr.args
        /\ Instr.func \in NeedsRegister => Instr.dst < NumRegs(f)
    BY <1>1, <1>2, OperandAssumption
  <1>4. Instr.dst \in RegisterName /\ Instr.dst \in Nat
    <2>1. pc \in PC
      BY <1>1, RunningTop
    <2> QED
      BY <1>1, <2>1, CodeAssumption, OperandAssumption
  <1>5. Config(heap, regs, io, Nullptr)
    BY DEF CountInv, CountOK
  <1>6. ASSUME NEW i \in DOMAIN Instr.args
        PROVE  Arg(Instr.args[i]) \in Value /\ SoundIn(heap, Arg(Instr.args[i]))
    <2> DEFINE a == Instr.args[i]
    <2>1. Operand(f, a)
      BY <1>3
    <2> SUFFICES Arg(a) \in Value /\ SoundIn(heap, Arg(a))
      OBVIOUS
    <2> HIDE DEF a
    <2>2. CASE a.type = "ConstIdx" /\ a.value \in DOMAIN Const
      <3>1. Arg(a) = Const[a.value]
        BY <2>2 DEF Arg
      <3>2. /\ Const[a.value] \in Value
            /\ Const[a.value].typecode \in Counted =>
                 /\ Const[a.value].value \in DOMAIN ConstCell
                 /\ ConstCell[Const[a.value].value].kind = KindOf[Const[a.value].typecode]
        BY <2>2, OperandAssumption
      <3> QED
        BY <1>5, <3>1, <3>2 DEF Config, SoundIn
    <2>3. CASE a.type = "Immediate" /\ a.value \in Int
      <3>1. Arg(a) = Int64(a.value)
        BY <2>3 DEF Arg
      <3> QED
        BY <2>3, <3>1 DEF Int64, Value, SoundIn, Counted
    <2>4. CASE a.type = "Register" /\ Readable(f, a.value)
      <3>1. Arg(a) = Named(regs[Top.registers], a.value)
        BY <2>4 DEF Arg
      <3>2. Top.registers \in Buffer
        BY <1>1, RunningTop
      <3> QED
        BY <1>5, <2>4, <3>1, <3>2, NamedOK
    <2> QED
      BY <2>1, <2>2, <2>3, <2>4 DEF Operand
  <1>7. /\ DOMAIN Args = DOMAIN Instr.args
        /\ \A i \in DOMAIN Instr.args : Args[i] = Arg(Instr.args[i])
    BY DEF Args
  <1> QED
    BY <1>2, <1>3, <1>4, <1>6, <1>7

(* The heap after an allocation. *)
LEMMA FreshFree ==
  ASSUME FreeAddress(heap) # {}
  PROVE  Fresh(heap) \in Obj /\ heap[Fresh(heap)].kind = "free"
  BY DEF Fresh, FreeAddress

(* A new object, in hand, whose cell was free.                             *)
LEMMA NewConfig ==
  ASSUME NEW h, NEW rs, NEW x, Config(h, rs, x, Nullptr),
         NEW t \in Obj, h[t].kind = "free",
         NEW k, NEW w \in Value, \A o \in Obj : One(w, o) = IF o = t THEN 1 ELSE 0,
         HeapOK(k), Exact(k, Outside(rs, x, w)), SoundIn(k, w),
         \A o \in Obj : o # t => k[o].kind = h[o].kind
  PROVE  Config(k, rs, x, w)
  <1> DEFINE N == Outside(rs, x, Nullptr)
  <1>1. N \in [Obj -> Nat] /\ HeapOK(h) /\ Exact(h, N)
    BY OutsideType DEF Config
  <1>2. N[t] = 0
    <2> HIDE DEF N
    <2> QED
      BY <1>1, FreeHasNoHolders
  <1>3. \A v \in Value : v.typecode \in Counted /\ v.value = t => Owns(v, t)
    BY DEF Owns
  <1>4. ASSUME NEW v \in Value, SoundIn(h, v), Owns(v, t) => N[t] > 0
        PROVE  SoundIn(k, v)
    <2>1. v.typecode \in Counted => v.value \in Obj /\ v.value # t
      BY <1>2, <1>3, <1>4, ValueCounted
    <2> HIDE DEF N
    <2> QED
      BY <1>4, <2>1 DEF SoundIn
  <1>5. \A b \in Buffer, r \in RegIdx : SoundIn(k, rs[b][r])
    BY <1>4, ConfigParts, OutsidePositive
  <1>6. \A f \in Func : \A i \in 0 .. NumParams(f) : SoundIn(k, x[f][i])
    BY <1>4, ConfigParts, OutsidePositive
  <1>7. ASSUME NEW o \in DOMAIN ConstCell
        PROVE  k[o].kind = ConstCell[o].kind
    <2>1. o \in Obj /\ N[o] > 0
      BY RelaxAssumption, OutsidePositive
    <2>2. o # t
      <3> HIDE DEF N
      <3> QED
        BY <1>2, <2>1
    <2> QED
      BY <2>1, <2>2 DEF Config
  <1> QED
    BY <1>5, <1>6, <1>7, ConfigParts DEF Config

(* The references from outside, when the value in hand refers to t.        *)
LEMMA NewOutside ==
  ASSUME NEW rs, NEW x, NEW t \in Obj, NEW w,
         \A o \in Obj : One(w, o) = IF o = t THEN 1 ELSE 0, NEW o \in Obj
  PROVE  Outside(rs, x, w)[o] = Outside(rs, x, Nullptr)[o] + (IF o = t THEN 1 ELSE 0)
  <1>1. One(Nullptr, o) = 0
    BY NothingHeld
  <1> QED
    BY <1>1, OutsideAt

(* A new storage in hand.                                                  *)
LEMMA NewStorageOK ==
  ASSUME Config(heap, regs, io, Nullptr), FreeAddress(heap) # {}
  PROVE  /\ NewStorage.status = 0
         /\ Config(NewStorage.heap, regs, io, NewStorage.result)
  <1> DEFINE t == Fresh(heap)
             k == [heap EXCEPT ![t] = ObjectCell("storage")]
             w == Storage(t)
             N == Outside(regs, io, Nullptr)
             M == Outside(regs, io, w)
  <1>1. t \in Obj /\ heap[t].kind = "free"
    BY FreshFree
  <1>2. NewStorage.status = 0 /\ NewStorage.heap = k /\ NewStorage.result = w
    BY DEF NewStorage, Answer
  <1>3. w \in Value /\ \A o \in Obj : One(w, o) = IF o = t THEN 1 ELSE 0
    BY <1>1 DEF Storage, Value, One, Owns, Counted
  <1>4. N \in [Obj -> Nat] /\ M \in [Obj -> Nat] /\ HeapOK(heap) /\ Exact(heap, N)
    BY OutsideType DEF Config
  <1>5. \A o \in Obj : M[o] = N[o] + (IF o = t THEN 1 ELSE 0)
    BY <1>1, <1>3, NewOutside
  <1>6. SoundIn(k, w)
    <2>1. k[t].kind = "storage"
      BY <1>1, <1>4 DEF HeapOK, ObjectCell
    <2> HIDE DEF k, t
    <2> QED
      BY <2>1 DEF SoundIn, Storage, KindOf
  <1> HIDE DEF t, w, N, M
  <1>7. HeapOK(k) /\ Exact(k, M) /\ \A o \in Obj : o # t => k[o].kind = heap[o].kind
    BY <1>1, <1>4, <1>5, NewObjectExact
  <1> HIDE DEF k
  <1>8. Config(k, regs, io, w)
    BY <1>1, <1>3, <1>6, <1>7, NewConfig DEF M
  <1> QED
    BY <1>2, <1>8

(* A new tensor in hand, over a live shape and a live storage or none.     *)
LEMMA NewTensorOK ==
  ASSUME Config(heap, regs, io, Nullptr), FreeAddress(heap) # {},
         NEW z \in Obj, heap[z].kind = "shape",
         NEW s \in Obj \cup {NoObj}, s # NoObj => heap[s].kind = "storage"
  PROVE  /\ NewTensor(z, s).status = 0
         /\ Config(NewTensor(z, s).heap, regs, io, NewTensor(z, s).result)
  <1> DEFINE t == Fresh(heap)
             k == TensorHeap(heap, t, z, s)
             w == Managed(t)
             N == Outside(regs, io, Nullptr)
             M == Outside(regs, io, w)
  <1>1. t \in Obj /\ heap[t].kind = "free"
    BY FreshFree
  <1>2. NewTensor(z, s).status = 0 /\ NewTensor(z, s).heap = k /\ NewTensor(z, s).result = w
    BY DEF NewTensor, Answer, TensorHeap
  <1>3. w \in Value /\ \A o \in Obj : One(w, o) = IF o = t THEN 1 ELSE 0
    BY <1>1 DEF Managed, Value, One, Owns, Counted
  <1>4. N \in [Obj -> Nat] /\ M \in [Obj -> Nat] /\ HeapOK(heap) /\ Exact(heap, N)
    BY OutsideType DEF Config
  <1>5. \A o \in Obj : M[o] = N[o] + (IF o = t THEN 1 ELSE 0)
    BY <1>1, <1>3, NewOutside
  <1> HIDE DEF t, N, M
  <1>7. /\ HeapOK(k) /\ Exact(k, M) /\ k[t].kind = "tensor"
        /\ \A o \in Obj : o # t => k[o].kind = heap[o].kind
    BY <1>1, <1>4, <1>5, NewTensorExact
  <1> HIDE DEF k
  <1>6. SoundIn(k, w)
    BY <1>7 DEF SoundIn, Managed, KindOf
  <1> HIDE DEF w
  <1>8. Config(k, regs, io, w)
    BY <1>1, <1>3, <1>6, <1>7, NewConfig DEF M
  <1> QED
    BY <1>2, <1>8

-----------------------------------------------------------------------------
(* The instructions and the public calls. *)

(* A plain answer leaves the heap, and holds no reference. *)
LEMMA PlainAnswer ==
  ASSUME Config(heap, regs, io, Nullptr), NEW w \in Value, Uncounted(w)
  PROVE  Config(heap, regs, io, w)
  <1>1. \A o \in Obj : Outside(regs, io, w)[o] = Outside(regs, io, Nullptr)[o]
    <2> SUFFICES ASSUME NEW o \in Obj
                 PROVE  Outside(regs, io, w)[o] = Outside(regs, io, Nullptr)[o]
      OBVIOUS
    <2>1. One(w, o) = 0 /\ One(Nullptr, o) = 0
      BY NothingHeld
    <2> QED
      BY <2>1, OutsideAt
  <1>2. SoundIn(heap, w)
    BY NothingHeld
  <1> QED
    BY <1>1, <1>2, ConfigParts, MoveConfig

(* What a packed function answers when it succeeds. *)
LEMMA AnswersOK ==
  ASSUME CountInv, Fetch("Call"), IsPacked,
         WellTyped(Instr.func, Args), PackedKind[Instr.func] # "null_value",
         Allocates(Instr.func) => FreeAddress(heap) # {},
         NEW answer \in Answers(Instr.func, Args), answer.status = 0
  PROVE  /\ Config(answer.heap, regs, io, answer.result)
         /\ Instr.dst < Top.register_size \/ Uncounted(answer.result)
  <1> DEFINE p == Instr.func
             a == Args
             kind == PackedKind[p]
  <1>1. Config(heap, regs, io, Nullptr) /\ p \in Packed
    BY DEF CountInv, CountOK, IsPacked
  <1>2. answer \in CASE kind = "alloc_storage" -> {NewStorage}
    [] kind = "alloc_tensor"  -> {NewTensor(a[3].value, a[1].value)}
    [] kind = "reshape"       -> {Reshaped(a[1], a[2].value)}
    [] kind = "predicate"     -> {Answer(heap, Int64(n)) : n \in 0 .. 1}
    [] OTHER                  -> {Answer(heap, v) : v \in Uninitialized}
    BY DEF Answers
  <1>3. /\ \A i \in DOMAIN a : a[i] \in Value /\ SoundIn(heap, a[i])
        /\ Takes(p) \subseteq DOMAIN a
        /\ p \in NeedsRegister => Instr.dst < Top.register_size
    BY ArgsOK
  <1>4. p \notin Func
    BY <1>1, OperandAssumption
  <1>5. heap \in [Obj -> Cell] /\ HeapOK(heap)
    BY <1>1, ConfigParts DEF Config
  <1>6. CASE kind = "alloc_storage"
    <2>1. answer = NewStorage
      BY <1>2, <1>6
    <2>2. FreeAddress(heap) # {} /\ p \in NeedsRegister
      BY <1>1, <1>6 DEF Allocates, NeedsRegister
    <2> QED
      BY <1>1, <1>3, <2>1, <2>2, NewStorageOK
  <1>7. CASE kind = "alloc_tensor"
    <2>1. answer = NewTensor(a[3].value, a[1].value)
      BY <1>2, <1>7
    <2>2. FreeAddress(heap) # {} /\ p \in NeedsRegister
      BY <1>1, <1>7 DEF Allocates, NeedsRegister
    <2>3. 1 \in DOMAIN a /\ 3 \in DOMAIN a
      BY <1>3, <1>4, <1>7 DEF Takes
    <2>4. a[1].typecode = "VMObjectStorage" /\ a[3].typecode = "VMObjectShapeTuple"
      BY <1>7 DEF WellTyped
    <2>5. /\ a[1].value \in Obj /\ heap[a[1].value].kind = "storage"
          /\ a[3].value \in Obj /\ heap[a[3].value].kind = "shape"
      BY <1>3, <2>3, <2>4, ValueCounted DEF SoundIn, KindOf, Counted
    <2> QED
      BY <1>1, <1>3, <2>1, <2>2, <2>5, NewTensorOK
  <1>8. CASE kind = "reshape"
    <2>1. answer = Reshaped(a[1], a[2].value)
      BY <1>2, <1>8
    <2>2. FreeAddress(heap) # {} /\ p \in NeedsRegister
      BY <1>1, <1>8 DEF Allocates, NeedsRegister
    <2>3. 1 \in DOMAIN a /\ 2 \in DOMAIN a
      BY <1>3, <1>4, <1>8 DEF Takes
    <2>4. a[2].typecode = "VMObjectShapeTuple"
      BY <1>8 DEF WellTyped
    <2>5. a[2].value \in Obj /\ heap[a[2].value].kind = "shape"
      BY <1>3, <2>3, <2>4, ValueCounted DEF SoundIn, KindOf, Counted
    <2> DEFINE s == IF a[1].typecode = "ManagedDLTensor" THEN heap[a[1].value].storage
                    ELSE NoObj
    <2>6. s \in Obj \cup {NoObj} /\ (s # NoObj => heap[s].kind = "storage")
      <3>1. CASE a[1].typecode = "ManagedDLTensor"
        <4>1. a[1].value \in Obj /\ heap[a[1].value].kind = "tensor"
          BY <1>3, <2>3, <3>1, ValueCounted DEF SoundIn, KindOf, Counted
        <4>2. heap[a[1].value] \in Cell
          BY <1>5, <4>1
        <4> QED
          BY <1>5, <3>1, <4>1, <4>2 DEF HeapOK, Cell
      <3>2. CASE a[1].typecode # "ManagedDLTensor"
        BY <3>2
      <3> HIDE DEF s
      <3> QED
        BY <3>1, <3>2
    <2>7. answer = NewTensor(a[2].value, s)
      BY <2>1 DEF Reshaped
    <2> HIDE DEF s, a
    <2> QED
      BY <1>1, <1>3, <2>2, <2>5, <2>6, <2>7, NewTensorOK
  <1>9. CASE kind = "predicate"
    <2>1. PICK n \in 0 .. 1 : answer = Answer(heap, Int64(n))
      BY <1>2, <1>9
    <2>2. answer.heap = heap /\ answer.result = Int64(n)
      BY <2>1 DEF Answer
    <2>3. Int64(n) \in Value /\ Uncounted(Int64(n))
      BY DEF Int64, Value, Uncounted, Counted
    <2> QED
      BY <1>1, <2>2, <2>3, PlainAnswer
  <1>10. CASE kind \notin {"alloc_storage", "alloc_tensor", "reshape", "predicate"}
    <2>1. PICK v \in Uninitialized : answer = Answer(heap, v)
      BY <1>2, <1>10
    <2>2. answer.heap = heap /\ answer.result = v
      BY <2>1 DEF Answer
    <2>3. v \in Value /\ Uncounted(v)
      BY DEF Uninitialized, Int64, Nullptr, Value, Uncounted, Counted
    <2> QED
      BY <1>1, <2>2, <2>3, PlainAnswer
  <1> QED
    BY <1>6, <1>7, <1>8, <1>9, <1>10

(* The register written is one of a frame in use: the others stay spare. *)
LEMMA SpareSet ==
  ASSUME NEW F, NEW n, NEW rs, NEW rs2, NEW b \in Buffer, NEW r \in RegIdx, NEW w,
         SpareOK(F, n, rs), RegSet(rs2, rs, b, r, w), InUse(F, n, b, r) \/ Uncounted(w)
  PROVE  SpareOK(F, n, rs2)
  BY DEF SpareOK, RegSet

(* The result of a packed call is stored, after what was in its place is   *)
(* freed.                                                                  *)
LEMMA ReturnsOK ==
  ASSUME CountInv, state = "running", NEW answer, PackedReturns(answer),
         Instr.dst \in Nat, Config(answer.heap, regs, io, answer.result),
         Instr.dst < Top.register_size \/ Uncounted(answer.result)
  PROVE  CountOK'
  <1> DEFINE b == Top.registers
             d == Instr.dst
             v == answer.result
  <1>1. io' = io /\ frames' = frames /\ frame_size' = frame_size
    BY DEF PackedReturns, frameVars
  <1>2. /\ Config(heap, regs, io, Nullptr) /\ SpareOK(frames, frame_size, regs)
        /\ RegsOK(regs)
    BY ConfigParts DEF CountInv, CountOK
  <1>3. CASE d < Top.register_size
    <2>1. d \in RegIdx /\ b \in Buffer /\ InUse(frames, frame_size, b, d)
      BY <1>3, RunningTop, RegIdxFinite DEF RegIdx
    <2>2. /\ heap' = ReleaseOne(answer.heap, regs[b][d])
          /\ regs' = [regs EXCEPT ![b][d] = v]
      BY <1>3 DEF PackedReturns
    <2> DEFINE rs1 == [regs EXCEPT ![b][d] = Nullptr]
    <2>3. RegSet(rs1, regs, b, d, Nullptr) /\ RegSet(regs', regs, b, d, v)
      BY <1>2, <2>1, <2>2, RegExcept, NothingHeld, ConfigParts
    <2> HIDE DEF rs1, b, d
    <2>4. Config(heap', rs1, io, v)
      BY <2>1, <2>2, <2>3, NothingHeld, DropReg
    <2>5. RegSet(regs', rs1, b, d, v) /\ Uncounted(rs1[b][d])
      BY <2>3, NothingHeld DEF RegSet
    <2>6. Config(heap', regs', io, Nullptr)
      BY <2>1, <2>4, <2>5, StoreReg
    <2>7. SpareOK(frames, frame_size, regs')
      BY <1>2, <2>1, <2>3, SpareSet
    <2> QED
      BY <1>1, <2>6, <2>7 DEF CountOK
  <1>4. CASE ~ (d < Top.register_size)
    <2>1. heap' = answer.heap /\ regs' = regs /\ Uncounted(v)
      BY <1>4 DEF PackedReturns
    <2>2. \A o \in Obj : Outside(regs, io, Nullptr)[o] = Outside(regs, io, v)[o]
      <3> SUFFICES ASSUME NEW o \in Obj
                   PROVE  Outside(regs, io, Nullptr)[o] = Outside(regs, io, v)[o]
        OBVIOUS
      <3>1. One(v, o) = 0 /\ One(Nullptr, o) = 0
        BY <2>1, NothingHeld
      <3> QED
        BY <3>1, OutsideAt
    <2>3. Nullptr \in Value /\ SoundIn(answer.heap, Nullptr)
      BY NothingHeld
    <2>4. Config(answer.heap, regs, io, Nullptr)
      BY <2>2, <2>3, ConfigParts, MoveConfig
    <2> QED
      BY <1>1, <1>2, <2>1, <2>4 DEF CountOK
  <1> QED
    BY <1>3, <1>4

(* What a packed function answers: its error, or the status 0.             *)
LEMMA AnswersAre ==
  ASSUME NEW p, NEW a, NEW answer \in Answers(p, a)
  PROVE  \/ answer = [status |-> -1, heap |-> heap, result |-> Nullptr]
         \/ \E h, v : answer = Answer(h, v)
  BY Zenon DEF Answers, NewStorage, NewTensor, Reshaped

(* Each action keeps the counts. A call of a packed function:              *)
LEMMA CallPackedCount ==
  ASSUME CountInv, CallPacked
  PROVE  CountOK' /\ FramesAt' /\ MachineOK'
  <1>1. /\ Fetch("Call") /\ IsPacked /\ PackedKind[Instr.func] # "null_value"
        /\ WellTyped(Instr.func, Args)
        /\ Allocates(Instr.func) => FreeAddress(heap) # {}
    BY DEF CallPacked
  <1>2. PICK answer \in Answers(Instr.func, Args) :
          PackedReturns(answer) \/ PackedFails(answer)
    BY DEF CallPacked
  <1>3. Stays
    BY StepStays
  <1>4. FramesAt'
    BY <1>3, StaysAt DEF Stays, CountInv, frameVars
  <1>5. CASE PackedReturns(answer)
    <2>1. /\ Config(answer.heap, regs, io, answer.result)
          /\ Instr.dst < Top.register_size \/ Uncounted(answer.result)
      BY <1>1, <1>5, AnswersOK DEF PackedReturns
    <2>2. CountOK'
      BY <1>1, <1>5, <2>1, ArgsOK, ReturnsOK DEF Fetch
    <2>3. MachineOK'
      BY <1>5 DEF PackedReturns, CountInv, MachineOK, frameVars
    <2> QED
      BY <1>4, <2>2, <2>3
  <1>6. CASE PackedFails(answer)
    <2>1. answer.status = -1
      <3>1. answer.status # 0
        BY <1>6 DEF PackedFails
      <3> QED
        BY <1>2, <3>1, AnswersAre DEF Answer
    <2>2. MachineOK'
      BY <1>6, <2>1 DEF PackedFails, CountInv, MachineOK, frameVars
    <2>3. CountOK'
      BY <1>6 DEF PackedFails, CountInv, CountOK, frameVars
    <2> QED
      BY <1>4, <2>2, <2>3
  <1> QED
    BY <1>2, <1>5, <1>6

(* vm.builtin.null_value frees its destination:                            *)
LEMMA CallNullValueCount ==
  ASSUME CountInv, CallNullValue
  PROVE  CountOK' /\ FramesAt' /\ MachineOK'
  <1> DEFINE b == Top.registers
             d == Instr.dst
             v == regs[b][d]
  <1>1. /\ Fetch("Call") /\ IsPacked /\ PackedKind[Instr.func] = "null_value"
        /\ state = "running"
        /\ heap' = ReleaseOne(heap, v)
        /\ regs' = [regs EXCEPT ![b][d] = Emptied(v)]
        /\ io' = io /\ frames' = frames /\ frame_size' = frame_size
    BY DEF CallNullValue, Fetch, frameVars
  <1>2. d < Top.register_size /\ d \in Nat
    BY <1>1, ArgsOK DEF NeedsRegister, IsPacked
  <1>3. d \in RegIdx /\ b \in Buffer /\ InUse(frames, frame_size, b, d)
    BY <1>1, <1>2, RunningTop, RegIdxFinite DEF RegIdx
  <1>4. /\ Config(heap, regs, io, Nullptr) /\ SpareOK(frames, frame_size, regs)
        /\ RegsOK(regs) /\ v \in Value
    BY <1>3, ConfigParts DEF CountInv, CountOK
  <1>5. Emptied(v) \in Value /\ Uncounted(Emptied(v))
    BY <1>4, NothingHeld DEF Emptied, Uncounted
  <1>6. RegSet(regs', regs, b, d, Emptied(v))
    BY <1>1, <1>3, <1>4, <1>5, RegExcept
  <1> HIDE DEF b, d
  <1>7. Config(heap', regs', io, Nullptr)
    BY <1>1, <1>3, <1>4, <1>5, <1>6, DropReg
  <1>8. SpareOK(frames, frame_size, regs')
    BY <1>3, <1>4, <1>6, SpareSet
  <1>9. FramesAt'
    BY StepStays, StaysAt DEF Stays, CountInv, frameVars
  <1>10. MachineOK'
    BY DEF CallNullValue, CountInv, MachineOK, frameVars
  <1> QED
    BY <1>1, <1>7, <1>8, <1>9, <1>10 DEF CountOK

(* what touches no register:                                               *)
LEMMA QuietCount ==
  ASSUME CountInv, CallUndefined \/ Goto \/ If
  PROVE  CountOK' /\ FramesAt' /\ MachineOK'
  <1>1. UNCHANGED <<heap, regs, io, frames, frame_size>>
    BY DEF CallUndefined, Goto, If, frameVars
  <1>2. CountOK'
    BY <1>1 DEF CountInv, CountOK
  <1>3. FramesAt'
    BY StepStays, StaysAt DEF Stays, CountInv, frameVars
  <1>4. MachineOK'
    BY DEF CallUndefined, Goto, If, CountInv, MachineOK, frameVars
  <1> QED
    BY <1>2, <1>3, <1>4

(* the call of a VM function:                                              *)
LEMMA CallVMFuncCount ==
  ASSUME CountInv, CallVMFunc
  PROVE  CountOK' /\ FramesAt' /\ MachineOK'
  <1> DEFINE f == Instr.func
  <1>1. /\ f \in Func /\ pc + 1 \in PC /\ pc + 1 \in Follows(pc)
        /\ pc' = FuncInfo[f].start /\ state = "running"
        /\ Enter(f, Args, pc + 1, Instr.dst)
        /\ io' = io /\ Fetch("Call")
        /\ UNCHANGED <<cur, state, status, failed>>
    BY CallPushes DEF CallVMFunc, CountInv, VMInv
  <1>2. /\ Instr.dst \in RegisterName
        /\ \A i \in 1 .. NumParams(f) : Args[i] \in Value /\ SoundIn(heap, Args[i])
    <2>1. Takes(f) = 1 .. NumParams(f)
      BY <1>1 DEF Takes
    <2> HIDE DEF f
    <2>2. Takes(f) \subseteq DOMAIN Args
      BY <1>1, ArgsOK DEF f
    <2> QED
      BY <1>1, <2>1, <2>2, ArgsOK
  <1>3. IInv /\ FramesAt /\ CountOK /\ frame_size \in Nat
    BY PoolTypes DEF CountInv, VMInv
  <1> HIDE DEF f
  <1>4. /\ Config(heap', regs', io, Nullptr)
        /\ SpareOK(frames', frame_size', regs')
        /\ frame_size' = frame_size + 1
        /\ frames'[frame_size].register_size = NumRegs(f)
        /\ frames'[frame_size].return_pc = pc + 1
        /\ \A i \in 0 .. frame_size - 1 : frames'[i] = frames[i]
    BY <1>1, <1>2, <1>3, EnterOK DEF CountOK
  <1>5. FramesAt'
    <2>1. \A g \in Func : pc \in Body(g) => pc + 1 \in Body(g)
      BY <1>1, CodeAssumption
    <2> QED
      BY <1>1, <1>3, <1>4, <2>1, PushAt
  <1>6. MachineOK'
    BY <1>1, <1>3, <1>4 DEF CountInv, MachineOK
  <1> QED
    BY <1>1, <1>4, <1>5, <1>6 DEF CountOK

(* the run of a function with the inputs it was given:                     *)
LEMMA RunCount ==
  ASSUME CountInv, NEW f \in Callable, Run(f)
  PROVE  CountOK' /\ FramesAt' /\ MachineOK'
  <1> DEFINE values == [i \in 1 .. NumParams(f) |-> io[f][i - 1]]
  <1>1. /\ f \in Func /\ pc' = FuncInfo[f].start /\ pc \in PC
        /\ Enter(f, values, pc, StaleDst)
        /\ io' = io /\ cur' = f /\ state' = "running"
        /\ UNCHANGED <<status, failed>>
    BY RelaxAssumption DEF Run, CountInv, VMInv
  <1>2. IInv /\ FramesAt /\ CountOK /\ frame_size \in Nat
    BY PoolTypes DEF CountInv, VMInv
  <1>3. /\ StaleDst \in RegisterName
        /\ \A i \in 1 .. NumParams(f) : values[i] \in Value /\ SoundIn(heap, values[i])
    <2>1. \A i \in 1 .. NumParams(f) : values[i] = io[f][i - 1] /\ i - 1 \in 0 .. NumParams(f)
      BY <1>1, OperandAssumption
    <2>2. \A i \in 0 .. NumParams(f) : io[f][i] \in Value /\ SoundIn(heap, io[f][i])
      BY <1>1, <1>2, ConfigParts DEF CountOK
    <2> QED
      BY <1>2, <2>1, <2>2, StaleDstOK
  <1> HIDE DEF values
  <1>4. /\ Config(heap', regs', io, Nullptr)
        /\ SpareOK(frames', frame_size', regs')
        /\ frame_size' = frame_size + 1
        /\ frames'[frame_size].register_size = NumRegs(f)
        /\ frames'[frame_size].return_pc = pc
        /\ \A i \in 0 .. frame_size - 1 : frames'[i] = frames[i]
    BY <1>1, <1>2, <1>3, EnterOK DEF CountOK
  <1>5. FramesAt'
    BY <1>1, <1>2, <1>4, PushAt
  <1>6. MachineOK'
    BY <1>1, <1>2, <1>4 DEF CountInv, MachineOK
  <1> QED
    BY <1>1, <1>4, <1>5, <1>6 DEF CountOK

(* The result of a Ret is a value that is sound as long as it is held. *)
LEMMA ResultReadable ==
  ASSUME CountInv, Fetch("Ret")
  PROVE  \E f \in Func : Readable(f, Instr.result)
  BY RunningTop, OperandAssumption DEF Fetch, Instr

(* a Ret to the user: the old output is freed before the new one is        *)
(* copied:                                                                 *)
LEMMA RetToUserCount ==
  ASSUME CountInv, RetToUser
  PROVE  CountOK' /\ FramesAt' /\ MachineOK'
  <1> DEFINE out == NumParams(cur)
             v == Named(regs[Top.registers], Instr.result)
             h1 == ReleaseOne(heap, io[cur][out])
             x1 == [io EXCEPT ![cur][out] = Nullptr]
             h2 == RetainOne(h1, v)
  <1>1. /\ io' = [io EXCEPT ![cur][out] = v] /\ Leave(h2, regs)
        /\ state = "running" /\ Fetch("Ret")
        /\ state' = "idle" /\ status' = 0 /\ cur' = cur /\ failed' = failed
    BY DEF RetToUser, Fetch
  <1>2. /\ cur \in Func /\ Top.registers \in Buffer /\ IInv /\ FramesAt
        /\ Config(heap, regs, io, Nullptr) /\ SpareOK(frames, frame_size, regs)
        /\ IoOK(io)
    BY <1>1, RunningTop, ConfigParts DEF CountInv, CountOK, VMInv
  <1>3. out \in 0 .. NumParams(cur)
    BY <1>2, OperandAssumption
  <1>4. PICK f \in Func : Readable(f, Instr.result)
    BY <1>1, ResultReadable
  <1>5. v \in Value
    BY <1>2, <1>4, NamedOK
  <1>6. IoSet(x1, io, cur, out, Nullptr) /\ IoSet(io', io, cur, out, v)
    BY <1>1, <1>2, <1>3, <1>5, IoExcept, NothingHeld
  <1>7. IoSet(io', x1, cur, out, v) /\ Uncounted(x1[cur][out])
    BY <1>6, NothingHeld DEF IoSet
  <1> HIDE DEF out, x1, v
  <1>8. Config(h1, regs, x1, Nullptr)
    BY <1>2, <1>3, <1>6, NothingHeld, DropIo
  <1> HIDE DEF h1
  <1>9. SoundIn(h1, v)
    BY <1>2, <1>4, <1>8, NamedOK DEF v
  <1>10. Config(h2, regs, x1, v)
    BY <1>5, <1>8, <1>9, Copied
  <1> HIDE DEF h2
  <1>11. Config(h2, regs, io', Nullptr)
    BY <1>2, <1>3, <1>7, <1>10, StoreIo
  <1>12. CountOK'
    BY <1>1, <1>2, <1>11, LeaveOK DEF CountOK
  <1>13. FramesAt'
    BY <1>2, RetPops, PopAt
  <1>14. MachineOK'
    BY <1>1 DEF CountInv, MachineOK
  <1> QED
    BY <1>12, <1>13, <1>14

(* a Ret to a caller: its destination register is freed before the result  *)
(* is copied, and the result is still live after that:                     *)
LEMMA RetToCallerCount ==
  ASSUME CountInv, RetToCaller
  PROVE  CountOK' /\ FramesAt' /\ MachineOK'
  <1> DEFINE d == Top.reg_caller_return
             b == Caller.registers
             c == Top.registers
             v == Named(regs[c], Instr.result)
             h1 == ReleaseOne(heap, regs[b][d])
             rs1 == [regs EXCEPT ![b][d] = Nullptr]
             rs2 == [regs EXCEPT ![b][d] = v]
             h2 == RetainOne(h1, v)
  <1>1. /\ IF d < Caller.register_size THEN Leave(h2, rs2) ELSE Leave(heap, regs)
        /\ state = "running" /\ Fetch("Ret") /\ frame_size > 1
        /\ UNCHANGED <<io, cur, state, status, failed>>
    BY DEF RetToCaller, Fetch
  <1>2. /\ c \in Buffer /\ IInv /\ FramesAt
        /\ Config(heap, regs, io, Nullptr) /\ SpareOK(frames, frame_size, regs)
        /\ RegsOK(regs) /\ frame_size \in Nat
    BY <1>1, RunningTop, ConfigParts DEF CountInv, CountOK, VMInv
  <1>3. CountOK'
    <2>1. CASE d < Caller.register_size
      <3>1. frame_size - 2 \in 0 .. frame_size - 1 /\ frame_size - 1 \in 0 .. frame_size - 1
            /\ frame_size - 2 # frame_size - 1
        BY <1>1, <1>2
      <3>2. b \in Buffer /\ 0 .. Caller.register_size - 1 \subseteq RegIdx
            /\ frame_size - 2 \in 0 .. frame_capacity - 1
            /\ frame_size - 1 \in 0 .. frame_capacity - 1
            /\ Caller.register_size \in 1 .. Special
        BY <1>2, <3>1, FrameInUse DEF Caller
      <3>3. d \in Nat
        <4>1. Top \in Frame
          BY <1>2, <3>2, PoolTypes DEF Top
        <4> QED
          BY <4>1, OperandAssumption DEF Frame
      <3>4. d \in RegIdx /\ InUse(frames, frame_size, b, d)
        <4>1. d \in 0 .. Caller.register_size - 1
          BY <2>1, <3>2, <3>3
        <4> QED
          BY <3>1, <3>2, <4>1 DEF InUse, Caller
      <3>5. b # c
        <4>1. c # NoBuffer
          BY <1>2, FramesAssumption
        <4> QED
          BY <1>2, <3>1, <3>2, <4>1 DEF IInv, PoolOK, UnsharedOK, Top, Caller
      <3>6. PICK f \in Func : Readable(f, Instr.result)
        BY <1>1, ResultReadable
      <3>7. v \in Value
        BY <1>2, <3>6, NamedOK
      <3>8. RegSet(rs1, regs, b, d, Nullptr) /\ RegSet(rs2, regs, b, d, v)
        BY <1>2, <3>2, <3>4, <3>7, RegExcept, NothingHeld
      <3>9. rs1[c] = regs[c]
        BY <1>2, <3>5 DEF RegsOK
      <3>10. RegSet(rs2, rs1, b, d, v) /\ Uncounted(rs1[b][d])
        BY <3>8, NothingHeld DEF RegSet
      <3>11. Leave(h2, rs2)
        BY <1>1, <2>1
      <3> HIDE DEF b, d, rs1, rs2, v
      <3>12. Config(h1, rs1, io, Nullptr)
        BY <1>2, <3>2, <3>4, <3>8, NothingHeld, DropReg
      <3> HIDE DEF h1
      <3>13. SoundIn(h1, v)
        <4>1. SoundIn(h1, Named(rs1[c], Instr.result))
          BY <1>2, <3>6, <3>12, NamedOK
        <4> QED
          BY <3>9, <4>1 DEF v
      <3>14. Config(h2, rs1, io, v)
        BY <3>7, <3>12, <3>13, Copied
      <3> HIDE DEF h2
      <3>15. Config(h2, rs2, io, Nullptr)
        BY <3>2, <3>4, <3>10, <3>14, StoreReg
      <3>16. SpareOK(frames, frame_size, rs2)
        BY <1>2, <3>2, <3>4, <3>8, SpareSet
      <3> QED
        BY <1>1, <1>2, <3>11, <3>15, <3>16, LeaveOK DEF CountOK
    <2>2. CASE ~ (d < Caller.register_size)
      <3>1. Leave(heap, regs)
        BY <1>1, <2>2
      <3> QED
        BY <1>1, <1>2, <3>1, LeaveOK DEF CountOK
    <2> QED
      BY <2>1, <2>2
  <1>4. FramesAt'
    BY <1>2, RetPops, PopAt
  <1>5. MachineOK'
    <2>1. frame_size' > 0
      <3>1. frame_size' = frame_size - 1
        BY RetPops DEF FramePop
      <3> QED
        BY <1>1, <1>2, <3>1
    <2> QED
      BY <1>1, <2>1 DEF CountInv, MachineOK
  <1> QED
    BY <1>3, <1>4, <1>5

(* an input is replaced by a tensor that is the user's:                    *)
LEMMA SetInputCount ==
  ASSUME CountInv, NEW f \in Callable, NEW i \in 0 .. NumParams(f) - 1,
         NEW t \in Tensor, SetInput(f, i, t)
  PROVE  CountOK' /\ FramesAt' /\ MachineOK'
  <1>1. /\ heap' = ReleaseOne(heap, io[f][i])
        /\ io' = [io EXCEPT ![f][i] = TensorHandle(t)]
        /\ UNCHANGED <<regs, pc, frames, frame_size, cur, state, status, failed>>
    BY DEF SetInput, frameVars
  <1>2. f \in Func /\ i \in 0 .. NumParams(f)
    BY RelaxAssumption, OperandAssumption
  <1>3. /\ Config(heap, regs, io, Nullptr) /\ SpareOK(frames, frame_size, regs)
        /\ IoOK(io)
    BY ConfigParts DEF CountInv, CountOK
  <1>4. TensorHandle(t) \in Value /\ Uncounted(TensorHandle(t))
    BY DEF TensorHandle, Value, Uncounted, Counted
  <1>5. IoSet(io', io, f, i, TensorHandle(t))
    BY <1>1, <1>2, <1>3, <1>4, IoExcept
  <1>6. Config(heap', regs, io', Nullptr)
    BY <1>1, <1>2, <1>3, <1>4, <1>5, DropIo
  <1>7. FramesAt'
    BY <1>1, StaysAt DEF CountInv
  <1> QED
    BY <1>1, <1>3, <1>6, <1>7 DEF CountInv, CountOK, MachineOK

(* a run that is refused:                                                  *)
LEMMA RunRefusedCount ==
  ASSUME CountInv, NEW f \in Callable, RunRefused(f)
  PROVE  CountOK' /\ FramesAt' /\ MachineOK'
  <1>1. /\ UNCHANGED <<heap, regs, io, pc, frames, frame_size, state, failed>>
        /\ status' = -2 /\ cur' = f /\ state = "idle"
    BY DEF RunRefused, frameVars
  <1>2. f \in Func
    BY RelaxAssumption
  <1>3. FramesAt'
    BY <1>1, StaysAt DEF CountInv
  <1> QED
    BY <1>1, <1>2, <1>3 DEF CountInv, CountOK, MachineOK

-----------------------------------------------------------------------------
(* The invariant and what follows from it. *)

(* The counts of the registers in use, and of the inputs and outputs.      *)
LEMMA LocsCount ==
  ASSUME IInv, FramesAt, SpareOK(frames, frame_size, regs), NEW o
  PROVE  /\ IsFiniteSet(FrameLocs) /\ IsFiniteSet(IoLocs)
         /\ References(FrameValues, FrameLocs, o) = Cardinality(RegRefs(regs, o))
         /\ References(IoValues, IoLocs, o) = Cardinality(IoRefs(io, o))
  <1>1. ASSUME NEW l \in FrameLocs
        PROVE  l \in Buffer \X RegIdx
    <2>1. PICK i \in 0 .. frame_size - 1 :
            \E r \in 0 .. frames[i].register_size - 1 : l = <<frames[i].registers, r>>
      BY DEF FrameLocs
    <2> QED
      BY <2>1, FrameInUse
  <1>2. IsFiniteSet(FrameLocs)
    BY <1>1, RegIdxFinite, FS_Subset
  <1>3. {l \in FrameLocs : Owns(FrameValues[l], o)} = RegRefs(regs, o)
    <2>1. \A l \in FrameLocs : FrameValues[l] = regs[l[1]][l[2]]
      BY DEF FrameValues
    <2>2. ASSUME NEW l \in RegRefs(regs, o)
          PROVE  l \in FrameLocs
      <3>1. l = <<l[1], l[2]>> /\ l[1] \in Buffer
                /\ l[2] \in RegIdx /\ Owns(regs[l[1]][l[2]], o)
        BY DEF RegRefs
      <3>2. InUse(frames, frame_size, l[1], l[2])
        BY <3>1 DEF SpareOK, Uncounted, Owns
      <3> QED
        BY <3>1, <3>2, LocsInUse
    <2> QED
      BY <1>1, <2>1, <2>2 DEF RegRefs
  <1>4. {l \in IoLocs : Owns(IoValues[l], o)} = IoRefs(io, o)
    BY DEF IoValues, IoRefs
  <1> QED
    BY <1>2, <1>3, <1>4, RegIdxFinite DEF References

(* The registers of a machine that is new, or freed, refer to nothing.     *)
LEMMA NothingRefers ==
  /\ RegsOK([b \in Buffer |-> Zeroed])
  /\ IoOK([f \in Func |-> [i \in 0 .. NumParams(f) |-> Nullptr]])
  /\ \A b \in Buffer, r \in RegIdx : [c \in Buffer |-> Zeroed][b][r] = Int64(0)
  /\ \A f \in Func : \A i \in 0 .. NumParams(f) :
       [g \in Func |-> [j \in 0 .. NumParams(g) |-> Nullptr]][f][i] = Nullptr
  /\ \A o : Cardinality(RegRefs([b \in Buffer |-> Zeroed], o)) = 0
  /\ \A o : Cardinality(IoRefs([f \in Func |-> [i \in 0 .. NumParams(f) |-> Nullptr]], o)) = 0
  <1> DEFINE rs == [b \in Buffer |-> Zeroed]
             x == [f \in Func |-> [i \in 0 .. NumParams(f) |-> Nullptr]]
  <1>1. \A b \in Buffer, r \in RegIdx : rs[b][r] = Int64(0)
    BY DEF Zeroed
  <1>2. \A f \in Func : \A i \in 0 .. NumParams(f) : x[f][i] = Nullptr
    OBVIOUS
  <1>3. Int64(0) \in Value /\ Uncounted(Int64(0)) /\ Nullptr \in Value /\ Uncounted(Nullptr)
    BY DEF Int64, Nullptr, Value, Uncounted, Counted
  <1>4. RegsOK(rs)
    BY <1>3 DEF RegsOK, Zeroed
  <1>5. IoOK(x)
    BY <1>3 DEF IoOK
  <1> HIDE DEF rs, x
  <1>6. \A o : RegRefs(rs, o) = {}
    BY <1>1, <1>3 DEF RegRefs, Owns, Uncounted
  <1>7. \A o : IoRefs(x, o) = {}
    <2> SUFFICES ASSUME NEW o, NEW l \in IoRefs(x, o)
                 PROVE  FALSE
      OBVIOUS
    <2>1. PICK f \in Func : \E i \in 0 .. NumParams(f) : l = <<f, i>>
      BY DEF IoRefs, IoLocs
    <2> QED
      BY <1>2, <1>3, <2>1 DEF IoRefs, Owns, Uncounted
  <1> QED
    BY <1>1, <1>2, <1>4, <1>5, <1>6, <1>7, FS_EmptySet DEF rs, x

(* The machine is freed: first all registers, then all inputs and outputs. *)
LEMMA FreeCount ==
  ASSUME CountInv, Free
  PROVE  CountOK' /\ FramesAt' /\ MachineOK'
  <1> DEFINE rs2 == [b \in Buffer |-> Zeroed]
             x2 == [f \in Func |-> [i \in 0 .. NumParams(f) |-> Nullptr]]
             R == Refs(FrameValues, FrameLocs)
             S == Refs(IoValues, IoLocs)
             h1 == Release(heap, FrameValues, FrameLocs)
  <1>1. /\ heap' = Release(h1, IoValues, IoLocs)
        /\ io' = x2 /\ regs' = rs2
        /\ frame_size' = 0 /\ state' = "freed"
        /\ UNCHANGED <<cur, status, failed>>
    BY DEF Free, FramesFree
  <1>2. /\ Config(heap, regs, io, Nullptr) /\ SpareOK(frames, frame_size, regs)
        /\ IInv /\ FramesAt
    BY DEF CountInv, CountOK, VMInv
  <1>3. /\ RegsOK(rs2) /\ IoOK(x2)
        /\ \A b \in Buffer, r \in RegIdx : rs2[b][r] = Int64(0)
        /\ \A f \in Func : \A i \in 0 .. NumParams(f) : x2[f][i] = Nullptr
        /\ \A o : Cardinality(RegRefs(rs2, o)) = 0 /\ Cardinality(IoRefs(x2, o)) = 0
    BY NothingRefers
  <1>4. \A h : SoundIn(h, Int64(0)) /\ SoundIn(h, Nullptr) /\ Uncounted(Int64(0))
    BY DEF SoundIn, Int64, Nullptr, Counted, Uncounted
  <1> HIDE DEF rs2, x2
  <1>5. /\ R \in [Obj -> Nat] /\ S \in [Obj -> Nat]
        /\ \A o \in Obj : R[o] = Cardinality(RegRefs(regs, o))
        /\ \A o \in Obj : S[o] = Cardinality(IoRefs(io, o))
        /\ IsFiniteSet(FrameLocs) /\ IsFiniteSet(IoLocs)
    BY <1>2, LocsCount, RefsFinite DEF Refs
  <1>6. h1 = ReleaseBy(heap, R)
    BY <1>2, <1>5, ConfigParts, ReleaseIs
  <1> HIDE DEF h1, R, S
  <1>7. Config(h1, rs2, io, Nullptr)
    <2>1. ASSUME NEW o \in Obj
          PROVE  Outside(rs2, io, Nullptr)[o] + R[o] = Outside(regs, io, Nullptr)[o]
      BY <1>3, <1>5, OutsideAt
    <2> QED
      BY <1>2, <1>3, <1>4, <1>5, <1>6, <2>1, ConfigParts, ReleaseConfig
  <1>8. heap' = ReleaseBy(h1, S)
    BY <1>1, <1>5, <1>7, ConfigParts, ReleaseIs DEF S
  <1>9. Config(heap', rs2, x2, Nullptr)
    <2>1. ASSUME NEW o \in Obj
          PROVE  Outside(rs2, x2, Nullptr)[o] + S[o] = Outside(rs2, io, Nullptr)[o]
      BY <1>3, <1>5, OutsideAt
    <2> QED
      BY <1>3, <1>4, <1>5, <1>7, <1>8, <2>1, ConfigParts, ReleaseConfig
  <1>10. SpareOK(frames', frame_size', regs')
    BY <1>1, <1>3, <1>4 DEF SpareOK
  <1>11. FramesAt'
    BY <1>1 DEF FramesAt
  <1>12. MachineOK'
    BY <1>1 DEF CountInv, MachineOK
  <1> QED
    BY <1>1, <1>9, <1>10, <1>11, <1>12 DEF CountOK

(* A new machine: the constants have the count of the executable.          *)
LEMMA CountInit == Init => CountInv
  <1> SUFFICES ASSUME Init
               PROVE  CountInv
    OBVIOUS
  <1>1. VMInv
    BY VMInitOK
  <1>2. FramesAt
    BY DEF Init, FramesInit, FramesAt
  <1>m. MachineOK
    BY DEF Init, FramesInit, MachineOK
  <1> DEFINE rs == [b \in Buffer |-> Zeroed]
             x == [f \in Func |-> [i \in 0 .. NumParams(f) |-> Nullptr]]
  <1>3. regs = rs /\ io = x
    BY DEF Init
  <1>4. /\ RegsOK(rs) /\ IoOK(x)
        /\ \A b \in Buffer, r \in RegIdx : rs[b][r] = Int64(0)
        /\ \A f \in Func : \A i \in 0 .. NumParams(f) : x[f][i] = Nullptr
        /\ \A o : Cardinality(RegRefs(rs, o)) = 0 /\ Cardinality(IoRefs(x, o)) = 0
    BY NothingRefers
  <1>5. /\ \A h : SoundIn(h, Int64(0)) /\ SoundIn(h, Nullptr)
        /\ Uncounted(Int64(0)) /\ Nullptr \in Value
    BY DEF SoundIn, Int64, Nullptr, Counted, Uncounted, Value
  <1> HIDE DEF rs, x
  <1>6. ASSUME NEW o \in Obj
        PROVE  /\ heap[o] \in Cell /\ heap[o].kind # "tensor"
               /\ heap[o].ref_num = Base(o)
               /\ heap[o].kind = "free" <=> heap[o].ref_num = 0
               /\ o \in DOMAIN ConstCell => heap[o] = ConstCell[o]
    <2>1. heap[o] = IF o \in DOMAIN ConstCell THEN ConstCell[o] ELSE FreeCell
      BY DEF Init
    <2>2. CASE o \in DOMAIN ConstCell
      <3>1. PICK kind \in {"storage", "shape", "string"} : ConstCell[o] = ObjectCell(kind)
        BY <2>2, OperandAssumption
      <3> QED
        BY <2>1, <2>2, <3>1 DEF ObjectCell, Cell, Kind, Base
    <2>3. CASE o \notin DOMAIN ConstCell
      BY <2>1, <2>3 DEF FreeCell, Cell, Kind, Base
    <2> QED
      BY <2>2, <2>3
  <1>7. HeapOK(heap)
    <2>1. heap = [o \in Obj |-> heap[o]]
      BY DEF Init
    <2> QED
      BY <1>6, <2>1 DEF HeapOK
  <1>8. Exact(heap, Outside(rs, x, Nullptr))
    <2> SUFFICES ASSUME NEW o \in Obj
                 PROVE  /\ heap[o].ref_num = Outside(rs, x, Nullptr)[o]
                             + Cardinality(ShapeHolders(heap, o))
                             + Cardinality(StorageHolders(heap, o))
                        /\ heap[o].kind = "free" <=> heap[o].ref_num = 0
      BY DEF Exact
    <2>1. ShapeHolders(heap, o) = {} /\ StorageHolders(heap, o) = {}
      BY <1>6 DEF ShapeHolders, StorageHolders
    <2>2. One(Nullptr, o) = 0
      BY NothingHeld
    <2>3. Outside(rs, x, Nullptr)[o] = Base(o) /\ Base(o) \in Nat
      BY <1>4, <2>2, OutsideAt
    <2> QED
      BY <1>6, <2>1, <2>3, FS_EmptySet
  <1>9. \A o \in DOMAIN ConstCell : heap[o].kind = ConstCell[o].kind
    BY <1>6, RelaxAssumption
  <1>10. Config(heap, rs, x, Nullptr)
    BY <1>4, <1>5, <1>7, <1>8, <1>9 DEF Config
  <1>11. SpareOK(frames, frame_size, rs)
    BY <1>4, <1>5 DEF SpareOK
  <1> QED
    BY <1>1, <1>2, <1>m, <1>3, <1>10, <1>11 DEF CountInv, CountOK

(* Every step keeps the invariant.                                         *)
LEMMA CountStep == CountInv /\ [Next]_vars => CountInv'
  <1> SUFFICES ASSUME CountInv, [Next]_vars
               PROVE  CountInv'
    OBVIOUS
  <1>1. VMInv'
    BY VMStepOK DEF CountInv
  <1>2. CASE Step
    BY <1>1, <1>2, CallPackedCount, CallNullValueCount, QuietCount, CallVMFuncCount,
       RetToUserCount, RetToCallerCount DEF Step, CountInv
  <1>3. CASE \E f \in Callable :
       \/ \E i \in 0 .. NumParams(f) - 1, t \in Tensor : SetInput(f, i, t)
       \/ Run(f)
       \/ RunRefused(f)
    BY <1>1, <1>3, SetInputCount, RunCount, RunRefusedCount DEF CountInv
  <1>4. CASE Free
    BY <1>1, <1>4, FreeCount DEF CountInv
  <1>5. CASE UNCHANGED vars
    <2>1. UNCHANGED <<heap, regs, io, pc, cur, state, status, failed, frames, frame_size>>
      BY <1>5 DEF vars, vmVars, frameVars
    <2>2. FramesAt'
      BY <2>1, StaysAt DEF CountInv
    <2> QED
      BY <1>1, <2>1, <2>2 DEF CountInv, CountOK, MachineOK
  <1> QED
    BY <1>2, <1>3, <1>4, <1>5 DEF Next

(* So it holds at all times.                                               *)
LEMMA CountInvariant == Spec => []CountInv
  BY CountInit, CountStep, PTL DEF Spec

(* The types of the state; and in every register of a frame, every input   *)
(* and every output, a handle leads to a live cell of the kind its type    *)
(* code says, and a tensor to a live storage and shape, whichever          *)
(* addresses were reused (vm_builtin.c, relax_vm_register.h).              *)
THEOREM RelaxTypesHold == Spec => []RelaxTypeOK
  <1>1. CountInv => RelaxTypeOK
    <2> SUFFICES ASSUME CountInv
                 PROVE  RelaxTypeOK
      OBVIOUS
    <2>1. IInv /\ FramesAt /\ Config(heap, regs, io, Nullptr) /\ pc \in PC /\ MachineOK
      BY DEF CountInv, VMInv, CountOK
    <2>2. FramesTypeOK
      BY <2>1 DEF IInv, PoolOK, SlotsOK, FramesTypeOK
    <2>3. ASSUME NEW l \in FrameLocs
          PROVE  Sound(FrameValues[l])
      <3>1. PICK i \in 0 .. frame_size - 1 :
              \E r \in 0 .. frames[i].register_size - 1 : l = <<frames[i].registers, r>>
        BY DEF FrameLocs
      <3>2. l[1] \in Buffer /\ l[2] \in RegIdx
        BY <2>1, <3>1, FrameInUse
      <3> QED
        BY <2>1, <3>2, ConfigParts DEF FrameValues, SoundIn, Sound
    <2>4. ASSUME NEW l \in IoLocs
          PROVE  Sound(IoValues[l])
      <3>1. PICK f \in Func : \E i \in 0 .. NumParams(f) : l = <<f, i>>
        BY DEF IoLocs
      <3> QED
        BY <2>1, <3>1, ConfigParts DEF IoValues, SoundIn, Sound
    <2>5. \A t \in Obj : heap[t].kind = "tensor" =>
            /\ heap[heap[t].shape].kind = "shape"
            /\ heap[t].storage # NoObj => heap[heap[t].storage].kind = "storage"
      BY <2>1 DEF Config, HeapOK
    <2>6. /\ heap \in [Obj -> Cell] /\ regs \in [Buffer -> [RegIdx -> Value]]
          /\ \A f \in Func : io[f] \in [0 .. NumParams(f) -> Value]
      BY <2>1, ConfigParts DEF RegsOK, IoOK
    <2> QED
      BY <2>1, <2>2, <2>3, <2>4, <2>5, <2>6 DEF RelaxTypeOK, MachineOK
  <1> QED
    BY <1>1, CountInvariant, PTL

(* Reference counts are exact: nothing is freed while something refers to  *)
(* it, freed twice, or lost, through every call, return, failed packed     *)
(* call and reuse of a buffer; and a register of no frame refers to        *)
(* nothing, so that Copy may overwrite it (relax_vm_register.h:94).        *)
THEOREM ReferencesAreCounted == Spec => []RefCountsAreExact
  <1>1. CountInv => RefCountsAreExact
    <2> SUFFICES ASSUME CountInv
                 PROVE  RefCountsAreExact
      OBVIOUS
    <2>1. /\ IInv /\ FramesAt /\ Config(heap, regs, io, Nullptr)
          /\ SpareOK(frames, frame_size, regs)
      BY DEF CountInv, VMInv, CountOK
    <2>2. ASSUME NEW o \in Obj
          PROVE  /\ heap[o].ref_num = Base(o) + Holders(o)
                 /\ heap[o].kind = "free" <=> heap[o].ref_num = 0
      <3> DEFINE a == Cardinality(RegRefs(regs, o))
                 b == Cardinality(IoRefs(io, o))
                 c == Cardinality(ShapeHolders(heap, o))
                 d == Cardinality(StorageHolders(heap, o))
                 n == Outside(regs, io, Nullptr)[o]
      <3>1. n = Base(o) + a + b + One(Nullptr, o) /\ One(Nullptr, o) = 0
        BY OutsideAt, NothingHeld
      <3>2. heap[o].ref_num = n + c + d /\ (heap[o].kind = "free" <=> heap[o].ref_num = 0)
        BY <2>1 DEF Config, Exact
      <3>3. a \in Nat /\ b \in Nat /\ c \in Nat /\ d \in Nat /\ Base(o) \in Nat
        BY RefsFinite, HoldersFinite, OutsideAt
      <3>4. Holders(o) = a + b + c + d
        BY <2>1, LocsCount DEF Holders
      <3> HIDE DEF a, b, c, d, n
      <3> QED
        BY <3>1, <3>2, <3>3, <3>4
    <2>3. ASSUME NEW b \in Buffer, NEW r \in RegIdx, <<b, r>> \notin FrameLocs
          PROVE  regs[b][r].typecode \notin Counted
      BY <2>1, <2>3, LocsInUse DEF SpareOK, Uncounted
    <2> QED
      BY <2>2, <2>3 DEF RefCountsAreExact
  <1> QED
    BY <1>1, CountInvariant, PTL

(* What CallerRegistersKept says of one step. *)
RegistersKept ==
  \A i \in 0 .. frame_size - (IF frame_size' > frame_size THEN 1 ELSE 2) :
    i < frame_size' =>
      \A r \in RegIdx :
        regs'[frames[i].registers][r] = regs[frames[i].registers][r]
          \/ /\ i = frame_size - 2
             /\ frame_size' = frame_size - 1
             /\ r = Top.reg_caller_return

(* A step that leaves the registers:                                       *)
LEMMA RegsStay == regs' = regs => RegistersKept
  BY DEF RegistersKept

(* A frame below the top one has another buffer. *)
LEMMA LowerBuffer ==
  ASSUME CountInv, NEW i \in 0 .. frame_size - 2
  PROVE  /\ frames[i].registers \in Buffer /\ Top.registers \in Buffer
         /\ frames[i].registers # Top.registers
  <1>1. IInv /\ FramesAt /\ frame_size \in Nat
    BY PoolTypes DEF CountInv, VMInv
  <1>2. /\ i \in 0 .. frame_size - 1 /\ frame_size - 1 \in 0 .. frame_size - 1
        /\ i # frame_size - 1
    BY <1>1
  <1>3. /\ frames[i].registers \in Buffer /\ i \in 0 .. frame_capacity - 1
        /\ Top.registers \in Buffer /\ frame_size - 1 \in 0 .. frame_capacity - 1
    BY <1>1, <1>2, FrameInUse DEF Top
  <1>4. frames[i].registers # NoBuffer
    BY <1>3, FramesAssumption
  <1> QED
    BY <1>1, <1>2, <1>3, <1>4 DEF IInv, PoolOK, UnsharedOK, Top

(* a push, to which the arguments are copied before the caller is left:    *)
LEMMA PushKeepsRegisters ==
  ASSUME CountInv, NEW f \in Func, NEW p \in PC, NEW d \in RegisterName, NEW values,
         Enter(f, values, p, d)
  PROVE  RegistersKept
  <1>1. IInv /\ FramesAt /\ FramePush(NumRegs(f), p, d)
    BY DEF CountInv, VMInv, Enter
  <1>2. /\ frame_size \in Nat /\ frame_size' = frame_size + 1
        /\ \A i \in 0 .. frame_size - 1 :
             /\ frames[i].registers # frames'[frame_size].registers
             /\ \A c \in Buffer : bufcap'[c] # bufcap[c] => frames[i].registers # c
    BY <1>1, PushedFrame
  <1>3. ASSUME NEW i \in 0 .. frame_size - 1, NEW r \in RegIdx
        PROVE  regs'[frames[i].registers][r] = regs[frames[i].registers][r]
    <2> DEFINE c == frames[i].registers
    <2>1. c \in Buffer
      BY <1>1, FrameInUse
    <2>2. c # frames'[frame_size].registers /\ bufcap'[c] = bufcap[c]
      BY <1>2, <2>1
    <2> QED
      BY <2>1, <2>2 DEF Enter, Pushed
  <1> QED
    BY <1>2, <1>3 DEF RegistersKept

(* a packed call that writes a register of the top frame:                  *)
LEMMA CallKeepsRegisters ==
  ASSUME CountInv, NEW d, NEW v, frame_size' = frame_size,
         regs' = [regs EXCEPT ![Top.registers][d] = v]
  PROVE  RegistersKept
  <1>1. frame_size \in Nat
    BY PoolTypes DEF CountInv, VMInv
  <1>2. RegsOK(regs)
    BY ConfigParts DEF CountInv, CountOK
  <1>3. ASSUME NEW i \in 0 .. frame_size - 2
        PROVE  regs'[frames[i].registers] = regs[frames[i].registers]
    BY <1>2, LowerBuffer DEF RegsOK
  <1> QED
    BY <1>1, <1>3 DEF RegistersKept

(* a return, which writes one register of the caller and empties the top   *)
(* frame:                                                                  *)
LEMMA RetKeepsRegisters ==
  ASSUME CountInv, RetToUser \/ RetToCaller
  PROVE  RegistersKept
  <1>1. frame_size \in Nat /\ frame_size' = frame_size - 1
    BY RetPops, PoolTypes DEF CountInv, VMInv, FramePop
  <1>2. RegsOK(regs)
    BY ConfigParts DEF CountInv, CountOK
  <1>3. CASE RetToUser
    <2>1. frame_size <= 1
      BY <1>3 DEF RetToUser
    <2> QED
      BY <1>1, <2>1 DEF RegistersKept
  <1>4. CASE RetToCaller
    <2> SUFFICES ASSUME NEW i \in 0 .. frame_size - 2, NEW r \in RegIdx,
                        i = frame_size - 2 => r # Top.reg_caller_return
                 PROVE  regs'[frames[i].registers][r] = regs[frames[i].registers][r]
      BY <1>1 DEF RegistersKept
    <2> DEFINE c == frames[i].registers
               d == Top.reg_caller_return
               b == Caller.registers
               v == Named(regs[Top.registers], Instr.result)
               rs == [regs EXCEPT ![b][d] = v]
    <2>1. c \in Buffer /\ Top.registers \in Buffer /\ c # Top.registers
      BY LowerBuffer
    <2>2. c = b => i = frame_size - 2
      <3>1. IInv /\ FramesAt
        BY DEF CountInv, VMInv
      <3>2. frame_size - 2 \in 0 .. frame_size - 1 /\ i \in 0 .. frame_size - 1
        BY <1>1
      <3>3. frame_size - 2 \in 0 .. frame_capacity - 1 /\ i \in 0 .. frame_capacity - 1
        BY <3>1, <3>2, FrameInUse
      <3>4. c # NoBuffer
        BY <2>1, FramesAssumption
      <3> QED
        BY <3>1, <3>3, <3>4 DEF IInv, PoolOK, UnsharedOK, Caller
    <2>3. rs[c][r] = regs[c][r]
      <3>1. CASE c = b
        BY <1>2, <2>1, <2>2, <3>1 DEF RegsOK
      <3>2. CASE c # b
        BY <1>2, <2>1, <3>2 DEF RegsOK
      <3> QED
        BY <3>1, <3>2
    <2>4. CASE d < Caller.register_size
      <3>1. regs' = [rs EXCEPT ![Top.registers] =
              [q \in RegIdx |-> IF q \in 0 .. Top.register_size - 1
                                THEN Emptied(@[q]) ELSE @[q]]]
        BY <1>4, <2>4 DEF RetToCaller, Leave
      <3>2. rs = [e \in Buffer |-> rs[e]]
        BY <1>2 DEF RegsOK
      <3> HIDE DEF rs
      <3>3. regs'[c] = rs[c]
        BY <2>1, <3>1, <3>2
      <3> QED
        BY <2>3, <3>3
    <2>5. CASE ~ (d < Caller.register_size)
      <3>1. regs' = [regs EXCEPT ![Top.registers] =
              [q \in RegIdx |-> IF q \in 0 .. Top.register_size - 1
                                THEN Emptied(@[q]) ELSE @[q]]]
        BY <1>4, <2>5 DEF RetToCaller, Leave
      <3>2. regs'[c] = regs[c]
        BY <1>2, <2>1, <3>1 DEF RegsOK
      <3> QED
        BY <3>2
    <2> QED
      BY <2>4, <2>5
  <1> QED
    BY <1>3, <1>4

(* A call writes no register of the frames below it, but for the           *)
(* destination register of its caller when it returns (relax_vm_runner.c): *)
(* the frames have distinct buffers, and neither the growth of a buffer    *)
(* nor the reuse of one reaches a frame in use.                            *)
THEOREM RegistersOfCallersStay == Spec => CallerRegistersKept
  <1>1. CountInv /\ [Next]_vars => RegistersKept
    <2> SUFFICES ASSUME CountInv, [Next]_vars
                 PROVE  RegistersKept
      OBVIOUS
    <2>1. CASE CallPacked
      <3>1. PICK answer : PackedReturns(answer) \/ PackedFails(answer)
        BY <2>1 DEF CallPacked
      <3>2. frame_size' = frame_size
        BY <3>1 DEF PackedReturns, PackedFails, frameVars
      <3>3. regs' = regs \/ regs' = [regs EXCEPT ![Top.registers][Instr.dst] = answer.result]
        BY <3>1 DEF PackedReturns, PackedFails
      <3> QED
        BY <3>2, <3>3, CallKeepsRegisters, RegsStay
    <2>2. CASE CallNullValue
      <3>1. frame_size' = frame_size
            /\ regs' = [regs EXCEPT ![Top.registers][Instr.dst] =
                          Emptied(regs[Top.registers][Instr.dst])]
        BY <2>2 DEF CallNullValue, frameVars
      <3> QED
        BY <3>1, CallKeepsRegisters
    <2>3. CASE CallUndefined \/ Goto \/ If
      BY <2>3, RegsStay DEF CallUndefined, Goto, If
    <2>4. CASE CallVMFunc
      <3>1. Instr.func \in Func /\ pc + 1 \in PC
        BY <2>4, CallPushes DEF CountInv, VMInv
      <3>2. Instr.dst \in RegisterName /\ Enter(Instr.func, Args, pc + 1, Instr.dst)
        BY <2>4, ArgsOK DEF CallVMFunc, Fetch
      <3> QED
        BY <3>1, <3>2, PushKeepsRegisters
    <2>5. CASE RetToUser \/ RetToCaller
      BY <2>5, RetKeepsRegisters
    <2>6. CASE \E f \in Callable : Run(f)
      <3>1. PICK f \in Callable : Run(f)
        BY <2>6
      <3>2. f \in Func /\ pc \in PC /\ StaleDst \in RegisterName
        BY RelaxAssumption, StaleDstOK DEF CountInv, VMInv
      <3>3. Enter(f, [i \in 1 .. NumParams(f) |-> io[f][i - 1]], pc, StaleDst)
        BY <3>1 DEF Run
      <3> QED
        BY <3>2, <3>3, PushKeepsRegisters
    <2>7. CASE \E f \in Callable :
                 \/ \E i \in 0 .. NumParams(f) - 1, t \in Tensor : SetInput(f, i, t)
                 \/ RunRefused(f)
      BY <2>7, RegsStay DEF SetInput, RunRefused
    <2>8. CASE Free
      BY <2>8 DEF Free, FramesFree, RegistersKept
    <2>9. CASE UNCHANGED vars
      BY <2>9, RegsStay DEF vars, vmVars
    <2> QED
      BY <2>1, <2>2, <2>3, <2>4, <2>5, <2>6, <2>7, <2>8, <2>9 DEF Next, Step
  <1>2. RegistersKept <=> \A i \in 0 .. frame_size - (IF frame_size' > frame_size THEN 1 ELSE 2) :
       i < frame_size' =>
         \A r \in RegIdx :
           regs'[frames[i].registers][r] = regs[frames[i].registers][r]
             \/ /\ i = frame_size - 2
                /\ frame_size' = frame_size - 1
                /\ r = Top.reg_caller_return
    BY DEF RegistersKept
  <1> QED
    BY <1>1, <1>2, CountInvariant, PTL DEF Spec, CallerRegistersKept
=============================================================================
