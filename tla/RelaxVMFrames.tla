--------------------------- MODULE RelaxVMFrames ---------------------------
(***************************************************************************)
(* The frame stack of the Relax virtual machine                            *)
(* (src/backends/relax_vm/relax_vm_runner.c).                              *)
(*                                                                         *)
(* The stack is one array of frame slots.  Slots below frame_size are in   *)
(* use; a slot above it keeps the register buffer of the call that last    *)
(* used it, so that a later call can take the buffer over instead of       *)
(* allocating one.  A buffer is a pointer, here a member of Buffer, and    *)
(* bufcap says how many registers the memory behind it really has.         *)
(***************************************************************************)
EXTENDS Naturals, FiniteSets

CONSTANTS
  Buffer,           \* register buffers the heap can hand out
  NoBuffer,         \* the null pointer
  DefaultCapacity,  \* TVM_RT_WASM_RelaxVMDefaultFrameCapacity (8 in the code)
  MaxFrames,        \* bound: the deepest stack explored
  RegisterCount,    \* the register_file_size values of the functions
  PC,               \* instruction indices
  RegisterName      \* destination registers of a call

ASSUME FramesAssumption ==
  /\ NoBuffer \notin Buffer
  /\ DefaultCapacity \in Nat \ {0}
  /\ MaxFrames \in Nat
  /\ RegisterCount \subseteq Nat
  /\ 0 \in PC
  /\ 0 \in RegisterName

VARIABLES
  frames,           \* the slots, indexed 0 .. frame_capacity - 1
  frame_size,
  frame_capacity,
  bufcap            \* registers behind each buffer, 0 when it is not allocated

frameVars == <<frames, frame_size, frame_capacity, bufcap>>

(* RelaxVMFrame, relax_vm.h:18. *)
Frame == [return_pc         : PC,
          reg_caller_return : RegisterName,
          registers         : Buffer \cup {NoBuffer},
          register_size     : Nat,
          register_capacity : Nat]

(* A slot fresh from memset. *)
ZeroFrame == [return_pc         |-> 0,
              reg_caller_return |-> 0,
              registers         |-> NoBuffer,
              register_size     |-> 0,
              register_capacity |-> 0]

FramesInit ==
  /\ frames = [i \in {} |-> ZeroFrame]
  /\ frame_size = 0
  /\ frame_capacity = 0
  /\ bufcap = [b \in Buffer |-> 0]

-----------------------------------------------------------------------------
(* Growing the array: it is allocated on the first push and doubled when   *)
(* it is full; the new slots are zeroed.                                   *)

GrownCapacity ==
  IF frame_size < frame_capacity THEN frame_capacity
  ELSE IF frame_capacity = 0 THEN DefaultCapacity
  ELSE 2 * frame_capacity

GrownFrames ==
  [i \in 0 .. GrownCapacity - 1 |->
     IF i < frame_capacity THEN frames[i] ELSE ZeroFrame]

(* Faulty variant: the search starts at the bottom of the stack. *)
ReusableAnywhere(n) ==
  {i \in 0 .. GrownCapacity - 1 : GrownFrames[i].register_capacity >= n}

(* The idle slots whose buffer is large enough for n registers, and the    *)
(* first of them, which is the one the search loop finds.                  *)
Reusable(n) ==
  {i \in frame_size + 1 .. GrownCapacity - 1 :
     GrownFrames[i].register_capacity >= n}

FirstReusable(n) ==
  CHOOSE i \in Reusable(n) : \A j \in Reusable(n) : i <= j

Fits(n) == GrownFrames[frame_size].register_capacity >= n

Unallocated == {b \in Buffer : bufcap[b] = 0}

(* The frame as the push leaves it.                                        *)
Entered(frame, n, p, d) ==
  [frame EXCEPT !.register_size = n, !.return_pc = p, !.reg_caller_return = d]

(* The slot's own buffer is large enough. *)
PushOwn(n, p, d) ==
  /\ Fits(n)
  /\ frames' = [GrownFrames EXCEPT ![frame_size] = Entered(@, n, p, d)]
  /\ UNCHANGED bufcap

(* Faulty variants of the exchange: the idle slot keeps its pointer, or    *)
(* both slots keep their capacities.                                       *)
PushSwapCopies(n, p, d) ==
  /\ ~ Fits(n)
  /\ Reusable(n) # {}
  /\ LET idle == GrownFrames[FirstReusable(n)]
     IN frames' = [GrownFrames EXCEPT
          ![frame_size] = Entered([@ EXCEPT
                              !.registers = idle.registers,
                              !.register_capacity = idle.register_capacity],
                            n, p, d)]
  /\ UNCHANGED bufcap

PushSwapPointersOnly(n, p, d) ==
  /\ ~ Fits(n)
  /\ Reusable(n) # {}
  /\ LET top == GrownFrames[frame_size]
         i   == FirstReusable(n)
     IN frames' =
          [GrownFrames EXCEPT
             ![i].registers = top.registers,
             ![frame_size] = Entered([top EXCEPT
                               !.registers = GrownFrames[i].registers], n, p, d)]
  /\ UNCHANGED bufcap

(* It is not, but an idle slot's is: the two slots exchange buffers. *)
PushSwap(n, p, d) ==
  /\ ~ Fits(n)
  /\ Reusable(n) # {}
  /\ LET top  == GrownFrames[frame_size]
         i    == FirstReusable(n)
         idle == GrownFrames[i]
     IN frames' =
          [GrownFrames EXCEPT
             ![i] = [idle EXCEPT !.registers = top.registers,
                                 !.register_capacity = top.register_capacity],
             ![frame_size] = Entered([top EXCEPT
                                 !.registers = idle.registers,
                                 !.register_capacity = idle.register_capacity],
                               n, p, d)]
  /\ UNCHANGED bufcap

(* No buffer is large enough: the slot's is freed and a new one allocated. *)
PushAlloc(n, p, d) ==
  /\ ~ Fits(n)
  /\ Reusable(n) = {}
  /\ Unallocated # {}
  /\ LET top == GrownFrames[frame_size]
         b   == CHOOSE c \in Unallocated : TRUE
     IN /\ frames' = [GrownFrames EXCEPT
             ![frame_size] = Entered([top EXCEPT !.registers = b,
                                                 !.register_capacity = n],
                                     n, p, d)]
        /\ bufcap' = [c \in Buffer |-> IF c = b THEN n
                                       ELSE IF c = top.registers THEN 0
                                       ELSE bufcap[c]]

(* Push a frame of n registers that returns to p and whose result goes to  *)
(* register d of the caller.                                               *)
FramePush(n, p, d) ==
  /\ frame_size < MaxFrames
  /\ frame_size' = frame_size + 1
  /\ frame_capacity' = GrownCapacity
  /\ PushOwn(n, p, d) \/ PushSwap(n, p, d) \/ PushAlloc(n, p, d)

(* The top frame leaves the stack; its buffer stays with the slot. *)
FramePop ==
  /\ frame_size > 0
  /\ frame_size' = frame_size - 1
  /\ frames' = [frames EXCEPT ![frame_size - 1].register_size = 0]
  /\ UNCHANGED <<frame_capacity, bufcap>>

(* Freeing the machine: every buffer, then the array. *)
FramesFree ==
  /\ bufcap' = [b \in Buffer |->
       IF \E i \in DOMAIN frames : frames[i].registers = b
       THEN 0 ELSE bufcap[b]]
  /\ frames' = [i \in {} |-> ZeroFrame]
  /\ frame_size' = 0
  /\ frame_capacity' = 0

FramesNext ==
  \/ \E n \in RegisterCount, p \in PC, d \in RegisterName : FramePush(n, p, d)
  \/ FramePop
  \/ FramesFree

FramesSpec == FramesInit /\ [][FramesNext]_frameVars

-----------------------------------------------------------------------------
FramesTypeOK ==
  /\ frame_capacity \in Nat
  /\ frame_size \in 0 .. frame_capacity
  /\ frames \in [0 .. frame_capacity - 1 -> Frame]
  /\ bufcap \in [Buffer -> Nat]

(* What the push relies on when it hands an idle slot's buffer to a call,  *)
(* "vm->frames[i].register_size is 0": a slot above the stack has no       *)
(* register in use, so nobody reads the buffer that is taken from it.      *)
IdleFramesAreEmpty ==
  \A i \in frame_size .. frame_capacity - 1 : frames[i].register_size = 0

(* A buffer belongs to one slot: exchanging and reallocating buffers never *)
(* leaves two calls on the same registers, and each buffer that is         *)
(* allocated is reachable from a slot, so that the loop over the slots in  *)
(* RelaxVirtualMachineFree frees them all.                                 *)
BuffersHaveOneSlot ==
  /\ \A i, j \in 0 .. frame_capacity - 1 :
       /\ frames[i].registers = frames[j].registers
       /\ frames[i].registers # NoBuffer
       => i = j
  /\ \A b \in Buffer : bufcap[b] > 0 =>
       \E i \in 0 .. frame_capacity - 1 : frames[i].registers = b

(* The capacity a slot remembers is the size of the memory it points to,   *)
(* and no call indexes past it.                                            *)
RegistersInBounds ==
  \A i \in 0 .. frame_capacity - 1 :
    /\ frames[i].register_size <= frames[i].register_capacity
    /\ frames[i].register_capacity =
         IF frames[i].registers = NoBuffer THEN 0
         ELSE bufcap[frames[i].registers]

(* A call never touches the frames below it: while they stay on the stack  *)
(* their registers, sizes and return addresses do not move, although the   *)
(* array that holds them may be reallocated.                               *)
LowerFramesKept ==
  [][frame_capacity' # 0 =>
       \A i \in 0 .. frame_capacity - 1 :
         i < frame_size /\ i < frame_size' => frames'[i] = frames[i]]_frameVars
=============================================================================
