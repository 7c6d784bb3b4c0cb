-------------------------- MODULE RelaxVMRegister --------------------------
(***************************************************************************)
(* The values a Relax VM register holds and the reference-counted heap     *)
(* behind them (src/backends/relax_vm/relax_vm_register.h).                *)
(*                                                                         *)
(* A register is a type code and a value.  Five kinds of values matter:    *)
(* integers, tensors the user owns (DLTensorHandle), tensors the machine   *)
(* manages (ManagedDLTensor), machine objects (storages, shape tuples,     *)
(* strings) and the machine itself.  Managed tensors and objects carry a   *)
(* reference count; a managed tensor also counts as a holder of its shape  *)
(* and of its storage.                                                     *)
(***************************************************************************)
EXTENDS Integers, FiniteSets

CONSTANTS
  Obj,       \* addresses of heap cells
  NoObj,     \* the null object pointer
  Tensor     \* DLTensors that belong to the user or to the module

ASSUME RegisterAssumption == NoObj \notin Obj /\ IsFiniteSet(Obj)

Int64(n)      == [typecode |-> "Int", value |-> n]
Nullptr       == [typecode |-> "Nullptr", value |-> 0]
TensorHandle(t) == [typecode |-> "DLTensorHandle", value |-> t]
ObjectHandle  == [typecode |-> "ObjectHandle", value |-> 0]
Managed(o)    == [typecode |-> "ManagedDLTensor", value |-> o]
Storage(o)    == [typecode |-> "VMObjectStorage", value |-> o]
ShapeTuple(o) == [typecode |-> "VMObjectShapeTuple", value |-> o]
String(o)     == [typecode |-> "VMObjectString", value |-> o]

(* The type codes whose value is a counted reference: ManagedDLTensor and  *)
(* those under RelaxVMRegType_VMObjectMask.                                *)
Counted == {"ManagedDLTensor", "VMObjectStorage", "VMObjectShapeTuple",
            "VMObjectString"}

Value ==
  [typecode : {"Int"}, value : Int]
    \cup [typecode : {"Nullptr", "ObjectHandle"}, value : {0}]
    \cup [typecode : {"DLTensorHandle"}, value : Tensor]
    \cup [typecode : Counted, value : Obj]

Owns(v, o) == v.typecode \in Counted /\ v.value = o

(* What is left of a register whose value was freed: only the type code of *)
(* a counted value is overwritten.                                         *)
Emptied(v) == IF v.typecode \in Counted THEN Nullptr ELSE v

-----------------------------------------------------------------------------
(* The heap maps every address to a cell; a cell of kind "free" is not     *)
(* allocated.  shape and storage are the two fields of a managed tensor.   *)

Kind == {"free", "tensor", "storage", "shape", "string"}

Cell == [kind : Kind, ref_num : Int, shape : Obj \cup {NoObj},
         storage : Obj \cup {NoObj}]

FreeCell ==
  [kind |-> "free", ref_num |-> 0, shape |-> NoObj, storage |-> NoObj]

ObjectCell(kind) ==
  [kind |-> kind, ref_num |-> 1, shape |-> NoObj, storage |-> NoObj]

TensorCell(shape, storage) ==
  [kind |-> "tensor", ref_num |-> 1, shape |-> shape, storage |-> storage]

FreeAddress(h) == {o \in Obj : h[o].kind = "free"}

(* The address the allocator returns. *)
Fresh(h) == CHOOSE o \in FreeAddress(h) : TRUE

(* How many of the registers rs[i], i \in D, hold a reference to o. *)
References(rs, D, o) == Cardinality({i \in D : Owns(rs[i], o)})

(* The tensors of h that hold o as their shape, or as their storage. *)
ShapeHolders(h, o)   == {t \in Obj : h[t].kind = "tensor" /\ h[t].shape = o}
StorageHolders(h, o) == {t \in Obj : h[t].kind = "tensor" /\ h[t].storage = o}

(* RegisterCopy of the registers rs[i], i \in D, into empty registers. *)
Retain(h, rs, D) ==
  [o \in Obj |-> [h[o] EXCEPT !.ref_num = @ + References(rs, D, o)]]

(* RegisterFreeValue on each of the registers rs[i], i \in D.  A count     *)
(* that reaches zero frees the cell, and a tensor that is freed lets go    *)
(* of its shape and its storage.                                           *)
Release(h, rs, D) ==
  LET left(o) == h[o].ref_num - References(rs, D, o)
      dead    == {t \in Obj : /\ h[t].kind = "tensor"
                              /\ References(rs, D, t) > 0
                              /\ left(t) = 0}
      dropped(o) == References(rs, D, o)
                      + Cardinality(ShapeHolders(h, o) \cap dead)
                      + Cardinality(StorageHolders(h, o) \cap dead)
  IN [o \in Obj |->
        IF dropped(o) > 0 /\ h[o].ref_num = dropped(o)
        THEN FreeCell
        ELSE [h[o] EXCEPT !.ref_num = @ - dropped(o)]]

(* The two on a single register. *)
RetainOne(h, v)  == Retain(h, <<v>>, {1})
ReleaseOne(h, v) == Release(h, <<v>>, {1})
=============================================================================
