------------------------------ MODULE Tensors ------------------------------
(***************************************************************************)
(* tensor/shape.hpp, tensor/tensor.hpp and src/tensor/tensor.cpp: shapes,  *)
(* views of a Storage, and its life, which ends with its last view.  The   *)
(* copies to and from the host, and the stream a Storage notes, are left   *)
(* to Executor.  Extents are natural numbers, as Graph makes sure, and     *)
(* assertions are off: a debug build stops at a rank above kMaxRank.       *)
(***************************************************************************)
EXTENDS Integers, Sequences, FiniteSets, SequencesExt, FiniteSetsExt, Functions, TLC

CONSTANTS
  kMaxRank,
  Extents,      (* the extents of shapes                                    *)
  DTypeSizes,   (* dtype_size of the dtypes                                 *)
  TensorNames,  (* the client's Tensor variables                            *)
  BlockSizes    (* the bytes of the blocks the allocator gives              *)

ASSUME TensorsAssumption ==
  /\ kMaxRank \in Nat /\ BlockSizes \subseteq Nat /\ BlockSizes # {}
  /\ Extents \subseteq Nat /\ DTypeSizes \subseteq Nat \ {0}

VARIABLES
  views,     (* the Tensor in each variable                                 *)
  storages   (* the bytes of each Storage that exists                       *)

tensorVars == <<views, storages>>

-----------------------------------------------------------------------------
(* Shape: the rank is cut to kMaxRank, strides are row-major.              *)

Shape(dims) == SubSeq(dims, 1, Min({Len(dims), kMaxRank}))

Shapes == {Shape(dims) : dims \in UNION {[1 .. rank -> Extents] : rank \in 0 .. kMaxRank + 1}}

product(dims) == FoldLeft(LAMBDA n, d : n * d, 1, dims)

numel(dims) == product(dims)
rows(dims) == product(SubSeq(dims, 1, Len(dims) - 1))
cols(dims) == IF dims = <<>> THEN 0 ELSE Last(dims)

stride(dims, i) == product(SubSeq(dims, i + 1, Len(dims)))

offset_of_index(dims, idx) ==
  FoldLeftDomain(LAMBDA off, i : off + idx[i] * stride(dims, i), 0, dims)

-----------------------------------------------------------------------------
(* A view: bytes of a Storage from an offset on.                           *)

View(s, offset, dims, size) ==
  [storage |-> s, offset |-> offset, shape |-> dims, size |-> size]

Undefined == View(0, 0, <<>>, 1)
defined(t) == views[t].storage # 0

nbytes(v) == numel(v.shape) * v.size
Bytes(v) == v.offset .. v.offset + nbytes(v) - 1

(* A variable is assigned: a Storage that no view holds is destroyed.      *)
Held(vs) == {vs[u].storage : u \in TensorNames} \ {0}

Assign(t, v, existing) ==
  /\ views' = [views EXCEPT ![t] = v]
  /\ storages' = Restrict(existing, Held(views'))

(* The allocator (external) may give more than was asked.                  *)
NewStorage(t) == Min({s \in 1 .. Cardinality(TensorNames) :
                        s \notin Held([views EXCEPT ![t] = Undefined])})

Empty(t, dims, size) ==
  LET need == numel(dims) * size
  IN  /\ need # 0
      /\ \E got \in BlockSizes :
           /\ need <= got
           /\ Assign(t, View(NewStorage(t), 0, dims, size), (NewStorage(t) :> got) @@ storages)

from_storage(t, s, byte_offset, dims, size) ==
  /\ byte_offset + numel(dims) * size <= storages[s]
  /\ byte_offset % size = 0
  /\ Assign(t, View(s, byte_offset, dims, size), storages)

reshape(t, of, dims) ==
  /\ defined(of) /\ numel(dims) = numel(views[of].shape)
  /\ Assign(t, [views[of] EXCEPT !.shape = dims], storages)

MutFits(elem_offset, dims, parent) == elem_offset <= numel(parent)
Fits(elem_offset, dims, parent) == elem_offset + numel(dims) <= numel(parent)

Sliced(v, elem_offset, dims) ==
  [v EXCEPT !.offset = @ + elem_offset * v.size, !.shape = dims]

slice(t, of, elem_offset, dims) ==
  /\ defined(of) /\ Fits(elem_offset, dims, views[of].shape)
  /\ Assign(t, Sliced(views[of], elem_offset, dims), storages)

Release(t) == defined(t) /\ Assign(t, Undefined, storages)

TensorInit ==
  /\ views = [t \in TensorNames |-> Undefined]
  /\ storages = <<>>

Offsets == 0 .. Max(BlockSizes)

TensorNext ==
  \E t \in TensorNames :
    \/ Release(t)
    \/ \E dims \in Shapes :
         \/ \E size \in DTypeSizes : Empty(t, dims, size)
         \/ \E s \in DOMAIN storages, offset \in Offsets, size \in DTypeSizes :
              from_storage(t, s, offset, dims, size)
         \/ \E of \in TensorNames :
              \/ reshape(t, of, dims)
              \/ \E offset \in Offsets : slice(t, of, offset, dims)

-----------------------------------------------------------------------------
(* Through any chain of views: the elements of a tensor, in the order of   *)
(* their indices, are consecutive, aligned and within its Storage, which   *)
(* still exists; and the slices it grants are those within itself.         *)
Indices(dims) == {idx \in [DOMAIN dims -> 0 .. Max(Extents)] :
                    \A i \in DOMAIN dims : idx[i] < dims[i]}

ComesBefore(x, y) ==
  \E i \in DOMAIN x : x[i] < y[i] /\ \A j \in 1 .. i - 1 : x[j] = y[j]

ViewsAreExact ==
  \A t \in TensorNames : defined(t) =>
    LET v == views[t]
        at(idx) == v.offset + v.size * offset_of_index(v.shape, idx)
    IN  /\ v.storage \in DOMAIN storages
        /\ v.offset % v.size = 0
        /\ Bytes(v) \subseteq 0 .. storages[v.storage] - 1
        /\ \A dims \in Shapes, k \in Offsets :
             numel(dims) # 0 =>
               (Fits(k, dims, v.shape) <=> Bytes(Sliced(v, k, dims)) \subseteq Bytes(v))
        /\ {at(idx) : idx \in Indices(v.shape)}
             = {v.offset + k * v.size : k \in 0 .. numel(v.shape) - 1}
        /\ \A x, y \in Indices(v.shape) : ComesBefore(x, y) => at(x) < at(y)
        /\ v.shape # <<>> => rows(v.shape) * cols(v.shape) = numel(v.shape)
=============================================================================
