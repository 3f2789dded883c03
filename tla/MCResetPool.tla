----------------------------- MODULE MCResetPool -----------------------------
(* ResetPool on instances TLC can explore.                                 *)
EXTENDS ResetPool

CONSTANTS u1, u2, r1, r2, m1, m2, l1, l2, f1, f2, t1

\* What the structures of the repository do not have: an embedded field, types
\* of other packages, pointers to pointers, a channel, a comment on the group, a
\* nested structure that keeps a field of its own.
mixed == Struct(FALSE, TRUE, "source",
                <<Field("", Named("SimpleStruct")), Field("at", Named("Time")),
                  Field("simple", Named("SimpleStruct")),
                  Field("normal", Pointer(Named("NormalStruct"))),
                  Field("list", Pointer(Slice)), Field("index", Pointer(MapType)),
                  Field("deep", Pointer(Pointer(Named("int")))),
                  Field("partly", Named("partial")),
                  Field("done", [node |-> "other"])>>)

partial == Struct(TRUE, FALSE, "source", <<Field("i", Named("int")), Field("at", Named("Time"))>>)

\* As long as its fields are independent, what a structure of two says holds for
\* the longer ones: a link and a value.
linked == Struct(TRUE, FALSE, "source",
                 <<Field("i", Named("int")), Field("child", Pointer(Named("linked")))>>)

\* Two types whose structures lead to each other.
first  == Struct(TRUE, FALSE, "source", <<Field("i", Named("int")), Field("next", Pointer(Named("second")))>>)
second == Struct(TRUE, FALSE, "source", <<Field("back", Pointer(Named("first")))>>)

mcPackage == [ResetableStruct |-> ResetableStruct, ComplexStruct |-> ComplexStruct,
              SimpleStruct |-> SimpleStruct, NormalStruct |-> NormalStruct,
              mixed |-> mixed, partial |-> partial, linked |-> linked,
              first |-> first, second |-> second,
              inTest |-> Struct(TRUE, FALSE, "test", <<Field("i", Named("int"))>>)]
mcUsers   == {u1, u2}
mcObjects == {r1, r2, m1, m2, l1, l2, f1, f2, t1}
mcKind ==
  [o \in mcObjects |->
     CASE o \in {r1, r2} -> "ResetableStruct"
       [] o \in {m1, m2} -> "mixed" [] o \in {l1, l2} -> "linked"
       [] o \in {f1, f2} -> "first" [] o = t1 -> "second"]
=============================================================================
