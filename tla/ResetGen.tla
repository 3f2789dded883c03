------------------------------- MODULE ResetGen -------------------------------
(***************************************************************************)
(* The generator of Reset methods (cmd/reset): which structures get one,   *)
(* and with which statement each field is reset.  It works on syntax       *)
(* alone: a type is the node of its expression, and what is behind a       *)
(* pointer is looked at as text.                                           *)
(***************************************************************************)
EXTENDS SequencesExt

CONSTANT Package   \* the structures declared in a package, by name

Primitives == {"bool", "int", "int8", "int16", "int32", "int64", "uint", "uint8",
               "uint16", "uint32", "uint64", "float32", "float64", "complex64",
               "complex128", "string", "byte", "rune"}

\* Type expressions.  "named" is an identifier or a selector, "struct" an anonymous
\* structure or an instance of a generic one, "other" a channel, a function or an
\* interface; what the elements of a slice or map are does not matter.
Named(name)   == [node |-> "named", name |-> name]
Slice         == [node |-> "slice"]
MapType       == [node |-> "map"]
Pointer(elem) == [node |-> "star", elem |-> elem]

\* name = "": an embedded field.  doc, group: the words generate:reset are in the
\* comment of the type, or of the declaration it is grouped in.
Field(name, type) == [name |-> name, type |-> type]
Struct(doc, group, file, fields) ==
  [doc |-> doc, group |-> group, file |-> file, fields |-> fields]

\* What the Go compiler makes sure of: the named fields have names of their own,
\* and a type expression is one of these nodes.
Nodes == {"named", "slice", "array", "map", "star", "struct", "other"}

WellFormed(s) ==
  /\ s.fields \in Seq(ToSet(s.fields))
  /\ \A i \in DOMAIN s.fields :
       /\ s.fields[i].type.node \in Nodes
       /\ s.fields[i].type.node = "star" => s.fields[i].type.elem.node \in Nodes
       /\ \A j \in DOMAIN s.fields : s.fields[i].name = s.fields[j].name =>
            i = j \/ s.fields[i].name = ""

\* internal/dto/example.go.
ResetableStruct ==
  Struct(TRUE, FALSE, "source",
         <<Field("i", Named("int")), Field("str", Named("string")),
           Field("strP", Pointer(Named("string"))), Field("s", Slice),
           Field("m", MapType), Field("child", Pointer(Named("ResetableStruct")))>>)

ComplexStruct ==
  Struct(TRUE, FALSE, "source",
         <<Field("ID", Named("int")), Field("Name", Named("string")),
           Field("Active", Named("bool")), Field("Tags", Slice),
           Field("Metadata", MapType), Field("Parent", Pointer(Named("ComplexStruct"))),
           Field("Count", Pointer(Named("int64"))), Field("Score", Pointer(Named("float64")))>>)

SimpleStruct ==
  Struct(TRUE, FALSE, "source", <<Field("Value", Named("int")), Field("Label", Named("string"))>>)

\* The fields of a structure, with their types.
Declared(s) ==
  [f \in {s.fields[i].name : i \in DOMAIN s.fields} |->
     s.fields[CHOOSE i \in DOMAIN s.fields : s.fields[i].name = f].type]

NormalStruct == Struct(FALSE, FALSE, "source", <<Field("Field", Named("string"))>>)

(***************************************************************************)
(* Which structures get a method, and for which of their fields.           *)
(***************************************************************************)
\* main walks over the tree, past tests, generated files and files that do not
\* parse.
Visited(s) == s.file = "source"

\* findResetableStructs, hasResetComment.
Marked(s) == s.doc \/ s.group

Generated == {name \in DOMAIN Package : Visited(Package[name]) /\ Marked(Package[name])}

\* extractFields skips embedded fields.
Extracted(s) ==
  FoldLeft(LAMBDA fields, f : IF f.name = "" THEN fields ELSE Append(fields, f),
           <<>>, s.fields)

(***************************************************************************)
(* The statement of a field.                                               *)
(***************************************************************************)
\* exprToString, as far as its readers go: an array reads like a slice.
Text(t) ==
  CASE t.node = "named" -> t.name
    [] t.node \in {"slice", "array"} -> "[]"
    [] t.node = "map" -> "map["
    [] OTHER -> t.node

\* generatePointerReset: the pointer stays, what it points to is reset.
PointerReset(elem) ==
  CASE Text(elem) = "[]" -> "truncatePointee"
    [] Text(elem) = "map[" -> "clearPointee"
    [] Text(elem) \in Primitives -> "zeroPointee"
    [] OTHER -> "resetPointee"

\* Faulty variant: every named type is taken for a structure.
FieldResetNamedFirst(t) ==
  CASE t.node = "star" -> PointerReset(t.elem)
    [] t.node = "slice" -> "truncate"
    [] t.node = "map" -> "clear"
    [] t.node = "named" -> "resetNested"
    [] OTHER -> "nil"

\* generateFieldReset.
FieldReset(t) ==
  CASE t.node = "star" -> PointerReset(t.elem)
    [] t.node = "slice" -> "truncate"
    [] t.node = "map" -> "clear"
    [] t.node = "named" -> IF Text(t) \in Primitives THEN "zero" ELSE "resetNested"
    [] OTHER -> "nil"

\* generateResetMethod: the body of a structure's method.
Method(s) == [i \in DOMAIN Extracted(s) |->
                [field |-> Extracted(s)[i].name, type |-> Extracted(s)[i].type,
                 does |-> FieldReset(Extracted(s)[i].type)]]

\* What the Go compiler accepts of it: arrays and structures have no nil, and an
\* array is no slice.
Compiles(s) ==
  \A i \in DOMAIN Method(s) :
    /\ Method(s)[i].does = "nil" => Method(s)[i].type.node = "other"
    /\ Method(s)[i].does = "truncatePointee" => Method(s)[i].type.elem.node = "slice"

(***************************************************************************)
(* What the statements do.                                                 *)
(***************************************************************************)
\* Whether a statement leaves its field zero or empty, when the structures of S
\* are empty after their Reset.  A nested structure without the method stays as
\* it is, and so does what is behind a pointer, unless it is a generated structure
\* (which keeps its place, and has its own Reset called).
Empties(step, S) ==
  CASE step.does = "resetNested" -> step.type.name \in S
    [] step.does = "resetPointee" -> FALSE
    [] OTHER -> TRUE

\* The structures that are empty after their Reset: every field, the embedded ones
\* too, has a statement that empties it.
EmptiedTogether(S) ==
  \A name \in S : \A i \in DOMAIN Package[name].fields :
    \E step \in ToSet(Method(Package[name])) :
      step.field = Package[name].fields[i].name /\ Empties(step, S)

Emptied == {name \in Generated : \E S \in SUBSET Generated : name \in S /\ EmptiedTogether(S)}
===============================================================================
