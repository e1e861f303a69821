----------------------------- MODULE StandardCalls -----------------------------
(* The form in which the modules StandardAddressSpacePart<N> write the calls that fill *)
(* the address space: a call is a record with the parameters the address space uses.  *)
EXTENDS Naturals, Sequences, SequencesExt

(* The standard nodes are in namespace 0. *)
Id(number) == <<0, number>>

None == 0

(* Identifiers of the reference types. *)
Organizes == 35
HasModellingRule == 37
HasEncoding == 38
HasDescription == 39
HasSubtype == 45
HasProperty == 46
HasComponent == 47
FromState == 51
ToState == 52
HasCause == 53
HasEffect == 54
HasTrueSubState == 9004

(* A call of AddNodes with one item. *)
Node(id, name, class, parent, reference, definition, attributes) ==
  [op |-> "AddNodes", id |-> Id(id), name |-> name, class |-> class,
   parent |-> Id(parent), type |-> Id(reference), definition |-> Id(definition),
   attributes |-> attributes]

NoAttributes == << >>

Object(id, name, parent, reference, definition) ==
  Node(id, name, "Object", parent, reference, definition, NoAttributes)

Variable(id, name, parent, reference, definition, datatype) ==
  Node(id, name, "Variable", parent, reference, definition,
       [Value |-> "value", DataType |-> Id(datatype)])

ObjectType(id, name, parent, reference) ==
  Node(id, name, "ObjectType", parent, reference, None, NoAttributes)

VariableType(id, name, parent, reference, datatype) ==
  Node(id, name, "VariableType", parent, reference, None,
       [Value |-> "value", DataType |-> Id(datatype)])

DataType(id, name, parent, reference) ==
  Node(id, name, "DataType", parent, reference, None, NoAttributes)

ReferenceType(id, name, parent, reference) ==
  Node(id, name, "ReferenceType", parent, reference, None, NoAttributes)

(* Items of one type of a call of AddReferences; all of them are forward and declare  *)
(* their target a data type, whatever it is.                                          *)
Links(source, type, targets) ==
  [op |-> "AddReferences",
   items |-> [i \in DOMAIN targets |->
                [source |-> Id(source), type |-> Id(type), target |-> Id(targets[i]),
                 class |-> "DataType", forward |-> TRUE]]]
================================================================================
