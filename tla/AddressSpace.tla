------------------------------ MODULE AddressSpace ------------------------------
(* AddressSpaceInMemory, the server's store of nodes: creating nodes and references,  *)
(* writing attributes, setting value callbacks and methods, and the questions that    *)
(* browsing, browse paths, reading and calling ask of it. An action is what runs      *)
(* under one hold of DbMutex for one element of a request. SetValueCallback holds it  *)
(* not at all and SetMethod only shared: what a read or a call sees in the middle of  *)
(* their assignment is undefined and left out. Data-change callbacks are in           *)
(* SubscriptionService.                                                               *)
EXTENDS Naturals, Sequences, FiniteSets, Functions

CONSTANTS
  NodeItems,        \* the AddNodesItems that callers pass
  ReferenceItems,   \* the AddReferencesItems that callers pass
  WriteValues,      \* the values that callers write, as <<node, attribute, value>>
  Names,            \* QualifiedNames
  NoName,           \* the name "NONAME"
  BadValue,         \* a value with a status other than Good
  CallbackNodes,    \* nodes for which the server sets value callbacks and methods
  CallbackValue,    \* what a value callback returns
  MaxCalls,         \* bound on the number of AddNodes calls
  MaxReferences     \* bound on the references of a node that AddReferences adds to

VARIABLES
  space,     \* the members of the object
  log,       \* history: the AddNodes calls with their status and the id used
  written    \* history: the attributes that were written or had a callback set

vars == <<space, log, written>>

(* A node id is a namespace index and an identifier; identifier 0 asks for a new one. *)
NodeIds == Nat \X Nat

NodeClasses ==
  {"Object", "Variable", "Method", "ObjectType", "VariableType", "ReferenceType", "DataType",
   "View"}

ASSUME ItemsAssumption ==
  /\ \A i \in NodeItems :
       /\ {i.id, i.parent, i.type, i.definition} \subseteq NodeIds
       /\ i.name \in Names /\ i.class \in NodeClasses
  /\ \A i \in ReferenceItems :
       /\ {i.source, i.type, i.target} \subseteq NodeIds
       /\ i.class \in NodeClasses /\ i.forward \in BOOLEAN

ASSUME NamesAssumption == BadValue \notin Names

Null == <<0, 0>>

HasTypeDefinition == <<0, 40>>

CommonAttributes == {"BrowseName", "NodeClass"}

(* Attributes and References are functions of the nodes; GetValueCallback has the     *)
(* attributes, as <<node, attribute>>, and Method the nodes for which one is set.     *)
EmptySpace ==
  [Attributes |-> << >>, References |-> << >>, GetValueCallback |-> {}, Method |-> {},
   MaxNodeIdNum |-> 2000]

Init == space = EmptySpace /\ log = << >> /\ written = {}

Nodes(s) == DOMAIN s.Attributes

--------------------------------------------------------------------------------
(* Reading and calling.                                                             *)

HasAttribute(s, node, attribute) ==
  node \in Nodes(s) /\ attribute \in DOMAIN s.Attributes[node]

(* The stored value, the callback's, or BadNotReadable, which is a bad value too. *)
GetValue(s, node, attribute) ==
  IF ~HasAttribute(s, node, attribute) THEN BadValue
  ELSE IF <<node, attribute>> \in s.GetValueCallback THEN CallbackValue
  ELSE s.Attributes[node][attribute]

\* Faulty: the status of the value is not looked at.
FaultyNameOf(s, node) == GetValue(s, node, "BrowseName")

(* The name that a reference to the node gets: a value with a bad status becomes      *)
(* NONAME; one of another type, or a display name of another type, makes the          *)
(* conversion throw.                                                                  *)
NameOf(s, node) ==
  IF GetValue(s, node, "BrowseName") = BadValue THEN NoName
  ELSE GetValue(s, node, "BrowseName")

NameThrows(s, node) ==
  \E a \in {"BrowseName", "DisplayName"} :
    GetValue(s, node, a) \notin Names \cup {NoName, BadValue}

(* The status of a call; throws is whether the method itself does. *)
CallMethod(s, object, method, throws) ==
  CASE object \notin Nodes(s) \/ method \notin Nodes(s) -> "BadNodeIdUnknown"
    [] {object, method} \subseteq Nodes(s) /\ method \notin s.Method -> "BadNothingToDo"
    [] OTHER -> IF throws THEN "BadUnexpectedError" ELSE "Good"

--------------------------------------------------------------------------------
(* Browsing. A browse is described by the node, a direction, a reference type or     *)
(* Null, whether subtypes count, and the node classes wanted, none of them for all.   *)

TargetsOf(s, nodes) ==
  UNION {{r.target : r \in Range(s.References[n])} : n \in nodes \cap Nodes(s)}

(* The arguments of the nested calls of SelectNodesHierarchy, which keeps no record of *)
(* the nodes it has seen and follows references of every type and direction.          *)
Levels(s, nodes) ==
  LET level[k \in Nat] == IF k = 0 THEN nodes ELSE TargetsOf(s, level[k - 1]) IN level

HierarchyEnds(s, nodes) ==
  \E k \in 0 .. Cardinality(Nodes(s)) + 1 : Levels(s, nodes)[k] = {}

\* Faulty: the nodes asked for are left out.
FaultySelectNodesHierarchy(s, nodes) ==
  LET depth == CHOOSE k \in 0 .. Cardinality(Nodes(s)) + 1 : Levels(s, nodes)[k] = {}
  IN UNION {Levels(s, nodes)[k] : k \in 1 .. depth}

SelectNodesHierarchy(s, nodes) ==
  LET depth == CHOOSE k \in 0 .. Cardinality(Nodes(s)) + 1 : Levels(s, nodes)[k] = {}
  IN UNION {Levels(s, nodes)[k] : k \in 0 .. depth}

\* Faulty: subtypes never count.
FaultyIsSuitableReferenceType(s, reference, type, subtypes) == reference.type = type

IsSuitableReferenceType(s, reference, type, subtypes) ==
  IF subtypes THEN reference.type \in SelectNodesHierarchy(s, {type})
  ELSE reference.type = type

IsSuitableReference(s, desc, reference) ==
  /\ desc.direction = "Forward" => reference.forward
  /\ desc.direction = "Inverse" => ~reference.forward
  /\ desc.type # Null => IsSuitableReferenceType(s, reference, desc.type, desc.subtypes)
  /\ desc.classes # {} => reference.class \in desc.classes

Browse(s, desc) ==
  SelectSeq(s.References[desc.node], LAMBDA r : IsSuitableReference(s, desc, r))

(* The first reference with the name, whatever its type and direction. *)
FindElementInNode(s, node, name) ==
  LET references == s.References[node]
      found == {i \in DOMAIN references : references[i].name = name}
  IN IF found = {} THEN Null
     ELSE references[CHOOSE i \in found : \A j \in found : i <= j].target

TranslateBrowsePath(s, start, path) ==
  LET current[k \in 0 .. Len(path)] ==
        IF k = 0 THEN start
        ELSE IF current[k - 1] \notin Nodes(s) THEN Null
        ELSE FindElementInNode(s, current[k - 1], path[k])
  IN current[Len(path)]

--------------------------------------------------------------------------------
(* Creating nodes and references.                                                   *)

Description(type, target, class, name, forward) ==
  [type |-> type, target |-> target, class |-> class, name |-> name, forward |-> forward]

WithReference(s, source, description) ==
  [s EXCEPT !.References[source] = Append(@, description)]

\* Faulty: a target that does not exist is not refused.
FaultyAddReferenceFails(s, item) ==
  item.source \notin Nodes(s) \/ NameThrows(s, item.target)

(* AddReference answers BadSourceNodeIdInvalid or BadTargetNodeIdInvalid, throws, or   *)
(* adds the reference to the source; the target gets none back.                       *)
AddReferenceFails(s, item) ==
  item.source \notin Nodes(s) \/ item.target \notin Nodes(s) \/ NameThrows(s, item.target)

AddReference(s, item) ==
  IF AddReferenceFails(s, item) THEN s
  ELSE WithReference(s, item.source,
         Description(item.type, item.target, item.class, NameOf(s, item.target), item.forward))

DefaultIdx == 2

GetsNewNumber(id) == id[2] = 0

GetNewNodeId(s, id) ==
  CASE id = Null -> <<DefaultIdx, s.MaxNodeIdNum + 1>>
    [] id # Null /\ GetsNewNumber(id) -> <<id[1], s.MaxNodeIdNum + 1>>
    [] OTHER -> id

\* Faulty: only a null id takes a number, an id without identifier peeks at the next.
FaultyWithNumber(s, id) == IF id = Null THEN [s EXCEPT !.MaxNodeIdNum = @ + 1] ELSE s

WithNumber(s, id) ==
  IF GetsNewNumber(id) THEN [s EXCEPT !.MaxNodeIdNum = @ + 1] ELSE s

(* The attributes of a new node: requested ones never replace the common ones. *)
NewAttributes(item) ==
  [a \in CommonAttributes \cup DOMAIN item.attributes |->
     CASE a = "BrowseName" -> item.name
       [] a = "NodeClass" -> item.class
       [] OTHER -> item.attributes[a]]

WithNode(s, item, id) ==
  [s EXCEPT
     !.Attributes = [n \in Nodes(s) \cup {id} |->
                       IF n = id THEN NewAttributes(item) ELSE s.Attributes[n]],
     !.References = [n \in Nodes(s) \cup {id} |->
                       IF n = id THEN << >> ELSE s.References[n]]]

\* Faulty: the child is linked back to its parent.
FaultyWithParent(s, item, id) ==
  IF item.parent = Null THEN s
  ELSE WithReference(WithReference(s, item.parent,
                                   Description(item.type, id, item.class, item.name, TRUE)),
                     id, Description(item.type, item.parent, item.class, NoName, FALSE))

\* Faulty: the reference to the child gets no name.
FaultyWithNamelessParent(s, item, id) ==
  IF item.parent = Null THEN s
  ELSE WithReference(s, item.parent, Description(item.type, id, item.class, NoName, TRUE))

WithParent(s, item, id) ==
  IF item.parent = Null THEN s
  ELSE WithReference(s, item.parent,
                     Description(item.type, id, item.class, item.name, TRUE))

(* The link to the type definition is an AddReference whose status is not looked at. *)
TypeReference(item, id) ==
  [source |-> id, type |-> HasTypeDefinition, target |-> item.definition,
   class |-> "DataType", forward |-> TRUE]

\* Faulty: the link is made only if the node has a parent as well.
FaultyWithDefinition(s, item, id) ==
  IF item.definition = Null \/ item.parent = Null THEN s
  ELSE AddReference(s, TypeReference(item, id))

WithDefinition(s, item, id) ==
  IF item.definition = Null THEN s ELSE AddReference(s, TypeReference(item, id))

(* An exception of that AddReference leaves AddNodes when the node is already stored   *)
(* and linked to its parent.                                                          *)
DefinitionThrows(s, item) ==
  item.definition \in Nodes(s) /\ NameThrows(s, item.definition)

\* Faulty: an id that exists is taken again.
FaultyAddNodeStatus(s, item, id) ==
  IF item.parent # Null /\ item.parent \notin Nodes(s) THEN "BadParentNodeIdInvalid"
  ELSE IF DefinitionThrows(s, item) THEN "Throws" ELSE "Good"

\* Faulty: the type definition has to exist like the parent.
FaultyStrictAddNodeStatus(s, item, id) ==
  CASE id \in Nodes(s) -> "BadNodeIdExists"
    [] id \notin Nodes(s) /\ ~({item.parent, item.definition} \subseteq Nodes(s) \cup {Null}) ->
         "BadParentNodeIdInvalid"
    [] OTHER -> IF DefinitionThrows(s, item) THEN "Throws" ELSE "Good"

AddNodeStatus(s, item, id) ==
  CASE id \in Nodes(s) -> "BadNodeIdExists"
    [] id \notin Nodes(s) /\ item.parent # Null /\ item.parent \notin Nodes(s) ->
         "BadParentNodeIdInvalid"
    [] OTHER -> IF DefinitionThrows(s, item) THEN "Throws" ELSE "Good"

Accepted == {"Good", "Throws"}

Refused == {"BadNodeIdExists", "BadParentNodeIdInvalid"}

AddNode(s, item) ==
  LET id == GetNewNodeId(s, item.id)
      t == WithNumber(s, item.id)
  IN IF AddNodeStatus(s, item, id) \notin Accepted THEN t
     ELSE WithDefinition(WithParent(WithNode(t, item, id), item, id), item, id)

--------------------------------------------------------------------------------
AddNodes(item) ==
  LET id == GetNewNodeId(space, item.id) IN
  /\ Len(log) < MaxCalls
  /\ space' = AddNode(space, item)
  /\ log' = Append(log, [item |-> item, id |-> id, status |-> AddNodeStatus(space, item, id)])
  /\ UNCHANGED written

AddReferences(item) ==
  /\ item.source \in Nodes(space) => Len(space.References[item.source]) < MaxReferences
  /\ space' = AddReference(space, item)
  /\ UNCHANGED <<log, written>>

(* Write stores any value into any attribute that the node has. *)
Write(node, attribute, value) ==
  /\ HasAttribute(space, node, attribute)
  /\ space' = [space EXCEPT !.Attributes[node][attribute] = value]
  /\ written' = written \cup {<<node, attribute>>}
  /\ UNCHANGED log

(* What is set may be empty, and then takes the callback or the method away. *)
Assigned(set, element, empty) == IF empty THEN set \ {element} ELSE set \cup {element}

SetValueCallback(node, attribute, empty) ==
  /\ HasAttribute(space, node, attribute)
  /\ space' = [space EXCEPT !.GetValueCallback = Assigned(@, <<node, attribute>>, empty)]
  /\ written' = written \cup {<<node, attribute>>}
  /\ UNCHANGED log

SetMethod(node, empty) ==
  /\ node \in Nodes(space)
  /\ space' = [space EXCEPT !.Method = Assigned(@, node, empty)]
  /\ UNCHANGED <<log, written>>

Next ==
  \/ \E item \in NodeItems : AddNodes(item)
  \/ \E item \in ReferenceItems : AddReferences(item)
  \/ \E w \in WriteValues : Write(w[1], w[2], w[3])
  \/ \E n \in CallbackNodes, empty \in BOOLEAN : SetValueCallback(n, "BrowseName", empty)
  \/ \E n \in CallbackNodes, empty \in BOOLEAN : SetMethod(n, empty)

Spec == Init /\ [][Next]_vars

--------------------------------------------------------------------------------
Values ==
  (UNION {Range(NewAttributes(i)) : i \in NodeItems}) \cup {w[3] : w \in WriteValues}

Descriptions ==
  [type : NodeIds, target : NodeIds, class : NodeClasses, name : Names \cup {NoName},
   forward : BOOLEAN]

WellFormed(s) ==
  /\ DOMAIN s = DOMAIN EmptySpace
  /\ Nodes(s) \subseteq NodeIds
  /\ \A n \in Nodes(s) : CommonAttributes \subseteq DOMAIN s.Attributes[n]
  /\ \A n \in Nodes(s) : Range(s.Attributes[n]) \subseteq Values
  /\ s.References \in [Nodes(s) -> Seq(Descriptions)]
  /\ s.Method \subseteq Nodes(s)
  /\ \A c \in s.GetValueCallback : HasAttribute(s, c[1], c[2])
  /\ s.MaxNodeIdNum \in Nat

Calls == [item : NodeItems, id : NodeIds, status : Accepted \cup Refused]

(* The type invariant. *)
TypeOK == WellFormed(space) /\ log \in Seq(Calls)

(* Every reference leads to a node that exists, whatever was refused before: browsing  *)
(* and browse paths never hand out the id of a missing node.                           *)
NoDanglingReferences ==
  \A n \in Nodes(space) : \A r \in Range(space.References[n]) : r.target \in Nodes(space)

AcceptedCalls == {i \in DOMAIN log : log[i].status \in Accepted}

(* The nodes are those that AddNodes stored, and no two calls got the same one, even   *)
(* if an exception or a refusal ended some of them.                                    *)
OneNodePerAnswer ==
  /\ Nodes(space) = {log[i].id : i \in AcceptedCalls}
  /\ \A i, j \in AcceptedCalls : log[i].id = log[j].id => i = j

(* A generated id is refused as one that exists only if an earlier call asked for that *)
(* very id by itself: the counter never repeats a number.                              *)
GeneratedIdRefusedOnlyIfAsked ==
  \A i \in DOMAIN log :
    (GetsNewNumber(log[i].item.id) /\ log[i].status = "BadNodeIdExists") =>
      \E j \in AcceptedCalls : j < i /\ log[j].item.id = log[i].id

(* Both paths that copy a name into a reference, the link to a parent's new child and  *)
(* AddReference, copy the name of the target, and the copy stays right until somebody  *)
(* writes the name or sets a callback for it.                                          *)
NamesAreCurrent ==
  \A n \in Nodes(space) : \A r \in Range(space.References[n]) :
    \/ r.name = space.Attributes[r.target]["BrowseName"]
    \/ <<r.target, "BrowseName">> \in written

(* A node has the type definition that it was created with if the type was there       *)
(* first and had a proper name.                                                        *)
KnownTypesAreLinked ==
  \A i, j \in AcceptedCalls :
    (j < i /\ log[i].status = "Good" /\ log[i].item.definition = log[j].id) =>
      \E r \in Range(space.References[log[i].id]) :
         r.type = HasTypeDefinition /\ r.target = log[j].id

(* Who asked for a reference r of node n: AddNodes made it from the parent to the node, *)
(* or from the node to its type, or an item of AddReferences has it.                   *)
Link(r) == <<r.type, r.target, r.class, r.forward>>

AskedAsChild(n, r) ==
  \E i \in AcceptedCalls :
    /\ n # Null /\ n = log[i].item.parent
    /\ Link(r) = <<log[i].item.type, log[i].id, log[i].item.class, TRUE>>

AskedAsType(n, r) ==
  \E i \in AcceptedCalls :
    /\ n = log[i].id /\ log[i].item.definition # Null
    /\ Link(r) = <<HasTypeDefinition, log[i].item.definition, "DataType", TRUE>>

AskedAsReference(n, r) ==
  \E item \in ReferenceItems :
    n = item.source /\ Link(r) = <<item.type, item.target, item.class, item.forward>>

(* Nothing is linked that nobody asked to link: no call links a target back, and what  *)
(* is refused or thrown leaves no reference behind but those of a stored node.         *)
EveryReferenceWasAsked ==
  \A n \in Nodes(space) : \A r \in Range(space.References[n]) :
    AskedAsChild(n, r) \/ AskedAsType(n, r) \/ AskedAsReference(n, r)

(* Requests that hang types of a set below types of the set with a smaller rank, and    *)
(* nothing else below them.                                                             *)
Descending(nodeItems, referenceItems, types, rank) ==
  /\ \A i \in nodeItems :
       /\ i.parent \in types => i.id \in types /\ rank[i.parent] < rank[i.id]
       /\ i.id \in types => i.definition = Null
  /\ \A i \in referenceItems :
       i.source \in types => i.target \in types /\ rank[i.source] < rank[i.target]

(* Nothing is forgotten: no call removes a node, an attribute or a reference, or       *)
(* reorders references.                                                                *)
NothingForgotten ==
  [][\A n \in Nodes(space) :
       /\ n \in Nodes(space')
       /\ DOMAIN space.Attributes[n] \subseteq DOMAIN space'.Attributes[n]
       /\ \E k \in 0 .. Len(space'.References[n]) :
            space.References[n] = SubSeq(space'.References[n], 1, k)]_vars
================================================================================
