-------------------------- MODULE StandardAddressSpace --------------------------
(* FillStandardNamespace: the server fills its empty address space with the nodes that *)
(* the OPC UA specification prescribes, one call at a time, and looks at no result.   *)
(* ServerObject then uses what is there.  The code's calls are in StandardNamespace.  *)
EXTENDS AddressSpace, StandardCalls

CONSTANT Stretches   \* the calls, in stretches of which each is performed in a step

VARIABLE position    \* of the next stretch of calls

fillVars == <<vars, position>>

PerformedCalls == UNION {Range(stretch) : stretch \in Range(Stretches)}

(* The items of all AddNodes calls, and of all AddReferences calls. *)
Requested == {call \in PerformedCalls : call.op = "AddNodes"}

ReferenceCalls == {call \in PerformedCalls : call.op # "AddNodes"}

RequestedReferences == UNION {Range(call.items) : call \in ReferenceCalls}

(* The calls are among those that AddressSpace is about; every node is asked for with  *)
(* its number.                                                                         *)
ASSUME CallsAssumption ==
  /\ Stretches \in Seq(Range(Stretches))
  /\ \A stretch \in Range(Stretches) : stretch \in Seq(Range(stretch))
  /\ \A call \in ReferenceCalls : call.items \in Seq(Range(call.items))
  /\ Requested \subseteq NodeItems /\ RequestedReferences \subseteq ReferenceItems
  /\ \A call \in Requested : ~GetsNewNumber(call.id)

ReferenceTypes == {call.id : call \in {c \in Requested : c.class = "ReferenceType"}}

(* The calls hang reference types below reference types with smaller numbers, by       *)
(* HasSubtype only.                                                                    *)
ASSUME ReferenceTypesDescend ==
  /\ Descending(Requested, RequestedReferences, ReferenceTypes,
                [t \in ReferenceTypes |-> t[2]])
  /\ \A call \in Requested : call.parent \in ReferenceTypes => call.type = Id(HasSubtype)
  /\ \A item \in RequestedReferences :
       item.source \in ReferenceTypes => item.type = Id(HasSubtype)

RequestedIds == {call.id : call \in Requested}

(* A node that some order of the calls would make: it has no parent, or a call makes it. *)
Makes(call) == call.op = "AddNodes" /\ call.parent \in RequestedIds \cup {Null}

(* The code's order: the call that makes a parent comes before those for its children. *)
ASSUME ParentsFirst ==
  \A i \in DOMAIN Stretches : \A j \in DOMAIN Stretches[i] :
    (Makes(Stretches[i][j]) /\ Stretches[i][j].parent # Null) =>
      \E k \in 1 .. i : \E l \in DOMAIN Stretches[k] :
        /\ k < i \/ l < j
        /\ Stretches[k][l].op = "AddNodes" /\ Stretches[k][l].id = Stretches[i][j].parent
        /\ Makes(Stretches[k][l])

--------------------------------------------------------------------------------
Perform(s, call) ==
  IF call.op = "AddNodes" THEN AddNode(s, call) ELSE FoldLeft(AddReference, s, call.items)

FillInit == Init /\ position = 1

(* Nothing else runs yet: a step performs the calls of one definition of the parts. *)
Fill ==
  /\ position <= Len(Stretches)
  /\ space' = FoldLeft(Perform, space, Stretches[position])
  /\ position' = position + 1
  /\ UNCHANGED <<log, written>>

FillSpec == FillInit /\ [][Fill]_fillVars

Filled == position > Len(Stretches)

--------------------------------------------------------------------------------
OfClass(class) == {n \in Nodes(space) : space.Attributes[n]["NodeClass"] = class}

(* A browse that asks for a reference type with its subtypes ends, whichever type it   *)
(* names, at every point of the start: SelectNodesHierarchy follows references of all  *)
(* kinds and would run for ever round a cycle, of which the address space has many.    *)
BrowsingEnds == \A t \in OfClass("ReferenceType") : HierarchyEnds(space, {t})

Subtypes(type) ==
  LET direct(n) == {r.target : r \in {q \in Range(space.References[n]) : q.type = Id(HasSubtype)}}
      level[k \in Nat] == IF k = 0 THEN {type} ELSE UNION {direct(n) : n \in level[k - 1]}
      depth == CHOOSE k \in 0 .. Cardinality(Nodes(space)) + 1 : level[k] = {}
  IN UNION {level[k] : k \in 0 .. depth}

(* What SelectNodesHierarchy takes for the subtypes of a reference type are its        *)
(* subtypes, although it follows more than HasSubtype references.                      *)
SubtypesAreExact ==
  Filled => \A t \in OfClass("ReferenceType") : SelectNodesHierarchy(space, {t}) = Subtypes(t)

(* No node is lost to the order of the calls: AddNodes refuses only nodes whose parent *)
(* no call creates at all.                                                             *)
OrderLosesNoNode ==
  position > 1 =>
    \A i \in DOMAIN Stretches[position - 1] :
      LET call == Stretches[position - 1][i] IN
      (call.op = "AddNodes" /\ call.id \notin Nodes(space)) =>
        call.parent \notin {q.id : q \in Requested}

(* What a client finds that browses the hierarchical references, node after node, from *)
(* the root folder down to a depth.                                                    *)
RootFolder == Id(84)

HierarchicalBrowse(node) ==
  Browse(space, [node |-> node, direction |-> "Forward", type |-> Id(33), subtypes |-> TRUE,
                 classes |-> {}])

Depth == 12

BrowseOn(s, k) ==
  LET new == (UNION {{r.target : r \in Range(HierarchicalBrowse(n))} : n \in s.new}) \ s.all
  IN [new |-> new, all |-> s.all \cup new]

BrowsedFrom(node) ==
  FoldLeft(BrowseOn, [new |-> {node}, all |-> {node}], [k \in 1 .. Depth |-> k]).all

(* A client that starts at the root folder finds every type: the types that are made   *)
(* without a parent are linked by a reference that comes late enough.                  *)
BrowsingFindsEveryType ==
  Filled => UNION {OfClass(c) : c \in {"ObjectType", "VariableType", "DataType", "ReferenceType"}}
              \subseteq BrowsedFrom(RootFolder)

--------------------------------------------------------------------------------
(* ServerObject: the nodes whose values its constructor sets, and the variable it finds *)
(* by its path from the server object to update the time.                             *)
ServerNode == Id(2253)

ServerValues ==
  {Id(2255), Id(2263), Id(2271), Id(2265), Id(2261), Id(2262), Id(2259), Id(2258)}

CurrentTimePath == <<"ServerStatus", "CurrentTime">>

(* The constructor finds all it writes to: every node has a value, and the path leads  *)
(* to the node of the current time.                                                    *)
ServerObjectFindsItsNodes ==
  Filled => /\ \A n \in ServerValues : HasAttribute(space, n, "Value")
            /\ TranslateBrowsePath(space, ServerNode, CurrentTimePath) = Id(2258)
================================================================================
