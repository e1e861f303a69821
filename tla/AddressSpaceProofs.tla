--------------------------- MODULE AddressSpaceProofs ---------------------------
(* Proofs about AddressSpace, for any requests and any number of nodes. *)
EXTENDS StandardAddressSpace, SequenceTheorems, FiniteSetTheorems, WellFoundedInduction, TLAPS

--------------------------------------------------------------------------------
(* What the operations on the store do, one lemma each. *)

\* Adding a reference to a node that exists changes the references of that node only.
LEMMA WithReferenceWorks ==
  ASSUME NEW s, WellFormed(s), NEW source \in Nodes(s), NEW d \in Descriptions
  PROVE  LET t == WithReference(s, source, d) IN
         /\ WellFormed(t)
         /\ t.Attributes = s.Attributes
         /\ t.GetValueCallback = s.GetValueCallback
         /\ t.MaxNodeIdNum = s.MaxNodeIdNum
         /\ t.References = [s.References EXCEPT ![source] = Append(s.References[source], d)]
<1> DEFINE t == WithReference(s, source, d)
<1>1. /\ DOMAIN t = DOMAIN EmptySpace
      /\ t.Attributes = s.Attributes
      /\ t.GetValueCallback = s.GetValueCallback
      /\ t.MaxNodeIdNum = s.MaxNodeIdNum
      /\ t.Method = s.Method
      /\ t.References = [s.References EXCEPT ![source] = Append(s.References[source], d)]
  BY DEF WithReference, WellFormed, EmptySpace
<1>2. Append(s.References[source], d) \in Seq(Descriptions)
  BY AppendProperties DEF WellFormed
<1>3. t.References \in [Nodes(t) -> Seq(Descriptions)]
  BY <1>1, <1>2 DEF WellFormed, Nodes
<1>4. WellFormed(t)
  BY <1>1, <1>3 DEF WellFormed, Nodes, HasAttribute
<1> QED  BY <1>1, <1>4

\* A name that does not make the conversion throw is a name.
LEMMA NameOfType ==
  ASSUME NEW s, NEW n, ~NameThrows(s, n)
  PROVE  NameOf(s, n) \in Names \cup {NoName}
BY DEF NameThrows, NameOf

\* b is a continued; SubSeq says the same, this form is easier to chain.
Continues(b, a) == Len(a) <= Len(b) /\ \A i \in 1 .. Len(a) : b[i] = a[i]

\* What an operation that adds may do to the store: nodes and references are only
\* added, and a reference that is new leads to a node and has its name.
Grown(s, t) ==
  /\ Nodes(s) \subseteq Nodes(t)
  /\ \A n \in Nodes(s) : t.Attributes[n] = s.Attributes[n]
  /\ t.GetValueCallback = s.GetValueCallback
  /\ \A n \in Nodes(s) : Continues(t.References[n], s.References[n])
  /\ \A n \in Nodes(t) : \A i \in DOMAIN t.References[n] :
       LET r == t.References[n][i] IN
       \/ n \in Nodes(s) /\ i \in DOMAIN s.References[n] /\ r = s.References[n][i]
       \/ r.target \in Nodes(t) /\ r.name = NameOf(t, r.target)

LEMMA GrownReflexive ==
  ASSUME NEW s, WellFormed(s)
  PROVE  Grown(s, s)
<1>1. \A n \in Nodes(s) : s.References[n] \in Seq(Descriptions)
  BY DEF WellFormed
<1> QED  BY <1>1 DEF Grown, Continues

\* The name of a node depends on its attributes and on the callbacks only.
LEMMA NameOfSame ==
  ASSUME NEW s, NEW t, NEW n \in Nodes(s), n \in Nodes(t),
         t.Attributes[n] = s.Attributes[n], t.GetValueCallback = s.GetValueCallback
  PROVE  NameOf(t, n) = NameOf(s, n)
BY DEF NameOf, GetValue, HasAttribute

LEMMA GrownTransitive ==
  ASSUME NEW s, NEW t, NEW u, WellFormed(s), WellFormed(t), WellFormed(u),
         Grown(s, t), Grown(t, u)
  PROVE  Grown(s, u)
<1>1. /\ Nodes(s) \subseteq Nodes(u)
      /\ \A n \in Nodes(s) : u.Attributes[n] = s.Attributes[n]
      /\ u.GetValueCallback = s.GetValueCallback
  BY DEF Grown
<1>2. ASSUME NEW n \in Nodes(s)
      PROVE  Continues(u.References[n], s.References[n])
  <2>1. /\ s.References[n] \in Seq(Descriptions)
        /\ t.References[n] \in Seq(Descriptions)
        /\ u.References[n] \in Seq(Descriptions)
    BY <1>1 DEF Grown, WellFormed
  <2>2. Continues(u.References[n], t.References[n]) /\ Continues(t.References[n], s.References[n])
    BY DEF Grown
  <2> QED  BY <2>1, <2>2 DEF Continues
<1>3. ASSUME NEW n \in Nodes(u), NEW i \in DOMAIN u.References[n]
      PROVE  LET r == u.References[n][i] IN
             \/ n \in Nodes(s) /\ i \in DOMAIN s.References[n] /\ r = s.References[n][i]
             \/ r.target \in Nodes(u) /\ r.name = NameOf(u, r.target)
  <2> DEFINE r == u.References[n][i]
  <2>1. CASE r.target \in Nodes(u) /\ r.name = NameOf(u, r.target)
    BY <2>1
  <2>2. CASE n \in Nodes(t) /\ i \in DOMAIN t.References[n] /\ r = t.References[n][i]
    <3>1. \/ n \in Nodes(s) /\ i \in DOMAIN s.References[n] /\ r = s.References[n][i]
          \/ r.target \in Nodes(t) /\ r.name = NameOf(t, r.target)
      BY <2>2 DEF Grown
    <3>2. ASSUME r.target \in Nodes(t)
          PROVE  r.target \in Nodes(u) /\ NameOf(u, r.target) = NameOf(t, r.target)
      BY <3>2, NameOfSame DEF Grown
    <3> QED  BY <3>1, <3>2
  <2> QED  BY <2>1, <2>2 DEF Grown
<1> QED  BY <1>1, <1>2, <1>3 DEF Grown

\* Adding a reference that is as Grown asks.
LEMMA WithReferenceGrows ==
  ASSUME NEW s, WellFormed(s), NEW source \in Nodes(s), NEW d \in Descriptions,
         d.target \in Nodes(s), d.name = NameOf(s, d.target)
  PROVE  Grown(s, WithReference(s, source, d))
<1> DEFINE t == WithReference(s, source, d)
           old == s.References[source]
<1>1. /\ WellFormed(t)
      /\ t.Attributes = s.Attributes
      /\ t.GetValueCallback = s.GetValueCallback
      /\ t.References = [s.References EXCEPT ![source] = Append(old, d)]
  BY WithReferenceWorks
<1> HIDE DEF t
<1>2. Nodes(t) = Nodes(s)
  BY <1>1 DEF Nodes
<1>3. \A n \in Nodes(s) : s.References[n] \in Seq(Descriptions)
  BY DEF WellFormed
<1>4. t.References[source] = Append(old, d)
  BY <1>1 DEF WellFormed
<1>5. \A n \in Nodes(s) \ {source} : t.References[n] = s.References[n]
  BY <1>1 DEF WellFormed
<1>6. \A n \in Nodes(s) : Continues(t.References[n], s.References[n])
  BY <1>3, <1>4, <1>5, AppendProperties DEF Continues
<1>7. NameOf(t, d.target) = NameOf(s, d.target)
  BY <1>1, <1>2, NameOfSame
<1>8. ASSUME NEW n \in Nodes(t), NEW i \in DOMAIN t.References[n]
      PROVE  LET r == t.References[n][i] IN
             \/ n \in Nodes(s) /\ i \in DOMAIN s.References[n] /\ r = s.References[n][i]
             \/ r.target \in Nodes(t) /\ r.name = NameOf(t, r.target)
  <2>1. CASE n # source
    BY <2>1, <1>2, <1>5
  <2>2. CASE n = source
    <3>1. old \in Seq(Descriptions)
      BY <1>3
    <3>2. i \in 1 .. Len(old) + 1
      BY <2>2, <3>1, <1>4, AppendProperties
    <3>3. CASE i = Len(old) + 1
      BY <3>3, <2>2, <3>1, <1>4, <1>2, <1>7, AppendProperties
    <3>4. CASE i \in 1 .. Len(old)
      BY <3>4, <2>2, <3>1, <1>4, <1>2, AppendProperties
    <3> QED  BY <3>2, <3>3, <3>4, <3>1
  <2> QED  BY <2>1, <2>2
<1> QED  BY <1>1, <1>2, <1>6, <1>8 DEF Grown, t

\* An item of AddReferences or the link to a type definition.
ReferenceItem(item) ==
  /\ {item.source, item.type, item.target} \subseteq NodeIds
  /\ item.class \in NodeClasses /\ item.forward \in BOOLEAN

LEMMA AddReferenceWorks ==
  ASSUME NEW s, WellFormed(s), NEW item, ReferenceItem(item)
  PROVE  LET t == AddReference(s, item) IN
         /\ WellFormed(t)
         /\ Grown(s, t)
         /\ t.Attributes = s.Attributes
         /\ t.MaxNodeIdNum = s.MaxNodeIdNum
<1>1. CASE AddReferenceFails(s, item)
  BY <1>1, GrownReflexive DEF AddReference
<1>2. CASE ~AddReferenceFails(s, item)
  <2> DEFINE d == Description(item.type, item.target, item.class, NameOf(s, item.target),
                              item.forward)
  <2>1. item.source \in Nodes(s) /\ item.target \in Nodes(s) /\ ~NameThrows(s, item.target)
    BY <1>2 DEF AddReferenceFails
  <2>2. NameOf(s, item.target) \in Names \cup {NoName}
    BY <2>1, NameOfType
  <2>3. d \in Descriptions /\ d.target = item.target /\ d.name = NameOf(s, item.target)
    BY <2>2 DEF Description, Descriptions, ReferenceItem
  <2>4. AddReference(s, item) = WithReference(s, item.source, d)
    BY <1>2 DEF AddReference
  <2> HIDE DEF d
  <2> DEFINE t == WithReference(s, item.source, d)
  <2>5. WellFormed(t) /\ t.Attributes = s.Attributes /\ t.MaxNodeIdNum = s.MaxNodeIdNum
    BY <2>1, <2>3, WithReferenceWorks
  <2>6. d.target \in Nodes(s) /\ d.name = NameOf(s, d.target)
    BY <2>1, <2>3
  <2>7. Grown(s, t)
    BY <2>1, <2>3, <2>6, WithReferenceGrows
  <2> QED  BY <2>4, <2>5, <2>7
<1> QED  BY <1>1, <1>2

\* An item of AddNodes.
NodeItem(item) ==
  /\ {item.id, item.parent, item.type, item.definition} \subseteq NodeIds
  /\ item.name \in Names /\ item.class \in NodeClasses
  /\ Range(NewAttributes(item)) \subseteq Values

LEMMA NodeItemsAre ==
  ASSUME NEW item \in NodeItems
  PROVE  NodeItem(item)
BY ItemsAssumption DEF NodeItem, Values

LEMMA NewAttributesAre ==
  ASSUME NEW item
  PROVE  /\ CommonAttributes \subseteq DOMAIN NewAttributes(item)
         /\ NewAttributes(item)["BrowseName"] = item.name
BY DEF NewAttributes, CommonAttributes

LEMMA WithNumberWorks ==
  ASSUME NEW s, WellFormed(s), NEW id \in NodeIds
  PROVE  LET t == WithNumber(s, id) IN
         /\ WellFormed(t)
         /\ t.Attributes = s.Attributes
         /\ t.References = s.References
         /\ t.GetValueCallback = s.GetValueCallback
         /\ t.MaxNodeIdNum = IF GetsNewNumber(id) THEN s.MaxNodeIdNum + 1 ELSE s.MaxNodeIdNum
<1> DEFINE t == WithNumber(s, id)
<1>1. /\ DOMAIN t = DOMAIN EmptySpace
      /\ t.Attributes = s.Attributes
      /\ t.References = s.References
      /\ t.GetValueCallback = s.GetValueCallback
      /\ t.Method = s.Method
      /\ t.MaxNodeIdNum = IF GetsNewNumber(id) THEN s.MaxNodeIdNum + 1 ELSE s.MaxNodeIdNum
  BY DEF WithNumber, WellFormed, EmptySpace
<1>2. WellFormed(t)
  BY <1>1 DEF WellFormed, Nodes, HasAttribute
<1> QED  BY <1>1, <1>2

LEMMA NewIdType ==
  ASSUME NEW s, WellFormed(s), NEW id \in NodeIds
  PROVE  /\ GetNewNodeId(s, id) \in NodeIds
         /\ GetsNewNumber(id) => GetNewNodeId(s, id)[2] = s.MaxNodeIdNum + 1
         /\ ~GetsNewNumber(id) => GetNewNodeId(s, id) = id
<1>1. s.MaxNodeIdNum \in Nat
  BY DEF WellFormed
<1>2. CASE id = Null
  BY <1>1, <1>2 DEF GetNewNodeId, GetsNewNumber, NodeIds, Null, DefaultIdx
<1>3. CASE id # Null /\ GetsNewNumber(id)
  <2>1. GetNewNodeId(s, id) = <<id[1], s.MaxNodeIdNum + 1>>
    BY <1>3 DEF GetNewNodeId
  <2> QED  BY <1>1, <1>3, <2>1 DEF NodeIds
<1>4. CASE id # Null /\ ~GetsNewNumber(id)
  BY <1>4 DEF GetNewNodeId
<1> QED  BY <1>2, <1>3, <1>4

\* Storing a new node leaves the others as they are.
LEMMA WithNodeWorks ==
  ASSUME NEW s, WellFormed(s), NEW item, NodeItem(item), NEW id \in NodeIds,
         id \notin Nodes(s)
  PROVE  LET t == WithNode(s, item, id) IN
         /\ WellFormed(t)
         /\ Grown(s, t)
         /\ Nodes(t) = Nodes(s) \cup {id}
         /\ t.Attributes[id] = NewAttributes(item)
         /\ t.MaxNodeIdNum = s.MaxNodeIdNum
<1> DEFINE t == WithNode(s, item, id)
<1>1. /\ DOMAIN t = DOMAIN EmptySpace
      /\ t.Attributes = [n \in Nodes(s) \cup {id} |->
                           IF n = id THEN NewAttributes(item) ELSE s.Attributes[n]]
      /\ t.References = [n \in Nodes(s) \cup {id} |->
                           IF n = id THEN << >> ELSE s.References[n]]
      /\ t.GetValueCallback = s.GetValueCallback
      /\ t.Method = s.Method
      /\ t.MaxNodeIdNum = s.MaxNodeIdNum
  BY DEF WithNode, WellFormed, EmptySpace
<1> HIDE DEF t
<1>2. Nodes(t) = Nodes(s) \cup {id}
  BY <1>1 DEF Nodes
<1>3. /\ t.Attributes[id] = NewAttributes(item)
      /\ t.References[id] = << >>
      /\ \A n \in Nodes(s) : t.Attributes[n] = s.Attributes[n] /\ t.References[n] = s.References[n]
  BY <1>1
<1>4. \A n \in Nodes(s) : s.References[n] \in Seq(Descriptions)
  BY DEF WellFormed
<1>5. t.References \in [Nodes(t) -> Seq(Descriptions)]
  <2>1. << >> \in Seq(Descriptions)
    BY EmptySeq
  <2> QED  BY <1>1, <1>2, <1>4, <2>1
<1>6. \A c \in t.GetValueCallback : HasAttribute(t, c[1], c[2])
  BY <1>1, <1>2, <1>3 DEF WellFormed, HasAttribute
<1>7. \A n \in Nodes(t) : /\ CommonAttributes \subseteq DOMAIN t.Attributes[n]
                          /\ Range(t.Attributes[n]) \subseteq Values
  BY <1>2, <1>3, NewAttributesAre DEF WellFormed, NodeItem
<1>8. WellFormed(t)
  BY <1>1, <1>2, <1>5, <1>6, <1>7 DEF WellFormed
<1>9. Grown(s, t)
  <2>1. \A n \in Nodes(s) : Continues(t.References[n], s.References[n])
    BY <1>3, <1>4 DEF Continues
  <2>2. ASSUME NEW n \in Nodes(t), NEW i \in DOMAIN t.References[n]
        PROVE  n \in Nodes(s) /\ i \in DOMAIN s.References[n]
                 /\ t.References[n][i] = s.References[n][i]
    <3>1. n # id
      BY <1>3, EmptySeq
    <3> QED  BY <3>1, <1>2, <1>3
  <2> QED  BY <1>1, <1>2, <1>3, <2>1, <2>2 DEF Grown
<1> QED  BY <1>1, <1>2, <1>3, <1>8, <1>9 DEF t

LEMMA GetValueSame ==
  ASSUME NEW s, NEW t, NEW n \in Nodes(s), n \in Nodes(t),
         t.Attributes[n] = s.Attributes[n], t.GetValueCallback = s.GetValueCallback
  PROVE  NameThrows(t, n) = NameThrows(s, n)
BY DEF NameThrows, GetValue, HasAttribute

\* The reference that links a new node to its parent has the name of the node.
LEMMA WithParentWorks ==
  ASSUME NEW s, WellFormed(s), NEW item, NodeItem(item), NEW id \in Nodes(s),
         <<id, "BrowseName">> \notin s.GetValueCallback,
         s.Attributes[id] = NewAttributes(item),
         item.parent # Null => item.parent \in Nodes(s)
  PROVE  LET t == WithParent(s, item, id) IN
         /\ WellFormed(t)
         /\ Grown(s, t)
         /\ t.Attributes = s.Attributes
         /\ t.MaxNodeIdNum = s.MaxNodeIdNum
<1>1. CASE item.parent = Null
  BY <1>1, GrownReflexive DEF WithParent
<1>2. CASE item.parent # Null
  <2> DEFINE d == Description(item.type, id, item.class, item.name, TRUE)
             t == WithReference(s, item.parent, d)
  <2>1. id \in NodeIds
    BY DEF WellFormed
  <2>2. d \in Descriptions /\ d.target = id /\ d.name = item.name
    BY <2>1 DEF Description, Descriptions, NodeItem
  <2>3. HasAttribute(s, id, "BrowseName") /\ s.Attributes[id]["BrowseName"] = item.name
    BY NewAttributesAre DEF HasAttribute, CommonAttributes
  <2>4. NameOf(s, id) = item.name
    BY <2>3, NamesAssumption DEF NameOf, GetValue, NodeItem
  <2> HIDE DEF d
  <2>5. WellFormed(t) /\ t.Attributes = s.Attributes /\ t.MaxNodeIdNum = s.MaxNodeIdNum
    BY <1>2, <2>2, WithReferenceWorks
  <2>6. d.target \in Nodes(s) /\ d.name = NameOf(s, d.target)
    BY <2>2, <2>4
  <2>7. Grown(s, t)
    BY <1>2, <2>2, <2>6, WithReferenceGrows
  <2>8. WithParent(s, item, id) = t
    BY <1>2 DEF WithParent, d
  <2> QED  BY <2>5, <2>7, <2>8
<1> QED  BY <1>1, <1>2

LEMMA WithDefinitionWorks ==
  ASSUME NEW s, WellFormed(s), NEW item, NodeItem(item), NEW id \in Nodes(s)
  PROVE  LET t == WithDefinition(s, item, id) IN
         /\ WellFormed(t)
         /\ Grown(s, t)
         /\ t.Attributes = s.Attributes
         /\ t.MaxNodeIdNum = s.MaxNodeIdNum
         /\ (item.definition # Null /\ item.definition \in Nodes(s)
               /\ ~NameThrows(s, item.definition)) =>
              \E i \in DOMAIN t.References[id] :
                /\ t.References[id][i].type = HasTypeDefinition
                /\ t.References[id][i].target = item.definition
<1> DEFINE ref == TypeReference(item, id)
           t == WithDefinition(s, item, id)
<1>1. CASE item.definition = Null
  BY <1>1, GrownReflexive DEF WithDefinition
<1>2. CASE item.definition # Null
  <2>1. t = AddReference(s, ref)
    BY <1>2 DEF WithDefinition
  <2>2. ReferenceItem(ref) /\ ref.source = id /\ ref.target = item.definition
          /\ ref.type = HasTypeDefinition
    <3>1. HasTypeDefinition \in NodeIds
      BY DEF HasTypeDefinition, NodeIds
    <3>2. id \in NodeIds /\ item.definition \in NodeIds
      BY DEF WellFormed, NodeItem
    <3>3. /\ ref.source = id /\ ref.target = item.definition
          /\ ref.type = HasTypeDefinition /\ ref.class = "DataType"
      BY DEF TypeReference
    <3>4. ref.forward \in BOOLEAN
      BY DEF TypeReference
    <3>5. ref.class \in NodeClasses
      BY DEF TypeReference, NodeClasses
    <3> HIDE DEF ref
    <3>6. {ref.source, ref.type, ref.target} \subseteq NodeIds
      BY <3>1, <3>2, <3>3
    <3> QED  BY <3>3, <3>4, <3>5, <3>6 DEF ReferenceItem
  <2> HIDE DEF ref, t
  <2>3. WellFormed(t) /\ Grown(s, t) /\ t.Attributes = s.Attributes
          /\ t.MaxNodeIdNum = s.MaxNodeIdNum
    BY <2>1, <2>2, AddReferenceWorks
  <2>4. ASSUME item.definition \in Nodes(s), ~NameThrows(s, item.definition)
        PROVE  \E i \in DOMAIN t.References[id] :
                 /\ t.References[id][i].type = HasTypeDefinition
                 /\ t.References[id][i].target = item.definition
    <3> DEFINE d == Description(ref.type, ref.target, ref.class, NameOf(s, ref.target),
                                ref.forward)
               old == s.References[id]
    <3>1. t = WithReference(s, id, d)
      BY <2>1, <2>2, <2>4 DEF AddReference, AddReferenceFails
    <3>2. NameOf(s, ref.target) \in Names \cup {NoName}
      BY <2>2, <2>4, NameOfType
    <3>3. d \in Descriptions /\ d.type = HasTypeDefinition /\ d.target = item.definition
      BY <2>2, <3>2 DEF Description, Descriptions, ReferenceItem
    <3> HIDE DEF d
    <3>4. t.References = [s.References EXCEPT ![id] = Append(old, d)]
      BY <3>1, <3>3, WithReferenceWorks
    <3>5. t.References[id] = Append(old, d) /\ old \in Seq(Descriptions)
      BY <3>4 DEF WellFormed
    <3>6. Len(old) + 1 \in DOMAIN t.References[id] /\ t.References[id][Len(old) + 1] = d
      BY <3>5, AppendProperties
    <3> QED  BY <3>3, <3>6
  <2> QED  BY <2>3, <2>4 DEF t
<1> QED  BY <1>1, <1>2

\* AddNode, in all its outcomes.
LEMMA AddNodeWorks ==
  ASSUME NEW s, WellFormed(s), NEW item, NodeItem(item)
  PROVE  LET id == GetNewNodeId(s, item.id)
             t == AddNode(s, item)
             status == AddNodeStatus(s, item, id)
         IN /\ WellFormed(t)
            /\ Grown(s, t)
            /\ t.MaxNodeIdNum = IF GetsNewNumber(item.id) THEN s.MaxNodeIdNum + 1
                                ELSE s.MaxNodeIdNum
            /\ status \in Accepted \cup Refused
            /\ status = "BadNodeIdExists" <=> id \in Nodes(s)
            /\ status \notin Accepted => t.Attributes = s.Attributes
            /\ status \in Accepted =>
                 /\ Nodes(t) = Nodes(s) \cup {id}
                 /\ t.Attributes[id] = NewAttributes(item)
            /\ (status = "Good" /\ item.definition \in Nodes(s) /\ item.definition # Null) =>
                 \E i \in DOMAIN t.References[id] :
                   /\ t.References[id][i].type = HasTypeDefinition
                   /\ t.References[id][i].target = item.definition
<1> DEFINE id == GetNewNodeId(s, item.id)
           t == AddNode(s, item)
           status == AddNodeStatus(s, item, id)
           t1 == WithNumber(s, item.id)
           t2 == WithNode(t1, item, id)
           t3 == WithParent(t2, item, id)
           t4 == WithDefinition(t3, item, id)
<1>1. id \in NodeIds /\ item.id \in NodeIds
  BY NewIdType DEF NodeItem
<1>2. /\ status \in Accepted \cup Refused
      /\ status = "BadNodeIdExists" <=> id \in Nodes(s)
      /\ status \in Accepted =>
           /\ id \notin Nodes(s)
           /\ item.parent # Null => item.parent \in Nodes(s)
      /\ status = "Good" => ~DefinitionThrows(s, item)
  BY DEF AddNodeStatus, Accepted, Refused
<1>3. t = IF status \in Accepted THEN t4 ELSE t1
  BY DEF AddNode
<1> HIDE DEF id, t, status
<1>4. /\ WellFormed(t1)
      /\ t1.Attributes = s.Attributes
      /\ t1.References = s.References
      /\ t1.GetValueCallback = s.GetValueCallback
      /\ t1.MaxNodeIdNum = IF GetsNewNumber(item.id) THEN s.MaxNodeIdNum + 1
                           ELSE s.MaxNodeIdNum
  BY <1>1, WithNumberWorks
<1> HIDE DEF t1
<1>5. Nodes(t1) = Nodes(s)
  BY <1>4 DEF Nodes
<1>6. Grown(s, t1)
  <2>1. Grown(s, s)
    BY GrownReflexive
  <2> QED  BY <1>4, <1>5, <2>1 DEF Grown
<1>7. CASE status \notin Accepted
  BY <1>2, <1>3, <1>4, <1>5, <1>6, <1>7 DEF id, t, status, Accepted
<1>8. CASE status \in Accepted
  <2>1. /\ WellFormed(t2)
        /\ Grown(t1, t2)
        /\ Nodes(t2) = Nodes(s) \cup {id}
        /\ t2.Attributes[id] = NewAttributes(item)
        /\ t2.MaxNodeIdNum = t1.MaxNodeIdNum
    BY <1>1, <1>2, <1>4, <1>5, <1>8, WithNodeWorks
  <2>2. <<id, "BrowseName">> \notin t2.GetValueCallback
    <3>1. t2.GetValueCallback = s.GetValueCallback
      BY <1>4, <2>1 DEF Grown
    <3> QED  BY <1>2, <1>8, <3>1 DEF WellFormed, HasAttribute
  <2> HIDE DEF t2
  <2>3. /\ WellFormed(t3)
        /\ Grown(t2, t3)
        /\ t3.Attributes = t2.Attributes
        /\ t3.MaxNodeIdNum = t2.MaxNodeIdNum
    BY <1>2, <1>8, <2>1, <2>2, WithParentWorks
  <2> HIDE DEF t3
  <2>4. Nodes(t3) = Nodes(s) \cup {id}
    BY <2>1, <2>3 DEF Nodes
  <2>5. /\ WellFormed(t4)
        /\ Grown(t3, t4)
        /\ t4.Attributes = t3.Attributes
        /\ t4.MaxNodeIdNum = t3.MaxNodeIdNum
        /\ (item.definition # Null /\ item.definition \in Nodes(t3)
              /\ ~NameThrows(t3, item.definition)) =>
             \E i \in DOMAIN t4.References[id] :
               /\ t4.References[id][i].type = HasTypeDefinition
               /\ t4.References[id][i].target = item.definition
    BY <2>3, <2>4, WithDefinitionWorks
  <2> HIDE DEF t4
  <2>6. Grown(s, t2)
    BY <1>4, <1>6, <2>1, GrownTransitive
  <2>7. Grown(s, t3)
    BY <2>1, <2>3, <2>6, GrownTransitive
  <2>8. Grown(s, t4)
    BY <2>3, <2>5, <2>7, GrownTransitive
  <2>9. ASSUME status = "Good", item.definition \in Nodes(s), item.definition # Null
        PROVE  \E i \in DOMAIN t4.References[id] :
                 /\ t4.References[id][i].type = HasTypeDefinition
                 /\ t4.References[id][i].target = item.definition
    <3>1. ~NameThrows(s, item.definition)
      BY <1>2, <2>9 DEF DefinitionThrows
    <3>2. ~NameThrows(t3, item.definition)
      BY <2>7, <2>9, <3>1, GetValueSame DEF Grown
    <3> QED  BY <2>4, <2>5, <2>9, <3>2
  <2>10. Nodes(t4) = Nodes(s) \cup {id} /\ t4.Attributes[id] = NewAttributes(item)
    BY <2>1, <2>3, <2>4, <2>5 DEF Nodes
  <2>11. t4.MaxNodeIdNum = t1.MaxNodeIdNum
    BY <2>1, <2>3, <2>5
  <2> QED  BY <1>2, <1>3, <1>4, <1>8, <2>5, <2>8, <2>9, <2>10, <2>11 DEF id, t, status
<1> QED  BY <1>7, <1>8

--------------------------------------------------------------------------------
(* The inductive invariant. *)

\* What the log says about ids: the counter has passed every number that it has given,
\* and an id that was asked for is given as it is.
IdsFromCounter ==
  \A i \in DOMAIN log :
    /\ log[i].id[2] # 0
    /\ IF GetsNewNumber(log[i].item.id) THEN log[i].id[2] <= space.MaxNodeIdNum
       ELSE log[i].id = log[i].item.id

\* A name that was not written is a name, and no callback stands for it.
UnwrittenNames ==
  /\ space.GetValueCallback \subseteq written
  /\ \A n \in Nodes(space) :
       <<n, "BrowseName">> \in written \/ space.Attributes[n]["BrowseName"] \in Names

Inv ==
  /\ TypeOK
  /\ NoDanglingReferences
  /\ OneNodePerAnswer
  /\ IdsFromCounter
  /\ GeneratedIdRefusedOnlyIfAsked
  /\ UnwrittenNames
  /\ NamesAreCurrent
  /\ KnownTypesAreLinked

LEMMA InitInv == Init => Inv
<1> SUFFICES ASSUME Init PROVE Inv
  OBVIOUS
<1>1. space = EmptySpace /\ log = << >> /\ written = {}
  BY DEF Init
<1>2. Nodes(space) = {} /\ DOMAIN log = {} /\ space.References = << >>
        /\ space.GetValueCallback = {} /\ space.Method = {} /\ space.MaxNodeIdNum = 2000
        /\ DOMAIN space = DOMAIN EmptySpace
  BY <1>1 DEF EmptySpace, Nodes
<1>3. space.References \in [Nodes(space) -> Seq(Descriptions)]
  BY <1>2
<1>4. TypeOK
  BY <1>1, <1>2, <1>3 DEF TypeOK, WellFormed
<1>5. NoDanglingReferences /\ UnwrittenNames /\ NamesAreCurrent
  BY <1>2 DEF NoDanglingReferences, UnwrittenNames, NamesAreCurrent
<1>6. AcceptedCalls = {}
  BY <1>2 DEF AcceptedCalls
<1>7. OneNodePerAnswer /\ IdsFromCounter /\ GeneratedIdRefusedOnlyIfAsked /\ KnownTypesAreLinked
  BY <1>2, <1>6 DEF OneNodePerAnswer, IdsFromCounter, GeneratedIdRefusedOnlyIfAsked,
                    KnownTypesAreLinked
<1> QED  BY <1>4, <1>5, <1>7 DEF Inv

\* References of a store that has grown: still none that leads nowhere.
LEMMA GrownReferences ==
  ASSUME NEW s, NEW t, WellFormed(s), WellFormed(t), Grown(s, t),
         NEW n \in Nodes(t), NEW r \in Range(t.References[n])
  PROVE  \/ n \in Nodes(s) /\ r \in Range(s.References[n])
         \/ r.target \in Nodes(t) /\ r.name = NameOf(t, r.target)
<1>1. PICK i \in DOMAIN t.References[n] : r = t.References[n][i]
  BY DEF Range
<1> QED  BY <1>1 DEF Grown, Range

LEMMA GrownKeepsReferences ==
  ASSUME NEW s, NEW t, WellFormed(s), WellFormed(t), Grown(s, t),
         NEW n \in Nodes(s), NEW r \in Range(s.References[n])
  PROVE  r \in Range(t.References[n])
<1>1. PICK i \in DOMAIN s.References[n] : r = s.References[n][i]
  BY DEF Range
<1>2. s.References[n] \in Seq(Descriptions) /\ t.References[n] \in Seq(Descriptions)
  BY DEF WellFormed, Grown
<1>3. Continues(t.References[n], s.References[n])
  BY DEF Grown
<1>4. i \in DOMAIN t.References[n] /\ t.References[n][i] = r
  BY <1>1, <1>2, <1>3 DEF Continues
<1> QED  BY <1>4 DEF Range

\* What growth alone preserves: the references stay sound.
LEMMA GrownSound ==
  ASSUME Inv, WellFormed(space'), Grown(space, space'), UNCHANGED written,
         UnwrittenNames'
  PROVE  NoDanglingReferences' /\ NamesAreCurrent'
<1>1. WellFormed(space) /\ NoDanglingReferences /\ NamesAreCurrent
  BY DEF Inv, TypeOK
<1>2. ASSUME NEW n \in Nodes(space'), NEW r \in Range(space'.References[n])
      PROVE  /\ r.target \in Nodes(space')
             /\ \/ r.name = space'.Attributes[r.target]["BrowseName"]
                \/ <<r.target, "BrowseName">> \in written'
  <2>1. CASE n \in Nodes(space) /\ r \in Range(space.References[n])
    <3>1. r.target \in Nodes(space)
      BY <1>1, <2>1 DEF NoDanglingReferences
    <3>2. \/ r.name = space.Attributes[r.target]["BrowseName"]
          \/ <<r.target, "BrowseName">> \in written
      BY <1>1, <2>1 DEF NamesAreCurrent
    <3> QED  BY <3>1, <3>2 DEF Grown
  <2>2. CASE r.target \in Nodes(space') /\ r.name = NameOf(space', r.target)
    <3>1. HasAttribute(space', r.target, "BrowseName")
      BY <2>2 DEF WellFormed, HasAttribute, CommonAttributes
    <3>2. \/ <<r.target, "BrowseName">> \in written'
          \/ space'.Attributes[r.target]["BrowseName"] # BadValue
      BY <2>2, NamesAssumption DEF UnwrittenNames
    <3> QED  BY <2>2, <3>1, <3>2 DEF NameOf, GetValue, UnwrittenNames
  <2> QED  BY <1>1, <2>1, <2>2, GrownReferences
<1> QED  BY <1>2 DEF NoDanglingReferences, NamesAreCurrent

--------------------------------------------------------------------------------
(* One lemma per action. *)

LEMMA AddNodesInv ==
  ASSUME Inv, NEW item \in NodeItems, AddNodes(item)
  PROVE  Inv'
<1> DEFINE id == GetNewNodeId(space, item.id)
           status == AddNodeStatus(space, item, id)
           e == [item |-> item, id |-> id, status |-> status]
           last == Len(log) + 1
<1>0. /\ space' = AddNode(space, item)
      /\ log' = Append(log, e)
      /\ written' = written
  BY DEF AddNodes
<1>1. WellFormed(space) /\ log \in Seq(Calls) /\ NodeItem(item)
  BY NodeItemsAre DEF Inv, TypeOK
<1>2. /\ WellFormed(space')
      /\ Grown(space, space')
      /\ space'.MaxNodeIdNum = IF GetsNewNumber(item.id) THEN space.MaxNodeIdNum + 1
                               ELSE space.MaxNodeIdNum
      /\ status \in Accepted \cup Refused
      /\ status = "BadNodeIdExists" <=> id \in Nodes(space)
      /\ status \notin Accepted => space'.Attributes = space.Attributes
      /\ status \in Accepted =>
           /\ Nodes(space') = Nodes(space) \cup {id}
           /\ space'.Attributes[id] = NewAttributes(item)
      /\ (status = "Good" /\ item.definition \in Nodes(space) /\ item.definition # Null) =>
           \E i \in DOMAIN space'.References[id] :
             /\ space'.References[id][i].type = HasTypeDefinition
             /\ space'.References[id][i].target = item.definition
  BY <1>0, <1>1, AddNodeWorks
<1>3. /\ id \in NodeIds
      /\ GetsNewNumber(item.id) => id[2] = space.MaxNodeIdNum + 1
      /\ ~GetsNewNumber(item.id) => id = item.id
  BY <1>1, NewIdType DEF NodeItem
<1> HIDE DEF id, status
<1>4. /\ e \in Calls /\ e.item = item /\ e.id = id /\ e.status = status
  BY <1>2, <1>3 DEF Calls
<1> HIDE DEF e
<1>5. /\ log' \in Seq(Calls)
      /\ DOMAIN log = 1 .. Len(log) /\ Len(log) \in Nat
      /\ DOMAIN log' = DOMAIN log \cup {last}
      /\ last \notin DOMAIN log
      /\ log'[last] = e
      /\ \A i \in DOMAIN log : log'[i] = log[i] /\ i < last
  BY <1>0, <1>1, <1>4, AppendProperties
<1> HIDE DEF last
<1>6. /\ AcceptedCalls \subseteq DOMAIN log
      /\ AcceptedCalls' = IF status \in Accepted THEN AcceptedCalls \cup {last} ELSE AcceptedCalls
  BY <1>4, <1>5 DEF AcceptedCalls
<1>7. status \in Accepted => id \notin Nodes(space)
  BY <1>2 DEF Accepted
<1>8. Nodes(space') = IF status \in Accepted THEN Nodes(space) \cup {id} ELSE Nodes(space)
  BY <1>2 DEF Nodes
<1>9. TypeOK'
  BY <1>2, <1>5 DEF TypeOK
<1>10. OneNodePerAnswer'
  <2>1. OneNodePerAnswer
    BY DEF Inv
  <2>2. \A i \in AcceptedCalls : log'[i].id = log[i].id
    BY <1>5, <1>6
  <2>3. CASE status \notin Accepted
    BY <1>6, <1>8, <2>1, <2>2, <2>3 DEF OneNodePerAnswer
  <2>4. CASE status \in Accepted
    <3>1. AcceptedCalls' = AcceptedCalls \cup {last} /\ log'[last].id = id
      BY <1>4, <1>5, <1>6, <2>4
    <3>2. Nodes(space') = {log'[i].id : i \in AcceptedCalls'}
      BY <1>8, <2>1, <2>2, <2>4, <3>1 DEF OneNodePerAnswer
    <3>3. \A i \in AcceptedCalls : log'[i].id # id
      BY <1>7, <2>1, <2>2, <2>4 DEF OneNodePerAnswer
    <3>4. \A i, j \in AcceptedCalls' : log'[i].id = log'[j].id => i = j
      BY <2>1, <2>2, <3>1, <3>3 DEF OneNodePerAnswer
    <3> QED  BY <3>2, <3>4 DEF OneNodePerAnswer
  <2> QED  BY <2>3, <2>4
<1>11. IdsFromCounter'
  <2>1. IdsFromCounter /\ space.MaxNodeIdNum \in Nat
    BY <1>1 DEF Inv, WellFormed
  <2>2. ASSUME NEW i \in DOMAIN log
        PROVE  /\ log'[i].id[2] # 0
               /\ IF GetsNewNumber(log'[i].item.id) THEN log'[i].id[2] <= space'.MaxNodeIdNum
                  ELSE log'[i].id = log'[i].item.id
    <3>0. log'[i] = log[i] /\ log[i] \in Calls
      BY <1>1, <1>5
    <3>1. log'[i] = log[i] /\ log[i].id \in NodeIds
      BY <3>0 DEF Calls
    <3>2. log[i].id[2] \in Nat
      BY <3>1 DEF NodeIds
    <3> QED  BY <1>2, <2>1, <3>1, <3>2 DEF IdsFromCounter
  <2>3. /\ log'[last].id[2] # 0
        /\ IF GetsNewNumber(log'[last].item.id) THEN log'[last].id[2] <= space'.MaxNodeIdNum
           ELSE log'[last].id = log'[last].item.id
    BY <1>2, <1>3, <1>4, <1>5, <2>1 DEF GetsNewNumber
  <2> QED  BY <1>5, <2>2, <2>3 DEF IdsFromCounter
<1>12. GeneratedIdRefusedOnlyIfAsked'
  <2>1. ASSUME NEW i \in DOMAIN log, GetsNewNumber(log'[i].item.id),
               log'[i].status = "BadNodeIdExists"
        PROVE  \E j \in AcceptedCalls' : j < i /\ log'[j].item.id = log'[i].id
    BY <1>5, <1>6, <2>1 DEF Inv, GeneratedIdRefusedOnlyIfAsked
  <2>2. ASSUME GetsNewNumber(item.id), status = "BadNodeIdExists"
        PROVE  \E j \in AcceptedCalls' : j < last /\ log'[j].item.id = log'[last].id
    <3>1. id \in Nodes(space) /\ id[2] = space.MaxNodeIdNum + 1
      BY <1>2, <1>3, <2>2
    <3>2. PICK j \in AcceptedCalls : log[j].id = id
      BY <3>1 DEF Inv, OneNodePerAnswer
    <3>3. ~GetsNewNumber(log[j].item.id)
      BY <1>1, <1>6, <3>1, <3>2 DEF Inv, IdsFromCounter, WellFormed
    <3>4. log[j].item.id = id
      BY <1>6, <3>2, <3>3 DEF Inv, IdsFromCounter
    <3> QED  BY <1>4, <1>5, <1>6, <3>4
  <2> QED  BY <1>4, <1>5, <2>1, <2>2 DEF GeneratedIdRefusedOnlyIfAsked
<1>13. UnwrittenNames'
  <2>1. /\ \A n \in Nodes(space) : space'.Attributes[n] = space.Attributes[n]
        /\ space'.GetValueCallback = space.GetValueCallback
    BY <1>2 DEF Grown
  <2>2. status \in Accepted => space'.Attributes[id]["BrowseName"] \in Names
    BY <1>1, <1>2, NewAttributesAre DEF NodeItem
  <2> QED  BY <1>0, <1>8, <2>1, <2>2 DEF Inv, UnwrittenNames
<1>14. NoDanglingReferences' /\ NamesAreCurrent'
  BY <1>0, <1>2, <1>13, GrownSound
<1>15. KnownTypesAreLinked'
  <2>1. ASSUME NEW i \in AcceptedCalls', NEW j \in AcceptedCalls', j < i,
               log'[i].status = "Good", log'[i].item.definition = log'[j].id
        PROVE  \E r \in Range(space'.References[log'[i].id]) :
                  r.type = HasTypeDefinition /\ r.target = log'[j].id
    <3>1. CASE i \in DOMAIN log
      <4>0. j # last
        BY <1>5, <2>1, <3>1 DEF last
      <4>1. i \in AcceptedCalls /\ j \in AcceptedCalls
        BY <1>5, <1>6, <2>1, <3>1, <4>0
      <4>2. PICK r \in Range(space.References[log[i].id]) :
              r.type = HasTypeDefinition /\ r.target = log[j].id
        BY <1>5, <1>6, <2>1, <4>1 DEF Inv, KnownTypesAreLinked
      <4>3. log[i].id \in Nodes(space)
        BY <4>1 DEF Inv, OneNodePerAnswer
      <4>4. r \in Range(space'.References[log[i].id])
        BY <1>1, <1>2, <4>2, <4>3, GrownKeepsReferences
      <4> QED  BY <1>5, <1>6, <4>1, <4>2, <4>4
    <3>2. CASE i = last
      <4>0. status \in Accepted
        <5>1. last \notin AcceptedCalls
          BY <1>5, <1>6
        <5> QED  BY <1>6, <3>2, <5>1
      <4>1. status \in Accepted /\ j \in AcceptedCalls
        <5>1. last \in Nat
          BY <1>5 DEF last
        <5>2. j # last
          BY <2>1, <3>2, <5>1
        <5>3. j \in AcceptedCalls \cup {last}
          BY <1>6, <4>0
        <5> QED  BY <4>0, <5>2, <5>3
      <4>2. log'[j] = log[j] /\ log[j].id \in Nodes(space) /\ log[j].id[2] # 0
        BY <1>5, <1>6, <4>1 DEF Inv, OneNodePerAnswer, IdsFromCounter
      <4>3. item.definition = log[j].id /\ item.definition # Null /\ status = "Good"
        BY <1>4, <1>5, <2>1, <3>2, <4>2 DEF Null
      <4>4. PICK k \in DOMAIN space'.References[id] :
              /\ space'.References[id][k].type = HasTypeDefinition
              /\ space'.References[id][k].target = item.definition
        BY <1>2, <4>2, <4>3
      <4>5. log'[i].id = id
        BY <1>4, <1>5, <3>2
      <4> QED  BY <4>2, <4>3, <4>4, <4>5 DEF Range
    <3> QED  BY <1>5, <1>6, <2>1, <3>1, <3>2
  <2> QED  BY <2>1 DEF KnownTypesAreLinked
<1> QED  BY <1>9, <1>10, <1>11, <1>12, <1>13, <1>14, <1>15 DEF Inv

LEMMA AddReferencesInv ==
  ASSUME Inv, NEW item \in ReferenceItems, AddReferences(item)
  PROVE  Inv' /\ Grown(space, space')
<1>1. WellFormed(space) /\ ReferenceItem(item) /\ log' = log /\ written' = written
  BY ItemsAssumption DEF Inv, TypeOK, ReferenceItem, AddReferences
<1>2. /\ WellFormed(space')
      /\ Grown(space, space')
      /\ space'.Attributes = space.Attributes
      /\ space'.MaxNodeIdNum = space.MaxNodeIdNum
  BY <1>1, AddReferenceWorks DEF AddReferences
<1>3. /\ Nodes(space') = Nodes(space) /\ AcceptedCalls' = AcceptedCalls
      /\ space'.GetValueCallback = space.GetValueCallback
  BY <1>1, <1>2 DEF Nodes, AcceptedCalls, Grown
<1>4. TypeOK' /\ OneNodePerAnswer' /\ IdsFromCounter' /\ GeneratedIdRefusedOnlyIfAsked'
        /\ UnwrittenNames'
  BY <1>1, <1>2, <1>3 DEF Inv, TypeOK, OneNodePerAnswer, IdsFromCounter,
                          GeneratedIdRefusedOnlyIfAsked, UnwrittenNames
<1>5. NoDanglingReferences' /\ NamesAreCurrent'
  BY <1>1, <1>2, <1>4, GrownSound
<1>6. KnownTypesAreLinked'
  <2>1. ASSUME NEW i \in AcceptedCalls, NEW r \in Range(space.References[log[i].id])
        PROVE  r \in Range(space'.References[log[i].id])
    <3>1. log[i].id \in Nodes(space)
      BY DEF Inv, OneNodePerAnswer
    <3> QED  BY <1>1, <1>2, <2>1, <3>1, GrownKeepsReferences
  <2> QED  BY <1>1, <1>3, <2>1 DEF Inv, KnownTypesAreLinked
<1> QED  BY <1>2, <1>4, <1>5, <1>6 DEF Inv

\* An action that changes neither nodes nor references nor the log.
LEMMA SameNodesInv ==
  ASSUME Inv, WellFormed(space'), Nodes(space') = Nodes(space),
         space'.References = space.References, log' = log,
         space'.MaxNodeIdNum = space.MaxNodeIdNum, UnwrittenNames', NamesAreCurrent'
  PROVE  Inv'
<1>1. AcceptedCalls' = AcceptedCalls
  BY DEF AcceptedCalls
<1> QED
  BY <1>1 DEF Inv, TypeOK, NoDanglingReferences, OneNodePerAnswer, IdsFromCounter,
              GeneratedIdRefusedOnlyIfAsked, KnownTypesAreLinked

LEMMA WriteInv ==
  ASSUME Inv, NEW w \in WriteValues, Write(w[1], w[2], w[3])
  PROVE  /\ Inv'
         /\ space'.References = space.References
         /\ Nodes(space') = Nodes(space)
         /\ \A n \in Nodes(space) : DOMAIN space'.Attributes[n] = DOMAIN space.Attributes[n]
<1> DEFINE node == w[1]
           attribute == w[2]
           value == w[3]
<1>1. /\ WellFormed(space) /\ HasAttribute(space, node, attribute)
      /\ written' = written \cup {<<node, attribute>>} /\ log' = log
  BY DEF Inv, TypeOK, Write
<1>2. /\ DOMAIN space' = DOMAIN EmptySpace
      /\ space'.References = space.References
      /\ space'.GetValueCallback = space.GetValueCallback
      /\ space'.Method = space.Method
      /\ space'.MaxNodeIdNum = space.MaxNodeIdNum
      /\ space'.Attributes = [space.Attributes EXCEPT
                                ![node] = [space.Attributes[node] EXCEPT ![attribute] = value]]
  BY <1>1 DEF Write, WellFormed, EmptySpace
<1>3. Nodes(space') = Nodes(space)
  BY <1>2 DEF Nodes
<1>4. /\ \A n \in Nodes(space) \ {node} : space'.Attributes[n] = space.Attributes[n]
      /\ space'.Attributes[node] = [space.Attributes[node] EXCEPT ![attribute] = value]
  BY <1>1, <1>2 DEF Nodes, HasAttribute
<1>5. \A n \in Nodes(space) : DOMAIN space'.Attributes[n] = DOMAIN space.Attributes[n]
  BY <1>4
<1>6. value \in Values
  <2>1. value \in {v[3] : v \in WriteValues}
    OBVIOUS
  <2> HIDE DEF value
  <2> QED  BY <2>1 DEF Values
<1>7. \A n \in Nodes(space) : Range(space'.Attributes[n]) \subseteq Values
  <2>1. \A a \in DOMAIN space.Attributes[node] :
          space'.Attributes[node][a] \in Range(space.Attributes[node]) \cup {value}
    BY <1>4 DEF Range
  <2>2. Range(space'.Attributes[node]) \subseteq Values
    BY <1>1, <1>5, <1>6, <2>1 DEF Range, HasAttribute, WellFormed
  <2> QED  BY <1>1, <1>4, <2>2 DEF WellFormed
<1>8. WellFormed(space')
  BY <1>1, <1>2, <1>3, <1>5, <1>7 DEF WellFormed, HasAttribute
<1>9. ASSUME NEW n \in Nodes(space)
      PROVE  \/ space'.Attributes[n]["BrowseName"] = space.Attributes[n]["BrowseName"]
             \/ <<n, "BrowseName">> \in written'
  <2>1. "BrowseName" \in DOMAIN space.Attributes[n]
    BY <1>1 DEF WellFormed, CommonAttributes
  <2>2. CASE n # node
    BY <1>4, <2>2
  <2>3. CASE n = node /\ attribute = "BrowseName"
    BY <1>1, <2>3
  <2>4. CASE n = node /\ attribute # "BrowseName"
    <3> HIDE DEF node, attribute, value
    <3> QED  BY <1>4, <2>1, <2>4
  <2> QED  BY <2>2, <2>3, <2>4
<1>10. UnwrittenNames' /\ NamesAreCurrent'
  <2>1. UnwrittenNames'
    BY <1>1, <1>2, <1>3, <1>9 DEF Inv, UnwrittenNames
  <2>2. NamesAreCurrent'
    <3>1. ASSUME NEW n \in Nodes(space), NEW r \in Range(space.References[n])
          PROVE  \/ r.name = space'.Attributes[r.target]["BrowseName"]
                 \/ <<r.target, "BrowseName">> \in written'
      <4>1. r.target \in Nodes(space)
        BY DEF Inv, NoDanglingReferences
      <4>2. \/ r.name = space.Attributes[r.target]["BrowseName"]
            \/ <<r.target, "BrowseName">> \in written
        BY DEF Inv, NamesAreCurrent
      <4> QED  BY <1>1, <1>2, <1>9, <4>1, <4>2
    <3> QED  BY <1>2, <1>3, <3>1 DEF NamesAreCurrent
  <2> QED  BY <2>1, <2>2
<1>11. Inv'
  BY <1>1, <1>2, <1>3, <1>8, <1>10, SameNodesInv
<1> QED  BY <1>2, <1>3, <1>5, <1>11

LEMMA SetValueCallbackInv ==
  ASSUME Inv, NEW n, NEW empty, SetValueCallback(n, "BrowseName", empty)
  PROVE  Inv' /\ space'.References = space.References /\ space'.Attributes = space.Attributes
<1>1. WellFormed(space) /\ HasAttribute(space, n, "BrowseName") /\ log' = log
        /\ written' = written \cup {<<n, "BrowseName">>}
  BY DEF Inv, TypeOK, SetValueCallback
<1>2. /\ DOMAIN space' = DOMAIN EmptySpace
      /\ space'.References = space.References
      /\ space'.Attributes = space.Attributes
      /\ space'.Method = space.Method
      /\ space'.MaxNodeIdNum = space.MaxNodeIdNum
      /\ space'.GetValueCallback \subseteq space.GetValueCallback \cup {<<n, "BrowseName">>}
  BY <1>1 DEF SetValueCallback, Assigned, WellFormed, EmptySpace
<1>3. Nodes(space') = Nodes(space)
  BY <1>2 DEF Nodes
<1>4. \A c \in space'.GetValueCallback : HasAttribute(space', c[1], c[2])
  BY <1>1, <1>2, <1>3 DEF WellFormed, HasAttribute
<1>5. WellFormed(space')
  BY <1>1, <1>2, <1>3, <1>4 DEF WellFormed
<1>6. UnwrittenNames' /\ NamesAreCurrent'
  BY <1>1, <1>2, <1>3 DEF Inv, UnwrittenNames, NamesAreCurrent
<1>7. Inv'
  BY <1>1, <1>2, <1>3, <1>5, <1>6, SameNodesInv
<1> QED  BY <1>2, <1>7

LEMMA SetMethodInv ==
  ASSUME Inv, NEW n, NEW empty, SetMethod(n, empty)
  PROVE  Inv' /\ space'.References = space.References /\ space'.Attributes = space.Attributes
<1>1. WellFormed(space) /\ n \in Nodes(space) /\ log' = log /\ written' = written
  BY DEF Inv, TypeOK, SetMethod
<1>2. /\ DOMAIN space' = DOMAIN EmptySpace
      /\ space'.References = space.References
      /\ space'.Attributes = space.Attributes
      /\ space'.Method \subseteq space.Method \cup {n}
      /\ space'.MaxNodeIdNum = space.MaxNodeIdNum
      /\ space'.GetValueCallback = space.GetValueCallback
  BY <1>1 DEF SetMethod, Assigned, WellFormed, EmptySpace
<1>3. Nodes(space') = Nodes(space)
  BY <1>2 DEF Nodes
<1>4. WellFormed(space')
  BY <1>1, <1>2, <1>3 DEF WellFormed, HasAttribute
<1>5. UnwrittenNames' /\ NamesAreCurrent'
  BY <1>1, <1>2, <1>3 DEF Inv, UnwrittenNames, NamesAreCurrent
<1>6. Inv'
  BY <1>1, <1>2, <1>3, <1>4, <1>5, SameNodesInv
<1> QED  BY <1>2, <1>6

--------------------------------------------------------------------------------
(* The theorems. *)

LEMMA StepInv == Inv /\ [Next]_vars => Inv'
<1> SUFFICES ASSUME Inv, [Next]_vars PROVE Inv'
  OBVIOUS
<1>1. ASSUME NEW item \in NodeItems, AddNodes(item) PROVE Inv'
  BY <1>1, AddNodesInv
<1>2. ASSUME NEW item \in ReferenceItems, AddReferences(item) PROVE Inv'
  BY <1>2, AddReferencesInv
<1>3. ASSUME NEW w \in WriteValues, Write(w[1], w[2], w[3]) PROVE Inv'
  BY <1>3, WriteInv
<1>4. ASSUME NEW n \in CallbackNodes, NEW empty \in BOOLEAN,
             SetValueCallback(n, "BrowseName", empty)
      PROVE  Inv'
  BY <1>4, SetValueCallbackInv
<1>5. ASSUME NEW n \in CallbackNodes, NEW empty \in BOOLEAN, SetMethod(n, empty)
      PROVE  Inv'
  BY <1>5, SetMethodInv
<1>6. CASE UNCHANGED vars
  <2>1. space' = space /\ log' = log /\ written' = written
    BY <1>6 DEF vars
  <2>2. WellFormed(space') /\ UnwrittenNames' /\ NamesAreCurrent'
    BY <2>1 DEF Inv, TypeOK, UnwrittenNames, NamesAreCurrent
  <2> QED  BY <2>1, <2>2, SameNodesInv
<1> QED  BY <1>1, <1>2, <1>3, <1>4, <1>5, <1>6 DEF Next

LEMMA Invariance == Spec => []Inv
<1> QED  BY InitInv, StepInv, PTL DEF Spec

\* Type correctness of the store and of the answers.
THEOREM TypeCorrect == Spec => []TypeOK
<1>1. Inv => TypeOK
  BY DEF Inv
<1> QED  BY <1>1, Invariance, PTL

\* No reference leads to a node that does not exist, for any sequence of requests.
THEOREM ReferencesLeadToNodes == Spec => []NoDanglingReferences
<1>1. Inv => NoDanglingReferences
  BY DEF Inv
<1> QED  BY <1>1, Invariance, PTL

\* AddNodes never gives an id twice, and the nodes are exactly the accepted ones.
THEOREM AnswersAreNodes == Spec => []OneNodePerAnswer
<1>1. Inv => OneNodePerAnswer
  BY DEF Inv
<1> QED  BY <1>1, Invariance, PTL

\* The counter alone never makes AddNodes refuse an id.
THEOREM CounterNeverRepeats == Spec => []GeneratedIdRefusedOnlyIfAsked
<1>1. Inv => GeneratedIdRefusedOnlyIfAsked
  BY DEF Inv
<1> QED  BY <1>1, Invariance, PTL

\* The copies of names in references differ from the originals only after a write or a
\* callback.
THEOREM CopiedNamesCurrent == Spec => []NamesAreCurrent
<1>1. Inv => NamesAreCurrent
  BY DEF Inv
<1> QED  BY <1>1, Invariance, PTL

\* A type definition that exists when AddNodes answers Good is linked from then on.
THEOREM TypesLinked == Spec => []KnownTypesAreLinked
<1>1. Inv => KnownTypesAreLinked
  BY DEF Inv
<1> QED  BY <1>1, Invariance, PTL

LEMMA ContinuesIsPrefix ==
  ASSUME NEW T, NEW a \in Seq(T), NEW b \in Seq(T), Continues(b, a)
  PROVE  \E k \in 0 .. Len(b) : a = SubSeq(b, 1, k)
<1> DEFINE c == SubSeq(b, 1, Len(a))
<1>1. Len(a) \in 0 .. Len(b) /\ Len(a) \in Nat /\ Len(b) \in Nat
  BY DEF Continues
<1>2. c \in Seq(T) /\ Len(c) = Len(a) /\ \A i \in 1 .. Len(a) : c[i] = b[i]
  BY <1>1, SubSeqProperties
<1> HIDE DEF c
<1>3. a = c
  BY <1>2, SeqEqual DEF Continues
<1> QED  BY <1>1, <1>3 DEF c

LEMMA GrownForgetsNothing ==
  ASSUME WellFormed(space), WellFormed(space'), Grown(space, space'), NEW n \in Nodes(space)
  PROVE  /\ n \in Nodes(space')
         /\ DOMAIN space.Attributes[n] \subseteq DOMAIN space'.Attributes[n]
         /\ \E k \in 0 .. Len(space'.References[n]) :
              space.References[n] = SubSeq(space'.References[n], 1, k)
<1>1. n \in Nodes(space') /\ space'.Attributes[n] = space.Attributes[n]
        /\ Continues(space'.References[n], space.References[n])
  BY DEF Grown
<1>2. space.References[n] \in Seq(Descriptions) /\ space'.References[n] \in Seq(Descriptions)
  BY <1>1 DEF WellFormed
<1> QED  BY <1>1, <1>2, ContinuesIsPrefix

LEMMA SameForgetsNothing ==
  ASSUME WellFormed(space), Nodes(space') = Nodes(space),
         space'.References = space.References,
         \A n \in Nodes(space) : DOMAIN space'.Attributes[n] = DOMAIN space.Attributes[n],
         NEW n \in Nodes(space)
  PROVE  /\ n \in Nodes(space')
         /\ DOMAIN space.Attributes[n] \subseteq DOMAIN space'.Attributes[n]
         /\ \E k \in 0 .. Len(space'.References[n]) :
              space.References[n] = SubSeq(space'.References[n], 1, k)
<1>1. space.References[n] \in Seq(Descriptions)
  BY DEF WellFormed
<1>2. Continues(space.References[n], space.References[n])
  BY <1>1 DEF Continues
<1> QED  BY <1>1, <1>2, ContinuesIsPrefix

\* No call removes a node, an attribute or a reference, or reorders references.
THEOREM NothingIsForgotten == Spec => NothingForgotten
<1> DEFINE Kept(n) ==
      /\ n \in Nodes(space')
      /\ DOMAIN space.Attributes[n] \subseteq DOMAIN space'.Attributes[n]
      /\ \E k \in 0 .. Len(space'.References[n]) :
           space.References[n] = SubSeq(space'.References[n], 1, k)
<1>1. Inv /\ [Next]_vars => [\A n \in Nodes(space) : Kept(n)]_vars
  <2> SUFFICES ASSUME Inv, Next, NEW n \in Nodes(space) PROVE Kept(n)
    OBVIOUS
  <2>1. WellFormed(space) /\ WellFormed(space')
    <3>1. Inv'
      BY StepInv
    <3> QED  BY <3>1 DEF Inv, TypeOK
  <2>2. ASSUME NEW item \in NodeItems, AddNodes(item) PROVE Kept(n)
    <3>1. Grown(space, space')
      BY <2>1, <2>2, NodeItemsAre, AddNodeWorks DEF AddNodes
    <3> QED  BY <2>1, <3>1, GrownForgetsNothing
  <2>3. ASSUME NEW item \in ReferenceItems, AddReferences(item) PROVE Kept(n)
    <3>1. Grown(space, space')
      BY <2>3, AddReferencesInv
    <3> QED  BY <2>1, <3>1, GrownForgetsNothing
  <2>4. ASSUME NEW w \in WriteValues, Write(w[1], w[2], w[3]) PROVE Kept(n)
    <3>1. /\ space'.References = space.References
          /\ Nodes(space') = Nodes(space)
          /\ \A m \in Nodes(space) : DOMAIN space'.Attributes[m] = DOMAIN space.Attributes[m]
      BY <2>4, WriteInv
    <3> QED  BY <2>1, <3>1, SameForgetsNothing
  <2>5. ASSUME NEW m \in CallbackNodes, NEW empty \in BOOLEAN,
               SetValueCallback(m, "BrowseName", empty) \/ SetMethod(m, empty)
        PROVE  Kept(n)
    <3>1. space'.References = space.References /\ space'.Attributes = space.Attributes
      BY <2>5, SetValueCallbackInv, SetMethodInv
    <3>2. Nodes(space') = Nodes(space)
      BY <3>1 DEF Nodes
    <3> QED  BY <2>1, <3>1, <3>2, SameForgetsNothing
  <2> QED  BY <2>2, <2>3, <2>4, <2>5 DEF Next
<1>2. Spec => [][Next]_vars
  BY PTL DEF Spec
<1> QED  BY <1>1, <1>2, Invariance, PTL DEF NothingForgotten

--------------------------------------------------------------------------------
(* Browsing a hierarchy. The nested calls of SelectNodesHierarchy are a recursive      *)
(* function, of which only the defining equation is used.                             *)

\* Induction over the natural numbers, for a set of them.
LEMMA SetInduction ==
  ASSUME NEW T \in SUBSET Nat, 0 \in T, \A n \in T : n + 1 \in T
  PROVE  T = Nat
<1> DEFINE R == OpToRel(<, Nat)
<1>1. \A x, y \in Nat : y < x => <<y, x>> \in R
  BY DEF OpToRel
<1> HIDE DEF R
<1>2. SUFFICES ASSUME Nat \ T # {} PROVE FALSE
  OBVIOUS
<1>3. PICK x \in Nat \ T : \A y \in Nat \ T : ~(<<y, x>> \in R)
  BY <1>2, NatLessThanWellFounded, WFMin DEF R
<1>4. x # 0 /\ x - 1 \in Nat
  BY <1>3
<1>5. x - 1 \in T
  <2>1. <<x - 1, x>> \in R
    BY <1>1, <1>3, <1>4
  <2> QED  BY <1>3, <1>4, <2>1
<1>6. x = (x - 1) + 1
  BY <1>3
<1> QED  BY <1>3, <1>5, <1>6

\* f is what Levels defines, down to depth m.
IsLevels(f, s, nodes, m) ==
  f = [k \in 0 .. m |-> IF k = 0 THEN nodes ELSE TargetsOf(s, f[k - 1])]

LEMMA LevelsExist ==
  ASSUME NEW s, NEW nodes
  PROVE  \A m \in Nat : \E f : IsLevels(f, s, nodes, m)
<1> DEFINE T == {m \in Nat : \E f : IsLevels(f, s, nodes, m)}
<1>1. 0 \in T
  <2> DEFINE g == [k \in 0 .. 0 |-> nodes]
  <2>1. IsLevels(g, s, nodes, 0)
    BY DEF IsLevels
  <2> QED  BY <2>1
<1>2. ASSUME NEW m \in T PROVE m + 1 \in T
  <2>1. PICK f : IsLevels(f, s, nodes, m)
    BY <1>2
  <2> DEFINE g == [k \in 0 .. m + 1 |-> IF k <= m THEN f[k] ELSE TargetsOf(s, f[k - 1])]
  <2>2. ASSUME NEW k \in 0 .. m + 1
        PROVE  g[k] = IF k = 0 THEN nodes ELSE TargetsOf(s, g[k - 1])
    <3>1. CASE k = 0
      BY <2>1, <3>1 DEF IsLevels
    <3>2. CASE k # 0 /\ k <= m
      <4>1. k \in 0 .. m /\ k - 1 \in 0 .. m + 1 /\ k - 1 <= m
        BY <3>2
      <4>2. g[k] = f[k] /\ g[k - 1] = f[k - 1]
        BY <3>2, <4>1
      <4> QED  BY <2>1, <3>2, <4>1, <4>2 DEF IsLevels
    <3>3. CASE k = m + 1
      <4>1. k - 1 \in 0 .. m + 1 /\ k - 1 <= m /\ ~(k <= m) /\ k # 0
        BY <3>3
      <4> QED  BY <4>1
    <3> QED  BY <3>1, <3>2, <3>3
  <2>3. g = [k \in 0 .. m + 1 |-> g[k]]
    OBVIOUS
  <2> HIDE DEF g
  <2>4. IsLevels(g, s, nodes, m + 1)
    BY <2>2, <2>3 DEF IsLevels
  <2> QED  BY <2>4
<1>3. T = Nat
  <2> HIDE DEF T
  <2>1. T \in SUBSET Nat
    BY DEF T
  <2> QED  BY <1>1, <1>2, <2>1, SetInduction
<1> QED  BY <1>3

\* Two of them agree as far as both go.
LEMMA LevelsAgree ==
  ASSUME NEW s, NEW nodes, NEW m \in Nat, NEW n \in Nat, m <= n,
         NEW f, IsLevels(f, s, nodes, m), NEW g, IsLevels(g, s, nodes, n)
  PROVE  \A k \in 0 .. m : f[k] = g[k]
<1> DEFINE T == {k \in Nat : k <= m => f[k] = g[k]}
<1>1. 0 \in T
  BY DEF IsLevels
<1>2. ASSUME NEW k \in T PROVE k + 1 \in T
  <2>1. SUFFICES ASSUME k + 1 <= m PROVE f[k + 1] = g[k + 1]
    OBVIOUS
  <2>2. k \in Nat /\ f[k] = g[k]
    BY <1>2, <2>1
  <2>3. k + 1 \in 0 .. m /\ k + 1 \in 0 .. n /\ (k + 1) - 1 = k /\ k + 1 # 0
    BY <2>1, <2>2
  <2>4. f[k + 1] = TargetsOf(s, f[k])
    BY <2>3 DEF IsLevels
  <2>5. g[k + 1] = TargetsOf(s, g[k])
    BY <2>3 DEF IsLevels
  <2> QED  BY <2>2, <2>4, <2>5
<1>3. T = Nat
  <2> HIDE DEF T
  <2>1. T \in SUBSET Nat
    BY DEF T
  <2> QED  BY <1>1, <1>2, <2>1, SetInduction
<1> QED  BY <1>3

\* f is what Levels defines.
AllLevels(f, s, nodes) ==
  f = [k \in Nat |-> IF k = 0 THEN nodes ELSE TargetsOf(s, f[k - 1])]

LEMMA LevelsAre ==
  ASSUME NEW s, NEW nodes
  PROVE  AllLevels(Levels(s, nodes), s, nodes)
<1> DEFINE upTo(m) == CHOOSE f : IsLevels(f, s, nodes, m)
           F == [k \in Nat |-> upTo(k)[k]]
<1>1. \A m \in Nat : IsLevels(upTo(m), s, nodes, m)
  BY LevelsExist
<1> HIDE DEF upTo
<1>2. ASSUME NEW k \in Nat
      PROVE  F[k] = IF k = 0 THEN nodes ELSE TargetsOf(s, F[k - 1])
  <2>1. CASE k = 0
    <3>1. upTo(0)[0] = nodes
      BY <1>1 DEF IsLevels
    <3> QED  BY <2>1, <3>1
  <2>2. CASE k # 0
    <3>1. k - 1 \in Nat /\ k - 1 <= k /\ k - 1 \in 0 .. k - 1
      BY <2>2
    <3>2. upTo(k)[k - 1] = upTo(k - 1)[k - 1]
      BY <1>1, <3>1, LevelsAgree
    <3>3. upTo(k)[k] = TargetsOf(s, upTo(k)[k - 1])
      <4>1. IsLevels(upTo(k), s, nodes, k) /\ k \in 0 .. k
        BY <1>1
      <4> QED  BY <2>2, <4>1 DEF IsLevels
    <3> QED  BY <2>2, <3>1, <3>2, <3>3
  <2> QED  BY <2>1, <2>2
<1>3. \E f : AllLevels(f, s, nodes)
  <2>1. F = [k \in Nat |-> F[k]]
    OBVIOUS
  <2> HIDE DEF F
  <2>2. AllLevels(F, s, nodes)
    BY <1>2, <2>1 DEF AllLevels
  <2> QED  BY <2>2
<1> DEFINE L == Levels(s, nodes)
<1>4. L = CHOOSE f : AllLevels(f, s, nodes)
  BY Zenon DEF Levels, AllLevels
<1> HIDE DEF L
<1>5. AllLevels(L, s, nodes)
  BY <1>3, <1>4
<1> QED  BY <1>5 DEF L

\* The defining equation of Levels: a nested call asks for the targets of all that the
\* call around it asked for.
LEMMA LevelsDef ==
  ASSUME NEW s, NEW nodes
  PROVE  /\ Levels(s, nodes)[0] = nodes
         /\ \A k \in Nat : Levels(s, nodes)[k + 1] = TargetsOf(s, Levels(s, nodes)[k])
<1> DEFINE L == Levels(s, nodes)
<1>1. AllLevels(L, s, nodes)
  BY LevelsAre
<1> HIDE DEF L
<1>2. L[0] = nodes
  BY <1>1 DEF AllLevels
<1>3. ASSUME NEW k \in Nat PROVE L[k + 1] = TargetsOf(s, L[k])
  <2>1. k + 1 \in Nat /\ k + 1 # 0 /\ (k + 1) - 1 = k
    OBVIOUS
  <2> QED  BY <1>1, <2>1 DEF AllLevels
<1> QED  BY <1>2, <1>3 DEF L

\* What one step down finds.
LEMMA TargetsAre ==
  ASSUME NEW s, NEW A, NEW x
  PROVE  x \in TargetsOf(s, A) <=>
           \E n \in A \cap Nodes(s) : \E r \in Range(s.References[n]) : x = r.target
BY DEF TargetsOf

LEMMA TargetsOfNodes ==
  ASSUME NEW s, NEW A, NEW B, A \cap Nodes(s) = B \cap Nodes(s)
  PROVE  TargetsOf(s, A) = TargetsOf(s, B)
BY DEF TargetsOf

LEMMA TargetsOfNothing ==
  ASSUME NEW s, NEW A, A \cap Nodes(s) = {}
  PROVE  TargetsOf(s, A) = {}
BY TargetsAre

\* A call that finds nothing to ask for has no calls below it that do.
LEMMA LevelsStayEmpty ==
  ASSUME NEW s, NEW nodes, NEW d \in Nat, Levels(s, nodes)[d] = {}
  PROVE  \A k \in Nat : Levels(s, nodes)[d + k] = {}
<1> DEFINE T == {k \in Nat : Levels(s, nodes)[d + k] = {}}
<1>1. 0 \in T
  <2>1. d + 0 = d
    OBVIOUS
  <2> QED  BY <2>1
<1>2. ASSUME NEW k \in T PROVE k + 1 \in T
  <2>1. k \in Nat /\ d + k \in Nat /\ Levels(s, nodes)[d + k] = {}
    OBVIOUS
  <2>2. \A n \in Nat : Levels(s, nodes)[n + 1] = TargetsOf(s, Levels(s, nodes)[n])
    BY LevelsDef
  <2>3. Levels(s, nodes)[(d + k) + 1] = {}
    BY <2>1, <2>2, TargetsOfNothing
  <2>4. d + (k + 1) = (d + k) + 1
    BY <2>1
  <2> QED  BY <2>1, <2>3, <2>4
<1>3. T = Nat
  <2> HIDE DEF T
  <2>1. T \in SUBSET Nat
    BY DEF T
  <2> QED  BY <1>1, <1>2, <2>1, SetInduction
<1> QED  BY <1>3

\* All that is asked for at depth j and below.
Below(s, nodes, j) == UNION {Levels(s, nodes)[k] : k \in {i \in Nat : i >= j}}

LEMMA BelowIs ==
  ASSUME NEW s, NEW nodes, NEW j \in Nat, NEW x
  PROVE  x \in Below(s, nodes, j) <=> \E k \in Nat : k >= j /\ x \in Levels(s, nodes)[k]
BY DEF Below

LEMMA BelowNext ==
  ASSUME NEW s, NEW nodes, NEW j \in Nat
  PROVE  TargetsOf(s, Below(s, nodes, j)) = Below(s, nodes, j + 1)
<1>1. ASSUME NEW x \in TargetsOf(s, Below(s, nodes, j)) PROVE x \in Below(s, nodes, j + 1)
  <2>1. PICK n \in Below(s, nodes, j) \cap Nodes(s) :
              \E r \in Range(s.References[n]) : x = r.target
    BY <1>1, TargetsAre
  <2>2. PICK k \in Nat : k >= j /\ n \in Levels(s, nodes)[k]
    BY <2>1, BelowIs
  <2>3. x \in TargetsOf(s, Levels(s, nodes)[k])
    BY <2>1, <2>2, TargetsAre
  <2>4. x \in Levels(s, nodes)[k + 1] /\ k + 1 \in Nat /\ k + 1 >= j + 1 /\ j + 1 \in Nat
    BY <2>2, <2>3, LevelsDef
  <2> QED  BY <2>4, BelowIs
<1>2. ASSUME NEW x \in Below(s, nodes, j + 1) PROVE x \in TargetsOf(s, Below(s, nodes, j))
  <2>1. PICK k \in Nat : k >= j + 1 /\ x \in Levels(s, nodes)[k]
    BY <1>2, BelowIs
  <2>2. k - 1 \in Nat /\ k - 1 >= j /\ k = (k - 1) + 1
    BY <2>1
  <2>3. Levels(s, nodes)[(k - 1) + 1] = TargetsOf(s, Levels(s, nodes)[k - 1])
    BY <2>2, LevelsDef
  <2>4. x \in TargetsOf(s, Levels(s, nodes)[k - 1])
    BY <2>1, <2>2, <2>3
  <2>5. PICK n \in Levels(s, nodes)[k - 1] \cap Nodes(s) :
              \E r \in Range(s.References[n]) : x = r.target
    BY <2>4, TargetsAre
  <2>6. n \in Below(s, nodes, j)
    BY <2>2, <2>5, BelowIs
  <2> QED  BY <2>5, <2>6, TargetsAre
<1> QED  BY <1>1, <1>2

LEMMA BelowShrinks ==
  ASSUME NEW s, NEW nodes, NEW j \in Nat
  PROVE  /\ Below(s, nodes, j + 1) \subseteq Below(s, nodes, j)
         /\ Levels(s, nodes)[j] \subseteq Below(s, nodes, j)
<1>1. j + 1 \in Nat /\ j >= j /\ \A k \in Nat : k >= j + 1 => k >= j
  OBVIOUS
<1> QED  BY <1>1, BelowIs

LEMMA TargetsGrow ==
  ASSUME NEW s, NEW A, NEW B, A \subseteq B
  PROVE  TargetsOf(s, A) \subseteq TargetsOf(s, B)
BY DEF TargetsOf

\* Nodes each of which is a target of one of them: in a finite set of nodes they lie on
\* cycles or behind them.
Cyclic(s, X) == X # {} /\ X \subseteq Nodes(s) /\ X \subseteq TargetsOf(s, X)

\* If the nested calls end, nothing that they ask for is on a cycle.
LEMMA EndWithoutCycle ==
  ASSUME NEW s, NEW nodes, NEW d \in Nat, Levels(s, nodes)[d] = {},
         NEW X \in SUBSET Below(s, nodes, 0), Cyclic(s, X)
  PROVE  FALSE
<1> DEFINE T == {j \in Nat : X \subseteq Below(s, nodes, j)}
<1>1. 0 \in T
  OBVIOUS
<1>2. ASSUME NEW j \in T PROVE j + 1 \in T
  <2>1. j \in Nat /\ X \subseteq Below(s, nodes, j)
    OBVIOUS
  <2>2. X \subseteq TargetsOf(s, Below(s, nodes, j))
    BY <2>1, TargetsGrow DEF Cyclic
  <2>3. X \subseteq Below(s, nodes, j + 1)
    BY <2>1, <2>2, BelowNext
  <2> QED  BY <2>1, <2>3
<1>3. T = Nat
  <2> HIDE DEF T
  <2>1. T \in SUBSET Nat
    BY DEF T
  <2> QED  BY <1>1, <1>2, <2>1, SetInduction
<1>4. PICK x \in X : TRUE
  BY DEF Cyclic
<1>5. x \in Below(s, nodes, d)
  BY <1>3, <1>4
<1>6. PICK i \in Nat : i >= d /\ x \in Levels(s, nodes)[i]
  BY <1>5, BelowIs
<1>7. i - d \in Nat /\ i = d + (i - d)
  BY <1>6
<1>8. Levels(s, nodes)[d + (i - d)] = {}
  BY <1>7, LevelsStayEmpty
<1> QED  BY <1>6, <1>7, <1>8

\* Without a cycle each step down loses a node, until none is left.
LEMMA NoCycleEnds ==
  ASSUME NEW s, IsFiniteSet(Nodes(s)), NEW nodes,
         \A X \in SUBSET Below(s, nodes, 0) : ~Cyclic(s, X)
  PROVE  Cardinality(Nodes(s)) \in Nat /\ Levels(s, nodes)[Cardinality(Nodes(s)) + 1] = {}
<1> DEFINE N == Cardinality(Nodes(s))
           A(k) == Below(s, nodes, k) \cap Nodes(s)
           T == {j \in Nat : /\ Below(s, nodes, j) \subseteq Below(s, nodes, 0)
                             /\ A(j) = {} \/ Cardinality(A(j)) + j <= N}
<1>1. N \in Nat
  BY FS_CardinalityType
<1>2. 0 \in T
  <2>1. A(0) \subseteq Nodes(s)
    OBVIOUS
  <2> HIDE DEF A
  <2>2. Cardinality(A(0)) <= N /\ IsFiniteSet(A(0))
    BY <2>1, FS_Subset
  <2>3. Cardinality(A(0)) \in Nat
    BY <2>2, FS_CardinalityType
  <2> QED  BY <1>1, <2>2, <2>3
<1>3. ASSUME NEW j \in T PROVE j + 1 \in T
  <2>1. /\ j \in Nat /\ Below(s, nodes, j) \subseteq Below(s, nodes, 0)
        /\ A(j) = {} \/ Cardinality(A(j)) + j <= N
    OBVIOUS
  <2>2. /\ A(j + 1) \subseteq A(j) /\ A(j) \subseteq Nodes(s)
        /\ Below(s, nodes, j + 1) \subseteq Below(s, nodes, 0)
    BY <2>1, BelowShrinks
  <2>3. A(j + 1) = A(j) => A(j) = {}
    <3> SUFFICES ASSUME A(j + 1) = A(j), A(j) # {} PROVE FALSE
      OBVIOUS
    <3>1. TargetsOf(s, A(j)) = Below(s, nodes, j + 1)
      <4>1. A(j) \cap Nodes(s) = Below(s, nodes, j) \cap Nodes(s)
        OBVIOUS
      <4>2. TargetsOf(s, A(j)) = TargetsOf(s, Below(s, nodes, j))
        BY <4>1, TargetsOfNodes
      <4> QED  BY <2>1, <4>2, BelowNext
    <3>2. Cyclic(s, A(j))
      BY <3>1 DEF Cyclic
    <3>3. A(j) \in SUBSET Below(s, nodes, 0)
      BY <2>1
    <3> QED  BY <3>2, <3>3
  <2> HIDE DEF A
  <2>4. IsFiniteSet(A(j))
    BY <2>2, FS_Subset
  <2>5. /\ IsFiniteSet(A(j + 1))
        /\ Cardinality(A(j + 1)) <= Cardinality(A(j))
        /\ Cardinality(A(j + 1)) = Cardinality(A(j)) => A(j + 1) = A(j)
    BY <2>2, <2>4, FS_Subset
  <2>6. Cardinality(A(j)) \in Nat /\ Cardinality(A(j + 1)) \in Nat
    BY <2>4, <2>5, FS_CardinalityType
  <2>7. CASE A(j) = {}
    BY <2>1, <2>2, <2>7
  <2>8. CASE A(j) # {}
    <3>1. Cardinality(A(j + 1)) # Cardinality(A(j))
      BY <2>3, <2>5, <2>8
    <3>2. Cardinality(A(j + 1)) + (j + 1) <= N
      BY <1>1, <2>1, <2>5, <2>6, <2>8, <3>1
    <3> QED  BY <2>1, <2>2, <3>2
  <2> QED  BY <2>7, <2>8
<1>4. T = Nat
  <2> HIDE DEF T
  <2>1. T \in SUBSET Nat
    BY DEF T
  <2> QED  BY <1>2, <1>3, <2>1, SetInduction
<1>5. A(N) = {}
  <2>1. A(N) = {} \/ Cardinality(A(N)) + N <= N
    BY <1>1, <1>4
  <2>2. A(N) \subseteq Nodes(s)
    OBVIOUS
  <2> HIDE DEF A
  <2>3. IsFiniteSet(A(N))
    BY <2>2, FS_Subset
  <2>4. Cardinality(A(N)) \in Nat
    BY <2>3, FS_CardinalityType
  <2>5. A(N) # {} => Cardinality(A(N)) = 0
    BY <1>1, <2>1, <2>4
  <2> QED  BY <2>3, <2>5, FS_EmptySet
<1>6. TargetsOf(s, Below(s, nodes, N)) = {}
  BY <1>5, TargetsOfNothing
<1>7. Below(s, nodes, N + 1) = {}
  BY <1>1, <1>6, BelowNext
<1> QED  BY <1>1, <1>7, BelowShrinks

\* SelectNodesHierarchy keeps no record of what it has seen. Its nested calls end if and
\* only if nothing they ask for lies on a cycle, and they end then at a depth of at most
\* one more than there are nodes: the bound of HierarchyEnds loses nothing.
THEOREM HierarchyEndsWithoutCycle ==
  ASSUME NEW s, IsFiniteSet(Nodes(s)), NEW nodes
  PROVE  /\ HierarchyEnds(s, nodes) <=> \E d \in Nat : Levels(s, nodes)[d] = {}
         /\ HierarchyEnds(s, nodes) <=> \A X \in SUBSET Below(s, nodes, 0) : ~Cyclic(s, X)
<1> DEFINE N == Cardinality(Nodes(s))
<1>1. N \in Nat
  BY FS_CardinalityType
<1>2. HierarchyEnds(s, nodes) => \E d \in Nat : Levels(s, nodes)[d] = {}
  BY <1>1 DEF HierarchyEnds
<1>3. (\E d \in Nat : Levels(s, nodes)[d] = {}) =>
        \A X \in SUBSET Below(s, nodes, 0) : ~Cyclic(s, X)
  BY EndWithoutCycle
<1>4. ASSUME \A X \in SUBSET Below(s, nodes, 0) : ~Cyclic(s, X)
      PROVE  HierarchyEnds(s, nodes)
  <2>1. Levels(s, nodes)[N + 1] = {}
    BY <1>4, NoCycleEnds
  <2>2. N + 1 \in 0 .. N + 1
    BY <1>1
  <2> QED  BY <2>1, <2>2 DEF HierarchyEnds
<1> QED  BY <1>2, <1>3, <1>4

\* What SelectNodesHierarchy returns, when it returns, is what can be reached: it has the
\* nodes asked for and every target of a node that it has, and it is the smallest such set.
THEOREM HierarchyIsReach ==
  ASSUME NEW s, NEW nodes, HierarchyEnds(s, nodes)
  PROVE  LET found == SelectNodesHierarchy(s, nodes) IN
         /\ nodes \subseteq found
         /\ TargetsOf(s, found) \subseteq found
         /\ \A C : nodes \subseteq C /\ TargetsOf(s, C) \subseteq C => found \subseteq C
<1> DEFINE N == Cardinality(Nodes(s))
           L == Levels(s, nodes)
           depth == CHOOSE k \in 0 .. N + 1 : L[k] = {}
           found == SelectNodesHierarchy(s, nodes)
<1>1. L[0] = nodes /\ \A k \in Nat : L[k + 1] = TargetsOf(s, L[k])
  BY LevelsDef
<1>2. found = UNION {L[k] : k \in 0 .. depth}
  BY DEF SelectNodesHierarchy
<1>3. depth \in Nat /\ L[depth] = {}
  <2>1. \E k \in 0 .. N + 1 : L[k] = {}
    BY DEF HierarchyEnds
  <2> HIDE DEF L
  <2>2. depth \in 0 .. N + 1 /\ L[depth] = {}
    BY <2>1
  <2>3. \A k \in 0 .. N + 1 : k \in Nat
    OBVIOUS
  <2> QED  BY <2>2, <2>3
<1> HIDE DEF found, depth, L
<1>4. \A x : x \in found <=> \E k \in 0 .. depth : x \in L[k]
  BY <1>2
<1>5. nodes \subseteq found
  BY <1>1, <1>3, <1>4
<1>6. ASSUME NEW x \in TargetsOf(s, found) PROVE x \in found
  <2>1. PICK n \in found \cap Nodes(s) : \E r \in Range(s.References[n]) : x = r.target
    BY <1>6, TargetsAre
  <2>2. PICK k \in 0 .. depth : n \in L[k]
    BY <1>4, <2>1
  <2>3. x \in TargetsOf(s, L[k])
    BY <2>1, <2>2, TargetsAre
  <2>4. k # depth
    BY <1>3, <2>2
  <2>5. k \in Nat /\ k + 1 \in 0 .. depth
    BY <1>3, <2>4
  <2> QED  BY <1>1, <1>4, <2>3, <2>5
<1>7. ASSUME NEW C, nodes \subseteq C, TargetsOf(s, C) \subseteq C PROVE found \subseteq C
  <2> DEFINE T == {k \in Nat : L[k] \subseteq C}
  <2>1. 0 \in T
    BY <1>1, <1>7
  <2>2. ASSUME NEW k \in T PROVE k + 1 \in T
    <3>1. k \in Nat /\ L[k] \subseteq C /\ L[k + 1] = TargetsOf(s, L[k])
      BY <1>1
    <3>2. ASSUME NEW x \in L[k + 1] PROVE x \in C
      <4>1. PICK n \in L[k] \cap Nodes(s) : \E r \in Range(s.References[n]) : x = r.target
        BY <3>1, <3>2, TargetsAre
      <4>2. x \in TargetsOf(s, C)
        BY <3>1, <4>1, TargetsAre
      <4> QED  BY <1>7, <4>2
    <3> QED  BY <3>1, <3>2
  <2>3. T = Nat
    <3> HIDE DEF T
    <3>1. T \in SUBSET Nat
      BY DEF T
    <3> QED  BY <2>1, <2>2, <3>1, SetInduction
  <2>4. \A k \in 0 .. depth : L[k] \subseteq C
    <3>1. \A k \in 0 .. depth : k \in Nat
      OBVIOUS
    <3> QED  BY <2>3, <3>1
  <2> QED  BY <1>4, <2>4
<1> QED  BY <1>5, <1>6, <1>7 DEF found

--------------------------------------------------------------------------------
(* Where references come from. *)

LEMMA AppendRange ==
  ASSUME NEW S, NEW q \in Seq(S), NEW d
  PROVE  Range(Append(q, d)) = Range(q) \cup {d}
<1>1. /\ DOMAIN Append(q, d) = 1 .. Len(q) + 1
      /\ DOMAIN q = 1 .. Len(q)
      /\ Len(q) \in Nat
      /\ \A i \in 1 .. Len(q) : Append(q, d)[i] = q[i]
      /\ Append(q, d)[Len(q) + 1] = d
  OBVIOUS
<1>2. 1 .. Len(q) + 1 = (1 .. Len(q)) \cup {Len(q) + 1}
  BY <1>1
<1> QED  BY <1>1, <1>2 DEF Range

\* A reference that is found in t is one of s, or d and found at source.
OneLinkMore(s, source, d, t) ==
  \A n \in Nodes(s) : \A r \in Range(t.References[n]) :
    r \in Range(s.References[n]) \/ (n = source /\ r = d)

LEMMA WithReferenceLinks ==
  ASSUME NEW s, WellFormed(s), NEW source \in Nodes(s), NEW d \in Descriptions
  PROVE  OneLinkMore(s, source, d, WithReference(s, source, d))
<1> SUFFICES ASSUME NEW n \in Nodes(s),
                    NEW r \in Range(WithReference(s, source, d).References[n])
             PROVE  r \in Range(s.References[n]) \/ (n = source /\ r = d)
  BY DEF OneLinkMore
<1>1. WithReference(s, source, d).References
        = [s.References EXCEPT ![source] = Append(s.References[source], d)]
  BY WithReferenceWorks
<1>2. s.References \in [Nodes(s) -> Seq(Descriptions)]
  BY DEF WellFormed
<1>3. CASE n # source
  BY <1>1, <1>2, <1>3
<1>4. CASE n = source
  <2>1. WithReference(s, source, d).References[n] = Append(s.References[n], d)
    BY <1>1, <1>2, <1>4
  <2>2. s.References[n] \in Seq(Descriptions)
    BY <1>2
  <2> QED  BY <1>4, <2>1, <2>2, AppendRange
<1> QED  BY <1>3, <1>4

LEMMA AddReferenceLinks ==
  ASSUME NEW s, WellFormed(s), NEW item, ReferenceItem(item),
         NEW n \in Nodes(s), NEW r \in Range(AddReference(s, item).References[n])
  PROVE  \/ r \in Range(s.References[n])
         \/ /\ n = item.source /\ r.type = item.type /\ r.target = item.target
            /\ r.class = item.class /\ r.forward = item.forward
<1>1. CASE AddReferenceFails(s, item)
  BY <1>1 DEF AddReference
<1>2. CASE ~AddReferenceFails(s, item)
  <2> DEFINE d == Description(item.type, item.target, item.class, NameOf(s, item.target),
                              item.forward)
  <2>1. item.source \in Nodes(s) /\ ~NameThrows(s, item.target)
    BY <1>2 DEF AddReferenceFails
  <2>2. NameOf(s, item.target) \in Names \cup {NoName}
    BY <2>1, NameOfType
  <2>3. d \in Descriptions /\ d.type = item.type /\ d.target = item.target
          /\ d.class = item.class /\ d.forward = item.forward
    BY <2>2 DEF Description, Descriptions, ReferenceItem
  <2>4. AddReference(s, item) = WithReference(s, item.source, d)
    BY <1>2 DEF AddReference
  <2> HIDE DEF d
  <2>5. OneLinkMore(s, item.source, d, AddReference(s, item))
    BY <2>1, <2>3, <2>4, WithReferenceLinks
  <2> QED  BY <2>3, <2>5 DEF OneLinkMore
<1> QED  BY <1>1, <1>2

\* The references that AddNodes makes: one from the parent, one to the type.
AddedLinks(s, item, id, t) ==
  \A n \in Nodes(t) : \A r \in Range(t.References[n]) :
    \/ n \in Nodes(s) /\ r \in Range(s.References[n])
    \/ /\ AddNodeStatus(s, item, id) \in Accepted
       /\ n # Null /\ n = item.parent
       /\ r = Description(item.type, id, item.class, item.name, TRUE)
    \/ /\ AddNodeStatus(s, item, id) \in Accepted
       /\ n = id /\ item.definition # Null
       /\ r.type = HasTypeDefinition /\ r.target = item.definition
       /\ r.class = "DataType" /\ r.forward = TRUE

LEMMA AddNodeLinks ==
  ASSUME NEW s, WellFormed(s), NEW item, NodeItem(item)
  PROVE  AddedLinks(s, item, GetNewNodeId(s, item.id), AddNode(s, item))
<1> DEFINE id == GetNewNodeId(s, item.id)
           t == AddNode(s, item)
           status == AddNodeStatus(s, item, id)
           t1 == WithNumber(s, item.id)
           t2 == WithNode(t1, item, id)
           t3 == WithParent(t2, item, id)
           t4 == WithDefinition(t3, item, id)
           d == Description(item.type, id, item.class, item.name, TRUE)
           ref == TypeReference(item, id)
<1>1. id \in NodeIds /\ item.id \in NodeIds
  BY NewIdType DEF NodeItem
<1>2. status \in Accepted => /\ id \notin Nodes(s)
                             /\ item.parent # Null => item.parent \in Nodes(s)
  BY DEF AddNodeStatus, Accepted, Refused
<1>3. t = IF status \in Accepted THEN t4 ELSE t1
  BY DEF AddNode
<1>4. d \in Descriptions
  BY <1>1 DEF Description, Descriptions, NodeItem
<1>5. /\ ReferenceItem(ref) /\ ref.source = id /\ ref.type = HasTypeDefinition
      /\ ref.target = item.definition /\ ref.class = "DataType" /\ ref.forward = TRUE
  BY <1>1 DEF TypeReference, ReferenceItem, NodeItem, HasTypeDefinition, NodeIds, NodeClasses
<1> HIDE DEF id, t, status, d, ref
<1>6. /\ WellFormed(t1) /\ t1.Attributes = s.Attributes /\ t1.References = s.References
      /\ t1.GetValueCallback = s.GetValueCallback
  BY <1>1, WithNumberWorks
<1> HIDE DEF t1
<1>7. Nodes(t1) = Nodes(s)
  BY <1>6 DEF Nodes
<1>8. CASE status \notin Accepted
  BY <1>3, <1>6, <1>7, <1>8 DEF t, id, AddedLinks
<1>9. CASE status \in Accepted
  <2>1. /\ WellFormed(t2) /\ Nodes(t2) = Nodes(s) \cup {id}
        /\ Grown(t1, t2) /\ t2.Attributes[id] = NewAttributes(item)
    BY <1>1, <1>2, <1>6, <1>7, <1>9, WithNodeWorks
  <2>2. /\ t2.References[id] = << >>
        /\ \A n \in Nodes(s) : t2.References[n] = s.References[n]
    <3>1. t2.References = [n \in Nodes(s) \cup {id} |->
                             IF n = id THEN << >> ELSE s.References[n]]
      BY <1>6, <1>7 DEF WithNode, WellFormed, EmptySpace
    <3> QED  BY <1>2, <1>9, <3>1
  <2>3. <<id, "BrowseName">> \notin t2.GetValueCallback
    <3>1. t2.GetValueCallback = s.GetValueCallback
      BY <1>6, <2>1 DEF Grown
    <3> QED  BY <1>2, <1>9, <3>1 DEF WellFormed, HasAttribute
  <2> HIDE DEF t2
  <2>4. WellFormed(t3) /\ t3.Attributes = t2.Attributes
    BY <1>2, <1>9, <2>1, <2>3, WithParentWorks
  <2>5. Nodes(t3) = Nodes(s) \cup {id}
    BY <2>1, <2>4 DEF Nodes
  <2>6. ASSUME NEW n \in Nodes(t3), NEW r \in Range(t3.References[n])
        PROVE  \/ n \in Nodes(s) /\ r \in Range(s.References[n])
               \/ n # Null /\ n = item.parent /\ r = d
    <3>1. r \in Range(t2.References[n]) \/ (n # Null /\ n = item.parent /\ r = d)
      <4>1. CASE item.parent = Null
        BY <2>6, <4>1 DEF WithParent
      <4>2. CASE item.parent # Null
        <5>1. t3 = WithReference(t2, item.parent, d) /\ item.parent \in Nodes(t2)
          BY <1>2, <1>9, <2>1, <4>2 DEF WithParent, d
        <5>2. n \in Nodes(t2)
          BY <2>1, <2>5
        <5>3. OneLinkMore(t2, item.parent, d, t3)
          BY <1>4, <2>1, <5>1, WithReferenceLinks
        <5> QED  BY <2>6, <4>2, <5>2, <5>3 DEF OneLinkMore
      <4> QED  BY <4>1, <4>2
    <3>2. r \in Range(t2.References[n]) => n \in Nodes(s)
      <4>1. Range(<< >>) = {}
        BY DEF Range
      <4> QED  BY <2>2, <2>5, <4>1
    <3> QED  BY <2>2, <3>1, <3>2
  <2> HIDE DEF t3
  <2>7. t4.Attributes = t3.Attributes
    BY <2>4, <2>5, WithDefinitionWorks
  <2>8. Nodes(t4) = Nodes(t3)
    BY <2>7 DEF Nodes
  <2>9. ASSUME NEW n \in Nodes(t4), NEW r \in Range(t4.References[n])
        PROVE  \/ r \in Range(t3.References[n])
               \/ /\ n = id /\ item.definition # Null
                  /\ r.type = HasTypeDefinition /\ r.target = item.definition
                  /\ r.class = "DataType" /\ r.forward = TRUE
    <3>1. CASE item.definition = Null
      BY <2>9, <3>1 DEF WithDefinition
    <3>2. CASE item.definition # Null
      <4>1. t4 = AddReference(t3, ref)
        BY <3>2 DEF WithDefinition, ref
      <4> QED  BY <1>5, <2>4, <2>8, <2>9, <3>2, <4>1, AddReferenceLinks
    <3> QED  BY <3>1, <3>2
  <2> HIDE DEF t4
  <2>10. ASSUME NEW n \in Nodes(t4), NEW r \in Range(t4.References[n])
         PROVE  \/ n \in Nodes(s) /\ r \in Range(s.References[n])
                \/ n # Null /\ n = item.parent /\ r = d
                \/ /\ n = id /\ item.definition # Null
                   /\ r.type = HasTypeDefinition /\ r.target = item.definition
                   /\ r.class = "DataType" /\ r.forward = TRUE
    <3>1. CASE r \in Range(t3.References[n])
      BY <2>6, <2>8, <3>1
    <3>2. CASE r \notin Range(t3.References[n])
      BY <2>9, <3>2
    <3> QED  BY <3>1, <3>2
  <2> QED  BY <1>3, <1>9, <2>10 DEF id, t, status, d, AddedLinks
<1> QED  BY <1>8, <1>9

\* A generated id is never one of namespace 0.
GeneratedOutsideStandard ==
  \A i \in DOMAIN log : GetsNewNumber(log[i].item.id) => log[i].id[1] # 0

LEMMA NewIdOutsideStandard ==
  ASSUME NEW s, NEW id \in NodeIds, GetsNewNumber(id)
  PROVE  GetNewNodeId(s, id)[1] # 0
<1>1. CASE id = Null
  BY <1>1 DEF GetNewNodeId, DefaultIdx
<1>2. CASE id # Null
  <2>1. id = <<id[1], id[2]>> /\ id[2] = 0
    BY DEF NodeIds, GetsNewNumber
  <2>2. id[1] # 0
    BY <1>2, <2>1 DEF Null
  <2>3. GetNewNodeId(s, id) = <<id[1], s.MaxNodeIdNum + 1>>
    BY <1>2 DEF GetNewNodeId
  <2> QED  BY <2>2, <2>3
<1> QED  BY <1>1, <1>2


LEMMA LinksInit == Init => EveryReferenceWasAsked /\ GeneratedOutsideStandard
<1> SUFFICES ASSUME Init PROVE EveryReferenceWasAsked /\ GeneratedOutsideStandard
  OBVIOUS
<1>1. Nodes(space) = {} /\ DOMAIN log = {}
  BY DEF Init, EmptySpace, Nodes
<1> QED  BY <1>1 DEF EveryReferenceWasAsked, GeneratedOutsideStandard

LEMMA AddNodesLinks ==
  ASSUME Inv, EveryReferenceWasAsked, GeneratedOutsideStandard, NEW item \in NodeItems,
         AddNodes(item)
  PROVE  EveryReferenceWasAsked' /\ GeneratedOutsideStandard'
<1> DEFINE id == GetNewNodeId(space, item.id)
           status == AddNodeStatus(space, item, id)
           e == [item |-> item, id |-> id, status |-> status]
           last == Len(log) + 1
<1>1. space' = AddNode(space, item) /\ log' = Append(log, e)
  BY DEF AddNodes
<1>2. WellFormed(space) /\ log \in Seq(Calls) /\ NodeItem(item) /\ item.id \in NodeIds
  BY NodeItemsAre DEF Inv, TypeOK, NodeItem
<1>3. ASSUME NEW n \in Nodes(space'), NEW r \in Range(space'.References[n])
      PROVE  \/ n \in Nodes(space) /\ r \in Range(space.References[n])
             \/ /\ status \in Accepted /\ n # Null /\ n = item.parent
                /\ r = Description(item.type, id, item.class, item.name, TRUE)
             \/ /\ status \in Accepted /\ n = id /\ item.definition # Null
                /\ r.type = HasTypeDefinition /\ r.target = item.definition
                /\ r.class = "DataType" /\ r.forward = TRUE
  <2>1. AddedLinks(space, item, id, space')
    BY <1>1, <1>2, AddNodeLinks
  <2> QED  BY <1>3, <2>1 DEF AddedLinks
<1>4. GetsNewNumber(item.id) => id[1] # 0
  BY <1>2, NewIdOutsideStandard
<1>5. e.item = item /\ e.id = id /\ e.status = status
  OBVIOUS
<1> HIDE DEF id, status, e
<1>6. /\ DOMAIN log' = DOMAIN log \cup {last}
      /\ log'[last] = e
      /\ \A i \in DOMAIN log : log'[i] = log[i]
  <2>1. DOMAIN log = 1 .. Len(log) /\ Len(log) \in Nat
    BY <1>2
  <2> QED  BY <1>1, <1>2, <2>1
<1> HIDE DEF last
<1>7. /\ \A i \in AcceptedCalls : i \in AcceptedCalls' /\ log'[i] = log[i]
      /\ status \in Accepted => last \in AcceptedCalls'
  BY <1>5, <1>6 DEF AcceptedCalls
<1>8. GeneratedOutsideStandard'
  BY <1>4, <1>5, <1>6 DEF GeneratedOutsideStandard
<1>9. ASSUME NEW n \in Nodes(space'), NEW r \in Range(space'.References[n])
      PROVE  AskedAsChild(n, r)' \/ AskedAsType(n, r)' \/ AskedAsReference(n, r)'
  <2>1. CASE n \in Nodes(space) /\ r \in Range(space.References[n])
    <3>1. AskedAsChild(n, r) \/ AskedAsType(n, r) \/ AskedAsReference(n, r)
      BY <2>1 DEF EveryReferenceWasAsked
    <3>2. AskedAsChild(n, r) => AskedAsChild(n, r)'
      BY <1>7 DEF AskedAsChild
    <3>3. AskedAsType(n, r) => AskedAsType(n, r)'
      BY <1>7 DEF AskedAsType
    <3>4. AskedAsReference(n, r) => AskedAsReference(n, r)'
      BY DEF AskedAsReference
    <3> QED  BY <3>1, <3>2, <3>3, <3>4
  <2>2. CASE /\ status \in Accepted /\ n # Null /\ n = item.parent
             /\ r = Description(item.type, id, item.class, item.name, TRUE)
    <3>1. Link(r) = <<item.type, id, item.class, TRUE>>
      BY <2>2 DEF Link, Description
    <3> QED  BY <1>5, <1>6, <1>7, <2>2, <3>1 DEF AskedAsChild
  <2>3. CASE /\ status \in Accepted /\ n = id /\ item.definition # Null
             /\ r.type = HasTypeDefinition /\ r.target = item.definition
             /\ r.class = "DataType" /\ r.forward = TRUE
    <3>1. Link(r) = <<HasTypeDefinition, item.definition, "DataType", TRUE>>
      BY <2>3 DEF Link
    <3> QED  BY <1>5, <1>6, <1>7, <2>3, <3>1 DEF AskedAsType
  <2> QED  BY <1>3, <2>1, <2>2, <2>3
<1> QED  BY <1>8, <1>9 DEF EveryReferenceWasAsked

LEMMA AddReferencesLinks ==
  ASSUME Inv, EveryReferenceWasAsked, GeneratedOutsideStandard, NEW item \in ReferenceItems,
         AddReferences(item)
  PROVE  EveryReferenceWasAsked' /\ GeneratedOutsideStandard'
<1>1. WellFormed(space) /\ ReferenceItem(item) /\ log' = log /\ space' = AddReference(space, item)
  BY ItemsAssumption DEF Inv, TypeOK, ReferenceItem, AddReferences
<1>2. Nodes(space') = Nodes(space)
  BY <1>1, AddReferenceWorks DEF Nodes
<1>3. ASSUME NEW n \in Nodes(space), NEW r \in Range(space'.References[n])
      PROVE  AskedAsChild(n, r)' \/ AskedAsType(n, r)' \/ AskedAsReference(n, r)'
  <2>1. \/ r \in Range(space.References[n])
        \/ /\ n = item.source /\ r.type = item.type /\ r.target = item.target
           /\ r.class = item.class /\ r.forward = item.forward
    <3>1. r \in Range(AddReference(space, item).References[n])
      BY <1>1, <1>3
    <3> QED  BY <1>1, <3>1, AddReferenceLinks
  <2>2. CASE r \in Range(space.References[n])
    <3>1. AskedAsChild(n, r) \/ AskedAsType(n, r) \/ AskedAsReference(n, r)
      BY <2>2 DEF EveryReferenceWasAsked
    <3> QED  BY <1>1, <3>1 DEF AskedAsChild, AskedAsType, AskedAsReference, AcceptedCalls
  <2>3. CASE /\ n = item.source /\ r.type = item.type /\ r.target = item.target
             /\ r.class = item.class /\ r.forward = item.forward
    BY <2>3 DEF AskedAsReference, Link
  <2> QED  BY <2>1, <2>2, <2>3
<1>4. GeneratedOutsideStandard'
  BY <1>1 DEF GeneratedOutsideStandard
<1> QED  BY <1>2, <1>3, <1>4 DEF EveryReferenceWasAsked

LEMMA SameLinks ==
  ASSUME EveryReferenceWasAsked, GeneratedOutsideStandard, Nodes(space') = Nodes(space),
         space'.References = space.References, log' = log
  PROVE  EveryReferenceWasAsked' /\ GeneratedOutsideStandard'
<1>1. \A n, r : /\ AskedAsChild(n, r) => AskedAsChild(n, r)'
                /\ AskedAsType(n, r) => AskedAsType(n, r)'
                /\ AskedAsReference(n, r) => AskedAsReference(n, r)'
  BY DEF AskedAsChild, AskedAsType, AskedAsReference, AcceptedCalls
<1> QED  BY <1>1 DEF EveryReferenceWasAsked, GeneratedOutsideStandard

LEMMA LinksInvariance == Spec => [](EveryReferenceWasAsked /\ GeneratedOutsideStandard)
<1> DEFINE I == EveryReferenceWasAsked /\ GeneratedOutsideStandard
<1>1. Inv /\ I /\ [Next]_vars => I'
  <2> SUFFICES ASSUME Inv, I, [Next]_vars PROVE I'
    OBVIOUS
  <2>1. ASSUME NEW item \in NodeItems, AddNodes(item) PROVE I'
    BY <2>1, AddNodesLinks
  <2>2. ASSUME NEW item \in ReferenceItems, AddReferences(item) PROVE I'
    BY <2>2, AddReferencesLinks
  <2>3. ASSUME NEW w \in WriteValues, Write(w[1], w[2], w[3]) PROVE I'
    <3>1. space'.References = space.References /\ Nodes(space') = Nodes(space)
      BY <2>3, WriteInv
    <3>2. log' = log
      BY <2>3 DEF Write
    <3> QED  BY <3>1, <3>2, SameLinks
  <2>4. ASSUME NEW m \in CallbackNodes, NEW empty \in BOOLEAN,
               SetValueCallback(m, "BrowseName", empty) \/ SetMethod(m, empty)
        PROVE  I'
    <3>1. space'.References = space.References /\ space'.Attributes = space.Attributes
      BY <2>4, SetValueCallbackInv, SetMethodInv
    <3>2. Nodes(space') = Nodes(space) /\ log' = log
      BY <2>4, <3>1 DEF Nodes, SetValueCallback, SetMethod
    <3> QED  BY <3>1, <3>2, SameLinks
  <2>5. CASE UNCHANGED vars
    <3>1. space' = space /\ log' = log
      BY <2>5 DEF vars
    <3>2. Nodes(space') = Nodes(space) /\ space'.References = space.References
      BY <3>1
    <3> QED  BY <3>1, <3>2, SameLinks
  <2> QED  BY <2>1, <2>2, <2>3, <2>4, <2>5 DEF Next
<1> QED  BY <1>1, LinksInit, Invariance, PTL DEF Spec

\* Nothing is linked that nobody asked to link.
THEOREM ReferencesWereAsked == Spec => []EveryReferenceWasAsked
<1> QED  BY LinksInvariance, PTL

--------------------------------------------------------------------------------
(* Browsing types ends. *)

LEMMA NodesFinite == Inv => IsFiniteSet(Nodes(space))
<1> SUFFICES ASSUME Inv PROVE IsFiniteSet(Nodes(space))
  OBVIOUS
<1>1. log \in Seq(Calls) /\ Nodes(space) = {log[i].id : i \in AcceptedCalls}
  BY DEF Inv, TypeOK, OneNodePerAnswer
<1>2. IsFiniteSet(AcceptedCalls)
  <2>1. Len(log) \in Nat /\ DOMAIN log = 1 .. Len(log)
    BY <1>1
  <2>2. IsFiniteSet(1 .. Len(log))
    BY <2>1, FS_Interval
  <2>3. AcceptedCalls \in SUBSET (1 .. Len(log))
    BY <2>1 DEF AcceptedCalls
  <2> QED  BY <2>2, <2>3, FS_Subset
<1> DEFINE f == [i \in AcceptedCalls |-> log[i].id]
<1>3. f \in Surjection(AcceptedCalls, Nodes(space))
  BY <1>1 DEF Surjection
<1> QED  BY <1>2, <1>3, FS_Surjection

\* The references of a type lead to types of a greater rank.
Ranked(types, rank) ==
  \A n \in types \cap Nodes(space) : \A r \in Range(space.References[n]) :
    r.target \in types /\ rank[n] < rank[r.target]

\* Ids of namespace 0 that AddNodes gives only to a caller who asks for them.
StandardIds == {0} \X (Nat \ {0})

LEMMA StandardIdAsked ==
  ASSUME Inv, GeneratedOutsideStandard, NEW i \in DOMAIN log
  PROVE  /\ log[i].id \in StandardIds => log[i].item.id = log[i].id
         /\ log[i].item.id \in StandardIds => log[i].item.id = log[i].id
         /\ log[i].item \in NodeItems
<1>1. log[i] \in Calls
  BY DEF Inv, TypeOK
<1>2. log[i].item \in NodeItems /\ log[i].id \in NodeIds
  BY <1>1 DEF Calls
<1>3. GetsNewNumber(log[i].item.id) => log[i].id \notin StandardIds
  <2>1. GetsNewNumber(log[i].item.id) => log[i].id[1] # 0
    BY DEF GeneratedOutsideStandard
  <2> QED  BY <2>1 DEF StandardIds
<1>4. log[i].item.id \in StandardIds => ~GetsNewNumber(log[i].item.id)
  BY DEF StandardIds, GetsNewNumber
<1>5. ~GetsNewNumber(log[i].item.id) => log[i].id = log[i].item.id
  BY DEF Inv, IdsFromCounter
<1> QED  BY <1>2, <1>3, <1>4, <1>5

LEMMA LinksRanked ==
  ASSUME Inv, EveryReferenceWasAsked, GeneratedOutsideStandard,
         NEW types \in SUBSET StandardIds, NEW rank,
         Descending(NodeItems, ReferenceItems, types, rank)
  PROVE  Ranked(types, rank)
<1> SUFFICES ASSUME NEW n \in types \cap Nodes(space), NEW r \in Range(space.References[n])
             PROVE  r.target \in types /\ rank[n] < rank[r.target]
  BY DEF Ranked
<1>1. AskedAsChild(n, r) \/ AskedAsType(n, r) \/ AskedAsReference(n, r)
  BY DEF EveryReferenceWasAsked
<1>2. CASE AskedAsChild(n, r)
  <2>1. PICK i \in AcceptedCalls : n = log[i].item.parent /\ r.target = log[i].id
    BY <1>2 DEF AskedAsChild, Link
  <2>2. i \in DOMAIN log
    BY DEF AcceptedCalls
  <2>3. log[i].item.id \in types /\ rank[n] < rank[log[i].item.id]
    BY <2>1, <2>2, StandardIdAsked DEF Descending
  <2>4. log[i].item.id = log[i].id
    BY <2>2, <2>3, StandardIdAsked
  <2> QED  BY <2>1, <2>3, <2>4
<1>3. CASE AskedAsType(n, r)
  <2>1. PICK i \in AcceptedCalls : n = log[i].id /\ log[i].item.definition # Null
    BY <1>3 DEF AskedAsType
  <2>2. i \in DOMAIN log
    BY DEF AcceptedCalls
  <2>3. log[i].item.id = n /\ log[i].item \in NodeItems
    BY <2>1, <2>2, StandardIdAsked
  <2> QED  BY <2>1, <2>3 DEF Descending
<1>4. CASE AskedAsReference(n, r)
  <2>1. PICK item \in ReferenceItems : n = item.source /\ r.target = item.target
    BY <1>4 DEF AskedAsReference, Link
  <2> QED  BY <2>1 DEF Descending
<1> QED  BY <1>1, <1>2, <1>3, <1>4

\* A nonempty set of types with ranks has one of the smallest rank.
LEMMA SmallestRank ==
  ASSUME NEW X, X # {}, NEW rank, \A x \in X : rank[x] \in Nat
  PROVE  \E x \in X : \A y \in X : ~(rank[y] < rank[x])
<1> DEFINE R == OpToRel(<, Nat)
           ranks == {rank[x] : x \in X}
<1>1. \A x, y \in Nat : y < x => <<y, x>> \in R
  BY DEF OpToRel
<1>2. ranks \in SUBSET Nat /\ ranks # {}
  OBVIOUS
<1> HIDE DEF R, ranks
<1>3. PICK m \in ranks : \A k \in ranks : ~(<<k, m>> \in R)
  BY <1>2, NatLessThanWellFounded, WFMin DEF R
<1>4. PICK x \in X : rank[x] = m
  BY <1>3 DEF ranks
<1>5. ASSUME NEW y \in X, rank[y] < rank[x] PROVE FALSE
  <2>1. rank[y] \in ranks /\ rank[y] \in Nat /\ m \in Nat
    BY <1>2, <1>3 DEF ranks
  <2>2. <<rank[y], m>> \in R
    BY <1>1, <1>4, <1>5, <2>1
  <2> QED  BY <1>3, <2>1, <2>2
<1> QED  BY <1>5

\* What is asked for below a type is a type.
LEMMA BelowTypes ==
  ASSUME NEW types, NEW rank, Ranked(types, rank), NEW t \in types
  PROVE  Below(space, {t}, 0) \subseteq types
<1> DEFINE T == {k \in Nat : Levels(space, {t})[k] \subseteq types}
<1>1. /\ Levels(space, {t})[0] = {t}
      /\ \A k \in Nat : Levels(space, {t})[k + 1] = TargetsOf(space, Levels(space, {t})[k])
  BY LevelsDef
<1>2. 0 \in T
  BY <1>1
<1>3. ASSUME NEW k \in T PROVE k + 1 \in T
  <2>1. /\ k \in Nat /\ Levels(space, {t})[k] \subseteq types
        /\ Levels(space, {t})[k + 1] = TargetsOf(space, Levels(space, {t})[k])
    BY <1>1
  <2>2. ASSUME NEW x \in Levels(space, {t})[k + 1] PROVE x \in types
    <3>1. PICK n \in Levels(space, {t})[k] \cap Nodes(space) :
                \E r \in Range(space.References[n]) : x = r.target
      BY <2>1, <2>2, TargetsAre
    <3> QED  BY <2>1, <3>1 DEF Ranked
  <2> QED  BY <2>1, <2>2
<1>4. T = Nat
  <2> HIDE DEF T
  <2>1. T \in SUBSET Nat
    BY DEF T
  <2> QED  BY <1>2, <1>3, <2>1, SetInduction
<1>5. 0 \in Nat /\ \A k \in Nat : Levels(space, {t})[k] \subseteq types
  BY <1>4
<1> QED  BY <1>5, BelowIs

LEMMA RankedEnds ==
  ASSUME IsFiniteSet(Nodes(space)), NEW types, NEW rank \in [types -> Nat],
         Ranked(types, rank), NEW t \in types
  PROVE  HierarchyEnds(space, {t})
<1>1. ASSUME NEW X \in SUBSET Below(space, {t}, 0), Cyclic(space, X) PROVE FALSE
  <2>1. X \subseteq types /\ X # {} /\ X \subseteq Nodes(space) /\ X \subseteq TargetsOf(space, X)
    BY <1>1, BelowTypes DEF Cyclic
  <2>2. \A x \in X : rank[x] \in Nat
    BY <2>1
  <2>3. PICK x \in X : \A y \in X : ~(rank[y] < rank[x])
    BY <2>1, <2>2, SmallestRank
  <2>4. x \in TargetsOf(space, X)
    BY <2>1
  <2>5. PICK n \in X \cap Nodes(space) : \E r \in Range(space.References[n]) : x = r.target
    BY <2>4, TargetsAre
  <2>6. rank[n] < rank[x]
    BY <2>1, <2>5 DEF Ranked
  <2> QED  BY <2>3, <2>5, <2>6
<1> QED  BY <1>1, HierarchyEndsWithoutCycle

\* A browse that asks for a type with its subtypes ends, at every point of the server's
\* life and whatever else is requested, if the requests hang types below types of a
\* smaller rank only, as those that fill the standard address space do.
THEOREM TypeBrowsingEnds ==
  ASSUME NEW types \in SUBSET StandardIds, NEW rank \in [types -> Nat],
         Descending(NodeItems, ReferenceItems, types, rank)
  PROVE  Spec => [](\A t \in types : HierarchyEnds(space, {t}))
<1>1. Inv /\ EveryReferenceWasAsked /\ GeneratedOutsideStandard =>
        \A t \in types : HierarchyEnds(space, {t})
  BY NodesFinite, LinksRanked, RankedEnds
<1> QED  BY <1>1, Invariance, LinksInvariance, PTL

\* C has every target of the references of one type that its nodes have.
ClosedUnder(C, type) ==
  \A n \in C \cap Nodes(space) : \A r \in Range(space.References[n]) :
    r.type = type => r.target \in C

\* found is what the references of one type reach from t.
Reached(found, t, type) ==
  /\ t \in found /\ ClosedUnder(found, type)
  /\ \A C : t \in C /\ ClosedUnder(C, type) => found \subseteq C

LEMMA LinksOfOneType ==
  ASSUME Inv, EveryReferenceWasAsked, GeneratedOutsideStandard,
         NEW types \in SUBSET StandardIds, NEW rank, NEW type,
         Descending(NodeItems, ReferenceItems, types, rank),
         \A i \in NodeItems : i.parent \in types => i.type = type,
         \A i \in ReferenceItems : i.source \in types => i.type = type,
         NEW n \in types \cap Nodes(space), NEW r \in Range(space.References[n])
  PROVE  r.type = type
<1>1. AskedAsChild(n, r) \/ AskedAsType(n, r) \/ AskedAsReference(n, r)
  BY DEF EveryReferenceWasAsked
<1>2. CASE AskedAsChild(n, r)
  <2>1. PICK i \in AcceptedCalls : n = log[i].item.parent /\ r.type = log[i].item.type
    BY <1>2 DEF AskedAsChild, Link
  <2>2. log[i].item \in NodeItems
    BY StandardIdAsked DEF AcceptedCalls
  <2> QED  BY <2>1, <2>2
<1>3. CASE AskedAsType(n, r)
  <2>1. PICK i \in AcceptedCalls : n = log[i].id /\ log[i].item.definition # Null
    BY <1>3 DEF AskedAsType
  <2>2. log[i].item.id = n /\ log[i].item \in NodeItems
    BY <2>1, StandardIdAsked DEF AcceptedCalls
  <2> QED  BY <2>1, <2>2 DEF Descending
<1>4. CASE AskedAsReference(n, r)
  BY <1>4 DEF AskedAsReference, Link
<1> QED  BY <1>1, <1>2, <1>3, <1>4

\* Although SelectNodesHierarchy follows references of every type, it takes for subtypes
\* exactly what one type of references reaches, if types are hung below types by
\* references of that type only.
THEOREM HierarchyIsSubtypes ==
  ASSUME NEW types \in SUBSET StandardIds, NEW rank \in [types -> Nat], NEW type,
         Descending(NodeItems, ReferenceItems, types, rank),
         \A i \in NodeItems : i.parent \in types => i.type = type,
         \A i \in ReferenceItems : i.source \in types => i.type = type
  PROVE  Spec => [](\A t \in types : Reached(SelectNodesHierarchy(space, {t}), t, type))
<1>1. ASSUME Inv, EveryReferenceWasAsked, GeneratedOutsideStandard, NEW t \in types
      PROVE  Reached(SelectNodesHierarchy(space, {t}), t, type)
  <2> DEFINE found == SelectNodesHierarchy(space, {t})
  <2>1. Ranked(types, rank)
    BY <1>1, LinksRanked
  <2>2. HierarchyEnds(space, {t})
    BY <1>1, <2>1, NodesFinite, RankedEnds
  <2>3. /\ {t} \subseteq found
        /\ TargetsOf(space, found) \subseteq found
        /\ \A C : {t} \subseteq C /\ TargetsOf(space, C) \subseteq C => found \subseteq C
    BY <2>2, HierarchyIsReach
  <2> HIDE DEF found
  <2>4. ClosedUnder(found, type)
    <3> SUFFICES ASSUME NEW n \in found \cap Nodes(space), NEW r \in Range(space.References[n])
                 PROVE  r.target \in found
      BY DEF ClosedUnder
    <3>1. r.target \in TargetsOf(space, found)
      BY TargetsAre
    <3> QED  BY <2>3, <3>1
  <2>5. ASSUME NEW C, t \in C, ClosedUnder(C, type) PROVE found \subseteq C
    <3>1. ASSUME NEW x \in TargetsOf(space, C \cap types) PROVE x \in C \cap types
      <4>1. PICK n \in (C \cap types) \cap Nodes(space) :
                  \E r \in Range(space.References[n]) : x = r.target
        BY <3>1, TargetsAre
      <4>2. PICK r \in Range(space.References[n]) : x = r.target
        BY <4>1
      <4>3. r.type = type
        BY <1>1, LinksOfOneType
      <4>4. x \in C
        BY <2>5, <4>2, <4>3 DEF ClosedUnder
      <4>5. x \in types
        BY <2>1, <4>2 DEF Ranked
      <4> QED  BY <4>4, <4>5
    <3>2. {t} \subseteq C \cap types /\ TargetsOf(space, C \cap types) \subseteq C \cap types
      BY <2>5, <3>1
    <3> QED  BY <2>3, <3>2
  <2> QED  BY <2>3, <2>4, <2>5 DEF Reached, found
<1>2. Inv /\ EveryReferenceWasAsked /\ GeneratedOutsideStandard =>
        \A t \in types : Reached(SelectNodesHierarchy(space, {t}), t, type)
  BY <1>1
<1> QED  BY <1>2, Invariance, LinksInvariance, PTL

--------------------------------------------------------------------------------
(* Browse paths. *)

\* f is what TranslateBrowsePath follows, over the first m names of the path.
IsWalk(f, s, start, path, m) ==
  f = [k \in 0 .. m |->
         IF k = 0 THEN start
         ELSE IF f[k - 1] \notin Nodes(s) THEN Null
         ELSE FindElementInNode(s, f[k - 1], path[k])]

LEMMA WalkExists ==
  ASSUME NEW s, NEW start, NEW path
  PROVE  \A m \in Nat : \E f : IsWalk(f, s, start, path, m)
<1> DEFINE next(f, k) == IF f[k - 1] \notin Nodes(s) THEN Null
                         ELSE FindElementInNode(s, f[k - 1], path[k])
           T == {m \in Nat : \E f : IsWalk(f, s, start, path, m)}
<1>1. 0 \in T
  <2> DEFINE g == [k \in 0 .. 0 |-> start]
  <2>1. IsWalk(g, s, start, path, 0)
    BY DEF IsWalk
  <2> QED  BY <2>1
<1>2. ASSUME NEW m \in T PROVE m + 1 \in T
  <2>1. PICK f : IsWalk(f, s, start, path, m)
    BY <1>2
  <2> DEFINE g == [k \in 0 .. m + 1 |-> IF k <= m THEN f[k] ELSE next(f, k)]
  <2>2. ASSUME NEW k \in 0 .. m + 1
        PROVE  g[k] = IF k = 0 THEN start ELSE next(g, k)
    <3>1. CASE k = 0
      BY <2>1, <3>1 DEF IsWalk
    <3>2. CASE k # 0 /\ k <= m
      <4>1. k \in 0 .. m /\ k - 1 \in 0 .. m + 1 /\ k - 1 <= m
        BY <3>2
      <4>2. g[k] = f[k] /\ g[k - 1] = f[k - 1]
        BY <3>2, <4>1
      <4> QED  BY <2>1, <3>2, <4>1, <4>2 DEF IsWalk
    <3>3. CASE k = m + 1
      <4>1. k - 1 \in 0 .. m + 1 /\ k - 1 <= m /\ ~(k <= m) /\ k # 0
        BY <3>3
      <4>2. g[k] = next(f, k) /\ g[k - 1] = f[k - 1]
        BY <4>1
      <4> QED  BY <4>1, <4>2
    <3> QED  BY <3>1, <3>2, <3>3
  <2>3. g = [k \in 0 .. m + 1 |-> g[k]]
    OBVIOUS
  <2> HIDE DEF g
  <2>4. IsWalk(g, s, start, path, m + 1)
    BY <2>2, <2>3 DEF IsWalk
  <2> QED  BY <2>4
<1>3. T = Nat
  <2> HIDE DEF T
  <2>1. T \in SUBSET Nat
    BY DEF T
  <2> QED  BY <1>1, <1>2, <2>1, SetInduction
<1> QED  BY <1>3

\* The defining equation of TranslateBrowsePath.
LEMMA WalkDef ==
  ASSUME NEW s, NEW start, NEW path, Len(path) \in Nat
  PROVE  \E f : /\ TranslateBrowsePath(s, start, path) = f[Len(path)]
                /\ f[0] = start
                /\ \A k \in Nat : k < Len(path) =>
                     f[k + 1] = IF f[k] \notin Nodes(s) THEN Null
                                ELSE FindElementInNode(s, f[k], path[k + 1])
<1> DEFINE F == CHOOSE f : IsWalk(f, s, start, path, Len(path))
<1>1. IsWalk(F, s, start, path, Len(path))
  <2>1. \E f : IsWalk(f, s, start, path, Len(path))
    BY WalkExists, Zenon
  <2> QED  BY <2>1
<1>2. TranslateBrowsePath(s, start, path) = F[Len(path)]
  BY Zenon DEF TranslateBrowsePath, IsWalk
<1> HIDE DEF F
<1>3. F[0] = start
  BY <1>1 DEF IsWalk
<1>4. ASSUME NEW k \in Nat, k < Len(path)
      PROVE  F[k + 1] = IF F[k] \notin Nodes(s) THEN Null
                        ELSE FindElementInNode(s, F[k], path[k + 1])
  <2>1. k + 1 \in 0 .. Len(path) /\ k + 1 # 0 /\ (k + 1) - 1 = k
    BY <1>4
  <2> QED  BY <1>1, <2>1 DEF IsWalk
<1> QED  BY <1>2, <1>3, <1>4

\* The first of the references found.
LEMMA FirstExists ==
  ASSUME NEW found \in SUBSET Nat, found # {}
  PROVE  \E i \in found : \A j \in found : i <= j
<1> DEFINE rank == [x \in Nat |-> x]
<1>1. \A x \in found : rank[x] \in Nat /\ rank[x] = x
  OBVIOUS
<1> HIDE DEF rank
<1>2. PICK i \in found : \A j \in found : ~(rank[j] < rank[i])
  BY <1>1, SmallestRank
<1> QED  BY <1>1, <1>2

LEMMA FindElementIs ==
  ASSUME NEW s, NEW n, s.References[n] \in Seq(Descriptions), NEW name
  PROVE  \/ /\ FindElementInNode(s, n, name) = Null
            /\ \A j \in DOMAIN s.References[n] : s.References[n][j].name # name
         \/ \E i \in DOMAIN s.References[n] :
              /\ s.References[n][i].name = name
              /\ FindElementInNode(s, n, name) = s.References[n][i].target
              /\ \A j \in DOMAIN s.References[n] : s.References[n][j].name = name => i <= j
<1> DEFINE refs == s.References[n]
           found == {i \in DOMAIN refs : refs[i].name = name}
           first == CHOOSE i \in found : \A j \in found : i <= j
<1>1. FindElementInNode(s, n, name) = IF found = {} THEN Null ELSE refs[first].target
  BY DEF FindElementInNode
<1>2. CASE found = {}
  BY <1>1, <1>2
<1>3. CASE found # {}
  <2>1. found \in SUBSET Nat
    OBVIOUS
  <2> HIDE DEF found
  <2>2. first \in found /\ \A j \in found : first <= j
    BY <1>3, <2>1, FirstExists
  <2> HIDE DEF first
  <2> QED  BY <1>1, <1>3, <2>2 DEF found
<1> QED  BY <1>2, <1>3

\* References that come later never hide one that was found.
LEMMA FindElementStays ==
  ASSUME NEW n, space.References[n] \in Seq(Descriptions),
         space'.References[n] \in Seq(Descriptions),
         Continues(space'.References[n], space.References[n]), NEW name,
         FindElementInNode(space, n, name) # Null
  PROVE  FindElementInNode(space', n, name) = FindElementInNode(space, n, name)
<1> DEFINE a == space.References[n]
           b == space'.References[n]
<1>1. PICK i \in DOMAIN a :
            /\ a[i].name = name
            /\ FindElementInNode(space, n, name) = a[i].target
            /\ \A j \in DOMAIN a : a[j].name = name => i <= j
  BY FindElementIs
<1>2. /\ Len(a) \in Nat /\ Len(b) \in Nat /\ Len(a) <= Len(b)
      /\ DOMAIN a = 1 .. Len(a) /\ DOMAIN b = 1 .. Len(b)
      /\ \A k \in 1 .. Len(a) : b[k] = a[k]
  BY DEF Continues
<1>3. i \in DOMAIN b /\ b[i] = a[i] /\ i \in Nat
  BY <1>2
<1>4. PICK k \in DOMAIN b :
            /\ b[k].name = name
            /\ FindElementInNode(space', n, name) = b[k].target
            /\ \A j \in DOMAIN b : b[j].name = name => k <= j
  <2>1. \/ \A j \in DOMAIN b : b[j].name # name
        \/ \E k \in DOMAIN b :
             /\ b[k].name = name
             /\ FindElementInNode(space', n, name) = b[k].target
             /\ \A j \in DOMAIN b : b[j].name = name => k <= j
    BY FindElementIs
  <2> QED  BY <1>1, <1>3, <2>1
<1>5. k <= i /\ k \in 1 .. Len(a)
  <2>1. k <= i
    BY <1>1, <1>3, <1>4
  <2> QED  BY <1>2, <1>3, <2>1
<1>6. i <= k
  BY <1>1, <1>2, <1>4, <1>5
<1>7. i = k
  BY <1>3, <1>2, <1>5, <1>6
<1> QED  BY <1>1, <1>3, <1>4, <1>7

LEMMA NullIsNoNode == Inv => Null \notin Nodes(space)
<1> SUFFICES ASSUME Inv, Null \in Nodes(space) PROVE FALSE
  OBVIOUS
<1>1. PICK i \in AcceptedCalls : log[i].id = Null
  BY DEF Inv, OneNodePerAnswer
<1>2. log[i].id[2] # 0
  BY DEF Inv, IdsFromCounter, AcceptedCalls
<1> QED  BY <1>1, <1>2 DEF Null

\* What a browse path leads to, if anything, is a node.
THEOREM PathsLeadToNodes ==
  ASSUME NEW start, NEW path \in Seq(Names), path # << >>
  PROVE  Spec => [](TranslateBrowsePath(space, start, path) \in Nodes(space) \cup {Null})
<1>1. ASSUME Inv PROVE TranslateBrowsePath(space, start, path) \in Nodes(space) \cup {Null}
  <2>1. Len(path) \in Nat /\ Len(path) # 0
    OBVIOUS
  <2>2. PICK f : /\ TranslateBrowsePath(space, start, path) = f[Len(path)]
                 /\ \A k \in Nat : k < Len(path) =>
                      f[k + 1] = IF f[k] \notin Nodes(space) THEN Null
                                 ELSE FindElementInNode(space, f[k], path[k + 1])
    BY <2>1, WalkDef
  <2> DEFINE k == Len(path) - 1
  <2>3. k \in Nat /\ k < Len(path) /\ k + 1 = Len(path)
    BY <2>1
  <2>4. f[Len(path)] = IF f[k] \notin Nodes(space) THEN Null
                       ELSE FindElementInNode(space, f[k], path[k + 1])
    BY <2>2, <2>3
  <2> HIDE DEF k
  <2>5. CASE f[k] \notin Nodes(space)
    BY <2>2, <2>4, <2>5
  <2>6. CASE f[k] \in Nodes(space)
    <3>1. space.References[f[k]] \in Seq(Descriptions)
      BY <1>1, <2>6 DEF Inv, TypeOK, WellFormed
    <3>2. \A i \in DOMAIN space.References[f[k]] :
            space.References[f[k]][i].target \in Nodes(space)
      BY <1>1, <2>6 DEF Inv, NoDanglingReferences, Range
    <3> QED  BY <2>2, <2>4, <2>6, <3>1, <3>2, FindElementIs
  <2> QED  BY <2>5, <2>6
<1>2. Inv => TranslateBrowsePath(space, start, path) \in Nodes(space) \cup {Null}
  BY <1>1
<1> QED  BY <1>2, Invariance, PTL

\* A step keeps the nodes and only appends to their references.
LEMMA StepContinues ==
  ASSUME Inv, [Next]_vars
  PROVE  /\ Nodes(space) \subseteq Nodes(space')
         /\ \A n \in Nodes(space) : Continues(space'.References[n], space.References[n])
<1> DEFINE Goal == /\ Nodes(space) \subseteq Nodes(space')
                   /\ \A n \in Nodes(space) :
                        Continues(space'.References[n], space.References[n])
<1>1. WellFormed(space)
  BY DEF Inv, TypeOK
<1>2. ASSUME Nodes(space') = Nodes(space), space'.References = space.References PROVE Goal
  <2>1. \A n \in Nodes(space) : space.References[n] \in Seq(Descriptions)
    BY <1>1 DEF WellFormed
  <2> QED  BY <1>2, <2>1 DEF Continues
<1>3. ASSUME NEW item \in NodeItems, AddNodes(item) PROVE Goal
  <2>1. Grown(space, space')
    BY <1>1, <1>3, NodeItemsAre, AddNodeWorks DEF AddNodes
  <2> QED  BY <2>1 DEF Grown
<1>4. ASSUME NEW item \in ReferenceItems, AddReferences(item) PROVE Goal
  <2>1. Grown(space, space')
    BY <1>4, AddReferencesInv
  <2> QED  BY <2>1 DEF Grown
<1>5. ASSUME NEW w \in WriteValues, Write(w[1], w[2], w[3]) PROVE Goal
  <2>1. space'.References = space.References /\ Nodes(space') = Nodes(space)
    BY <1>5, WriteInv
  <2> QED  BY <1>2, <2>1
<1>6. ASSUME NEW m \in CallbackNodes, NEW empty \in BOOLEAN,
             SetValueCallback(m, "BrowseName", empty) \/ SetMethod(m, empty)
      PROVE  Goal
  <2>1. space'.References = space.References /\ space'.Attributes = space.Attributes
    BY <1>6, SetValueCallbackInv, SetMethodInv
  <2>2. Nodes(space') = Nodes(space)
    BY <2>1 DEF Nodes
  <2> QED  BY <1>2, <2>1, <2>2
<1>7. CASE UNCHANGED vars
  <2>1. space' = space
    BY <1>7 DEF vars
  <2>2. Nodes(space') = Nodes(space) /\ space'.References = space.References
    BY <2>1
  <2> QED  BY <1>2, <2>2
<1> QED  BY <1>3, <1>4, <1>5, <1>6, <1>7 DEF Next

\* A browse path that leads to a node goes on leading to that node, whatever nodes,
\* references and names come later: a client may keep what it has translated.
THEOREM PathsKeepLeading ==
  ASSUME NEW start, NEW path \in Seq(Names)
  PROVE  Spec => [][TranslateBrowsePath(space, start, path) # Null =>
                      TranslateBrowsePath(space', start, path)
                        = TranslateBrowsePath(space, start, path)]_vars
<1>1. ASSUME Inv, [Next]_vars, TranslateBrowsePath(space, start, path) # Null
      PROVE  TranslateBrowsePath(space', start, path) = TranslateBrowsePath(space, start, path)
  <2>1. Len(path) \in Nat
    OBVIOUS
  <2>2. PICK f : /\ TranslateBrowsePath(space, start, path) = f[Len(path)]
                 /\ f[0] = start
                 /\ \A k \in Nat : k < Len(path) =>
                      f[k + 1] = IF f[k] \notin Nodes(space) THEN Null
                                 ELSE FindElementInNode(space, f[k], path[k + 1])
    BY <2>1, WalkDef
  <2>3. PICK g : /\ TranslateBrowsePath(space', start, path) = g[Len(path)]
                 /\ g[0] = start
                 /\ \A k \in Nat : k < Len(path) =>
                      g[k + 1] = IF g[k] \notin Nodes(space') THEN Null
                                 ELSE FindElementInNode(space', g[k], path[k + 1])
    BY <2>1, WalkDef
  <2>4. /\ Nodes(space) \subseteq Nodes(space')
        /\ \A n \in Nodes(space) : Continues(space'.References[n], space.References[n])
    BY <1>1, StepContinues
  <2>5. /\ \A n \in Nodes(space) : space.References[n] \in Seq(Descriptions)
        /\ \A n \in Nodes(space') : space'.References[n] \in Seq(Descriptions)
        /\ Null \notin Nodes(space)
    <3>1. Inv'
      BY <1>1, StepInv
    <3> QED  BY <1>1, <3>1, NullIsNoNode DEF Inv, TypeOK, WellFormed
  <2> DEFINE T == {k \in Nat : k <= Len(path) => f[k] = Null \/ g[k] = f[k]}
  <2>6. 0 \in T
    BY <2>2, <2>3
  <2>7. ASSUME NEW k \in T PROVE k + 1 \in T
    <3>1. SUFFICES ASSUME k + 1 <= Len(path), f[k + 1] # Null PROVE g[k + 1] = f[k + 1]
      OBVIOUS
    <3>2. k \in Nat /\ k < Len(path) /\ (f[k] = Null \/ g[k] = f[k])
      BY <2>1, <2>7, <3>1
    <3>3. f[k] \in Nodes(space) /\ f[k + 1] = FindElementInNode(space, f[k], path[k + 1])
      BY <2>2, <3>1, <3>2
    <3>4. g[k] = f[k] /\ g[k] \in Nodes(space')
      BY <2>4, <2>5, <3>2, <3>3
    <3>5. g[k + 1] = FindElementInNode(space', f[k], path[k + 1])
      BY <2>3, <3>2, <3>4
    <3>6. FindElementInNode(space', f[k], path[k + 1]) = FindElementInNode(space, f[k], path[k + 1])
      BY <2>4, <2>5, <3>1, <3>3, <3>4, FindElementStays
    <3> QED  BY <3>3, <3>5, <3>6
  <2>8. T = Nat
    <3> HIDE DEF T
    <3>1. T \in SUBSET Nat
      BY DEF T
    <3> QED  BY <2>6, <2>7, <3>1, SetInduction
  <2>9. f[Len(path)] = Null \/ g[Len(path)] = f[Len(path)]
    BY <2>1, <2>8
  <2> QED  BY <1>1, <2>2, <2>3, <2>9
<1>2. Inv /\ [Next]_vars => [TranslateBrowsePath(space, start, path) # Null =>
                               TranslateBrowsePath(space', start, path)
                                 = TranslateBrowsePath(space, start, path)]_vars
  BY <1>1
<1>3. Spec => [][Next]_vars
  BY PTL DEF Spec
<1> QED  BY <1>2, <1>3, Invariance, PTL

--------------------------------------------------------------------------------
(* The calls that fill the standard address space. What they leave behind is followed  *)
(* through the folds over calls and items: FoldLeft is a recursive function on the     *)
(* subsets of the positions, of which the first positions are used.                    *)

\* What is folded: the calls of a stretch, or the items of a call.
Apply(kind, s, x) == IF kind = "call" THEN Perform(s, x) ELSE AddReference(s, x)

\* g is the fold over the subsets of 1 .. m.
IsFold(kind, g, s, xs, m) ==
  g = [u \in SUBSET (1 .. m) |->
         IF u = {} THEN s ELSE Apply(kind, g[u \ {Max(u)}], xs[Max(u)])]

LEMMA MaxOfPositions ==
  ASSUME NEW m \in Nat, NEW u \in SUBSET (1 .. m), u # {}
  PROVE  Max(u) \in u /\ \A y \in u : Max(u) >= y
<1> DEFINE rank == [x \in u |-> m - x]
<1>1. \A x \in u : x \in 1 .. m /\ rank[x] \in Nat /\ rank[x] = m - x
  OBVIOUS
<1> HIDE DEF rank
<1>2. PICK x \in u : \A y \in u : ~(rank[y] < rank[x])
  BY <1>1, SmallestRank
<1>3. \A y \in u : x >= y
  BY <1>1, <1>2
<1> QED  BY <1>3 DEF Max

LEMMA MaxOfFirst ==
  ASSUME NEW k \in Nat
  PROVE  Max(1 .. k + 1) = k + 1 /\ (1 .. k + 1) \ {k + 1} = 1 .. k
<1>1. k + 1 \in 1 .. k + 1 /\ k + 1 \in Nat
  OBVIOUS
<1>2. Max(1 .. k + 1) \in 1 .. k + 1 /\ \A y \in 1 .. k + 1 : Max(1 .. k + 1) >= y
  BY <1>1, MaxOfPositions
<1>3. Max(1 .. k + 1) = k + 1
  <2> DEFINE x == Max(1 .. k + 1)
  <2>1. x \in 1 .. k + 1 /\ x >= k + 1
    BY <1>1, <1>2
  <2> HIDE DEF x
  <2>2. x = k + 1
    BY <2>1
  <2> QED  BY <2>2 DEF x
<1> QED  BY <1>3

LEMMA FoldExists ==
  ASSUME NEW kind, NEW s, NEW xs
  PROVE  \A m \in Nat : \E g : IsFold(kind, g, s, xs, m)
<1> DEFINE T == {m \in Nat : \E g : IsFold(kind, g, s, xs, m)}
<1>1. 0 \in T
  <2> DEFINE g == [u \in SUBSET (1 .. 0) |-> s]
  <2>1. \A u \in SUBSET (1 .. 0) : u = {}
    OBVIOUS
  <2>2. IsFold(kind, g, s, xs, 0)
    BY <2>1 DEF IsFold
  <2> QED  BY <2>2
<1>2. ASSUME NEW m \in T PROVE m + 1 \in T
  <2>1. PICK f : IsFold(kind, f, s, xs, m)
    BY <1>2
  <2>2. m \in Nat /\ m + 1 \in Nat
    BY <1>2
  <2> DEFINE next(h, u) == IF u = {} THEN s ELSE Apply(kind, h[u \ {Max(u)}], xs[Max(u)])
             g == [u \in SUBSET (1 .. m + 1) |-> next(f, u)]
  <2>3. ASSUME NEW u \in SUBSET (1 .. m) PROVE g[u] = f[u]
    <3>1. u \in SUBSET (1 .. m + 1)
      BY <2>2
    <3>2. g[u] = next(f, u)
      BY <3>1
    <3>3. f[u] = next(f, u)
      BY <2>1 DEF IsFold
    <3> QED  BY <3>2, <3>3
  <2>4. ASSUME NEW u \in SUBSET (1 .. m + 1) PROVE g[u] = next(g, u)
    <3>1. CASE u = {}
      BY <3>1
    <3>2. CASE u # {}
      <4>1. Max(u) \in u /\ \A y \in u : Max(u) >= y
        BY <2>2, <3>2, MaxOfPositions
      <4>2. ASSUME NEW y \in u \ {Max(u)} PROVE y \in 1 .. m
        <5>1. y \in 1 .. m + 1 /\ Max(u) \in 1 .. m + 1 /\ Max(u) >= y /\ y # Max(u)
          BY <4>1
        <5> QED  BY <2>2, <5>1
      <4>3. g[u \ {Max(u)}] = f[u \ {Max(u)}]
        BY <2>3, <4>2
      <4>4. g[u] = next(f, u)
        OBVIOUS
      <4> QED  BY <3>2, <4>3, <4>4
    <3> QED  BY <3>1, <3>2
  <2>5. g = [u \in SUBSET (1 .. m + 1) |-> g[u]]
    OBVIOUS
  <2> HIDE DEF g
  <2>6. IsFold(kind, g, s, xs, m + 1)
    BY <2>4, <2>5 DEF IsFold
  <2> QED  BY <2>2, <2>6
<1>3. T = Nat
  <2> HIDE DEF T
  <2>1. T \in SUBSET Nat
    BY DEF T
  <2> QED  BY <1>1, <1>2, <2>1, SetInduction
<1> QED  BY <1>3

\* The fold goes from one position to the next.
StepByStep(kind, g, s, xs, m) ==
  /\ g[1 .. 0] = s
  /\ \A k \in Nat : k < m => g[1 .. k + 1] = Apply(kind, g[1 .. k], xs[k + 1])

LEMMA FoldSteps ==
  ASSUME NEW kind, NEW s, NEW xs, NEW m \in Nat, NEW g, IsFold(kind, g, s, xs, m)
  PROVE  StepByStep(kind, g, s, xs, m)
<1>1. 1 .. 0 = {} /\ {} \in SUBSET (1 .. m)
  OBVIOUS
<1>2. g[{}] = s
  BY <1>1 DEF IsFold
<1>3. ASSUME NEW k \in Nat, k < m PROVE g[1 .. k + 1] = Apply(kind, g[1 .. k], xs[k + 1])
  <2>1. 1 .. k + 1 \in SUBSET (1 .. m) /\ 1 .. k + 1 # {}
    BY <1>3
  <2>2. Max(1 .. k + 1) = k + 1 /\ (1 .. k + 1) \ {k + 1} = 1 .. k
    BY MaxOfFirst
  <2> QED  BY <2>1, <2>2 DEF IsFold
<1> QED  BY <1>1, <1>2, <1>3 DEF StepByStep

LEMMA FoldOfItems ==
  ASSUME NEW s, NEW items, DOMAIN items = 1 .. Len(items), Len(items) \in Nat
  PROVE  \E g : /\ IsFold("item", g, s, items, Len(items))
                /\ FoldLeft(AddReference, s, items) = g[1 .. Len(items)]
<1> DEFINE Raw(f) == f = [u \in SUBSET (DOMAIN items) |->
                            IF u = {} THEN s
                            ELSE AddReference(f[u \ {Max(u)}], items[Max(u)])]
           F == CHOOSE f : Raw(f)
<1>1. \A f, u : Apply("item", f, u) = AddReference(f, u)
  BY DEF Apply
<1>2. \A f : Raw(f) <=> IsFold("item", f, s, items, Len(items))
  BY <1>1 DEF IsFold
<1>3. \E f : Raw(f)
  BY <1>2, FoldExists
<1>4. FoldLeft(AddReference, s, items) = F[DOMAIN items]
  BY Zenon DEF FoldLeft, MapThenFoldSet
<1> HIDE DEF Raw
<1>5. Raw(F)
  BY <1>3
<1> QED  BY <1>2, <1>4, <1>5

LEMMA FoldOfCalls ==
  ASSUME NEW s, NEW calls, DOMAIN calls = 1 .. Len(calls), Len(calls) \in Nat
  PROVE  \E g : /\ IsFold("call", g, s, calls, Len(calls))
                /\ FoldLeft(Perform, s, calls) = g[1 .. Len(calls)]
<1> DEFINE Raw(f) == f = [u \in SUBSET (DOMAIN calls) |->
                            IF u = {} THEN s
                            ELSE Perform(f[u \ {Max(u)}], calls[Max(u)])]
           F == CHOOSE f : Raw(f)
<1>1. \A f, u : Apply("call", f, u) = Perform(f, u)
  BY DEF Apply
<1>2. \A f : Raw(f) <=> IsFold("call", f, s, calls, Len(calls))
  BY <1>1 DEF IsFold
<1>3. \E f : Raw(f)
  BY <1>2, FoldExists
<1>4. FoldLeft(Perform, s, calls) = F[DOMAIN calls]
  BY Zenon DEF FoldLeft, MapThenFoldSet
<1> HIDE DEF Raw
<1>5. Raw(F)
  BY <1>3
<1> QED  BY <1>2, <1>4, <1>5

\* A reference of the node that one of the calls asks for.
AskedInCalls(n, r) ==
  \/ \E call \in Requested : n = call.parent /\ r.target = call.id /\ r.type = call.type
  \/ \E call \in Requested : n = call.id /\ call.definition # Null
  \/ \E item \in RequestedReferences :
        n = item.source /\ r.target = item.target /\ r.type = item.type

\* What the calls leave behind.
Filling(s) ==
  /\ WellFormed(s) /\ IsFiniteSet(Nodes(s))
  /\ \A n \in Nodes(s) : \E call \in Requested :
        call.id = n /\ s.Attributes[n]["NodeClass"] = call.class
  /\ \A n \in Nodes(s) : \A r \in Range(s.References[n]) :
        r.target \in Nodes(s) /\ AskedInCalls(n, r)

\* ... without removing the nodes of base.
Fills(base, s) == Filling(s) /\ base \subseteq Nodes(s)

LEMMA FillingItem ==
  ASSUME NEW base, NEW s, Fills(base, s), NEW item \in RequestedReferences
  PROVE  Fills(base, AddReference(s, item))
<1> DEFINE t == AddReference(s, item)
<1>1. WellFormed(s) /\ ReferenceItem(item)
  BY CallsAssumption, ItemsAssumption DEF Fills, Filling, ReferenceItem
<1>2. WellFormed(t) /\ Grown(s, t) /\ t.Attributes = s.Attributes
  BY <1>1, AddReferenceWorks
<1>3. Nodes(t) = Nodes(s)
  BY <1>2 DEF Nodes
<1>4. ASSUME NEW n \in Nodes(t), NEW r \in Range(t.References[n])
      PROVE  r.target \in Nodes(t) /\ AskedInCalls(n, r)
  <2>1. r.target \in Nodes(t)
    <3>1. \/ n \in Nodes(s) /\ r \in Range(s.References[n])
          \/ r.target \in Nodes(t)
      BY <1>1, <1>2, <1>4, GrownReferences
    <3> QED  BY <1>3, <3>1 DEF Fills, Filling
  <2>2. \/ r \in Range(s.References[n])
        \/ n = item.source /\ r.type = item.type /\ r.target = item.target
    BY <1>1, <1>3, <1>4, AddReferenceLinks
  <2>3. CASE r \in Range(s.References[n])
    BY <1>3, <2>1, <2>3 DEF Fills, Filling
  <2>4. CASE n = item.source /\ r.type = item.type /\ r.target = item.target
    BY <2>1, <2>4 DEF AskedInCalls
  <2> QED  BY <2>2, <2>3, <2>4
<1> HIDE DEF t
<1>5. Fills(base, t)
  BY <1>2, <1>3, <1>4 DEF Fills, Filling
<1> QED  BY <1>5 DEF t

LEMMA FillingNode ==
  ASSUME NEW base, NEW s, Fills(base, s), NEW call \in Requested
  PROVE  Fills(base, AddNode(s, call))
<1> DEFINE id == GetNewNodeId(s, call.id)
           t == AddNode(s, call)
           status == AddNodeStatus(s, call, id)
<1>1. WellFormed(s) /\ NodeItem(call)
  BY CallsAssumption, NodeItemsAre DEF Fills, Filling
<1>2. id = call.id
  <2>1. ~GetsNewNumber(call.id)
    BY CallsAssumption
  <2>2. call.id # Null
    BY <2>1 DEF GetsNewNumber, Null
  <2> QED  BY <2>1, <2>2 DEF GetNewNodeId
<1>3. /\ WellFormed(t) /\ Grown(s, t)
      /\ status \notin Accepted => t.Attributes = s.Attributes
      /\ status \in Accepted => Nodes(t) = Nodes(s) \cup {id} /\ t.Attributes[id] = NewAttributes(call)
  BY <1>1, AddNodeWorks
<1>4. AddedLinks(s, call, id, t)
  BY <1>1, AddNodeLinks
<1>5. NewAttributes(call)["NodeClass"] = call.class
  BY DEF NewAttributes, CommonAttributes
<1> HIDE DEF id, t, status
<1>6. \/ Nodes(t) = Nodes(s)
      \/ Nodes(t) = Nodes(s) \cup {id} /\ t.Attributes[id] = NewAttributes(call)
  BY <1>3 DEF Nodes
<1>7. IsFiniteSet(Nodes(t))
  BY <1>6, FS_AddElement DEF Fills, Filling
<1>8. ASSUME NEW n \in Nodes(t)
      PROVE  \E c \in Requested : c.id = n /\ t.Attributes[n]["NodeClass"] = c.class
  <2>1. CASE n \in Nodes(s)
    <3>1. t.Attributes[n] = s.Attributes[n]
      BY <1>3, <2>1 DEF Grown
    <3> QED  BY <2>1, <3>1 DEF Fills, Filling
  <2>2. CASE n \notin Nodes(s)
    <3>1. n = id /\ t.Attributes[id] = NewAttributes(call)
      BY <1>6, <1>8, <2>2
    <3> QED  BY <1>2, <1>5, <3>1
  <2> QED  BY <2>1, <2>2
<1>9. ASSUME NEW n \in Nodes(t), NEW r \in Range(t.References[n])
      PROVE  r.target \in Nodes(t) /\ AskedInCalls(n, r)
  <2>1. r.target \in Nodes(t)
    <3>1. \/ n \in Nodes(s) /\ r \in Range(s.References[n])
          \/ r.target \in Nodes(t)
      BY <1>1, <1>3, <1>9, GrownReferences
    <3> QED  BY <1>6, <3>1 DEF Fills, Filling
  <2>2. \/ n \in Nodes(s) /\ r \in Range(s.References[n])
        \/ n = call.parent /\ r = Description(call.type, id, call.class, call.name, TRUE)
        \/ n = id /\ call.definition # Null
    BY <1>4, <1>9 DEF AddedLinks
  <2>3. CASE n \in Nodes(s) /\ r \in Range(s.References[n])
    BY <2>1, <2>3 DEF Fills, Filling
  <2>4. CASE n = call.parent /\ r = Description(call.type, id, call.class, call.name, TRUE)
    <3>1. r.target = call.id /\ r.type = call.type
      BY <1>2, <2>4 DEF Description
    <3> QED  BY <2>1, <2>4, <3>1 DEF AskedInCalls
  <2>5. CASE n = id /\ call.definition # Null
    BY <1>2, <2>1, <2>5 DEF AskedInCalls
  <2> QED  BY <2>2, <2>3, <2>4, <2>5
<1>10. Fills(base, t)
  BY <1>3, <1>6, <1>7, <1>8, <1>9 DEF Fills, Filling
<1> QED  BY <1>10 DEF t

\* What every application keeps, a fold keeps.
EachKeeps(kind, base, xs, m) ==
  \A t : \A k \in 1 .. m : Fills(base, t) => Fills(base, Apply(kind, t, xs[k]))

LEMMA FoldKeeps ==
  ASSUME NEW kind, NEW base, NEW s, Fills(base, s), NEW xs, NEW m \in Nat, NEW g,
         IsFold(kind, g, s, xs, m), EachKeeps(kind, base, xs, m)
  PROVE  Fills(base, g[1 .. m])
<1> DEFINE T == {k \in Nat : k <= m => Fills(base, g[1 .. k])}
<1>1. /\ g[1 .. 0] = s
      /\ \A k \in Nat : k < m => g[1 .. k + 1] = Apply(kind, g[1 .. k], xs[k + 1])
  <2>1. StepByStep(kind, g, s, xs, m)
    BY FoldSteps
  <2> QED  BY <2>1 DEF StepByStep
<1>2. 0 \in T
  BY <1>1
<1>3. ASSUME NEW k \in T PROVE k + 1 \in T
  <2>1. SUFFICES ASSUME k + 1 <= m PROVE Fills(base, g[1 .. k + 1])
    OBVIOUS
  <2>2. k \in Nat /\ k < m /\ k <= m /\ k + 1 \in 1 .. m /\ Fills(base, g[1 .. k])
    BY <1>3, <2>1
  <2>3. g[1 .. k + 1] = Apply(kind, g[1 .. k], xs[k + 1])
    BY <1>1, <2>2
  <2> QED  BY <2>2, <2>3 DEF EachKeeps
<1>4. T = Nat
  <2> HIDE DEF T
  <2>1. T \in SUBSET Nat
    BY DEF T
  <2> QED  BY <1>2, <1>3, <2>1, SetInduction
<1> QED  BY <1>4

LEMMA FillingCall ==
  ASSUME NEW base, NEW s, Fills(base, s), NEW call \in PerformedCalls
  PROVE  Fills(base, Perform(s, call))
<1>1. CASE call.op = "AddNodes"
  BY <1>1, FillingNode DEF Perform, Requested
<1>2. CASE call.op # "AddNodes"
  <2>1. call \in ReferenceCalls
    BY <1>2 DEF ReferenceCalls
  <2>2. call.items \in Seq(Range(call.items))
    BY <2>1, CallsAssumption
  <2>3. DOMAIN call.items = 1 .. Len(call.items) /\ Len(call.items) \in Nat
    BY <2>2
  <2>4. \A k \in 1 .. Len(call.items) : call.items[k] \in RequestedReferences
    BY <2>1, <2>3 DEF RequestedReferences, Range
  <2>5. PICK g : /\ IsFold("item", g, s, call.items, Len(call.items))
                 /\ FoldLeft(AddReference, s, call.items) = g[1 .. Len(call.items)]
    BY <2>3, FoldOfItems
  <2>6. EachKeeps("item", base, call.items, Len(call.items))
    BY <2>4, FillingItem DEF EachKeeps, Apply
  <2>7. Fills(base, g[1 .. Len(call.items)])
    BY <2>3, <2>5, <2>6, FoldKeeps
  <2>8. Perform(s, call) = FoldLeft(AddReference, s, call.items)
    BY <1>2, Zenon DEF Perform
  <2> QED  BY <2>5, <2>7, <2>8
<1> QED  BY <1>1, <1>2

LEMMA FillingStretch ==
  ASSUME NEW base, NEW s, Fills(base, s), NEW stretch \in Range(Stretches)
  PROVE  Fills(base, FoldLeft(Perform, s, stretch))
<1>1. stretch \in Seq(Range(stretch))
  BY CallsAssumption
<1>2. DOMAIN stretch = 1 .. Len(stretch) /\ Len(stretch) \in Nat
  BY <1>1
<1>3. \A k \in 1 .. Len(stretch) : stretch[k] \in PerformedCalls
  BY <1>2 DEF PerformedCalls, Range
<1>4. PICK g : /\ IsFold("call", g, s, stretch, Len(stretch))
               /\ FoldLeft(Perform, s, stretch) = g[1 .. Len(stretch)]
  BY <1>2, FoldOfCalls
<1>5. EachKeeps("call", base, stretch, Len(stretch))
  BY <1>3, FillingCall DEF EachKeeps, Apply
<1>6. Fills(base, g[1 .. Len(stretch)])
  BY <1>2, <1>4, <1>5, FoldKeeps
<1> QED  BY <1>4, <1>6

FillInv == Filling(space) /\ position \in Nat \ {0}

LEMMA FillInvariance == FillSpec => []FillInv
<1>1. FillInit => FillInv
  <2> SUFFICES ASSUME FillInit PROVE FillInv
    OBVIOUS
  <2>1. space = EmptySpace /\ position = 1 /\ Nodes(space) = {}
    BY DEF FillInit, Init, EmptySpace, Nodes
  <2>2. IsFiniteSet(Nodes(space))
    BY <2>1, FS_EmptySet
  <2>3. WellFormed(space)
    BY <2>1 DEF WellFormed, EmptySpace
  <2> QED  BY <2>1, <2>2, <2>3 DEF Filling, FillInv
<1>2. ASSUME FillInv, [Fill]_fillVars PROVE FillInv'
  <2>1. CASE UNCHANGED fillVars
    <3>1. space' = space /\ position' = position
      BY <2>1 DEF fillVars, vars
    <3> QED  BY <1>2, <3>1 DEF FillInv, Filling, WellFormed, Nodes, HasAttribute
  <2>2. CASE Fill
    <3>1. /\ position <= Len(Stretches) /\ position' = position + 1
          /\ space' = FoldLeft(Perform, space, Stretches[position])
      BY <2>2, Zenon DEF Fill
    <3>2. Stretches \in Seq(Range(Stretches))
      BY CallsAssumption
    <3>3. position \in DOMAIN Stretches
      BY <1>2, <3>1, <3>2 DEF FillInv
    <3>4. Stretches[position] \in Range(Stretches)
      BY <3>3 DEF Range
    <3>5. Fills({}, FoldLeft(Perform, space, Stretches[position]))
      <4>1. Fills({}, space)
        BY <1>2 DEF FillInv, Fills
      <4> QED  BY <3>4, <4>1, FillingStretch
    <3>6. position' \in Nat \ {0}
      BY <1>2, <3>1 DEF FillInv
    <3> QED  BY <3>1, <3>5, <3>6 DEF FillInv, Fills
  <2> QED  BY <1>2, <2>1, <2>2
<1> QED  BY <1>1, <1>2, PTL DEF FillSpec

--------------------------------------------------------------------------------
(* Browsing the standard reference types. *)

NumberOf == [t \in ReferenceTypes |-> t[2]]

LEMMA NumberIsRank == NumberOf \in [ReferenceTypes -> Nat]
<1>1. ASSUME NEW t \in ReferenceTypes PROVE t[2] \in Nat
  <2>1. PICK call \in Requested : t = call.id
    BY DEF ReferenceTypes
  <2>2. t \in NodeIds
    BY <2>1, CallsAssumption, ItemsAssumption
  <2> QED  BY <2>2 DEF NodeIds
<1> QED  BY <1>1 DEF NumberOf

LEMMA FillRanked ==
  ASSUME FillInv
  PROVE  /\ Ranked(ReferenceTypes, NumberOf)
         /\ \A n \in ReferenceTypes \cap Nodes(space) : \A r \in Range(space.References[n]) :
              r.type = Id(HasSubtype)
<1>1. Descending(Requested, RequestedReferences, ReferenceTypes, NumberOf)
  BY ReferenceTypesDescend DEF NumberOf
<1>2. ASSUME NEW n \in ReferenceTypes \cap Nodes(space), NEW r \in Range(space.References[n])
      PROVE  /\ r.target \in ReferenceTypes /\ NumberOf[n] < NumberOf[r.target]
             /\ r.type = Id(HasSubtype)
  <2>1. AskedInCalls(n, r)
    BY DEF FillInv, Filling
  <2>2. CASE \E call \in Requested : n = call.parent /\ r.target = call.id /\ r.type = call.type
    BY <1>1, <2>2, ReferenceTypesDescend DEF Descending
  <2>3. CASE \E call \in Requested : n = call.id /\ call.definition # Null
    BY <1>1, <2>3 DEF Descending
  <2>4. CASE \E item \in RequestedReferences :
               n = item.source /\ r.target = item.target /\ r.type = item.type
    BY <1>1, <2>4, ReferenceTypesDescend DEF Descending
  <2> QED  BY <2>1, <2>2, <2>3, <2>4 DEF AskedInCalls
<1> QED  BY <1>2 DEF Ranked

LEMMA ReferenceTypesAre ==
  ASSUME FillInv, NEW t \in OfClass("ReferenceType")
  PROVE  t \in ReferenceTypes \cap Nodes(space)
<1>1. t \in Nodes(space) /\ space.Attributes[t]["NodeClass"] = "ReferenceType"
  BY DEF OfClass
<1>2. PICK call \in Requested : call.id = t /\ space.Attributes[t]["NodeClass"] = call.class
  BY <1>1 DEF FillInv, Filling
<1> QED  BY <1>1, <1>2 DEF ReferenceTypes

\* While the server fills its address space, and after, a browse that asks for a reference
\* type with its subtypes ends: whatever the calls and their order, as long as they hang
\* reference types below reference types with smaller numbers (FillStandardNamespace,
\* SelectNodesHierarchy).
THEOREM StandardBrowsingEnds == FillSpec => []BrowsingEnds
<1>1. ASSUME FillInv PROVE BrowsingEnds
  <2>1. IsFiniteSet(Nodes(space)) /\ Ranked(ReferenceTypes, NumberOf)
    BY <1>1, FillRanked DEF FillInv, Filling
  <2>2. ASSUME NEW t \in OfClass("ReferenceType") PROVE HierarchyEnds(space, {t})
    <3>1. t \in ReferenceTypes
      BY <1>1, ReferenceTypesAre
    <3> QED  BY <2>1, <3>1, NumberIsRank, RankedEnds
  <2> QED  BY <2>2 DEF BrowsingEnds
<1> QED  BY <1>1, FillInvariance, PTL

Direct(n) == {r.target : r \in {q \in Range(space.References[n]) : q.type = Id(HasSubtype)}}

\* f is the recursive function of Subtypes.
IsSubtypeLevels(f, type) ==
  f = [k \in Nat |-> IF k = 0 THEN {type} ELSE UNION {Direct(n) : n \in f[k - 1]}]

LEMMA LevelsOfTypes ==
  ASSUME FillInv, NEW t \in ReferenceTypes \cap Nodes(space)
  PROVE  \A k \in Nat : Levels(space, {t})[k] \subseteq ReferenceTypes \cap Nodes(space)
<1> DEFINE L == Levels(space, {t})
           T == {k \in Nat : L[k] \subseteq ReferenceTypes \cap Nodes(space)}
<1>1. L[0] = {t} /\ \A k \in Nat : L[k + 1] = TargetsOf(space, L[k])
  BY LevelsDef
<1> HIDE DEF L
<1>2. 0 \in T
  BY <1>1
<1>3. ASSUME NEW k \in T PROVE k + 1 \in T
  <2>1. k \in Nat /\ L[k] \subseteq ReferenceTypes \cap Nodes(space)
    OBVIOUS
  <2>2. ASSUME NEW x \in L[k + 1] PROVE x \in ReferenceTypes \cap Nodes(space)
    <3>1. x \in TargetsOf(space, L[k])
      BY <1>1, <2>1, <2>2
    <3>2. PICK n \in L[k] \cap Nodes(space) : \E r \in Range(space.References[n]) : x = r.target
      BY <3>1, TargetsAre
    <3>3. PICK r \in Range(space.References[n]) : x = r.target
      BY <3>2
    <3>4. x \in ReferenceTypes
      BY <2>1, <3>2, <3>3, FillRanked DEF Ranked
    <3>5. x \in Nodes(space)
      BY <3>2, <3>3 DEF FillInv, Filling
    <3> QED  BY <3>4, <3>5
  <2> QED  BY <2>1, <2>2
<1>4. T = Nat
  <2> HIDE DEF T
  <2>1. T \in SUBSET Nat
    BY DEF T
  <2> QED  BY <1>2, <1>3, <2>1, SetInduction
<1> QED  BY <1>4 DEF L

\* The two walks visit the same, depth by depth.
LEMMA SameLevels ==
  ASSUME FillInv, NEW t \in ReferenceTypes \cap Nodes(space)
  PROVE  \A f : IsSubtypeLevels(f, t) <=> f = Levels(space, {t})
<1> DEFINE L == Levels(space, {t})
<1>1. AllLevels(L, space, {t})
  BY LevelsAre
<1>2. \A k \in Nat : L[k] \subseteq ReferenceTypes \cap Nodes(space)
  BY LevelsOfTypes
<1> HIDE DEF L
<1>3. ASSUME NEW A \in SUBSET (ReferenceTypes \cap Nodes(space))
      PROVE  UNION {Direct(n) : n \in A} = TargetsOf(space, A)
  <2>1. ASSUME NEW x \in TargetsOf(space, A) PROVE x \in UNION {Direct(n) : n \in A}
    <3>1. PICK n \in A \cap Nodes(space) : \E r \in Range(space.References[n]) : x = r.target
      BY <2>1, TargetsAre
    <3>2. PICK r \in Range(space.References[n]) : x = r.target
      BY <3>1
    <3>3. r.type = Id(HasSubtype)
      BY <3>2, FillRanked
    <3> QED  BY <3>1, <3>2, <3>3 DEF Direct
  <2>2. ASSUME NEW x \in UNION {Direct(n) : n \in A} PROVE x \in TargetsOf(space, A)
    <3>1. PICK n \in A : x \in Direct(n)
      BY <2>2
    <3>2. n \in A \cap Nodes(space) /\ \E r \in Range(space.References[n]) : x = r.target
      BY <3>1 DEF Direct
    <3> QED  BY <3>2, TargetsAre
  <2> QED  BY <2>1, <2>2
<1>4. IsSubtypeLevels(L, t)
  <2>1. ASSUME NEW k \in Nat
        PROVE  L[k] = IF k = 0 THEN {t} ELSE UNION {Direct(n) : n \in L[k - 1]}
    <3>1. L[k] = IF k = 0 THEN {t} ELSE TargetsOf(space, L[k - 1])
      BY <1>1 DEF AllLevels
    <3>2. k # 0 => L[k - 1] \in SUBSET (ReferenceTypes \cap Nodes(space))
      BY <1>2
    <3> QED  BY <1>3, <3>1, <3>2
  <2>2. L = [k \in Nat |-> L[k]]
    BY <1>1 DEF AllLevels
  <2> QED  BY <2>1, <2>2 DEF IsSubtypeLevels
<1>5. ASSUME NEW f, IsSubtypeLevels(f, t) PROVE f = L
  <2> DEFINE T == {k \in Nat : f[k] = L[k]}
  <2>1. 0 \in T
    BY <1>4, <1>5 DEF IsSubtypeLevels
  <2>2. ASSUME NEW k \in T PROVE k + 1 \in T
    <3>1. k \in Nat /\ f[k] = L[k] /\ k + 1 \in Nat /\ k + 1 # 0 /\ (k + 1) - 1 = k
      OBVIOUS
    <3>2. f[k + 1] = UNION {Direct(n) : n \in f[k]}
      BY <1>5, <3>1 DEF IsSubtypeLevels
    <3>3. L[k + 1] = UNION {Direct(n) : n \in L[k]}
      BY <1>4, <3>1 DEF IsSubtypeLevels
    <3> QED  BY <3>1, <3>2, <3>3
  <2>3. T = Nat
    <3> HIDE DEF T
    <3>1. T \in SUBSET Nat
      BY DEF T
    <3> QED  BY <2>1, <2>2, <3>1, SetInduction
  <2>4. \A k \in Nat : f[k] = L[k]
    BY <2>3
  <2>5. f = [k \in Nat |-> f[k]] /\ L = [k \in Nat |-> L[k]]
    BY <1>4, <1>5 DEF IsSubtypeLevels
  <2> QED  BY <2>4, <2>5
<1>6. \A f : IsSubtypeLevels(f, t) <=> f = L
  BY <1>4, <1>5
<1> QED  BY <1>6 DEF L

\* Although SelectNodesHierarchy follows references of every type, what it takes for the
\* subtypes of a standard reference type are exactly its subtypes.
THEOREM StandardSubtypesExact == FillSpec => []SubtypesAreExact
<1>1. ASSUME FillInv PROVE SubtypesAreExact
  <2>1. ASSUME NEW t \in OfClass("ReferenceType")
        PROVE  SelectNodesHierarchy(space, {t}) = Subtypes(t)
    <3> DEFINE L == Levels(space, {t})
               F == CHOOSE f : IsSubtypeLevels(f, t)
               depth(f) == CHOOSE k \in 0 .. Cardinality(Nodes(space)) + 1 : f[k] = {}
               found(f) == UNION {f[k] : k \in 0 .. depth(f)}
    <3>1. \A f : IsSubtypeLevels(f, t) <=> f = L
      BY <1>1, <2>1, ReferenceTypesAre, SameLevels
    <3>2. SelectNodesHierarchy(space, {t}) = found(L)
      BY Zenon DEF SelectNodesHierarchy
    <3>3. Subtypes(t) = found(F)
      BY Zenon DEF Subtypes, IsSubtypeLevels, Direct
    <3>4. F = L
      <4> HIDE DEF L
      <4> QED  BY <3>1
    <3> HIDE DEF L, F, found
    <3> QED  BY <3>2, <3>3, <3>4
  <2> QED  BY <2>1 DEF SubtypesAreExact
<1> QED  BY <1>1, FillInvariance, PTL

--------------------------------------------------------------------------------
(* The order of the calls. *)

\* The nodes of the stretches before i, and of the first j calls of stretch i, exist.
MadeBefore(s, i) ==
  \A k \in DOMAIN Stretches : k < i =>
    \A l \in DOMAIN Stretches[k] : Makes(Stretches[k][l]) => Stretches[k][l].id \in Nodes(s)

MadeFirst(s, i, j) ==
  \A l \in DOMAIN Stretches[i] :
    l <= j /\ Makes(Stretches[i][l]) => Stretches[i][l].id \in Nodes(s)

LEMMA AddNodeMakes ==
  ASSUME NEW s, Filling(s), NEW call \in Requested,
         call.parent = Null \/ call.parent \in Nodes(s)
  PROVE  call.id \in Nodes(AddNode(s, call))
<1> DEFINE id == GetNewNodeId(s, call.id)
           t == AddNode(s, call)
           status == AddNodeStatus(s, call, id)
<1>1. WellFormed(s) /\ NodeItem(call)
  BY CallsAssumption, NodeItemsAre DEF Filling
<1>2. id = call.id
  <2>1. ~GetsNewNumber(call.id)
    BY CallsAssumption
  <2>2. call.id # Null
    BY <2>1 DEF GetsNewNumber, Null
  <2> QED  BY <2>1, <2>2 DEF GetNewNodeId
<1>3. Grown(s, t) /\ (status \in Accepted => Nodes(t) = Nodes(s) \cup {id})
  BY <1>1, AddNodeWorks
<1>4. id \in Nodes(s) \/ status \in Accepted
  BY DEF AddNodeStatus, Accepted
<1> HIDE DEF id, t, status
<1>5. call.id \in Nodes(t)
  BY <1>2, <1>3, <1>4 DEF Grown
<1> QED  BY <1>5 DEF t

LEMMA NextCallMakes ==
  ASSUME NEW s, NEW i \in DOMAIN Stretches, NEW j \in Nat, j + 1 \in DOMAIN Stretches[i],
         Filling(s), MadeBefore(s, i), MadeFirst(s, i, j)
  PROVE  LET t == Perform(s, Stretches[i][j + 1])
         IN  Fills(Nodes(s), t) /\ MadeFirst(t, i, j + 1)
<1> DEFINE call == Stretches[i][j + 1]
           t == Perform(s, call)
<1>1. Stretches \in Seq(Range(Stretches)) /\ Stretches[i] \in Seq(Range(Stretches[i]))
  BY CallsAssumption DEF Range
<1>2. DOMAIN Stretches[i] \subseteq Nat /\ DOMAIN Stretches \subseteq Nat
  BY <1>1
<1>3. call \in PerformedCalls
  BY DEF PerformedCalls, Range
<1>4. Fills(Nodes(s), t)
  <2>1. Fills(Nodes(s), s)
    BY DEF Fills
  <2> QED  BY <1>3, <2>1, FillingCall
<1>5. Makes(call) => call.id \in Nodes(t)
  <2> SUFFICES ASSUME Makes(call) PROVE call.id \in Nodes(t)
    OBVIOUS
  <2>1. call \in Requested /\ t = AddNode(s, call)
    BY <1>3 DEF Makes, Requested, Perform
  <2>2. call.parent = Null \/ call.parent \in Nodes(s)
    <3> SUFFICES ASSUME call.parent # Null PROVE call.parent \in Nodes(s)
      OBVIOUS
    <3>1. PICK k \in 1 .. i : \E l \in DOMAIN Stretches[k] :
            /\ k < i \/ l < j + 1
            /\ Makes(Stretches[k][l]) /\ Stretches[k][l].id = call.parent
      BY ParentsFirst
    <3>2. PICK l \in DOMAIN Stretches[k] :
            /\ k < i \/ l < j + 1
            /\ Makes(Stretches[k][l]) /\ Stretches[k][l].id = call.parent
      BY <3>1
    <3>3. k \in DOMAIN Stretches
      BY <1>1
    <3>4. CASE k < i
      BY <3>2, <3>3, <3>4 DEF MadeBefore
    <3>5. CASE ~(k < i)
      <4>1. k = i /\ l < j + 1 /\ l \in DOMAIN Stretches[i]
        BY <1>2, <3>2, <3>5
      <4>2. l <= j
        BY <1>2, <4>1
      <4> QED  BY <3>2, <4>1, <4>2 DEF MadeFirst
    <3> QED  BY <3>4, <3>5
  <2> HIDE DEF call, t
  <2> QED  BY <2>1, <2>2, AddNodeMakes
<1> HIDE DEF t
<1>6. ASSUME NEW l \in DOMAIN Stretches[i], l <= j + 1, Makes(Stretches[i][l])
      PROVE  Stretches[i][l].id \in Nodes(t)
  <2>1. CASE l = j + 1
    BY <1>5, <1>6, <2>1
  <2>2. CASE l <= j
    BY <1>4, <1>6, <2>2 DEF MadeFirst, Fills
  <2> QED  BY <1>2, <1>6, <2>1, <2>2
<1>7. Fills(Nodes(s), t) /\ MadeFirst(t, i, j + 1)
  BY <1>4, <1>6 DEF MadeFirst
<1> QED  BY <1>7 DEF t

MadeSoFar(base, s, i, j) ==
  Fills(base, s) /\ MadeBefore(s, i) /\ MadeFirst(s, i, j)

LEMMA StretchMakes ==
  ASSUME NEW s, Filling(s), NEW i \in DOMAIN Stretches, MadeBefore(s, i)
  PROVE  MadeBefore(FoldLeft(Perform, s, Stretches[i]), i + 1)
<1> DEFINE xs == Stretches[i]
           m == Len(xs)
<1>1. Stretches \in Seq(Range(Stretches)) /\ xs \in Seq(Range(xs))
  BY CallsAssumption DEF Range
<1>2. DOMAIN xs = 1 .. m /\ m \in Nat /\ DOMAIN Stretches \subseteq Nat
  BY <1>1
<1>3. PICK g : IsFold("call", g, s, xs, m) /\ FoldLeft(Perform, s, xs) = g[1 .. m]
  BY <1>2, FoldOfCalls
<1>4. StepByStep("call", g, s, xs, m)
  BY <1>2, <1>3, FoldSteps
<1> HIDE DEF m
<1>5. g[1 .. 0] = s /\ \A k \in Nat : k < m => g[1 .. k + 1] = Perform(g[1 .. k], xs[k + 1])
  BY <1>4 DEF StepByStep, Apply
<1> DEFINE T == {k \in Nat : k <= m => MadeSoFar(Nodes(s), g[1 .. k], i, k)}
<1>6. 0 \in T
  <2>1. MadeFirst(s, i, 0)
    BY <1>2 DEF MadeFirst
  <2> QED  BY <1>5, <2>1 DEF MadeSoFar, Fills
<1>7. ASSUME NEW k \in T PROVE k + 1 \in T
  <2>1. SUFFICES ASSUME k + 1 <= m PROVE MadeSoFar(Nodes(s), g[1 .. k + 1], i, k + 1)
    OBVIOUS
  <2> DEFINE before == g[1 .. k]
             after == g[1 .. k + 1]
  <2>2. k \in Nat /\ k < m /\ k + 1 \in DOMAIN xs /\ MadeSoFar(Nodes(s), before, i, k)
    BY <1>2, <1>7, <2>1
  <2>3. after = Perform(before, xs[k + 1])
    BY <1>5, <2>2
  <2> HIDE DEF before, after
  <2>4. Fills(Nodes(before), after) /\ MadeFirst(after, i, k + 1)
    BY <2>2, <2>3, NextCallMakes DEF MadeSoFar, Fills
  <2>5. Fills(Nodes(s), after) /\ MadeBefore(after, i)
    BY <2>2, <2>4 DEF MadeSoFar, Fills, MadeBefore
  <2> QED  BY <2>4, <2>5 DEF MadeSoFar, after
<1>8. T = Nat
  <2> HIDE DEF T
  <2>1. T \in SUBSET Nat
    BY DEF T
  <2> QED  BY <1>6, <1>7, <2>1, SetInduction
<1>9. MadeSoFar(Nodes(s), g[1 .. m], i, m)
  BY <1>2, <1>8
<1> DEFINE t == g[1 .. m]
<1> HIDE DEF t
<1>10. ASSUME NEW k \in DOMAIN Stretches, k < i + 1, NEW l \in DOMAIN Stretches[k],
              Makes(Stretches[k][l])
       PROVE  Stretches[k][l].id \in Nodes(t)
  <2>1. CASE k < i
    BY <1>9, <1>10, <2>1 DEF MadeSoFar, MadeBefore, t
  <2>2. CASE k = i
    <3>1. l <= m
      BY <1>2, <1>10, <2>2
    <3> QED  BY <1>9, <1>10, <2>2, <3>1 DEF MadeSoFar, MadeFirst, t
  <2> QED  BY <1>2, <1>10, <2>1, <2>2
<1>11. MadeBefore(t, i + 1)
  BY <1>10 DEF MadeBefore
<1> QED  BY <1>3, <1>11 DEF t

OrderInv == MadeBefore(space, position) /\ position <= Len(Stretches) + 1

LEMMA OrderInvariance == FillSpec => []OrderInv
<1>0. Stretches \in Seq(Range(Stretches))
  BY CallsAssumption
<1>1. DOMAIN Stretches = 1 .. Len(Stretches) /\ Len(Stretches) \in Nat
  BY <1>0
<1>2. FillInit => OrderInv
  BY <1>1 DEF FillInit, OrderInv, MadeBefore
<1>3. ASSUME FillInv, OrderInv, [Fill]_fillVars PROVE OrderInv'
  <2>1. CASE UNCHANGED fillVars
    <3>1. space' = space /\ position' = position
      BY <2>1 DEF fillVars, vars
    <3> QED  BY <1>3, <3>1 DEF OrderInv, MadeBefore, Nodes
  <2>2. CASE Fill
    <3>1. /\ position <= Len(Stretches) /\ position' = position + 1
          /\ space' = FoldLeft(Perform, space, Stretches[position])
      BY <2>2, Zenon DEF Fill
    <3>2. position \in DOMAIN Stretches
      BY <1>1, <1>3, <3>1 DEF FillInv
    <3>3. MadeBefore(FoldLeft(Perform, space, Stretches[position]), position + 1)
      BY <1>3, <3>2, StretchMakes DEF FillInv, OrderInv
    <3>4. position' <= Len(Stretches) + 1
      BY <1>1, <3>1, <3>2
    <3> QED  BY <3>1, <3>3, <3>4 DEF OrderInv, MadeBefore, Nodes
  <2> QED  BY <1>3, <2>1, <2>2
<1> QED  BY <1>2, <1>3, FillInvariance, PTL DEF FillSpec

\* No node is lost to the order of the calls, for any calls that make parents before their
\* children: a refused node has a parent that no call makes (FillStandardNamespace, whose
\* parts are created one after the other; AddNode).
THEOREM StandardOrderLosesNoNode == FillSpec => []OrderLosesNoNode
<1>1. ASSUME FillInv, OrderInv PROVE OrderLosesNoNode
  <2>1. Stretches \in Seq(Range(Stretches))
    BY CallsAssumption
  <2>2. SUFFICES ASSUME position > 1, NEW i \in DOMAIN Stretches[position - 1],
                        Stretches[position - 1][i].op = "AddNodes",
                        Stretches[position - 1][i].id \notin Nodes(space)
                 PROVE  Stretches[position - 1][i].parent \notin {q.id : q \in Requested}
    BY DEF OrderLosesNoNode
  <2>3. position - 1 \in DOMAIN Stretches /\ position - 1 < position
    BY <1>1, <2>1, <2>2 DEF FillInv, OrderInv
  <2>4. ~Makes(Stretches[position - 1][i])
    BY <1>1, <2>2, <2>3 DEF OrderInv, MadeBefore
  <2> QED  BY <2>2, <2>4 DEF Makes, RequestedIds
<1> QED  BY <1>1, FillInvariance, OrderInvariance, PTL
================================================================================
