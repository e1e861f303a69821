----------------------------- MODULE MCAddressSpace -----------------------------
(* A few nodes: two ids that callers ask for, one of them the second that the counter *)
(* generates, and two requests that leave the choice to the counter.                  *)
EXTENDS AddressSpace

First == <<0, 85>>
Ahead == <<2, 2002>>

Item(id, parent, definition) ==
  [id |-> id, name |-> "a", class |-> "Object", parent |-> parent, type |-> <<0, 35>>,
   definition |-> definition, attributes |-> << >>]

MCNodeItems ==
  {Item(First, Null, Null), Item(Ahead, First, Null), Item(Null, Null, First),
   Item(Null, First, Null), Item(<<2, 0>>, Ahead, First)}

MCReferenceItems ==
  {[source |-> n, type |-> <<0, 45>>, target |-> m, class |-> "Object", forward |-> f] :
     n \in {First}, m \in {Ahead, <<2, 2001>>}, f \in {TRUE}}

MCWriteValues == {<<First, "BrowseName", v>> : v \in {"b", "number", BadValue}}


MCCallbackNodes == {First}

================================================================================
