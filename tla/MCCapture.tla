------------------------------- MODULE MCCapture -------------------------------
(* Instances of Capture: two customers, and three lines of two orders. *)
EXTENDS Routing

Customer(id) == [customer_id |-> id]
Item(order, line) == [order_id |-> <<order>>, line_no |-> <<line>>]

AllRows ==
  {Customer(<<"1">>), Customer(<<"4", "0">>), Item("1", "1"), Item("1", "2"), Item("2", "1")}

\* Quotes, what looks like a null, and what looks like a field behind a space.
Texts ==
  {<<"O", "'", "Brien">>, <<"null">>, <<"a", " ", "full_name[text]:", "b">>, <<"'", "'">>}

AllValues == {[full_name |-> t] : t \in Texts} \cup {[qty |-> <<q>>] : q \in {"1", "2"}}

\* The markers, two of them with a field behind, and the pair that is not Separable.
Markers ==
  {<<"old-key:">>, <<"a", " ", "new-tuple:">>, <<"(no-tuple-data)">>,
   <<"old-key:", " ", "new-tuple:", " ", "full_name[text]:", "x">>,
   <<"(no-tuple-data)", " ", "old-key:", " ", "new-tuple:", " ", "full_name[text]:", "x">>}

Columns ==
  "customer_id[bigint]:" :> "customer_id" @@ "full_name[text]:" :> "full_name" @@
  "order_id[bigint]:" :> "order_id" @@ "line_no[smallint]:" :> "line_no" @@
  "qty[smallint]:" :> "qty"

\* ASCII.
Names ==
  [customer_id |-> <<99, 117, 115, 116, 111, 109, 101, 114, 95, 105, 100>>,
   order_id |-> <<111, 114, 100, 101, 114, 95, 105, 100>>,
   line_no |-> <<108, 105, 110, 101, 95, 110, 111>>]

\* JAVA_VECTORS of tests/test_topics.py, at six partitions.
JavaVectors ==
  Customer(<<"1">>) :> 3 @@ Customer(<<"4", "0">>) :> 5 @@
  Item("1", "1") :> 4 @@ Item("1", "2") :> 2 @@ Item("2", "1") :> 0

PrimaryKeyOf == KeysBy(PrimaryKeys)
PrimaryKeyBytes == {PrimaryKeyOf[r] : r \in Rows}
Hashed == [k \in PrimaryKeyBytes |-> partition_for(k.json)]

=============================================================================
