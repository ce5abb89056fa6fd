---------------------------- MODULE MCProductUrl ----------------------------
(***************************************************************************)
(* Every ordered tree of up to four nodes as the only block of a page, and *)
(* every page of up to three blocks made of trees of two nodes; a depth of *)
(* one and three nodes are within the limits.                              *)
(***************************************************************************)
EXTENDS ProductUrl

Kinds == {"none", "name", "product"}

Shapes == {<<0>>, <<0, 1>>, <<0, 1, 1>>, <<0, 1, 2>>, <<0, 1, 1, 1>>,
           <<0, 1, 2, 1>>, <<0, 1, 1, 2>>, <<0, 1, 2, 2>>, <<0, 1, 2, 3>>}

Labelled(shape) ==
    {[n \in DOMAIN shape |-> [depth |-> shape[n], has |-> label[n]]] :
        label \in [DOMAIN shape -> Kinds]}

Leaves == UNION {Labelled(shape) : shape \in {<<0>>, <<0, 1>>}}

Page(json, state, meta, dom, heading) ==
    [json |-> json, state |-> state, meta |-> meta, dom |-> dom, heading |-> heading]

MCPages ==
    LET trees == UNION {Labelled(shape) : shape \in Shapes}
        short == {<<>>} \cup {<<t>> : t \in Leaves}
    IN  {Page(<<t>>, <<>>, {"price"}, {"name"}, FALSE) : t \in trees}
        \cup {Page(<<>>, <<t>>, {}, {"name", "price"}, FALSE) : t \in trees}
        \cup {Page(j, s, {}, {"price"}, TRUE) : j \in short, s \in short}
        \cup {Page(<<>>, <<t, u>>, {"name"}, {}, FALSE) : t \in Leaves, u \in Leaves}
        \cup {Page(<<>>, <<>>, m, d, h) : m \in SUBSET {"name", "price"},
                 d \in SUBSET {"name", "price"}, h \in BOOLEAN}
=============================================================================
