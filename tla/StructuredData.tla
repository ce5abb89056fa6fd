--------------------------- MODULE StructuredData ---------------------------
(***************************************************************************)
(* How src/src/features/product-url/product-url.service.js picks a product *)
(* out of a page (parseProductHtml): every JSON block of the page is       *)
(* searched with a stack under a limit on depth and on visited nodes; what *)
(* the blocks do not tell is taken from meta tags, attributes, headings.   *)
(*                                                                         *)
(* The text of a page is abstracted to what the search tells apart.  A     *)
(* JSON value is an ordered tree of its objects and arrays, listed in      *)
(* preorder with the depth of each: its first node is the root, and a node *)
(* is followed by its subtrees, one level deeper.  A node has a product (a *)
(* name and a price under one of the known keys), a name only, or nothing. *)
(* Blocks that are not JSON are not listed.                                *)
(***************************************************************************)
EXTENDS Naturals, Sequences, SequencesExt

CONSTANTS
    MaxDepth,   \* MAX_STRUCTURED_DATA_DEPTH
    MaxNodes,   \* MAX_STRUCTURED_DATA_NODES
    NoSource    \* a name or a price that was not found

ASSUME ScanLimitsArePositive == MaxDepth \in Nat /\ MaxNodes \in Nat \ {0}
ASSUME NoSourceIsNew == NoSource \notin [block: Nat, node: Nat]

VARIABLES
    page,   \* [json, state: sequences of trees; meta, dom, heading: what they have]
    scan    \* [block, stack, visited, partial, kept] of the search

scanVars == <<page, scan>>

-----------------------------------------------------------------------------
Nodes == [depth: Nat, has: {"none", "name", "product"}]

(* Preorder: the root, and then no node deeper than a child of the last.   *)
IsTree(t) ==
    /\ t # <<>> => t[1].depth = 0
    /\ \A n \in 2..Len(t) : t[n].depth \in 1..t[n - 1].depth + 1

IsPage(p) ==
    /\ {p.json, p.state} \subseteq Seq(Seq(Nodes))
    /\ \A source \in {p.json, p.state} : \A b \in DOMAIN source : IsTree(source[b])

(* A place in the page: the n-th node of the b-th block. *)
Place(b, n) == [block |-> b, node |-> n]

(* __NEXT_DATA__ and JSON-LD first, then the state some scripts embed. *)
Blocks == page.json \o page.state
FromState(b) == b > Len(page.json)

ScanOf(b, kept) ==
    [block |-> b,
     stack |-> IF b > Len(Blocks) \/ Blocks[b] = <<>> THEN <<>>
               ELSE <<[node |-> 1, depth |-> 0]>>,
     visited |-> 0,
     partial |-> 0,
     kept |-> kept]

NoScan == [block |-> 0, stack |-> <<>>, visited |-> 0, partial |-> 0,
           kept |-> NoSource]

LoadPage(pages) == page' \in pages /\ scan' = NoScan

Tree == Blocks[scan.block]

(* The children of node n, in their order. *)
Children(n) ==
    LET child(m) == /\ Tree[m].depth = Tree[n].depth + 1
                    /\ \A k \in n + 1 .. m : Tree[k].depth > Tree[n].depth
        inOrder(s) == \A i, j \in DOMAIN s : i < j => s[i] < s[j]
    IN  CHOOSE s \in SetToSeqs({m \in n + 1 .. Len(Tree) : child(m)}) : inOrder(s)

(* As Pushed, but the last child is searched first. *)
PushedInOrder(n, depth) ==
    [i \in DOMAIN Children(n) |->
        [node |-> Children(n)[i], depth |-> depth + 1]]

(* Children go on the stack last first, so that the first is searched next. *)
Pushed(n, depth) ==
    Reverse([i \in DOMAIN Children(n) |->
                [node |-> Children(n)[i], depth |-> depth + 1]])

Searching == scan.stack # <<>> /\ scan.visited < MaxNodes

(* One turn of the loop of findStructuredProduct, short of a product. *)
VisitNode ==
    LET top == Last(scan.stack)
        has == Tree[top.node].has
    IN  /\ Searching
        /\ has # "product"
        /\ scan' = [scan EXCEPT
                       !.stack = Front(@) \o
                           IF top.depth >= MaxDepth THEN <<>>
                           ELSE Pushed(top.node, top.depth),
                       !.visited = @ + 1,
                       !.partial = IF @ = 0 /\ has = "name" THEN top.node ELSE @]
        /\ UNCHANGED page

(* The end of a block without a product: the name a JSON block has is      *)
(* dropped, the first name of the embedded state is kept.                  *)
NextBlock ==
    LET keep == FromState(scan.block) /\ scan.kept = NoSource /\ scan.partial # 0
    IN  /\ ~Searching
        /\ scan.block <= Len(Blocks)
        /\ scan' = ScanOf(scan.block + 1,
                          IF keep THEN Place(scan.block, scan.partial)
                                  ELSE scan.kept)
        /\ UNCHANGED page

ScanStep == VisitNode \/ NextBlock

FoundProduct == Searching /\ Tree[Last(scan.stack).node].has = "product"
ScanIsOver == FoundProduct \/ scan.block > Len(Blocks)

(* The first source that has it, in the order of the code. *)
Otherwise(what) ==
    IF what \in page.meta THEN "meta"
    ELSE IF what \in page.dom THEN "dom"
    ELSE IF what = "name" /\ page.heading THEN "heading"
    ELSE NoSource

WithStructured(product, named) ==
    [name |-> IF named = NoSource THEN Otherwise("name") ELSE named,
     price |-> IF product = NoSource THEN Otherwise("price") ELSE product]

(* parseProductHtml, once the search is over. *)
ParsedProduct ==
    LET found == Place(scan.block, Last(scan.stack).node) IN
    IF FoundProduct THEN WithStructured(found, found)
                    ELSE WithStructured(NoSource, scan.kept)

IsComplete(product) == product.name # NoSource /\ product.price # NoSource

-----------------------------------------------------------------------------
(* What the search should find: in document order, among the nodes within  *)
(* the limits.                                                             *)
WithinLimits(b) ==
    LET shallow == {n \in DOMAIN Blocks[b] : Blocks[b][n].depth <= MaxDepth}
    IN  {n \in shallow : Cardinality({m \in shallow : m <= n}) <= MaxNodes}

PlacesOf(has, blocks) ==
    UNION {{Place(b, n) : n \in {m \in WithinLimits(b) : Blocks[b][m].has = has}} :
             b \in blocks}

Precedes(p, q) == p.block < q.block \/ (p.block = q.block /\ p.node <= q.node)

FirstOf(places) ==
    IF places = {} THEN NoSource
    ELSE CHOOSE p \in places : \A q \in places : Precedes(p, q)

(* The product of a page is the first complete one in any of its blocks;   *)
(* only without one are its parts gathered from the first name in embedded *)
(* state, the meta tags, the attributes and the headings, in this order.   *)
ExpectedProduct ==
    LET product == FirstOf(PlacesOf("product", DOMAIN Blocks))
        name == FirstOf(PlacesOf("name", {b \in DOMAIN Blocks : FromState(b)}))
    IN  WithStructured(product, IF product = NoSource THEN name ELSE product)
=============================================================================
