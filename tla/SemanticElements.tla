-------------------------- MODULE SemanticElements --------------------------
(***************************************************************************)
(* Which elements a snapshot of a page returns (agent                      *)
(* frontend_playwright.py, _semantic_elements): the nodes that are laid    *)
(* out in the viewport, the useful ones first, at most a limit of them,    *)
(* each with the nearest returned ancestor.  A document is a sequence of   *)
(* nodes in document order; the parent of a node stands before it, and 0   *)
(* is no parent.  Boxes have one dimension: the other one is alike.        *)
(***************************************************************************)
EXTENDS Integers, Sequences, SequencesExt, FiniteSetsExt

\* A box in document coordinates, cut to the viewport 0 .. view.
Clipped(box, scroll, view) ==
    LET x == box[1] - scroll
        left == Max({0, x})
        right == Min({view, x + box[2]})
    IN  [left |-> left, right |-> right]
LaidOut(node, scroll, view) ==
    LET c == Clipped(node.box, scroll, view) IN c.left < c.right

Structural == {"html", "head", "script", "style", "meta", "link", "template", "noscript"}
TextBlocked == {"head", "script", "style", "template", "noscript"}
Actionable == {"a", "button", "details", "input", "option", "select", "summary", "textarea"}

\* The nodes that may be returned, in document order.
Candidates(doc) ==
    SelectSeq([i \in 1 .. Len(doc.nodes) |-> i],
              LAMBDA i : /\ LaidOut(doc.nodes[i], doc.scroll, doc.view)
                         /\ doc.nodes[i].tag \notin Structural \cup {"#text"}
                         /\ ~doc.nodes[i].hidden)

\* Controls, nodes with a role or a name for accessibility, instrumented nodes.
Useful(node) == node.tag \in Actionable \/ node.role # "" \/ node.source

\* The ancestors of a node, the nearest one first.
Ancestors(doc) ==
    LET up[i \in 0 .. Len(doc.nodes)] ==
            IF i = 0 \/ doc.nodes[i].parent = 0 THEN <<>>
            ELSE <<doc.nodes[i].parent>> \o up[doc.nodes[i].parent]
    IN  up

\* Adds the nodes of a sequence until the limit is reached.
AdmitNodes(limit, selected, more) ==
    FoldLeft(LAMBDA s, i : IF Cardinality(s) < limit THEN s \cup {i} ELSE s, selected, more)

\* First the useful nodes, then the ancestors of each of them, then the rest.
Selected(doc, limit) ==
    LET order == Candidates(doc)
        useful == SelectSeq(order, LAMBDA i : Useful(doc.nodes[i]))
        above == [k \in 1 .. Len(useful) |->
                      SelectSeq(Ancestors(doc)[useful[k]], LAMBDA j : j \in ToSet(order))]
    IN  AdmitNodes(limit, FoldLeft(LAMBDA s, more : AdmitNodes(limit, s, more),
                              AdmitNodes(limit, {}, useful), above),
              order)

Truncated(doc, limit) == Len(Candidates(doc)) > Cardinality(Selected(doc, limit))

\* nearest_included_ancestor: the parent that is returned for a node; 0 is none.
NearestIncluded(doc, limit, i) ==
    LET above == SelectSeq(Ancestors(doc)[i], LAMBDA j : j \in Selected(doc, limit))
    IN  IF above = <<>> THEN 0 ELSE above[1]

\* The element that a visible text is returned with: the nearest returned
\* ancestor, unless the text is inside something that is not shown; 0 is none.
TextTarget(doc, limit, i) ==
    LET stops == SelectSeq(Ancestors(doc)[i], LAMBDA j :
                     j \in Selected(doc, limit) \/ doc.nodes[j].tag \in TextBlocked)
    IN  IF \/ doc.nodes[i].tag # "#text" \/ doc.nodes[i].hidden
           \/ ~LaidOut(doc.nodes[i], doc.scroll, doc.view)
           \/ stops = <<>> \/ doc.nodes[stops[1]].tag \in TextBlocked
        THEN 0 ELSE stops[1]

-----------------------------------------------------------------------------
\* What the answer owes its reader, without the order in which nodes are
\* visited: it is as long as the limit allows and says if something is missing;
\* a useful node is missing only if all that is returned is useful, and an
\* ancestor of a useful node only if nothing else of less use is returned;
\* each returned parent is returned too and nothing in between is.
Preferred(doc, limit) ==
    LET cands == ToSet(Candidates(doc))
        sel == Selected(doc, limit)
        useful == {i \in cands : Useful(doc.nodes[i])}
        above == {j \in cands : \E i \in useful : j \in ToSet(Ancestors(doc)[i])}
    IN  /\ sel \subseteq cands
        /\ Cardinality(sel) = Min({limit, Cardinality(cands)})
        /\ Truncated(doc, limit) = (cands # sel)
        /\ useful \subseteq sel \/ sel \subseteq useful
        /\ above \subseteq sel \/ sel \subseteq useful \cup above
        /\ \A i \in sel :
               LET p == NearestIncluded(doc, limit, i) IN
               /\ p # 0 => p \in sel /\ p \in ToSet(Ancestors(doc)[i])
               /\ \A j \in sel \cap ToSet(Ancestors(doc)[i]) :
                      p # 0 /\ (j = p \/ j \in ToSet(Ancestors(doc)[p]))
        /\ \A i \in 1 .. Len(doc.nodes) :
               LET t == TextTarget(doc, limit, i) IN
               t # 0 => \A j \in ToSet(Ancestors(doc)[i]) :
                            t \in ToSet(Ancestors(doc)[j]) => doc.nodes[j].tag \notin TextBlocked
=============================================================================
