------------------------------- MODULE MCRefs -------------------------------
(* Model-checking instance of Refs: rows of a list that scrolls, two texts of which one   *)
(* contains the other, a repeated view id, a recycled view, a node with no name.           *)
EXTENDS Refs, TLC

Node(id, viewId, text, desc, bounds, clickable) ==
    [id |-> id, viewId |-> viewId, text |-> text, desc |-> desc, bounds |-> bounds,
     visible |-> TRUE, clickable |-> clickable, focusable |-> FALSE]

Ok == Node("ok", None, "OK", None, <<2, 4>>, TRUE)
Book == Node("book", None, "Book", None, <<0, 2>>, TRUE)
Row == Node("row", "title", "OK", None, <<0, 2>>, TRUE)
Label == Node("label", "title", "Book", "OK", <<2, 4>>, FALSE)
Recycled == [Row EXCEPT !.text = "Book"]
Icon == Node("icon", None, None, "OK", <<4, 6>>, TRUE)
Box == Node("box", None, None, None, <<1, 3>>, TRUE)
Hidden == [Node("hidden", "title", "OK", None, <<0, 1>>, TRUE) EXCEPT !.visible = FALSE]
Focus == [Node("focus", None, "Focus", None, <<3, 4>>, FALSE) EXCEPT !.focusable = TRUE]

MCTrees == {<<Book, Ok>>, <<Ok, Box>>, <<Hidden, Row, Label>>, <<Label, Icon>>, <<Focus, Recycled>>}
MCContains ==
    {<<s, s>> : s \in {"OK", "Book", "Focus"}} \cup {<<"Book", "OK">>}
TapSymmetry == Permutations(Taps)
=============================================================================
