------------------------------ MODULE MCReader -------------------------------
(* A text of eight lines.  The first manifest has an indented image, whose   *)
(* width follows the window's, and a low one; in the second the same file    *)
(* stands in two adjacent blocks that begin the article.  The others are not *)
(* fit to be read.                                                           *)
EXTENDS Reader

Anchor(from, to, asset, w, h, indent, display) ==
    [block_start |-> from, block_end |-> to, asset |-> asset, w |-> w, h |-> h,
     indent_cols |-> indent, display_cols |-> display]

MCManifests ==
    {<<Anchor(1, 3, "tall", 2, 3, 1, 4), Anchor(5, 6, "low", 3, 2, 0, 3)>>,
     <<Anchor(0, 2, "tall", 2, 3, 1, 4), Anchor(2, 3, "tall", 2, 3, 1, 2)>>,
     <<Anchor(1, 3, "tall", 2, 3, 1, 4), Anchor(2, 4, "low", 3, 2, 0, 3)>>,
     <<Anchor(4, 9, "tall", 2, 3, 1, 4)>>,
     <<Anchor(1, 3, "tall", 0, 3, 1, 4)>>,
     <<Anchor(1, 3, "low", 3, 2, 0, 5)>>,
     <<>>}

MCKinds == {[tall |-> k, low |-> "good"] : k \in AssetKind} \cup {[tall |-> "good", low |-> "undecodable"]}

MCSizes == {<<3, 4>>, <<4, 2>>, <<5, 1>>, <<5, 4>>}

MCCells == {[h |-> 2, w |-> 1], [h |-> 3, w |-> 1]}
=============================================================================
