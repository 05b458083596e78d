---------------------------- MODULE MCPublication ---------------------------
(* A content root with a handful of states an author takes it through.       *)
EXTENDS Publication, TLC

md(n) == File(n, "md")
png(n) == File(n, "png")
pix == File("pix", "gif")
Local(p) == [foreign |-> FALSE, path |-> p]
Foreign(p) == [foreign |-> TRUE, path |-> p]

Blank == [links |-> {}, dirs |-> {}, files |-> {}, refs |-> <<>>,
          tables |-> [scopes |-> <<>>, comments |-> <<>>], misplaced |-> {}, unprintable |-> {}]

Help == <<md("help")>>
Deep == <<Dir("notes"), md("help")>>
A    == <<pix, png("a_1")>>
W    == <<pix, File("w", "webp")>>
Anim == <<pix>>
WPng == <<pix, png("w")>>

\* One article with an inline image, comments in HOME and in an empty directory.
Base == [Blank EXCEPT !.files = {Help, A, <<md(".draft")>>}, !.dirs = {<<pix>>, <<Dir("notes")>>},
            !.refs = (Help :> <<Local(A), Foreign(A)>>),
            !.tables.scopes = << << <<Empty>>, <<Dir("notes")>> >> >>]

\* The article has moved into a directory and shows the image twice, over its budget.
Moved == [Blank EXCEPT !.files = {Deep, A, W}, !.dirs = {<<pix>>, <<Dir("notes")>>},
            !.refs = (Deep :> <<Local(<<Dir("..")>> \o A),
                                Local(<<Dir(".."), pix, File("w", "webp")>>)>>),
            !.tables.comments = << << <<Dir("notes")>> >> >>]

\* An article named about, which Vite's public directory may hold as well; it shows one
\* animation twice, which becomes a link and has the path of a directory of the other trees.
\* Another article shows the same animation inline.
About == [Blank EXCEPT !.files = {<<md("about")>>, Help, Anim},
            !.refs = (<<md("about")>> :> <<Local(Anim), Local(Anim)>>) @@
                     (Help :> <<Local(Anim)>>)]

Nothing == Blank

\* What a build refuses.
Reserved == [Blank EXCEPT !.files = {<<md("assets")>>}, !.refs = (<<md("assets")>> :> <<>>)]
Clash == [Blank EXCEPT !.files = {Help, W, WPng}, !.refs = (Help :> <<Local(W), Local(WPng)>>)]
Escape == [Blank EXCEPT !.files = {Help, A}, !.refs = (Help :> <<Local(<<Dir("..")>> \o A)>>)]
Taken == [Blank EXCEPT !.files = {<<Dir("comment")>>}, !.tables.scopes = << << <<Empty>> >> >>]

MCTrees == [base |-> Base, moved |-> Moved, about |-> About, nothing |-> Nothing,
            reserved |-> Reserved, clash |-> Clash, escape |-> Escape, taken |-> Taken]

Entry == {<<Dir("assets"), File("index-1", "js")>>, <<Dir("assets"), File("index-1", "css")>>,
          <<Dir("assets"), File("comments-1", "js")>>}
MCVites == {Entry, Entry \cup {<<Dir("about"), File("index", "html")>>}}

MCImages == (A :> [bytes |-> 2, out |-> 2, decodes |-> TRUE]) @@
            (W :> [bytes |-> 1, out |-> 2, decodes |-> TRUE]) @@
            (WPng :> [bytes |-> 1, out |-> 1, decodes |-> TRUE]) @@
            (Anim :> [bytes |-> 3, out |-> 3, decodes |-> TRUE])

Symmetry == Permutations(Pids)

MCKeyRank == (<<Dir("about")>> :> 1) @@ (<<Dir("assets")>> :> 2) @@ (<<Dir("help")>> :> 3) @@
             (<<Dir("notes"), Dir("help")>> :> 4)

=============================================================================
