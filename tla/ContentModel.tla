---------------------------- MODULE ContentModel ----------------------------
(* The path model shared by content-build, jaild, the web server and the     *)
(* programs of the jail (crates/content-model): article keys and routes,     *)
(* configured directory scopes, and the validation of what is read back from *)
(* the manifests.                                                            *)
(*                                                                           *)
(* A path is what split('/') makes of the string: a nonempty sequence of     *)
(* segments.  The empty string is <<Empty>>, "/" is <<Empty, Empty>>, "/a/"  *)
(* is <<Empty, a, Empty>>.  A segment is a name and an extension; of its     *)
(* characters only the class matters: Plain names are [a-z0-9-]+, Loose ones *)
(* use '.' and '_' too, Hidden ones start with '.', every other name holds a *)
(* character no validator accepts.                                           *)
EXTENDS Naturals, Sequences, FiniteSets

CONSTANTS
    Plain,        \* names in [a-z0-9-]+
    Loose,        \* names in [a-z0-9._-]+ that are not plain
    Hidden,       \* names that start with '.', the dot segments not among them
    MaxTargetLen  \* longest target, in segments

ASSUME NamesAssumption ==
    /\ Plain \cap Loose = {} /\ Plain \cap Hidden = {} /\ Loose \cap Hidden = {}
    /\ "comment" \in Plain /\ "blog" \in Plain /\ "" \notin Plain \cup Loose \cup Hidden
    /\ {".", ".."} \cap (Plain \cup Loose \cup Hidden) = {}

ASSUME MaxTargetLenAssumption == MaxTargetLen \in Nat \ {0}

\* A segment with an extension, and one without.
File(name, ext) == [name |-> name, ext |-> ext]
Dir(name) == File(name, "")
Empty == Dir("")

\* Joining with '/': a route or a target is "/" + p + "/", but of "" it is "/".
Slashed(p) == IF p = <<Empty>> THEN <<Empty, Empty>> ELSE <<Empty>> \o p \o <<Empty>>
Below(p, seg) == IF p = <<Empty>> THEN <<seg>> ELSE Append(p, seg)

\* What a fallible conversion returns.
Err == [ok |-> FALSE]
Ok(v) == [ok |-> TRUE, val |-> v]

StartsWithDot(seg) == seg.name \in Hidden \cup {".", ".."}

has_hidden_component(path) == \E i \in DOMAIN path : StartsWithDot(path[i])

validate_article_segment(seg) == seg.name \in Plain /\ seg.ext = ""

validate_article_source_segment(seg) ==
    validate_article_segment(IF seg.ext = "md" THEN Dir(seg.name) ELSE seg)

validate_resource_segment(seg) == seg.name \in Plain \cup Loose

\* A relative path without empty, dot or hidden segments; the segment_validator the
\* code passes in is a conjunct of each caller.
validate_relative(path) ==
    \A i \in DOMAIN path : path[i] # Empty /\ ~StartsWithDot(path[i])

validate_resource_rel(path) ==
    validate_relative(path) /\ \A i \in DOMAIN path : validate_resource_segment(path[i])

article_directory(path) ==
    validate_relative(path) /\ \A i \in DOMAIN path : validate_article_segment(path[i])

\* strip_prefix('/') and strip_suffix('/') of a target; only called where both are there.
Inner(target) == SubSeq(target, 2, Len(target) - 1)

validate_target(target) ==
    \/ target = Slashed(<<Empty>>)
    \/ /\ Len(target) <= MaxTargetLen
       /\ Len(target) >= 3 /\ target[1] = Empty /\ target[Len(target)] = Empty
       /\ article_directory(Inner(target))

\* ArticlePath: the key is the source without ".md", and carries no other dot.
article_parse(source) ==
    LET last == source[Len(source)]
        key  == [source EXCEPT ![Len(source)] = Dir(last.name)]
    IN  IF /\ validate_relative(source)
           /\ \A i \in DOMAIN source : validate_article_source_segment(source[i])
           /\ last.ext = "md"
           /\ \A i \in DOMAIN key : validate_article_segment(key[i])
        THEN Ok([source |-> source, key |-> key, route |-> Slashed(key),
                 directory |-> IF Len(key) = 1 THEN <<Empty>>
                               ELSE SubSeq(key, 1, Len(key) - 1)])
        ELSE Err

\* Mutant: the statistics of every directory are written to /proc/stat.
from_directory_relFlat(directory) ==
    LET target == Slashed(directory)
    IN  IF /\ \/ directory = <<Empty>>
              \/ article_directory(directory)
           /\ validate_target(target)
        THEN Ok([directory |-> directory, target |-> target,
                 comment |-> Below(directory, Dir("comment")),
                 proc |-> <<Dir("proc")>>, stat |-> <<Dir("proc"), Dir("stat")>>])
        ELSE Err

\* CommentAttachment and ContentScope of a configured directory; "" is HOME itself.
from_directory_rel(directory) ==
    LET target == Slashed(directory)
        proc   == IF directory = <<Empty>> THEN <<Dir("proc")>>
                  ELSE <<Dir("proc")>> \o directory
    IN  IF /\ \/ directory = <<Empty>>
              \/ article_directory(directory)
           /\ validate_target(target)
        THEN Ok([directory |-> directory, target |-> target,
                 comment |-> Below(directory, Dir("comment")),
                 proc |-> proc, stat |-> Append(proc, Dir("stat"))])
        ELSE Err

from_target(target) ==
    IF ~validate_target(target) THEN Err
    ELSE from_directory_rel(IF target = Slashed(<<Empty>>) THEN <<Empty>> ELSE Inner(target))

contains_article(scope, article) == article.directory = scope.directory

\* The manifest .comment-targets.tsv: each line is the sequence of its fields.
parse_scope_manifest(lines) ==
    LET Scope(i) == from_target(lines[i][2])
    IN  IF /\ \A i \in DOMAIN lines :
                 /\ Len(lines[i]) = 2
                 /\ Scope(i).ok
                 /\ Scope(i).val.comment = lines[i][1]
           /\ \A i, j \in DOMAIN lines :
                 i # j => lines[i][1] # lines[j][1] /\ lines[i][2] # lines[j][2]
        THEN Ok({Scope(i).val : i \in DOMAIN lines})
        ELSE Err

\* ArticleIndex::validate of .rendered/.index.json.
index_validate(index) ==
    LET entry(i) == index.articles[i]
    IN  /\ index.version = 1
        /\ \A i \in DOMAIN index.articles :
              LET path == article_parse(entry(i).source)
              IN  /\ path.ok
                  /\ path.val.key = entry(i).key /\ path.val.route = entry(i).route
                  /\ entry(i).dated /\ entry(i).printable
        /\ \A i, j \in DOMAIN index.articles :
              i # j => /\ entry(i).source # entry(j).source
                       /\ entry(i).key # entry(j).key
                       /\ entry(i).route # entry(j).route

=============================================================================
