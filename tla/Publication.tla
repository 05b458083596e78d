---------------------------- MODULE Publication -----------------------------
(* content-build (crates/tools/content-build): the compiler that turns the   *)
(* content tree into a web tree (frontend/dist), the terminal projection     *)
(* (.rendered, .rendered-assets) and two manifests.                          *)
(*                                                                           *)
(* One build checks everything against the tree and against what is on disk, *)
(* writes the new artifacts into a staging directory, and then commits them  *)
(* file by file and rename by rename.  The process may die, or a system call *)
(* fail, between any two steps of the commit.  Between builds the author     *)
(* edits the content and Vite empties and refills frontend/dist.             *)
(*                                                                           *)
(* Abstractions: the bytes of an artifact are the name of the content tree   *)
(* it was made from; the directories of dist are those its files imply; the  *)
(* files of a commit are removed and renamed in any order (the code walks    *)
(* them by name, which nothing relies on).                                   *)
EXTENDS ContentModel, SequencesExt

CONSTANTS
    None,
    Trees,            \* what the content directory may hold: a function from names to trees
    Vites,            \* the sets of files a run of Vite may write
    Images,           \* image files: [bytes, out, decodes], out being the size once processed
    KeyRank,          \* the position of an article key in the order of strings
    SiteUrl,          \* is web.site_url configured?
    MaxBitmapBytes, MaxGifBytes, MaxArticleBytes,
    Pids,             \* process ids; the names of temporary files carry one
    MaxBuilds         \* bound: builds that reach the commit

ASSUME BudgetAssumption ==
    MaxBitmapBytes \in Nat /\ MaxGifBytes \in Nat /\ MaxArticleBytes \in Nat
ASSUME SiteUrlAssumption == SiteUrl \in BOOLEAN

ASSUME ImagesAssumption == \A p \in DOMAIN Images : Images[p].bytes \in Nat /\ Images[p].out \in Nat

\* A file is named by the segments of its path.
Segments == [name : STRING, ext : STRING]
Paths == Seq(Segments)
Urls == [foreign : BOOLEAN, path : Paths]

ASSUME PathsAssumption ==
    /\ \A v \in Vites : \A p \in v : p \in Paths
    /\ \A n \in DOMAIN Trees : \A p \in Trees[n].files : p \in Paths /\ p # <<>>

\* The configured lists hold paths, and what is above a directory is a directory.
ASSUME TablesAssumption ==
    \A n \in DOMAIN Trees :
        /\ Trees[n].tables.scopes \in Seq(Seq(Paths \ {<<>>}))
        /\ Trees[n].tables.comments \in Seq(Seq(Paths \ {<<>>}))
        /\ \A d \in Trees[n].dirs : \A k \in 1..Len(d) : SubSeq(d, 1, k) \in Trees[n].dirs

-----------------------------------------------------------------------------
(* Reading the tree.  A tree is                                              *)
(*   links, dirs, files: the paths of its symlinks, directories and files;   *)
(*   refs:    the image URLs of each article, in the order of the document;  *)
(*   tables:  the directory lists of [scopes] and [comments], each a         *)
(*            sequence of such lists with at most one member;                *)
(*   misplaced:   control paths that are not of the type they should be;     *)
(*   unprintable: articles with a control character in the title.            *)

ImageExts == {"png", "jpg", "jpeg", "webp", "gif"}

Name(path) == path[Len(path)]

\* scan_content does not descend into a hidden directory.
Scanned(path) == ~has_hidden_component(Front(path))

\* A symlink is refused even where its own name is hidden.
scan_errors(t) ==
    {p \in t.links : Scanned(p)} \cup
    {p \in t.files : /\ ~has_hidden_component(p)
                     /\ \/ Name(p).ext = "md" /\ ~article_parse(p).ok
                        \/ Name(p).ext \in ImageExts /\ ~validate_resource_rel(p)}

article_paths(t) ==
    {article_parse(p).val : p \in {q \in t.files : /\ ~has_hidden_component(q)
                                                   /\ Name(q).ext = "md"
                                                   /\ article_parse(q).ok}}

\* Files are finitely many, keys have different positions, and every article is a sequence.
ASSUME ContentAssumption ==
    \A n \in DOMAIN Trees :
        /\ IsFiniteSet(Trees[n].files)
        /\ \A art \in article_paths(Trees[n]) :
              /\ KeyRank[art.key] \in Nat
              /\ Trees[n].refs[art.source] \in Seq(Urls)
        /\ \A art, other \in article_paths(Trees[n]) :
              KeyRank[art.key] = KeyRank[other.key] => art.key = other.key

\* The articles in the order of their keys.
InOrder(arts) ==
    LET place(art) == Cardinality({b \in arts : KeyRank[b.key] <= KeyRank[art.key]})
    IN  [k \in 1..Cardinality(arts) |-> CHOOSE art \in arts : place(art) = k]

ByKey(t) == InOrder(article_paths(t))

\* load_scopes: the configured directories, which must be real and must leave the
\* name "comment" free.
load_scopes(t) ==
    LET dirs  == IF Len(t.tables.scopes) = 1 THEN t.tables.scopes[1]
                 ELSE IF Len(t.tables.comments) = 1 THEN t.tables.comments[1] ELSE <<>>
        scope(i) == from_directory_rel(dirs[i])
    IN  IF /\ ~(Len(t.tables.scopes) = 1 /\ Len(t.tables.comments) = 1)
           /\ \A i, j \in DOMAIN dirs : i # j => dirs[i] # dirs[j]
           /\ \A i \in DOMAIN dirs :
                 /\ scope(i).ok
                 /\ dirs[i] = <<Empty>> \/ dirs[i] \in t.dirs
                 /\ scope(i).val.comment \notin t.links \cup t.dirs \cup t.files
        THEN Ok({scope(i).val : i \in DOMAIN dirs})
        ELSE Err

-----------------------------------------------------------------------------
(* Images.  The URL of an image is [foreign, path]: foreign when it has a    *)
(* scheme or starts with '/'.                                                *)

\* Normalisation against the directory of the article; ".." must not leave the root.
normalize_local_path(source, dest) ==
    LET segs == Front(source) \o dest.path
        stack[i \in 0..Len(segs)] ==
            IF i = 0 THEN Ok(<<>>)
            ELSE IF ~stack[i - 1].ok \/ segs[i] \in {Empty, Dir(".")} THEN stack[i - 1]
            ELSE IF segs[i] # Dir("..") THEN Ok(Append(stack[i - 1].val, segs[i]))
            ELSE IF stack[i - 1].val = <<>> THEN Err ELSE Ok(Front(stack[i - 1].val))
        last == stack[Len(segs)]
    IN  IF \/ \E i \in DOMAIN dest.path : dest.path[i].name = "%"
           \/ ~last.ok \/ (last.ok /\ last.val = <<>>)
        THEN Err ELSE last

with_png_ext(path) == [path EXCEPT ![Len(path)] = File(@.name, "png")]

Inline(bytes, asset) == [kind |-> "inline", bytes |-> bytes, asset |-> asset]
LinkOnly(path) == [kind |-> "link", bytes |-> 0, asset |-> path]

\* process_image: within its budget an image is decoded and, unless it is a gif,
\* may change its size; webp becomes png.  What is not an image does not decode.
process_image(path) ==
    LET img    == Images[path]
        budget == IF Name(path).ext = "gif" THEN MaxGifBytes ELSE MaxBitmapBytes
    IN  IF path \notin DOMAIN Images \/ ~img.decodes THEN Err
        ELSE IF img.bytes > budget THEN Ok(LinkOnly(path))
        ELSE IF Name(path).ext = "gif" THEN Ok(Inline(img.bytes, path))
        ELSE IF img.out > MaxBitmapBytes THEN Ok(LinkOnly(path))
        ELSE Ok(Inline(img.out, IF Name(path).ext = "webp" THEN with_png_ext(path) ELSE path))

\* What the build gathers, acc, is errors; owners: output -> source; web: output -> which
\* bytes; terminal: outputs; meta: <<article, url>> -> presentation; and bytes, those
\* inlined in this article so far.
Faulty(acc) == [acc EXCEPT !.errors = @ + 1]

\* f with the value v for x.
Put(f, x, v) == [y \in DOMAIN f \cup {x} |-> IF y = x THEN v ELSE f[y]]

\* Mutant: every image is published as processed.
FormProcessed(out) == "processed"

\* An image that is shown inline is published as processed, one that is linked to as it is.
Form(out) == IF out.kind = "inline" THEN "processed" ELSE "original"

\* One output belongs to one source.  Each time it is published replaces the time before.
PublishAs(acc, ref, path, out) ==
    IF out.asset \in DOMAIN acc.owners /\ acc.owners[out.asset] # path THEN Faulty(acc)
    ELSE [acc EXCEPT
            !.owners   = Put(@, out.asset, path),
            !.web      = Put(@, out.asset, Form(out)),
            !.terminal = IF out.kind = "inline" THEN @ \cup {out.asset} ELSE @,
            !.meta     = Put(@, ref, out),
            !.bytes    = @ + out.bytes]

\* Mutant: the budget of the article is not looked at.
BudgetedNever(used, path, out) == out

\* An image that exceeds what is left of the article's budget is only linked to.
Budgeted(used, path, out) ==
    IF used + out.bytes > MaxArticleBytes THEN LinkOnly(path) ELSE out

PublishProcessed(acc, ref, path, made) ==
    IF made.ok THEN PublishAs(acc, ref, path, Budgeted(acc.bytes, path, made.val)) ELSE Faulty(acc)

PublishFile(files, acc, ref, path) ==
    IF path.ok /\ path.val \in files
    THEN PublishProcessed(acc, ref, path.val, process_image(path.val))
    ELSE Faulty(acc)

\* One image of one article.
PublishImage(t, source, acc, dest) ==
    IF dest.foreign THEN acc
    ELSE PublishFile(t.files, acc, <<source, dest>>, normalize_local_path(source, dest))

\* The images of all articles, in the order of the keys and of the documents.
UrlsOf(arts, refs) ==
    FlattenSeq([k \in DOMAIN arts |->
        LET source == arts[k].source
        IN  [i \in DOMAIN refs[source] |->
                [source |-> source, dest |-> refs[source][i], first |-> i = 1]]])

image_urls(t) == UrlsOf(ByKey(t), t.refs)

NoImages == [errors |-> 0, owners |-> <<>>, web |-> <<>>, terminal |-> {}, meta |-> <<>>,
             bytes |-> 0]

\* The count of bytes starts again with each article.
Counted(acc, url) == [acc EXCEPT !.bytes = IF url.first THEN 0 ELSE @]

PublishImages(t, urls) ==
    LET acc[k \in 0..Len(urls)] ==
            IF k = 0 THEN NoImages
            ELSE PublishImage(t, urls[k].source, Counted(acc[k - 1], urls[k]), urls[k].dest)
    IN  acc[Len(urls)]

gather_images(t) == PublishImages(t, image_urls(t))

-----------------------------------------------------------------------------
(* Claims: who may write which file of dist.                                 *)

GlobalListOutput == <<Dir("blog"), File("index", "html")>>
Page(art) == Append(art.key, File("index", "html"))
Robots == <<File("robots", "txt")>>
Feeds == IF SiteUrl THEN {<<File("sitemap", "xml")>>, <<File("atom", "xml")>>} ELSE {}

Claim(path, owner) == [path |-> path, owner |-> owner]

desired_claims(t) ==
    {Claim(p, <<"system">>) : p \in {GlobalListOutput, Robots} \cup Feeds}
    \cup {Claim(Page(art), <<"article", art.source>>) : art \in article_paths(t)}
    \cup LET owners == gather_images(t).owners
         IN  {Claim(p, <<"image", owners[p]>>) : p \in DOMAIN owners}

reserved_route_owner(key) ==
    \/ key \in {<<Dir("blog")>>, <<Dir("ws")>>}
    \/ key[1] \in {Dir("api"), Dir("assets"), Dir("fonts")}

\* Two files that are one, or one of which would have to be a directory.
Overlap(p, q) == IsPrefix(p, q) \/ IsPrefix(q, p)

InLegacy(p) == p[1] = Dir("blog") /\ Len(p) > 1

\* Files of dist that nobody but Vite can have written, as far as the manifest tells.
\* Before the first manifest all of blog/ counts as left by an older builder.
foreign_files(files, old, has_manifest) ==
    {p \in files : p \notin old /\ ~(~has_manifest /\ InLegacy(p))}

\* A directory is claimed with a '/' at its end: only a file in its place disagrees.
\* The directories of files that are not foreign are claimed as well.
foreign_dirs(files, has_manifest) ==
    LET dirs == UNION {{SubSeq(p, 1, n) : n \in 1..(Len(p) - 1)} : p \in files}
    IN  {d \in dirs : ~(~has_manifest /\ d[1] = Dir("blog"))}

\* The claims of the build itself.
own_claims_agree(t) ==
    /\ \A d, e \in desired_claims(t) : d # e => ~Overlap(d.path, e.path)
    /\ \A art \in article_paths(t) : ~reserved_route_owner(art.key)
    /\ \A p \in DOMAIN gather_images(t).owners :
          p[1] \notin {Dir("assets"), Dir("fonts"), Dir("api")}

\* Mutant: the files of Vite are not looked at.
claims_agreeAmongOwn(desired, files, temp, old, has_manifest) == TRUE

\* The claims of the build against what is in dist.  temp: files whose temporary copy was
\* left there.  Its name starts with a dot, so that only the directories it is in can be
\* in the way.
claims_agree(desired, files, temp, old, has_manifest) ==
    \A d \in desired :
        /\ \A p \in foreign_files(files, old, has_manifest) : ~Overlap(d, p)
        /\ \A p \in foreign_dirs(files \cup temp, has_manifest) : ~IsPrefix(d, p)

\* The entry points the pages refer to, by their hashed names: exactly one of each.
OneEntry(files, names, ext) ==
    Cardinality({p \in files : /\ Len(p) = 2 /\ p[1] = Dir("assets")
                               /\ p[2].name \in names /\ p[2].ext = ext}) = 1
IndexNames == {"index-1", "index-2"}
CommentsNames == {"comments-1", "comments-2"}

entries_found(t, files) ==
    /\ article_paths(t) # {} => /\ OneEntry(files, IndexNames, "js")
                                /\ OneEntry(files, IndexNames, "css")
    /\ OneEntry(files, CommentsNames, "js")

\* .rendered/.index.json.
build_machine_index(t) ==
    [version |-> 1,
     articles |-> [i \in DOMAIN ByKey(t) |->
         [source |-> ByKey(t)[i].source, key |-> ByKey(t)[i].key, route |-> ByKey(t)[i].route,
          dated |-> TRUE, printable |-> ByKey(t)[i].source \notin t.unprintable]]]

\* .comment-targets.tsv: one line for each scope.
target_rows(t) ==
    LET scopes == SetToSeq(load_scopes(t).val)
    IN  [i \in DOMAIN scopes |-> <<scopes[i].comment, scopes[i].target>>]

-----------------------------------------------------------------------------
(* What a build of each tree writes, computed once.                          *)

Gathered == [n \in DOMAIN Trees |-> gather_images(Trees[n])]
Desired == [n \in DOMAIN Trees |-> {d.path : d \in desired_claims(Trees[n])}]

\* None is neither a tree nor the paths of one.
ASSUME NoneAssumption == None \notin DOMAIN Trees /\ \A n \in DOMAIN Trees : Desired[n] # None

\* The files of the staging directory, in the order main writes them.
Staged(n) ==
    DOMAIN Gathered[n].web
    \cup {Page(art) : art \in article_paths(Trees[n])}
    \cup {GlobalListOutput} \cup Feeds \cup {Robots}

\* What main checks of the tree alone, before and while it stages.
TreeAccepted ==
    [n \in DOMAIN Trees |->
        /\ Trees[n].misplaced = {}
        /\ scan_errors(Trees[n]) = {}
        /\ load_scopes(Trees[n]).ok
        /\ own_claims_agree(Trees[n])
        /\ Gathered[n].errors = 0
        /\ index_validate(build_machine_index(Trees[n]))
        /\ Staged(n) = Desired[n]]

\* All the checks of a build; nothing outside the staging directory has been touched.
Accepted(n, files, temp, old, has_manifest) ==
    /\ TreeAccepted[n]
    /\ entries_found(Trees[n], files)
    /\ claims_agree(Desired[n], files, temp, old, has_manifest)

-----------------------------------------------------------------------------
VARIABLES
    tree,       \* the content tree the author has
    vite,       \* the files the last run of Vite wrote
    dist,       \* frontend/dist: path -> "static" or the tree it was built from
    temps,      \* files whose temporary copy lies in dist
    manifest,   \* .web-outputs.tsv: None or the paths it lists
    targets,    \* .comment-targets.tsv: None or the tree it was written for
    trees,      \* .rendered and .rendered-assets: None or the tree they were built from
    backups,    \* old trees set aside: [of, pid, val]
    build,      \* the running build
    builds,     \* builds that reached the commit
    result,     \* how the last build ended, if content and dist are as it saw them
    clean,      \* history: no commit was cut short since Vite refilled dist
    contested   \* history: files of Vite at paths that the manifest says are the builder's

disk == <<dist, temps, manifest, targets, trees, backups>>
vars == <<tree, vite, disk, build, builds, result, clean, contested>>

Projections == {"rendered", "rendered-assets"}
Idle == [pc |-> "idle", pid |-> None, tree |-> None, todo |-> {}, of |-> None]

StaticDist(v) == [p \in v |-> "static"]

\* Vite has run; content-build never has.
Init ==
    /\ tree \in DOMAIN Trees /\ vite \in Vites
    /\ dist = StaticDist(vite) /\ temps = {}
    /\ manifest = None /\ targets = None
    /\ trees = [w \in Projections |-> None] /\ backups = {}
    /\ build = Idle /\ builds = 0 /\ result = "none" /\ clean = TRUE
    /\ contested = vite \ foreign_files(vite, {}, FALSE)

OldOutputs == IF manifest = None THEN {} ELSE manifest

-----------------------------------------------------------------------------
(* Outside the build.                                                        *)

\* The author changes the content.
Edit(n) ==
    /\ build.pc = "idle" /\ n # tree
    /\ tree' = n /\ result' = "none"
    /\ UNCHANGED <<vite, disk, build, builds, clean, contested>>

\* vite build empties frontend/dist and writes the front end.
ViteBuild(v) ==
    /\ build.pc = "idle"
    /\ vite' = v /\ dist' = StaticDist(v) /\ temps' = {}
    /\ clean' = TRUE /\ result' = "none"
    /\ contested' = v \ foreign_files(v, OldOutputs, manifest # None)
    /\ UNCHANGED <<tree, manifest, targets, trees, backups, build, builds>>

-----------------------------------------------------------------------------
(* main: the checks, then the commit.                                        *)

Admitted == Accepted(tree, DOMAIN dist, temps, OldOutputs, manifest # None)

Refuse ==
    /\ build.pc = "idle" /\ builds < MaxBuilds /\ result # "refused"
    /\ ~Admitted
    /\ result' = "refused"
    /\ UNCHANGED <<tree, vite, disk, build, builds, clean, contested>>

\* Mutant: the outputs of the last build stay.
StartKeepsOld(pid) ==
    /\ build.pc = "idle" /\ builds < MaxBuilds /\ Admitted
    /\ build' = [Idle EXCEPT !.pc = "remove", !.pid = pid, !.tree = tree]
    /\ builds' = builds + 1 /\ result' = "none"
    /\ UNCHANGED <<tree, vite, disk, clean, contested>>

\* commit_web_outputs first removes the files of the last manifest or, without one, blog/.
Start(pid) ==
    /\ build.pc = "idle" /\ builds < MaxBuilds
    /\ Admitted
    /\ build' = [Idle EXCEPT !.pc = "remove", !.pid = pid, !.tree = tree,
                             !.todo = IF manifest = None
                                      THEN {p \in DOMAIN dist : InLegacy(p)}
                                      ELSE manifest \cap DOMAIN dist]
    /\ builds' = builds + 1 /\ result' = "none"
    /\ UNCHANGED <<tree, vite, disk, clean, contested>>

RemoveOld(p) ==
    /\ build.pc = "remove" /\ p \in build.todo
    /\ dist' = [q \in DOMAIN dist \ {p} |-> dist[q]]
    /\ build' = [build EXCEPT !.todo = @ \ {p}]
    /\ UNCHANGED <<tree, vite, temps, manifest, targets, trees, backups, builds, result,
                   clean, contested>>

RemoveDone ==
    /\ build.pc = "remove" /\ build.todo = {}
    /\ temps' = IF manifest = None THEN {p \in temps : ~InLegacy(p)} ELSE temps
    /\ build' = [build EXCEPT !.pc = "copy", !.todo = Desired[build.tree]]
    /\ UNCHANGED <<tree, vite, dist, manifest, targets, trees, backups, builds, result,
                   clean, contested>>

\* Each staged file is copied beside its place and renamed into it.
CopyTemp(p) ==
    /\ build.pc = "copy" /\ p \in build.todo
    /\ temps' = temps \cup {p}
    /\ build' = [build EXCEPT !.pc = "rename", !.of = p]
    /\ UNCHANGED <<tree, vite, dist, manifest, targets, trees, backups, builds, result,
                   clean, contested>>

RenameTemp ==
    /\ build.pc = "rename"
    /\ dist' = [p \in DOMAIN dist \cup {build.of} |->
                   IF p = build.of THEN build.tree ELSE dist[p]]
    /\ temps' = temps \ {build.of}
    /\ build' = [build EXCEPT !.pc = "copy", !.todo = @ \ {build.of}, !.of = None]
    /\ UNCHANGED <<tree, vite, manifest, targets, trees, backups, builds, result,
                   clean, contested>>

CopyDone ==
    /\ build.pc = "copy" /\ build.todo = {}
    /\ build' = [build EXCEPT !.pc = "backup", !.of = "rendered"]
    /\ UNCHANGED <<tree, vite, disk, builds, result, clean, contested>>

\* replace_tree: the old tree steps aside, the new one takes its name, the old one goes.
\* A tree set aside by a process of the same id that died is in the way: the build ends.
BackupOf(w) == {b \in backups : b.of = w /\ b.pid = build.pid}

\* Mutant: the old tree is removed before the new one is in its place.
BackupTreeRemoves ==
    /\ build.pc = "backup"
    /\ trees' = [trees EXCEPT ![build.of] = None]
    /\ build' = [build EXCEPT !.pc = "swap"]
    /\ UNCHANGED <<tree, vite, dist, temps, manifest, targets, backups, builds, result, clean,
                   contested>>

BackupTree ==
    /\ build.pc = "backup" /\ BackupOf(build.of) = {}
    /\ backups' = IF trees[build.of] = None THEN backups
                  ELSE backups \cup {[of |-> build.of, pid |-> build.pid,
                                      val |-> trees[build.of]]}
    /\ trees' = [trees EXCEPT ![build.of] = None]
    /\ build' = [build EXCEPT !.pc = "swap"]
    /\ UNCHANGED <<tree, vite, dist, temps, manifest, targets, builds, result, clean, contested>>

SwapTree ==
    /\ build.pc = "swap"
    /\ trees' = [trees EXCEPT ![build.of] = build.tree]
    /\ build' = [build EXCEPT !.pc = "drop"]
    /\ UNCHANGED <<tree, vite, dist, temps, manifest, targets, backups, builds, result,
                   clean, contested>>

DropBackup ==
    /\ build.pc = "drop"
    /\ backups' = backups \ BackupOf(build.of)
    /\ build' = IF build.of = "rendered"
                THEN [build EXCEPT !.pc = "backup", !.of = "rendered-assets"]
                ELSE [build EXCEPT !.pc = "targets", !.of = None]
    /\ UNCHANGED <<tree, vite, dist, temps, manifest, targets, trees, builds, result,
                   clean, contested>>

\* atomic_write of the two manifests; the second one ends the build.
WriteTargets ==
    /\ build.pc = "targets"
    /\ targets' = build.tree
    /\ build' = [build EXCEPT !.pc = "manifest"]
    /\ UNCHANGED <<tree, vite, dist, temps, manifest, trees, backups, builds, result,
                   clean, contested>>

\* Mutant: only the pages of articles are listed.
WriteManifestPages ==
    /\ build.pc = "manifest"
    /\ manifest' = {Page(art) : art \in article_paths(Trees[build.tree])}
    /\ build' = Idle /\ result' = "ok"
    /\ UNCHANGED <<tree, vite, dist, temps, targets, trees, backups, builds, clean, contested>>

WriteManifest ==
    /\ build.pc = "manifest"
    /\ manifest' = Desired[build.tree]
    /\ build' = Idle /\ result' = "ok"
    /\ UNCHANGED <<tree, vite, dist, temps, targets, trees, backups, builds, clean, contested>>

\* The process dies, or a system call fails and main returns the error.
CutShort ==
    /\ build.pc # "idle"
    /\ build' = Idle /\ result' = "failed" /\ clean' = FALSE
    /\ UNCHANGED <<tree, vite, disk, builds, contested>>

\* The rename of the new tree fails and the old one is renamed back.
SwapFails ==
    /\ build.pc = "swap"
    /\ \E b \in BackupOf(build.of) :
          /\ trees' = [trees EXCEPT ![build.of] = b.val]
          /\ backups' = backups \ {b}
    /\ build' = Idle /\ result' = "failed" /\ clean' = FALSE
    /\ UNCHANGED <<tree, vite, dist, temps, manifest, targets, builds, contested>>

Next ==
    \/ \E n \in DOMAIN Trees : Edit(n)
    \/ \E v \in Vites : ViteBuild(v)
    \/ Refuse
    \/ \E pid \in Pids : Start(pid)
    \/ \E p \in build.todo : RemoveOld(p) \/ CopyTemp(p)
    \/ RemoveDone \/ RenameTemp \/ CopyDone
    \/ BackupTree \/ SwapTree \/ DropBackup
    \/ WriteTargets \/ WriteManifest
    \/ CutShort \/ SwapFails

Spec == Init /\ [][Next]_vars

-----------------------------------------------------------------------------
(* Properties.                                                               *)

\* While content-build works, and whatever becomes of it, a file that Vite wrote stays what
\* Vite wrote, unless the manifest on disk called its path the builder's own when Vite wrote
\* it: the claims are checked before the first file is touched, and what the manifest does
\* not name is neither removed nor replaced.
StaticSafe == \A p \in vite \ contested : p \in DOMAIN dist /\ dist[p] = "static"

\* A build that returns Ok after any history of failed and killed builds, on a dist that Vite
\* has refilled since, leaves exactly the front end and the pages of the content as it is:
\* no page of a deleted or moved article, no mixture of two builds between the web tree, the
\* terminal projection and the manifests.
PublishedIsCurrent ==
    result = "ok" /\ clean =>
        /\ DOMAIN dist = (vite \ contested) \cup Desired[tree]
        /\ \A p \in Desired[tree] : dist[p] = tree
        /\ temps = {} /\ manifest = Desired[tree]
        /\ targets = tree /\ \A w \in Projections : trees[w] = tree

\* An image where earlier builds made a directory, say pix.gif after pix.gif/a.png: the
\* directory is claimed although every file in it is the builder's own.
FileForDirectory ==
    \E d \in Desired[tree], e \in foreign_dirs(OldOutputs \cap DOMAIN dist, TRUE) : IsPrefix(d, e)

\* A build is refused because of what earlier builds wrote in that one case only: content
\* that Vite's files alone admit is otherwise admitted beside the outputs of any other.
Rebuildable ==
    build.pc = "idle" /\ clean /\ Accepted(tree, vite, {}, {}, TRUE) =>
        Admitted \/ FileForDirectory

\* Once .rendered and .rendered-assets have been built, there is always a whole tree of
\* each: in its place or, in the middle of replace_tree and after a death there, beside it.
NoTreeLost ==
    targets # None => \A w \in Projections : trees[w] # None \/ \E b \in backups : b.of = w

\* The bytes of those images at refs that are shown inline.
InlineBytes(meta, source, refs) ==
    LET sum[i \in 0..Len(refs)] ==
            IF i = 0 THEN 0
            ELSE sum[i - 1] + IF refs[i].foreign THEN 0 ELSE meta[<<source, refs[i]>>].bytes
    IN  sum[Len(refs)]

\* Every image an article shows or links to is published with it, processed or as it is, as
\* some reference to that file asks for: the last one that was gathered, of this or of
\* another article.  The ones it shows inline are there for the terminal as well and stay
\* within the budget of an article.
ImagesServed ==
    result = "ok" /\ clean =>
        \A art \in article_paths(Trees[tree]) :
            LET refs == Trees[tree].refs[art.source]
                meta == Gathered[tree].meta
                shown(i) == meta[<<art.source, refs[i]>>]
            IN  /\ \A i \in DOMAIN refs : ~refs[i].foreign =>
                       /\ shown(i).asset \in DOMAIN dist
                       /\ dist[shown(i).asset] = trees["rendered"]
                       /\ \E ref \in DOMAIN meta :
                              /\ meta[ref].asset = shown(i).asset
                              /\ Gathered[dist[shown(i).asset]].web[shown(i).asset]
                                    = IF meta[ref].kind = "inline" THEN "processed" ELSE "original"
                       /\ shown(i).kind = "inline" =>
                              shown(i).asset \in Gathered[trees["rendered-assets"]].terminal
                /\ InlineBytes(meta, art.source, refs) <= MaxArticleBytes

ReadsBack ==
    [n \in {m \in DOMAIN Trees : TreeAccepted[m]} |->
        LET scopes == parse_scope_manifest(target_rows(Trees[n]))
        IN  /\ scopes = load_scopes(Trees[n])
            /\ \A s \in scopes.val, r \in scopes.val :
                  s # r => ~Overlap(s.comment, r.comment) /\ s.stat # r.stat
            /\ \A art \in article_paths(Trees[n]) :
                  /\ SubSeq(art.route, 2, Len(art.route) - 1) = Front(Page(art))
                  /\ \A s \in scopes.val : contains_article(s, art) =>
                        from_target(s.target).val.directory = art.directory]

\* What jaild, the template builder and the reader read back from the manifests is what the
\* configuration and the content said: each scope with its own comment path, which is not
\* inside another's, and its own snapshot, every article under the route its page has.
ManifestsReadBack == targets # None => ReadsBack[targets]
=============================================================================
