------------------------- MODULE PublicationProofs --------------------------
(* Proofs about content-build: for any contents, front ends and histories of *)
(* builds that end, fail or are killed.  IInv is the invariant of the commit *)
(* steps; ManifestsReadBack rests on what the conversions of ContentModel    *)
(* make of any path; ImagesServed on what gather_images has after any number *)
(* of images.                                                                *)
EXTENDS Publication, FiniteSetTheorems, SequenceTheorems, WellFoundedInduction, TLAPS

\* The files of Vite that are safe from the builder.
Safe == vite \ contested

PCs == {"idle", "remove", "copy", "rename", "backup", "swap", "drop", "targets", "manifest"}

Building == build.pc # "idle"
Copying == build.pc \in {"copy", "rename"}
Replacing == build.pc \in {"backup", "swap", "drop"}
Written == Replacing \/ build.pc \in {"targets", "manifest"}

\* The shapes of the variables that are changed in part.
ShapeOK ==
    /\ build = [pc |-> build.pc, pid |-> build.pid, tree |-> build.tree,
                todo |-> build.todo, of |-> build.of]
    /\ build.pc \in PCs
    /\ tree \in DOMAIN Trees /\ vite \in Vites
    /\ trees = [w \in Projections |-> trees[w]]
    /\ dist = [p \in DOMAIN dist |-> dist[p]]

\* A build works on the tree the author has, which it has accepted.
BuildOK ==
    /\ build.pc = "idle" => build = Idle
    /\ Building => build.tree = tree /\ TreeAccepted[tree] /\ result # "ok"
    /\ build.pc = "copy" => build.todo \subseteq Desired[tree]
    /\ build.pc = "rename" => build.todo \subseteq Desired[tree] /\ build.of \in build.todo
    /\ Replacing => build.of \in Projections

\* The manifest lists what some accepted tree was built into.
ManifestOK ==
    manifest # None => \E n \in DOMAIN Trees : TreeAccepted[n] /\ manifest = Desired[n]

\* No file the builder removes or writes is a safe file of Vite.
ApartOK ==
    /\ \A p \in Safe : p \notin OldOutputs
    /\ manifest = None => \A p \in Safe : ~InLegacy(p)
    /\ Building => \A p \in Safe : p \notin Desired[tree]
    /\ build.pc = "remove" => \A p \in Safe : p \notin build.todo

\* What of the terminal projection is in its place, and that backups hold something.
ProjectionsOK ==
    /\ \A b \in backups : b.val # None
    /\ build.pc = "drop" => trees[build.of] = tree
    /\ Replacing /\ build.of = "rendered-assets" => trees["rendered"] = tree
    /\ build.pc \in {"targets", "manifest"} => \A w \in Projections : trees[w] = tree

\* What dist holds while no commit has been cut short.
CleanOK ==
    /\ clean /\ build.pc # "rename" => temps = {}
    /\ clean /\ build.pc = "rename" => temps = {build.of}
    /\ clean /\ build.pc = "idle" =>
          \A p \in DOMAIN dist : p \in Safe \cup OldOutputs \/ (manifest = None /\ InLegacy(p))
    /\ clean /\ build.pc = "idle" => DOMAIN dist \subseteq vite \cup OldOutputs
    /\ clean /\ build.pc = "remove" => DOMAIN dist \subseteq Safe \cup build.todo
    /\ clean /\ Copying => /\ DOMAIN dist = Safe \cup (Desired[tree] \ build.todo)
                           /\ \A p \in Desired[tree] \ build.todo : dist[p] = tree
    /\ clean /\ Written => /\ DOMAIN dist = Safe \cup Desired[tree]
                           /\ \A p \in Desired[tree] : dist[p] = tree
    /\ build.pc = "manifest" => targets = tree

\* The builder owns nothing below assets/, so a file there is never contested.
ContestedOK == \A p \in contested : p[1] # Dir("assets")

IInv == /\ ShapeOK /\ BuildOK /\ ManifestOK /\ ApartOK /\ ProjectionsOK /\ CleanOK
        /\ ContestedOK /\ StaticSafe /\ NoTreeLost /\ PublishedIsCurrent

-----------------------------------------------------------------------------
\* A path overlaps itself.
LEMMA OverlapsItself ==
    ASSUME NEW p \in Paths
    PROVE  Overlap(p, p)
<1>1. Len(p) \in Nat
  BY DEF Paths
<1>2. QED
  BY <1>1 DEF Overlap, IsPrefix

\* The first segment of a page's path is that of the article's key.
LEMMA PageFirst ==
    ASSUME NEW n \in DOMAIN Trees, NEW art \in article_paths(Trees[n])
    PROVE  Page(art)[1] = art.key[1]
<1>1. PICK q \in Trees[n].files : article_parse(q).ok /\ art = article_parse(q).val
  BY DEF article_paths
<1>2. q \in Paths /\ q # <<>>
  BY PathsAssumption
<1> DEFINE stem == Dir(q[Len(q)].name)
           key  == [q EXCEPT ![Len(q)] = stem]
<1>3. art.key = key
  BY <1>1 DEF article_parse, Ok, Err
<1> HIDE DEF stem
<1>4. Len(q) \in Nat /\ Len(q) # 0
  BY <1>2 DEF Paths
<1>5. q \in Seq(Segments \cup {stem})
  BY <1>2 DEF Paths
<1>6. key \in Seq(Segments \cup {stem}) /\ Len(key) = Len(q)
  BY <1>4, <1>5, stem \in Segments \cup {stem}, Len(q) \in 1..Len(q), ExceptSeq
<1> HIDE DEF key
<1>8. Append(key, File("index", "html"))[1] = key[1]
  BY <1>4, <1>6
<1>9. QED
  BY <1>3, <1>8 DEF Page

\* No output of an accepted tree is below assets/.
LEMMA OwnNotAssets ==
    ASSUME NEW n \in DOMAIN Trees, TreeAccepted[n], NEW p \in Desired[n]
    PROVE  p[1] # Dir("assets")
<1>1. own_claims_agree(Trees[n])
  BY DEF TreeAccepted
<1>2. PICK d \in desired_claims(Trees[n]) : p = d.path
  BY DEF Desired
<1>3. CASE d \in {Claim(q, <<"system">>) : q \in {GlobalListOutput, Robots} \cup Feeds}
  <2>1. PICK q \in {GlobalListOutput, Robots} \cup Feeds : d = Claim(q, <<"system">>)
    BY <1>3
  <2>2. p = q
    BY <1>2, <2>1 DEF Claim
  <2>3. q \in {<<Dir("blog"), File("index", "html")>>, <<File("robots", "txt")>>,
               <<File("sitemap", "xml")>>, <<File("atom", "xml")>>}
    BY <2>1 DEF GlobalListOutput, Robots, Feeds
  <2>4. /\ <<Dir("blog"), File("index", "html")>>[1].name = "blog"
        /\ <<File("robots", "txt")>>[1].name = "robots"
        /\ <<File("sitemap", "xml")>>[1].name = "sitemap"
        /\ <<File("atom", "xml")>>[1].name = "atom"
    BY DEF Dir, File
  <2>5. q[1].name \in {"blog", "robots", "sitemap", "atom"}
    BY <2>3, <2>4
  <2>6. Dir("assets").name = "assets"
    BY DEF Dir, File
  <2>7. QED
    BY <2>2, <2>5, <2>6
<1>4. CASE d \in {Claim(Page(art), <<"article", art.source>>) : art \in article_paths(Trees[n])}
  <2>1. PICK art \in article_paths(Trees[n]) : d = Claim(Page(art), <<"article", art.source>>)
    BY <1>4
  <2>2. p = Page(art)
    BY <1>2, <2>1 DEF Claim
  <2>3. art.key[1] # Dir("assets")
    BY <1>1 DEF own_claims_agree, reserved_route_owner
  <2>4. QED
    BY <2>2, <2>3, PageFirst
<1>5. CASE \E q \in DOMAIN gather_images(Trees[n]).owners :
              d = Claim(q, <<"image", gather_images(Trees[n]).owners[q]>>)
  <2>1. PICK q \in DOMAIN gather_images(Trees[n]).owners :
              d = Claim(q, <<"image", gather_images(Trees[n]).owners[q]>>)
    BY <1>5
  <2>2. p = q
    BY <1>2, <2>1 DEF Claim
  <2>3. QED
    BY <1>1, <2>2 DEF own_claims_agree
<1>6. QED
  BY <1>2, <1>3, <1>4, <1>5 DEF desired_claims

\* A build that is admitted writes none of the safe files of Vite.
LEMMA AdmittedApart ==
    ASSUME IInv, build.pc = "idle", Admitted
    PROVE  \A p \in Safe : p \notin Desired[tree]
<1>1. SUFFICES ASSUME NEW p \in Safe PROVE p \notin Desired[tree]
  OBVIOUS
<1>2. p \in foreign_files(DOMAIN dist, OldOutputs, manifest # None)
  BY DEF IInv, ApartOK, StaticSafe, Safe, foreign_files
<1>3. \A d \in Desired[tree] : ~Overlap(d, p)
  BY <1>2 DEF Admitted, Accepted, claims_agree
<1>4. Overlap(p, p)
  BY OverlapsItself, PathsAssumption DEF IInv, ShapeOK, Safe
<1>5. QED
  BY <1>3, <1>4

\* Edit: the author changes what the next build is for; dist is untouched.
LEMMA EditKeeps ==
    ASSUME IInv, NEW n \in DOMAIN Trees, Edit(n)
    PROVE  IInv'
<1>1. ShapeOK'
  BY DEF Edit, disk, IInv, ShapeOK
<1>2. BuildOK'
  BY DEF Edit, IInv, BuildOK, Building, Replacing
<1>3. ManifestOK'
  BY DEF Edit, disk, IInv, ManifestOK
<1>4. ApartOK'
  BY DEF Edit, disk, IInv, ApartOK, Safe, OldOutputs, Building
<1>5. ProjectionsOK'
  BY DEF Edit, disk, IInv, ProjectionsOK, Replacing
<1>6. CleanOK'
  BY DEF Edit, disk, IInv, CleanOK, Safe, OldOutputs, Copying, Replacing, Written
<1>7. ContestedOK'
  BY DEF Edit, IInv, ContestedOK
<1>8. StaticSafe'
  BY DEF Edit, disk, IInv, StaticSafe
<1>9. NoTreeLost'
  BY DEF Edit, disk, IInv, NoTreeLost
<1>10. PublishedIsCurrent'
  BY DEF Edit, IInv, PublishedIsCurrent
<1>11. QED
  BY <1>1, <1>2, <1>3, <1>4, <1>5, <1>6, <1>7, <1>8, <1>9, <1>10 DEF IInv

\* ViteBuild: what the manifest claims of the new front end is contested, the rest is safe.
LEMMA ViteBuildKeeps ==
    ASSUME IInv, NEW v \in Vites, ViteBuild(v)
    PROVE  IInv'
<1>1. ShapeOK'
  BY DEF ViteBuild, IInv, ShapeOK, StaticDist
<1>2. BuildOK'
  BY DEF ViteBuild, IInv, BuildOK, Building, Replacing
<1>3. ManifestOK'
  BY DEF ViteBuild, IInv, ManifestOK
<1>4. ApartOK'
  BY DEF ViteBuild, IInv, ApartOK, Safe, OldOutputs, Building, foreign_files
<1>5. ProjectionsOK'
  BY DEF ViteBuild, IInv, ProjectionsOK, Replacing
<1>6. CleanOK'
  BY DEF ViteBuild, CleanOK, Safe, OldOutputs, Copying, Replacing, Written, foreign_files,
         StaticDist
<1>7. ContestedOK'
  <2>1. ASSUME NEW p \in contested' PROVE p[1] # Dir("assets")
    <3>1. p \in OldOutputs \/ p[1] = Dir("blog")
      BY <2>1 DEF ViteBuild, foreign_files, InLegacy
    <3>2. CASE p \in OldOutputs
      BY <3>2, OwnNotAssets DEF IInv, ManifestOK, OldOutputs
    <3>3. Dir("blog") # Dir("assets")
      BY Dir("blog").name = "blog", Dir("assets").name = "assets" DEF Dir, File
    <3>4. QED
      BY <3>1, <3>2, <3>3
  <2>2. QED
    BY <2>1 DEF ContestedOK
<1>8. StaticSafe'
  BY DEF ViteBuild, StaticSafe, StaticDist
<1>9. NoTreeLost'
  BY DEF ViteBuild, IInv, NoTreeLost
<1>10. PublishedIsCurrent'
  BY DEF ViteBuild, IInv, PublishedIsCurrent
<1>11. QED
  BY <1>1, <1>2, <1>3, <1>4, <1>5, <1>6, <1>7, <1>8, <1>9, <1>10 DEF IInv

\* Refuse: only the verdict changes.
LEMMA RefuseKeeps ==
    ASSUME IInv, Refuse
    PROVE  IInv'
<1>1. ShapeOK'
  BY DEF Refuse, disk, IInv, ShapeOK
<1>2. BuildOK'
  BY DEF Refuse, IInv, BuildOK, Building, Replacing
<1>3. ManifestOK'
  BY DEF Refuse, disk, IInv, ManifestOK
<1>4. ApartOK'
  BY DEF Refuse, disk, IInv, ApartOK, Safe, OldOutputs, Building
<1>5. ProjectionsOK'
  BY DEF Refuse, disk, IInv, ProjectionsOK, Replacing
<1>6. CleanOK'
  BY DEF Refuse, disk, IInv, CleanOK, Safe, OldOutputs, Copying, Replacing, Written
<1>7. ContestedOK'
  BY DEF Refuse, IInv, ContestedOK
<1>8. StaticSafe'
  BY DEF Refuse, disk, IInv, StaticSafe
<1>9. NoTreeLost'
  BY DEF Refuse, disk, IInv, NoTreeLost
<1>10. PublishedIsCurrent'
  BY DEF Refuse, IInv, PublishedIsCurrent
<1>11. QED
  BY <1>1, <1>2, <1>3, <1>4, <1>5, <1>6, <1>7, <1>8, <1>9, <1>10 DEF IInv

\* Start: the claims the build has checked keep its outputs apart from the safe files.
LEMMA StartKeeps ==
    ASSUME IInv, NEW pid \in Pids, Start(pid)
    PROVE  IInv'
<1>1. ShapeOK'
  BY DEF Start, disk, IInv, ShapeOK, PCs, Idle
<1>2. BuildOK'
  BY DEF Start, IInv, BuildOK, Replacing, Admitted, Accepted
<1>3. ManifestOK'
  BY DEF Start, disk, IInv, ManifestOK
<1>4. ApartOK'
  <2>1. \A p \in Safe : p \notin Desired[tree]
    BY AdmittedApart DEF Start, IInv
  <2>2. build'.todo = IF manifest = None THEN {p \in DOMAIN dist : InLegacy(p)}
                      ELSE manifest \cap DOMAIN dist
    BY DEF Start
  <2>3. UNCHANGED <<tree, vite, contested, manifest>>
    BY DEF Start, disk
  <2>4. QED
    BY <2>1, <2>2, <2>3 DEF IInv, ApartOK, Safe, OldOutputs
<1>5. ProjectionsOK'
  BY DEF Start, disk, IInv, ProjectionsOK, Replacing
<1>6. CleanOK'
  BY DEF Start, disk, IInv, CleanOK, Safe, OldOutputs, Copying, Replacing, Written
<1>7. ContestedOK'
  BY DEF Start, IInv, ContestedOK
<1>8. StaticSafe'
  BY DEF Start, disk, IInv, StaticSafe
<1>9. NoTreeLost'
  BY DEF Start, disk, IInv, NoTreeLost
<1>10. PublishedIsCurrent'
  BY DEF Start, IInv, PublishedIsCurrent
<1>11. QED
  BY <1>1, <1>2, <1>3, <1>4, <1>5, <1>6, <1>7, <1>8, <1>9, <1>10 DEF IInv

\* RemoveOld: the file is of the old manifest or of blog/, hence not a safe one.
LEMMA RemoveOldKeeps ==
    ASSUME IInv, NEW p \in build.todo, RemoveOld(p)
    PROVE  IInv'
<1>1. ShapeOK'
  BY DEF RemoveOld, IInv, ShapeOK
<1>2. BuildOK'
  BY DEF RemoveOld, IInv, BuildOK, Building, Replacing
<1>3. ManifestOK'
  BY DEF RemoveOld, IInv, ManifestOK
<1>4. ApartOK'
  BY DEF RemoveOld, IInv, ApartOK, Safe, OldOutputs, Building
<1>5. ProjectionsOK'
  BY DEF RemoveOld, IInv, ProjectionsOK, Replacing
<1>6. CleanOK'
  BY DEF RemoveOld, IInv, CleanOK, Safe, Copying, Replacing, Written
<1>7. ContestedOK'
  BY DEF RemoveOld, IInv, ContestedOK
<1>8. StaticSafe'
  BY DEF RemoveOld, IInv, ApartOK, Safe, StaticSafe
<1>9. NoTreeLost'
  BY DEF RemoveOld, IInv, NoTreeLost
<1>10. PublishedIsCurrent'
  BY DEF RemoveOld, IInv, BuildOK, Building, PublishedIsCurrent
<1>11. QED
  BY <1>1, <1>2, <1>3, <1>4, <1>5, <1>6, <1>7, <1>8, <1>9, <1>10 DEF IInv

\* CopyTemp: a temporary copy beside a file that is still to be written.
LEMMA CopyTempKeeps ==
    ASSUME IInv, NEW p \in build.todo, CopyTemp(p)
    PROVE  IInv'
<1>1. ShapeOK'
  BY DEF CopyTemp, IInv, ShapeOK, PCs
<1>2. BuildOK'
  BY DEF CopyTemp, IInv, BuildOK, Building, Replacing
<1>3. ManifestOK'
  BY DEF CopyTemp, IInv, ManifestOK
<1>4. ApartOK'
  BY DEF CopyTemp, IInv, ApartOK, Safe, OldOutputs, Building
<1>5. ProjectionsOK'
  BY DEF CopyTemp, IInv, ProjectionsOK, Replacing
<1>6. CleanOK'
  BY DEF CopyTemp, IInv, CleanOK, Safe, Copying, Replacing, Written
<1>7. ContestedOK'
  BY DEF CopyTemp, IInv, ContestedOK
<1>8. StaticSafe'
  BY DEF CopyTemp, IInv, StaticSafe
<1>9. NoTreeLost'
  BY DEF CopyTemp, IInv, NoTreeLost
<1>10. PublishedIsCurrent'
  BY DEF CopyTemp, IInv, BuildOK, Building, PublishedIsCurrent
<1>11. QED
  BY <1>1, <1>2, <1>3, <1>4, <1>5, <1>6, <1>7, <1>8, <1>9, <1>10 DEF IInv

\* RemoveDone: of a clean dist only the safe files are left.
LEMMA RemoveDoneKeeps ==
    ASSUME IInv, RemoveDone
    PROVE  IInv'
<1>1. ShapeOK'
  BY DEF RemoveDone, IInv, ShapeOK, PCs
<1>2. BuildOK'
  BY DEF RemoveDone, IInv, BuildOK, Building, Replacing
<1>3. ManifestOK'
  BY DEF RemoveDone, IInv, ManifestOK
<1>4. ApartOK'
  BY DEF RemoveDone, IInv, ApartOK, Safe, OldOutputs, Building
<1>5. ProjectionsOK'
  BY DEF RemoveDone, IInv, ProjectionsOK, Replacing
<1>6. CleanOK'
  BY DEF RemoveDone, IInv, BuildOK, Building, CleanOK, StaticSafe, Safe, Replacing, Written
<1>7. ContestedOK'
  BY DEF RemoveDone, IInv, ContestedOK
<1>8. StaticSafe'
  BY DEF RemoveDone, IInv, StaticSafe
<1>9. NoTreeLost'
  BY DEF RemoveDone, IInv, NoTreeLost
<1>10. PublishedIsCurrent'
  BY DEF RemoveDone, IInv, PublishedIsCurrent
<1>11. QED
  BY <1>1, <1>2, <1>3, <1>4, <1>5, <1>6, <1>7, <1>8, <1>9, <1>10 DEF IInv

\* RenameTemp: one more output of the current tree is in its place.
LEMMA RenameTempKeeps ==
    ASSUME IInv, RenameTemp
    PROVE  IInv'
<1>1. ShapeOK'
  BY DEF RenameTemp, IInv, ShapeOK, PCs
<1>2. BuildOK'
  BY DEF RenameTemp, IInv, BuildOK, Building, Replacing
<1>3. ManifestOK'
  BY DEF RenameTemp, IInv, ManifestOK
<1>4. ApartOK'
  BY DEF RenameTemp, IInv, ApartOK, Safe, OldOutputs, Building
<1>5. ProjectionsOK'
  BY DEF RenameTemp, IInv, ProjectionsOK, Replacing
<1>6. CleanOK'
  <2>1. /\ DOMAIN dist' = DOMAIN dist \cup {build.of} /\ dist'[build.of] = tree
        /\ \A p \in DOMAIN dist : p # build.of => dist'[p] = dist[p]
    BY DEF RenameTemp, IInv, BuildOK, Building
  <2>2. /\ build'.pc = "copy" /\ build'.todo = build.todo \ {build.of}
        /\ UNCHANGED <<tree, vite, contested, clean>> /\ temps' = temps \ {build.of}
    BY DEF RenameTemp, IInv
  <2>3. build.pc = "rename" /\ build.todo \subseteq Desired[tree] /\ build.of \in build.todo
    BY DEF RenameTemp, IInv, BuildOK
  <2>4. QED
    BY <2>1, <2>2, <2>3 DEF IInv, CleanOK, Safe, Copying, Replacing, Written
<1>7. ContestedOK'
  BY DEF RenameTemp, IInv, ContestedOK
<1>8. StaticSafe'
  BY DEF RenameTemp, IInv, BuildOK, Building, ApartOK, Safe, StaticSafe
<1>9. NoTreeLost'
  BY DEF RenameTemp, IInv, NoTreeLost
<1>10. PublishedIsCurrent'
  BY DEF RenameTemp, IInv, BuildOK, Building, PublishedIsCurrent
<1>11. QED
  BY <1>1, <1>2, <1>3, <1>4, <1>5, <1>6, <1>7, <1>8, <1>9, <1>10 DEF IInv

\* CopyDone: with nothing left to do, dist is complete.
LEMMA CopyDoneKeeps ==
    ASSUME IInv, CopyDone
    PROVE  IInv'
<1>1. ShapeOK'
  BY DEF CopyDone, disk, IInv, ShapeOK, PCs
<1>2. BuildOK'
  BY DEF CopyDone, IInv, BuildOK, Building, Projections
<1>3. ManifestOK'
  BY DEF CopyDone, disk, IInv, ManifestOK
<1>4. ApartOK'
  BY DEF CopyDone, disk, IInv, ApartOK, Safe, OldOutputs, Building
<1>5. ProjectionsOK'
  BY DEF CopyDone, disk, IInv, ProjectionsOK
<1>6. CleanOK'
  BY DEF CopyDone, disk, IInv, CleanOK, Safe, Copying
<1>7. ContestedOK'
  BY DEF CopyDone, IInv, ContestedOK
<1>8. StaticSafe'
  BY DEF CopyDone, disk, IInv, StaticSafe
<1>9. NoTreeLost'
  BY DEF CopyDone, disk, IInv, NoTreeLost
<1>10. PublishedIsCurrent'
  BY DEF CopyDone, disk, IInv, PublishedIsCurrent
<1>11. QED
  BY <1>1, <1>2, <1>3, <1>4, <1>5, <1>6, <1>7, <1>8, <1>9, <1>10 DEF IInv

\* BackupTree: a projection that is there is set aside, not removed.
LEMMA BackupTreeKeeps ==
    ASSUME IInv, BackupTree
    PROVE  IInv'
<1>1. ShapeOK'
  BY DEF BackupTree, IInv, ShapeOK, PCs
<1>2. BuildOK'
  BY DEF BackupTree, IInv, BuildOK, Building, Replacing
<1>3. ManifestOK'
  BY DEF BackupTree, IInv, ManifestOK
<1>4. ApartOK'
  BY DEF BackupTree, IInv, ApartOK, Safe, OldOutputs, Building
<1>5. ProjectionsOK'
  BY DEF BackupTree, IInv, ProjectionsOK, Replacing
<1>6. CleanOK'
  BY DEF BackupTree, IInv, CleanOK, Safe, Copying, Replacing, Written
<1>7. ContestedOK'
  BY DEF BackupTree, IInv, ContestedOK
<1>8. StaticSafe'
  BY DEF BackupTree, IInv, StaticSafe
<1>9. NoTreeLost'
  <2>1. /\ UNCHANGED targets /\ build.of \in Projections
        /\ trees' = [trees EXCEPT ![build.of] = None] /\ backups \subseteq backups'
    BY DEF BackupTree, IInv, BuildOK, Replacing
  <2>2. \A w \in Projections : w # build.of => trees'[w] = trees[w]
    BY <2>1 DEF IInv
  <2>3. trees[build.of] # None => \E b \in backups' : b.of = build.of
    <3>1. SUFFICES ASSUME trees[build.of] # None PROVE \E b \in backups' : b.of = build.of
      OBVIOUS
    <3>2. DEFINE b == [of |-> build.of, pid |-> build.pid, val |-> trees[build.of]]
    <3>3. b \in backups' /\ b.of = build.of
      BY <3>1 DEF BackupTree
    <3>4. QED
      BY <3>3
  <2>4. QED
    BY <2>1, <2>2, <2>3 DEF IInv, NoTreeLost
<1>10. PublishedIsCurrent'
  BY DEF BackupTree, IInv, BuildOK, Building, PublishedIsCurrent
<1>11. QED
  BY <1>1, <1>2, <1>3, <1>4, <1>5, <1>6, <1>7, <1>8, <1>9, <1>10 DEF IInv

\* SwapTree: the new projection is in its place.
LEMMA SwapTreeKeeps ==
    ASSUME IInv, SwapTree
    PROVE  IInv'
<1>1. ShapeOK'
  BY DEF SwapTree, IInv, ShapeOK, PCs
<1>2. BuildOK'
  BY DEF SwapTree, IInv, BuildOK, Building, Replacing
<1>3. ManifestOK'
  BY DEF SwapTree, IInv, ManifestOK
<1>4. ApartOK'
  BY DEF SwapTree, IInv, ApartOK, Safe, OldOutputs, Building
<1>5. ProjectionsOK'
  <2>1. /\ build.of \in Projections /\ build.tree = tree /\ UNCHANGED <<tree, backups>>
        /\ build'.pc = "drop" /\ build'.of = build.of
    BY DEF SwapTree, IInv, BuildOK, Building, Replacing
  <2>2. trees'[build.of] = tree /\ \A w \in Projections : w # build.of => trees'[w] = trees[w]
    BY <2>1 DEF SwapTree, IInv, ShapeOK
  <2>3. build.pc = "swap"
    BY DEF SwapTree
  <2>4. QED
    BY <2>1, <2>2, <2>3 DEF IInv, ProjectionsOK, Replacing, Projections
<1>6. CleanOK'
  BY DEF SwapTree, IInv, CleanOK, Safe, Copying, Replacing, Written
<1>7. ContestedOK'
  BY DEF SwapTree, IInv, ContestedOK
<1>8. StaticSafe'
  BY DEF SwapTree, IInv, StaticSafe
<1>9. NoTreeLost'
  <2>1. /\ build.of \in Projections /\ build.tree = tree /\ UNCHANGED <<targets, backups>>
    BY DEF SwapTree, IInv, BuildOK, Building, Replacing
  <2>2. trees'[build.of] = tree /\ \A w \in Projections : w # build.of => trees'[w] = trees[w]
    BY <2>1 DEF SwapTree, IInv, ShapeOK
  <2>3. tree # None
    BY NoneAssumption DEF IInv, ShapeOK
  <2>4. QED
    BY <2>1, <2>2, <2>3 DEF IInv, NoTreeLost
<1>10. PublishedIsCurrent'
  BY DEF SwapTree, IInv, BuildOK, Building, PublishedIsCurrent
<1>11. QED
  BY <1>1, <1>2, <1>3, <1>4, <1>5, <1>6, <1>7, <1>8, <1>9, <1>10 DEF IInv

\* DropBackup: the backup goes only when the new projection is there.
LEMMA DropBackupKeeps ==
    ASSUME IInv, DropBackup
    PROVE  IInv'
<1>1. ShapeOK'
  BY DEF DropBackup, IInv, ShapeOK, PCs
<1>2. BuildOK'
  BY DEF DropBackup, IInv, BuildOK, Building, Replacing, Projections
<1>3. ManifestOK'
  BY DEF DropBackup, IInv, ManifestOK
<1>4. ApartOK'
  BY DEF DropBackup, IInv, ApartOK, Safe, OldOutputs, Building
<1>5. ProjectionsOK'
  BY DEF DropBackup, IInv, BuildOK, ProjectionsOK, Replacing, Projections
<1>6. CleanOK'
  BY DEF DropBackup, IInv, CleanOK, Safe, Copying, Replacing, Written
<1>7. ContestedOK'
  BY DEF DropBackup, IInv, ContestedOK
<1>8. StaticSafe'
  BY DEF DropBackup, IInv, StaticSafe
<1>9. NoTreeLost'
  <2>1. trees[build.of] # None /\ UNCHANGED <<targets, trees>>
    BY NoneAssumption DEF DropBackup, IInv, ShapeOK, ProjectionsOK
  <2>2. \A b \in backups : b.of # build.of => b \in backups'
    BY DEF DropBackup, BackupOf
  <2>3. QED
    BY <2>1, <2>2 DEF IInv, NoTreeLost
<1>10. PublishedIsCurrent'
  BY DEF DropBackup, IInv, PublishedIsCurrent
<1>11. QED
  BY <1>1, <1>2, <1>3, <1>4, <1>5, <1>6, <1>7, <1>8, <1>9, <1>10 DEF IInv

\* WriteTargets: both projections are in their places by now.
LEMMA WriteTargetsKeeps ==
    ASSUME IInv, WriteTargets
    PROVE  IInv'
<1>1. ShapeOK'
  BY DEF WriteTargets, IInv, ShapeOK, PCs
<1>2. BuildOK'
  BY DEF WriteTargets, IInv, BuildOK, Building, Replacing
<1>3. ManifestOK'
  BY DEF WriteTargets, IInv, ManifestOK
<1>4. ApartOK'
  BY DEF WriteTargets, IInv, ApartOK, Safe, OldOutputs, Building
<1>5. ProjectionsOK'
  BY DEF WriteTargets, IInv, ProjectionsOK, Projections
<1>6. CleanOK'
  BY DEF WriteTargets, IInv, BuildOK, Building, CleanOK, Safe, Copying, Written
<1>7. ContestedOK'
  BY DEF WriteTargets, IInv, ContestedOK
<1>8. StaticSafe'
  BY DEF WriteTargets, IInv, StaticSafe
<1>9. NoTreeLost'
  <2>1. \A w \in Projections : trees[w] # None
    BY NoneAssumption DEF WriteTargets, IInv, ShapeOK, ProjectionsOK
  <2>2. QED
    BY <2>1 DEF WriteTargets, NoTreeLost
<1>10. PublishedIsCurrent'
  BY DEF WriteTargets, IInv, BuildOK, Building, PublishedIsCurrent
<1>11. QED
  BY <1>1, <1>2, <1>3, <1>4, <1>5, <1>6, <1>7, <1>8, <1>9, <1>10 DEF IInv

\* WriteManifest: the build ends and dist is what it published.
LEMMA WriteManifestKeeps ==
    ASSUME IInv, WriteManifest
    PROVE  IInv'
<1>1. ShapeOK'
  BY DEF WriteManifest, IInv, ShapeOK, PCs, Idle
<1>2. BuildOK'
  BY DEF WriteManifest, IInv, BuildOK, Building, Replacing, Idle
<1>3. ManifestOK'
  BY DEF WriteManifest, IInv, ShapeOK, BuildOK, Building, ManifestOK
<1>4. ApartOK'
  <2>1. /\ build.tree = tree /\ Building /\ manifest' = Desired[tree] /\ Desired[tree] # None
        /\ build'.pc = "idle" /\ UNCHANGED <<tree, vite, contested>>
    BY NoneAssumption DEF WriteManifest, IInv, ShapeOK, BuildOK, Building, Idle
  <2>2. QED
    BY <2>1 DEF IInv, ApartOK, Safe, OldOutputs
<1>5. ProjectionsOK'
  BY DEF WriteManifest, IInv, ProjectionsOK, Replacing, Idle
<1>6. CleanOK'
  <2>1. /\ build.tree = tree /\ Written /\ manifest' = Desired[tree] /\ Desired[tree] # None
        /\ build'.pc = "idle" /\ build.pc = "manifest"
        /\ UNCHANGED <<tree, vite, contested, clean, dist, temps>>
    BY NoneAssumption DEF WriteManifest, IInv, ShapeOK, BuildOK, Building, Written, Idle
  <2>2. Safe \subseteq vite
    BY DEF Safe
  <2>3. QED
    BY <2>1, <2>2 DEF IInv, CleanOK, Safe, OldOutputs, Copying
<1>7. ContestedOK'
  BY DEF WriteManifest, IInv, ContestedOK
<1>8. StaticSafe'
  BY DEF WriteManifest, IInv, StaticSafe
<1>9. NoTreeLost'
  BY DEF WriteManifest, IInv, NoTreeLost
<1>10. PublishedIsCurrent'
  BY DEF WriteManifest, IInv, BuildOK, Building, ProjectionsOK, CleanOK, Written, Safe, PublishedIsCurrent
<1>11. QED
  BY <1>1, <1>2, <1>3, <1>4, <1>5, <1>6, <1>7, <1>8, <1>9, <1>10 DEF IInv

\* CutShort: the disk stays as it is, and is no longer clean.
LEMMA CutShortKeeps ==
    ASSUME IInv, CutShort
    PROVE  IInv'
<1>1. ShapeOK'
  BY DEF CutShort, disk, IInv, ShapeOK, PCs, Idle
<1>2. BuildOK'
  BY DEF CutShort, IInv, BuildOK, Building, Replacing, Idle
<1>3. ManifestOK'
  BY DEF CutShort, disk, IInv, ManifestOK
<1>4. ApartOK'
  BY DEF CutShort, disk, IInv, ApartOK, Safe, OldOutputs, Building, Idle
<1>5. ProjectionsOK'
  BY DEF CutShort, disk, IInv, ProjectionsOK, Replacing, Idle
<1>6. CleanOK'
  BY DEF CutShort, Idle, CleanOK
<1>7. ContestedOK'
  BY DEF CutShort, IInv, ContestedOK
<1>8. StaticSafe'
  BY DEF CutShort, disk, IInv, StaticSafe
<1>9. NoTreeLost'
  BY DEF CutShort, disk, IInv, NoTreeLost
<1>10. PublishedIsCurrent'
  BY DEF CutShort, IInv, PublishedIsCurrent
<1>11. QED
  BY <1>1, <1>2, <1>3, <1>4, <1>5, <1>6, <1>7, <1>8, <1>9, <1>10 DEF IInv

\* SwapFails: the backup returns to its place.
LEMMA SwapFailsKeeps ==
    ASSUME IInv, SwapFails
    PROVE  IInv'
<1>1. ShapeOK'
  BY DEF SwapFails, IInv, ShapeOK, PCs, Idle
<1>2. BuildOK'
  BY DEF SwapFails, IInv, BuildOK, Building, Replacing, Idle
<1>3. ManifestOK'
  BY DEF SwapFails, IInv, ManifestOK
<1>4. ApartOK'
  BY DEF SwapFails, IInv, ApartOK, Safe, OldOutputs, Building, Idle
<1>5. ProjectionsOK'
  BY DEF SwapFails, IInv, ProjectionsOK, Replacing, Idle
<1>6. CleanOK'
  BY DEF SwapFails, Idle, CleanOK
<1>7. ContestedOK'
  BY DEF SwapFails, IInv, ContestedOK
<1>8. StaticSafe'
  BY DEF SwapFails, IInv, StaticSafe
<1>9. NoTreeLost'
  <2>1. PICK b \in BackupOf(build.of) : /\ trees' = [trees EXCEPT ![build.of] = b.val]
                                       /\ backups' = backups \ {b}
    BY DEF SwapFails
  <2>2. b \in backups /\ b.of = build.of /\ b.val # None /\ build.of \in Projections
    BY <2>1 DEF SwapFails, BackupOf, IInv, BuildOK, Replacing, ProjectionsOK
  <2>3. trees'[build.of] # None /\ \A w \in Projections : w # build.of => trees'[w] = trees[w]
    BY <2>1, <2>2 DEF IInv, ShapeOK
  <2>4. \A c \in backups : c.of # build.of => c \in backups'
    BY <2>1, <2>2
  <2>5. UNCHANGED targets
    BY DEF SwapFails
  <2>6. QED
    BY <2>3, <2>4, <2>5 DEF IInv, NoTreeLost
<1>10. PublishedIsCurrent'
  BY DEF SwapFails, IInv, PublishedIsCurrent
<1>11. QED
  BY <1>1, <1>2, <1>3, <1>4, <1>5, <1>6, <1>7, <1>8, <1>9, <1>10 DEF IInv

-----------------------------------------------------------------------------
\* Before the first build nothing of dist is the builder's.
LEMMA InitHolds ==
    ASSUME Init
    PROVE  IInv
<1>1. ShapeOK /\ BuildOK
  BY DEF Init, Idle, StaticDist, ShapeOK, PCs, BuildOK, Building, Replacing
<1>2. ManifestOK /\ ApartOK
  BY DEF Init, Idle, ManifestOK, ApartOK, Safe, OldOutputs, Building, foreign_files
<1>3. ProjectionsOK /\ NoTreeLost
  BY DEF Init, Idle, ProjectionsOK, Replacing, NoTreeLost
<1>4. CleanOK
  BY DEF Init, Idle, CleanOK, Safe, OldOutputs, Copying, Replacing, Written, foreign_files,
         StaticDist
<1>5. ContestedOK
  <2>1. Dir("blog") # Dir("assets")
    BY Dir("blog").name = "blog", Dir("assets").name = "assets" DEF Dir, File
  <2>2. QED
    BY <2>1 DEF Init, ContestedOK, foreign_files, InLegacy
<1>6. StaticSafe /\ PublishedIsCurrent
  BY DEF Init, StaticSafe, StaticDist, PublishedIsCurrent
<1>7. QED
  BY <1>1, <1>2, <1>3, <1>4, <1>5, <1>6 DEF IInv

\* A step that changes nothing.
LEMMA StutterKeeps ==
    ASSUME IInv, UNCHANGED vars
    PROVE  IInv'
  BY DEF vars, disk, IInv, ShapeOK, BuildOK, ManifestOK, ApartOK, ProjectionsOK, CleanOK,
         ContestedOK, StaticSafe, NoTreeLost, PublishedIsCurrent, Building, Copying, Replacing,
         Written, Safe, OldOutputs

\* The inductive invariant holds for every set of contents and front ends, whatever the
\* builds, their deaths and the runs of Vite between them.
THEOREM InductiveInvariant == Spec => []IInv
<1>1. Init => IInv
  BY InitHolds
<1>2. IInv /\ [Next]_vars => IInv'
  <2>1. SUFFICES ASSUME IInv, [Next]_vars PROVE IInv'
    OBVIOUS
  <2>2. ASSUME NEW n \in DOMAIN Trees, Edit(n) PROVE IInv'
    BY <2>1, <2>2, EditKeeps
  <2>3. ASSUME NEW v \in Vites, ViteBuild(v) PROVE IInv'
    BY <2>1, <2>3, ViteBuildKeeps
  <2>4. ASSUME NEW pid \in Pids, Start(pid) PROVE IInv'
    BY <2>1, <2>4, StartKeeps
  <2>5. ASSUME NEW p \in build.todo, RemoveOld(p) \/ CopyTemp(p) PROVE IInv'
    BY <2>1, <2>5, RemoveOldKeeps, CopyTempKeeps
  <2>6. CASE Refuse \/ RemoveDone \/ RenameTemp \/ CopyDone \/ BackupTree
    BY <2>1, <2>6, RefuseKeeps, RemoveDoneKeeps, RenameTempKeeps, CopyDoneKeeps, BackupTreeKeeps
  <2>7. CASE SwapTree \/ DropBackup \/ WriteTargets \/ WriteManifest \/ CutShort \/ SwapFails
    BY <2>1, <2>7, SwapTreeKeeps, DropBackupKeeps, WriteTargetsKeeps, WriteManifestKeeps,
       CutShortKeeps, SwapFailsKeeps
  <2>8. CASE UNCHANGED vars
    BY <2>1, <2>8, StutterKeeps
  <2>9. QED
    BY <2>1, <2>2, <2>3, <2>4, <2>5, <2>6, <2>7, <2>8 DEF Next
<1>3. QED
  BY <1>1, <1>2, PTL DEF Spec

\* content-build never removes or replaces a file of Vite whose path the manifest on disk did
\* not call its own when Vite wrote it, wherever a build stops (claim_output, commit_web_outputs).
THEOREM ViteFilesAreSafe == Spec => []StaticSafe
<1>1. IInv => StaticSafe
  BY DEF IInv
<1>2. QED
  BY <1>1, InductiveInvariant, PTL

\* A build that returns Ok on a dist no commit was cut short in since Vite filled it leaves
\* exactly the front end, the outputs of the current content, its projection and manifests.
THEOREM WhatIsPublishedIsCurrent == Spec => []PublishedIsCurrent
<1>1. IInv => PublishedIsCurrent
  BY DEF IInv
<1>2. QED
  BY <1>1, InductiveInvariant, PTL

\* replace_tree never loses the terminal projection: once built, a whole tree is in its place
\* or beside it, under any number of deaths, failed renames and reused process ids.
THEOREM ProjectionIsNeverLost == Spec => []NoTreeLost
<1>1. IInv => NoTreeLost
  BY DEF IInv
<1>2. QED
  BY <1>1, InductiveInvariant, PTL

-----------------------------------------------------------------------------
\* Below assets/, a clean dist holds what Vite wrote and nothing else.
LEMMA AssetsAreVites ==
    ASSUME IInv, build.pc = "idle", clean, NEW p, p[1] = Dir("assets")
    PROVE  p \in DOMAIN dist <=> p \in vite
<1>1. p \in vite => p \in DOMAIN dist
  BY DEF IInv, ContestedOK, StaticSafe
<1>2. p \notin OldOutputs
  BY OwnNotAssets DEF IInv, ManifestOK, OldOutputs
<1>3. QED
  BY <1>1, <1>2 DEF IInv, CleanOK

\* So the entry points are found in a clean dist as they are in the front end alone.
LEMMA EntriesStay ==
    ASSUME IInv, build.pc = "idle", clean, NEW names, NEW ext
    PROVE  OneEntry(DOMAIN dist, names, ext) = OneEntry(vite, names, ext)
<1>1. ASSUME NEW p, p[1] = Dir("assets") PROVE p \in DOMAIN dist <=> p \in vite
  BY <1>1, AssetsAreVites
<1>2. {p \in DOMAIN dist : /\ Len(p) = 2 /\ p[1] = Dir("assets")
                           /\ p[2].name \in names /\ p[2].ext = ext}
      = {p \in vite : /\ Len(p) = 2 /\ p[1] = Dir("assets")
                      /\ p[2].name \in names /\ p[2].ext = ext}
  BY <1>1
<1>3. QED
  BY <1>2 DEF OneEntry

\* Content that the front end alone admits is admitted beside the outputs of any earlier
\* builds, unless an output takes the path of a directory they made (build_web_claims).
THEOREM AlwaysRebuildable == Spec => []Rebuildable
<1>1. IInv => Rebuildable
  <2>1. SUFFICES ASSUME IInv, build.pc = "idle", clean, Accepted(tree, vite, {}, {}, TRUE),
                        ~FileForDirectory
                 PROVE  Admitted
    BY DEF Rebuildable
  <2>2. TreeAccepted[tree]
    BY <2>1 DEF Accepted
  <2>3. entries_found(Trees[tree], DOMAIN dist)
    BY <2>1, EntriesStay DEF Accepted, entries_found
  <2>4. DOMAIN dist \subseteq vite \cup OldOutputs /\ temps = {}
    BY <2>1 DEF IInv, CleanOK
  <2>5. ASSUME NEW d \in Desired[tree],
               NEW p \in foreign_files(DOMAIN dist, OldOutputs, manifest # None)
        PROVE  ~Overlap(d, p)
    <3>1. p \in foreign_files(vite, {}, TRUE)
      BY <2>4 DEF foreign_files
    <3>2. QED
      BY <2>1, <3>1 DEF Accepted, claims_agree
  <2>6. ASSUME NEW d \in Desired[tree],
               NEW e \in foreign_dirs(DOMAIN dist \cup temps, manifest # None)
        PROVE  ~IsPrefix(d, e)
    <3>1. PICK p \in DOMAIN dist : e \in {SubSeq(p, 1, n) : n \in 1..(Len(p) - 1)}
      BY <2>4 DEF foreign_dirs
    <3>2. CASE p \in vite
      <4>1. e \in foreign_dirs(vite \cup {}, TRUE)
        BY <3>1, <3>2 DEF foreign_dirs
      <4>2. QED
        BY <2>1, <4>1 DEF Accepted, claims_agree
    <3>3. CASE p \in OldOutputs
      <4>1. e \in foreign_dirs(OldOutputs \cap DOMAIN dist, TRUE)
        BY <3>1, <3>3 DEF foreign_dirs
      <4>2. QED
        BY <2>1, <4>1 DEF FileForDirectory
    <3>4. QED
      BY <2>4, <3>2, <3>3
  <2>7. QED
    BY <2>2, <2>3, <2>5, <2>6 DEF Admitted, Accepted, claims_agree
<1>2. QED
  BY <1>1, InductiveInvariant, PTL
-----------------------------------------------------------------------------
(* What was written reads back. *)

\* The segments of a path, those the code itself names among them: to the provers a
\* literal is not a member of STRING.
Segs == [name : STRING \cup {"", "comment", "proc", "stat", "index"}, ext : STRING \cup {"", "html"}]

\* The paths a directory can be configured by.
Dirs == Seq(Segs) \ {<<>>}

\* The names the code puts into a path itself.
LEMMA NamedSegments ==
    /\ Empty \in Segs /\ Dir("comment") \in Segs /\ Dir("proc") \in Segs /\ Dir("stat") \in Segs
    /\ File("index", "html") \in Segs
  BY Zenon DEF Empty, Dir, File, Segs

\* A path that is not empty could be that of a directory.
LEMMA PathsAreDirs ==
    ASSUME NEW p \in Paths, p # <<>>
    PROVE  p \in Dirs
<1>1. \A x \in Segments : x \in Segs
  BY DEF Segments, Segs
<1>2. p \in Seq(Segs)
  BY <1>1 DEF Paths
<1>3. QED
  BY <1>2 DEF Dirs

\* What was put at the end is taken off again.
LEMMA FrontAppend ==
    ASSUME NEW s \in Seq(Segs), NEW x \in Segs
    PROVE  Front(Append(s, x)) = s
<1>1. /\ Append(s, x) \in Seq(Segs) /\ Len(Append(s, x)) = Len(s) + 1 /\ Len(s) \in Nat
      /\ \A i \in 1 .. Len(s) : Append(s, x)[i] = s[i]
  OBVIOUS
<1> DEFINE b == Append(s, x)
           f == SubSeq(b, 1, Len(b) - 1)
<1>2. f \in Seq(Segs) /\ Len(f) = Len(s) /\ \A i \in 1 .. Len(s) : f[i] = s[i]
  <2> HIDE DEF b
  <2>1. b \in Seq(Segs) /\ Len(b) = Len(s) + 1 /\ Len(s) \in Nat /\ \A i \in 1 .. Len(s) : b[i] = s[i]
    BY <1>1 DEF b
  <2>2. QED
    BY <2>1
<1>3. f = s
  <2> HIDE DEF f
  <2>1. QED
    BY <1>2, SeqEqual
<1>4. QED
  BY <1>3 DEF Front

\* The target of the root is "/".
LEMMA SlashedRoot == Slashed(<<Empty>>) = <<Empty, Empty>>
  BY DEF Slashed

\* What a target that is not the root's is made of.
LEMMA SlashedInner ==
    ASSUME NEW d \in Dirs, d # <<Empty>>
    PROVE  /\ Slashed(d) \in Seq(Segs) /\ Len(Slashed(d)) = Len(d) + 2
           /\ Slashed(d) # <<Empty, Empty>> /\ Inner(Slashed(d)) = d
<1>1. d \in Seq(Segs) /\ Len(d) \in Nat \ {0} /\ <<Empty>> \in Seq(Segs)
  BY NamedSegments DEF Dirs
<1> DEFINE a == <<Empty>> \o d
           s == a \o <<Empty>>
<1>2. a \in Seq(Segs) /\ Len(a) = Len(d) + 1 /\ a[1] = Empty
      /\ \A i \in 1 .. Len(d) : a[i + 1] = d[i]
  BY <1>1
<1>3. s \in Seq(Segs) /\ Len(s) = Len(d) + 2 /\ \A i \in 1 .. Len(d) : s[i + 1] = d[i]
  <2> HIDE DEF a
  <2>1. QED
    BY <1>1, <1>2
<1>4. Slashed(d) = s
  BY DEF Slashed
<1> HIDE DEF s
<1>5. Inner(s) = d
  <2>1. Inner(s) = SubSeq(s, 2, Len(d) + 1)
    BY <1>1, <1>3 DEF Inner
  <2>2. SubSeq(s, 2, Len(d) + 1) \in Seq(Segs) /\ Len(SubSeq(s, 2, Len(d) + 1)) = Len(d)
    BY <1>1, <1>3
  <2>3. \A i \in 1 .. Len(d) : SubSeq(s, 2, Len(d) + 1)[i] = d[i]
    BY <1>1, <1>3
  <2>4. QED
    BY <1>1, <2>1, <2>2, <2>3, SeqEqual
<1>6. s # <<Empty, Empty>>
  BY <1>1, <1>3
<1>7. QED
  BY <1>3, <1>4, <1>5, <1>6

\* A scope comes back from its target.
LEMMA RoundTrip ==
    ASSUME NEW d \in Dirs, from_directory_rel(d).ok
    PROVE  from_target(from_directory_rel(d).val.target) = from_directory_rel(d)
<1>1. validate_target(Slashed(d)) /\ from_directory_rel(d).val.target = Slashed(d)
  BY DEF from_directory_rel, Ok, Err
<1>2. CASE d = <<Empty>>
  BY <1>1, <1>2 DEF from_target
<1>3. CASE d # <<Empty>>
  BY <1>1, <1>3, SlashedInner, SlashedRoot DEF from_target
<1>4. QED
  BY <1>2, <1>3

\* One more segment below a directory.
LEMMA BelowFacts ==
    ASSUME NEW d \in Dirs, NEW seg \in Segs
    PROVE  /\ Below(d, seg) \in Dirs
           /\ d = <<Empty>> => Below(d, seg) = <<seg>>
           /\ d # <<Empty>> => /\ Len(Below(d, seg)) = Len(d) + 1
                               /\ SubSeq(Below(d, seg), 1, Len(d)) = d
<1>1. d \in Seq(Segs) /\ Len(d) \in Nat \ {0}
  BY DEF Dirs
<1>2. CASE d = <<Empty>>
  BY <1>2 DEF Below, Dirs
<1>3. CASE d # <<Empty>>
  <2>1. /\ Below(d, seg) = Append(d, seg) /\ Append(d, seg) \in Seq(Segs)
        /\ Len(Append(d, seg)) = Len(d) + 1 /\ Append(d, seg) # <<>>
        /\ \A i \in 1 .. Len(d) : Append(d, seg)[i] = d[i]
    BY <1>1, <1>3 DEF Below
  <2> DEFINE b == Append(d, seg)
             s == SubSeq(b, 1, Len(d))
  <2>2. s = d
    <3> HIDE DEF b
    <3>1. s \in Seq(Segs) /\ Len(s) = Len(d) /\ \A i \in 1 .. Len(d) : s[i] = d[i]
      <4>1. b \in Seq(Segs) /\ Len(b) = Len(d) + 1 /\ \A i \in 1 .. Len(d) : b[i] = d[i]
        BY <2>1 DEF b
      <4>2. QED
        BY ONLY <1>1, <4>1
    <3> HIDE DEF s
    <3>2. QED
      BY <1>1, <3>1, SeqEqual
  <2>3. QED
    BY <1>3, <2>1, <2>2 DEF Dirs
<1>4. QED
  BY <1>2, <1>3

\* Of two different directories neither the comment paths nor the targets nor the
\* snapshots are the same.
LEMMA ScopesApart ==
    ASSUME NEW d \in Dirs, from_directory_rel(d).ok, NEW e \in Dirs, from_directory_rel(e).ok, d # e
    PROVE  /\ from_directory_rel(d).val.directory = d
           /\ from_directory_rel(d).val.comment = Below(d, Dir("comment"))
           /\ from_directory_rel(d).val.comment # from_directory_rel(e).val.comment
           /\ from_directory_rel(d).val.target # from_directory_rel(e).val.target
           /\ from_directory_rel(d).val.stat # from_directory_rel(e).val.stat
<1>1. \A f \in Dirs : from_directory_rel(f).ok =>
         /\ from_directory_rel(f).val.directory = f
         /\ from_directory_rel(f).val.comment = Below(f, Dir("comment"))
         /\ from_directory_rel(f).val.target = Slashed(f)
         /\ from_directory_rel(f).val.stat
              = Append(IF f = <<Empty>> THEN <<Dir("proc")>> ELSE <<Dir("proc")>> \o f, Dir("stat"))
  BY DEF from_directory_rel, Ok, Err
<1>2. d \in Seq(Segs) /\ Len(d) \in Nat \ {0} /\ e \in Seq(Segs) /\ Len(e) \in Nat \ {0}
  BY DEF Dirs
<1>3. Below(d, Dir("comment")) # Below(e, Dir("comment"))
  <2> DEFINE c == Dir("comment")
             b(f) == Below(f, c)
  <2>1. c \in Segs
    BY NamedSegments
  <2>2. \A f \in Dirs : f = <<Empty>> => Len(b(f)) = 1
    BY <2>1, BelowFacts
  <2>3. \A f \in Dirs : f # <<Empty>> => Len(b(f)) = Len(f) + 1 /\ SubSeq(b(f), 1, Len(f)) = f
    BY <2>1, BelowFacts
  <2> HIDE DEF b, c
  <2>4. ASSUME d = <<Empty>> \/ e = <<Empty>> PROVE b(d) # b(e)
    <3>1. Len(b(<<Empty>>)) = 1
      BY <2>2, <2>4
    <3>2. \A f \in {d, e} : f # <<Empty>> => Len(b(f)) = Len(f) + 1
      BY <2>3
    <3>3. QED
      BY <1>2, <2>4, <3>1, <3>2
  <2>5. ASSUME d # <<Empty>>, e # <<Empty>> PROVE b(d) # b(e)
    <3>1. SUFFICES ASSUME b(d) = b(e) PROVE FALSE
      OBVIOUS
    <3>2. Len(b(d)) = Len(d) + 1 /\ Len(b(e)) = Len(e) + 1
      BY <2>3, <2>5
    <3>3. Len(d) = Len(e)
      BY <1>2, <3>1, <3>2
    <3>4. SubSeq(b(d), 1, Len(d)) = d /\ SubSeq(b(e), 1, Len(e)) = e
      BY <2>3, <2>5
    <3>5. QED
      BY <3>1, <3>3, <3>4
  <2>6. b(d) # b(e)
    BY <2>4, <2>5
  <2>7. QED
    BY <2>6 DEF b, c
<1>4. Slashed(d) # Slashed(e)
  BY SlashedInner, SlashedRoot
<1> DEFINE proc(f) == IF f = <<Empty>> THEN <<Dir("proc")>> ELSE <<Dir("proc")>> \o f
           rest(f) == IF f = <<Empty>> THEN <<>> ELSE f
<1>5. \A f \in Dirs : proc(f) \in Seq(Segs) /\ Len(proc(f)) = 1 + Len(rest(f))
                      /\ SubSeq(proc(f), 2, Len(proc(f))) = rest(f)
  <2> TAKE f \in Dirs
  <2> DEFINE h == <<Dir("proc")>>
  <2>1. f \in Seq(Segs) /\ h \in Seq(Segs) /\ Len(h) = 1 /\ rest(f) \in Seq(Segs)
    BY NamedSegments DEF Dirs
  <2>2. proc(f) = h \o rest(f)
    <3>1. h \o <<>> = h
      BY <2>1, ConcatEmptySeq
    <3>2. QED
      BY <3>1
  <2> DEFINE r == rest(f)
  <2> HIDE DEF h, r, rest, proc
  <2>3. /\ h \o r \in Seq(Segs) /\ Len(h \o r) = 1 + Len(r) /\ Len(r) \in Nat
        /\ \A i \in 1 .. Len(r) : (h \o r)[i + 1] = r[i]
    <3>1. h \in Seq(Segs) /\ Len(h) = 1 /\ r \in Seq(Segs) /\ Len(r) \in Nat
      BY <2>1 DEF r
    <3>2. h \o r \in Seq(Segs) /\ Len(h \o r) = Len(h) + Len(r)
          /\ \A i \in 1 .. Len(h) + Len(r) :
                (h \o r)[i] = IF i <= Len(h) THEN h[i] ELSE r[i - Len(h)]
      BY ONLY <3>1, ConcatProperties
    <3>3. QED
      BY ONLY <3>1, <3>2
  <2> DEFINE p == h \o r
             s == SubSeq(p, 2, Len(p))
  <2>4. s = r
    <3>1. s \in Seq(Segs) /\ Len(s) = Len(r) /\ \A i \in 1 .. Len(r) : s[i] = r[i]
      <4> HIDE DEF p
      <4>1. p \in Seq(Segs) /\ Len(p) = 1 + Len(r) /\ Len(r) \in Nat
            /\ \A i \in 1 .. Len(r) : p[i + 1] = r[i]
        BY <2>3 DEF p
      <4>2. QED
        BY ONLY <4>1
    <3>2. r \in Seq(Segs)
      BY <2>1 DEF r
    <3> HIDE DEF s
    <3>3. QED
      BY <3>1, <3>2, SeqEqual
  <2>5. proc(f) = h \o r /\ rest(f) = r
    BY <2>2 DEF r
  <2>6. QED
    BY <2>3, <2>4, <2>5
<1>6. Append(proc(d), Dir("stat")) # Append(proc(e), Dir("stat"))
  <2>1. rest(d) # rest(e)
    BY <1>2
  <2>2. proc(d) # proc(e) /\ proc(d) \in Seq(Segs) /\ proc(e) \in Seq(Segs)
    <3> HIDE DEF proc, rest
    <3>1. QED
      BY <1>5, <2>1
  <2> HIDE DEF proc, rest
  <2>3. Dir("stat") \in Segs
    BY NamedSegments
  <2>4. Front(Append(proc(d), Dir("stat"))) = proc(d) /\ Front(Append(proc(e), Dir("stat"))) = proc(e)
    BY <2>2, <2>3, FrontAppend
  <2>5. QED
    BY <2>2, <2>4
<1>7. QED
  BY <1>1, <1>3, <1>4, <1>6

\* What the configuration and the content of a tree have in common.
Above(t, d) == d = <<Empty>> \/ d \in t.dirs
Closed(t) == \A x \in t.dirs : \A k \in 1..Len(x) : SubSeq(x, 1, k) \in t.dirs

\* A sequence is its own longest prefix.
LEMMA SubSeqSame ==
    ASSUME NEW s \in Seq(Segs)
    PROVE  SubSeq(s, 1, Len(s)) = s
<1> DEFINE f == SubSeq(s, 1, Len(s))
<1>1. f \in Seq(Segs) /\ Len(f) = Len(s) /\ \A i \in 1 .. Len(s) : f[i] = s[i]
  OBVIOUS
<1> HIDE DEF f
<1>2. f = s
  BY <1>1, SeqEqual
<1>3. QED
  BY <1>2 DEF f

\* A prefix of a path that one more segment was put below is a prefix of the path.
LEMMA PrefixOfBelow ==
    ASSUME NEW e \in Dirs, e # <<Empty>>, NEW c \in Segs, NEW n \in 1 .. Len(e)
    PROVE  SubSeq(Below(e, c), 1, n) = SubSeq(e, 1, n)
<1>1. e \in Seq(Segs) /\ Len(e) \in Nat \ {0}
  BY DEF Dirs
<1>2. Below(e, c) = Append(e, c)
  BY DEF Below
<1> DEFINE b == Append(e, c)
           f == SubSeq(b, 1, n)
           g == SubSeq(e, 1, n)
<1>3. b \in Seq(Segs) /\ Len(b) = Len(e) + 1 /\ \A i \in 1 .. Len(e) : b[i] = e[i]
  BY <1>1
<1> HIDE DEF b
<1>4. f \in Seq(Segs) /\ g \in Seq(Segs) /\ Len(f) = n /\ Len(g) = n
      /\ \A i \in 1 .. n : f[i] = g[i]
  BY <1>1, <1>3
<1>5. f = g
  <2> HIDE DEF f, g
  <2>1. QED
    BY <1>4, SeqEqual
<1>6. QED
  BY <1>2, <1>5 DEF b

\* No comment path is at, above or below another one.
LEMMA CommentNotAbove ==
    ASSUME NEW t, Closed(t),
           NEW d \in Dirs, from_directory_rel(d).ok,
           NEW e \in Dirs, from_directory_rel(e).ok, d # e, Above(t, e),
           from_directory_rel(d).val.comment \notin t.dirs
    PROVE  ~IsPrefix(from_directory_rel(d).val.comment, from_directory_rel(e).val.comment)
<1> DEFINE c == Dir("comment")
           p == Below(d, c)
           q == Below(e, c)
<1>1. c \in Segs
  BY NamedSegments
<1>2. from_directory_rel(d).val.comment = p /\ from_directory_rel(e).val.comment = q /\ p # q
  BY ScopesApart
<1>3. p \in Seq(Segs) /\ q \in Seq(Segs) /\ p # <<>> /\ q # <<>>
  BY <1>1, BelowFacts DEF Dirs
<1>4. /\ e = <<Empty>> => Len(q) = 1
      /\ e # <<Empty>> => Len(q) = Len(e) + 1
  BY <1>1, BelowFacts
<1>5. \A n \in 1 .. Len(e) : e # <<Empty>> => SubSeq(q, 1, n) = SubSeq(e, 1, n)
  BY <1>1, PrefixOfBelow
<1>6. SubSeq(p, 1, Len(p)) = p /\ SubSeq(q, 1, Len(q)) = q
  BY <1>3, SubSeqSame
<1>7. p \notin t.dirs
  BY <1>2
<1>8. Len(e) \in Nat
  BY DEF Dirs
<1> HIDE DEF p, q
<1>9. SUFFICES ASSUME IsPrefix(p, q) PROVE FALSE
  BY <1>2
<1>10. Len(p) <= Len(q) /\ p = SubSeq(q, 1, Len(p)) /\ Len(p) \in Nat \ {0} /\ Len(q) \in Nat \ {0}
  BY <1>3, <1>6, <1>9 DEF IsPrefix
<1>11. Len(p) # Len(q)
  BY <1>2, <1>6, <1>10
<1>12. e # <<Empty>>
  BY <1>4, <1>10, <1>11
<1>13. Len(p) \in 1 .. Len(e)
  <2>1. Len(q) = Len(e) + 1
    BY <1>4, <1>12
  <2>2. Len(p) <= Len(q) /\ Len(p) \in Nat \ {0} /\ Len(p) # Len(q)
    BY <1>10, <1>11
  <2>3. QED
    BY ONLY <1>8, <2>1, <2>2
<1>14. p = SubSeq(e, 1, Len(p))
  BY <1>5, <1>10, <1>12, <1>13
<1>15. p \in t.dirs
  BY <1>12, <1>13, <1>14 DEF Above, Closed
<1>16. QED
  BY <1>7, <1>15

\* A sequence of the members of a finite set has them all, each once.
LEMMA SetToSeqFacts ==
    ASSUME NEW S, IsFiniteSet(S)
    PROVE  /\ SetToSeq(S) \in [1 .. Cardinality(S) -> S]
           /\ \A i, j \in 1 .. Cardinality(S) : i # j => SetToSeq(S)[i] # SetToSeq(S)[j]
           /\ \A x \in S : \E i \in 1 .. Cardinality(S) : SetToSeq(S)[i] = x
<1> DEFINE n == Cardinality(S)
           f == SetToSeq(S)
<1>1. n \in Nat /\ ExistsBijection(1 .. n, S)
  BY FS_CardinalityType
<1>2. PICK g : g \in Bijection(1 .. n, S)
  BY <1>1 DEF ExistsBijection
<1>3. g \in [1 .. n -> S] /\ IsInjective(g)
  BY <1>2 DEF Bijection, Injection
<1>4. f \in [1 .. n -> S] /\ IsInjective(f)
  BY <1>3 DEF SetToSeq
<1>5. f \in Injection(1 .. n, S)
  BY <1>4 DEF Injection
<1>6. IsFiniteSet(1 .. n) /\ Cardinality(1 .. n) = n
  BY <1>1, FS_Interval
<1>7. f \in Surjection(1 .. n, S)
  BY <1>5, <1>6, FS_Injection
<1> HIDE DEF f, n
<1>8. /\ f \in [1 .. n -> S]
      /\ \A i, j \in 1 .. n : i # j => f[i] # f[j]
      /\ \A x \in S : \E i \in 1 .. n : f[i] = x
  BY <1>4, <1>7 DEF IsInjective, Surjection
<1>9. QED
  BY <1>8 DEF f, n

\* The scopes that the directories of a list stand for.
ScopesOf(dirs) == {from_directory_rel(dirs[i]).val : i \in DOMAIN dirs}

\* A list of directories that load_scopes takes for tree t.
Listed(t, dirs) ==
    /\ dirs \in Seq(Dirs) /\ Closed(t)
    /\ \A i \in DOMAIN dirs : /\ from_directory_rel(dirs[i]).ok
                              /\ Above(t, dirs[i])
                              /\ from_directory_rel(dirs[i]).val.comment \notin t.dirs

\* The scopes of different directories share nothing, and each comes back from its target.
LEMMA ListedApart ==
    ASSUME NEW t, NEW dirs, Listed(t, dirs)
    PROVE  /\ \A s \in ScopesOf(dirs) : from_target(s.target) = Ok(s)
           /\ \A s, r \in ScopesOf(dirs) :
                 s # r => /\ s.comment # r.comment /\ s.target # r.target /\ s.stat # r.stat
                          /\ ~Overlap(s.comment, r.comment)
<1>1. ASSUME NEW s \in ScopesOf(dirs)
      PROVE  \E d \in Dirs : /\ from_directory_rel(d).ok /\ from_directory_rel(d).val = s
                             /\ Above(t, d) /\ s.comment \notin t.dirs
  <2>1. PICK i \in DOMAIN dirs : s = from_directory_rel(dirs[i]).val
    BY <1>1 DEF ScopesOf
  <2>2. dirs[i] \in Dirs
    BY <2>1 DEF Listed
  <2>3. QED
    BY <2>1, <2>2 DEF Listed
<1>2. ASSUME NEW s \in ScopesOf(dirs)
      PROVE  from_target(s.target) = Ok(s)
  <2>1. PICK d \in Dirs : from_directory_rel(d).ok /\ from_directory_rel(d).val = s
    BY <1>1, <1>2
  <2>2. from_directory_rel(d) = Ok(s)
    BY <2>1 DEF from_directory_rel, Ok, Err
  <2>3. QED
    BY <2>1, <2>2, RoundTrip
<1>3. ASSUME NEW s \in ScopesOf(dirs), NEW r \in ScopesOf(dirs), s # r
      PROVE  /\ s.comment # r.comment /\ s.target # r.target /\ s.stat # r.stat
             /\ ~Overlap(s.comment, r.comment)
  <2>1. PICK d \in Dirs : /\ from_directory_rel(d).ok /\ from_directory_rel(d).val = s
                          /\ Above(t, d) /\ s.comment \notin t.dirs
    BY <1>1, <1>3
  <2>2. PICK e \in Dirs : /\ from_directory_rel(e).ok /\ from_directory_rel(e).val = r
                          /\ Above(t, e) /\ r.comment \notin t.dirs
    BY <1>1, <1>3
  <2>3. d # e
    BY <1>3, <2>1, <2>2
  <2>4. s.comment # r.comment /\ s.target # r.target /\ s.stat # r.stat
    BY <2>1, <2>2, <2>3, ScopesApart
  <2>5. Closed(t)
    BY DEF Listed
  <2>6. ~IsPrefix(s.comment, r.comment)
    BY <2>1, <2>2, <2>3, <2>5, CommentNotAbove
  <2>7. ~IsPrefix(r.comment, s.comment)
    BY <2>1, <2>2, <2>3, <2>5, CommentNotAbove
  <2>8. ~Overlap(s.comment, r.comment)
    BY <2>6, <2>7, Zenon DEF Overlap
  <2>9. QED
    BY <2>4, <2>8
<1>4. QED
  BY <1>2, <1>3

\* Finitely many of them.
LEMMA ScopesFinite ==
    ASSUME NEW dirs \in Seq(Dirs)
    PROVE  IsFiniteSet(ScopesOf(dirs))
<1> DEFINE f == [i \in DOMAIN dirs |-> from_directory_rel(dirs[i]).val]
<1>1. DOMAIN dirs = 1 .. Len(dirs) /\ Len(dirs) \in Nat
  OBVIOUS
<1>2. IsFiniteSet(DOMAIN dirs)
  BY <1>1, FS_Interval
<1>3. f \in Surjection(DOMAIN dirs, ScopesOf(dirs))
  BY DEF Surjection, ScopesOf
<1>4. QED
  BY <1>2, <1>3, FS_Surjection

\* What load_scopes accepts is such a list.
LEMMA LoadsListed ==
    ASSUME NEW n \in DOMAIN Trees, load_scopes(Trees[n]).ok
    PROVE  \E dirs \in Seq(Dirs) : /\ Listed(Trees[n], dirs)
                                   /\ load_scopes(Trees[n]) = Ok(ScopesOf(dirs))
<1> DEFINE t == Trees[n]
           dirs == IF Len(t.tables.scopes) = 1 THEN t.tables.scopes[1]
                   ELSE IF Len(t.tables.comments) = 1 THEN t.tables.comments[1] ELSE <<>>
           scope(i) == from_directory_rel(dirs[i])
           good == /\ ~(Len(t.tables.scopes) = 1 /\ Len(t.tables.comments) = 1)
                   /\ \A i, j \in DOMAIN dirs : i # j => dirs[i] # dirs[j]
                   /\ \A i \in DOMAIN dirs :
                         /\ scope(i).ok
                         /\ dirs[i] = <<Empty>> \/ dirs[i] \in t.dirs
                         /\ scope(i).val.comment \notin t.links \cup t.dirs \cup t.files
<1>1. load_scopes(t) = IF good THEN Ok({scope(i).val : i \in DOMAIN dirs}) ELSE Err
  BY DEF load_scopes
<1>2. good
  <2> HIDE DEF good
  <2>1. QED
    BY <1>1 DEF Err
<1>3. load_scopes(t) = Ok(ScopesOf(dirs))
  BY <1>1, <1>2 DEF ScopesOf
<1>4. dirs \in Seq(Dirs)
  <2>1. \A p \in Paths \ {<<>>} : p \in Dirs
    BY PathsAreDirs
  <2>2. t.tables.scopes \in Seq(Seq(Paths \ {<<>>})) /\ t.tables.comments \in Seq(Seq(Paths \ {<<>>}))
    BY TablesAssumption
  <2>3. dirs \in Seq(Paths \ {<<>>})
    BY <2>2
  <2> HIDE DEF dirs
  <2>4. QED
    BY <2>1, <2>3
<1>5. Closed(t)
  BY TablesAssumption DEF Closed
<1>6. Listed(t, dirs)
  BY <1>2, <1>4, <1>5 DEF Listed, Above
<1>7. QED
  BY <1>3, <1>4, <1>6

\* A conversion that succeeds returns its value.
LEMMA OkFacts == ASSUME NEW r, NEW v, r = Ok(v) PROVE r.ok /\ r.val = v
  BY DEF Ok

\* A scope as the two fields of its line.
Line(s) == <<s.comment, s.target>>

\* A finite set of scopes that can be told apart comes back from its lines.
LEMMA LinesReadBack ==
    ASSUME NEW S, IsFiniteSet(S),
           \A s \in S : from_target(s.target) = Ok(s),
           \A s, r \in S : s # r => s.comment # r.comment /\ s.target # r.target
    PROVE  LET f == SetToSeq(S)
           IN  parse_scope_manifest([i \in DOMAIN f |-> Line(f[i])]) = Ok(S)
<1> DEFINE f == SetToSeq(S)
           n == Cardinality(S)
           lines == [i \in DOMAIN f |-> Line(f[i])]
           Scope(i) == from_target(lines[i][2])
<1>1. /\ f \in [1 .. n -> S]
      /\ \A i, j \in 1 .. n : i # j => f[i] # f[j]
      /\ \A x \in S : \E i \in 1 .. n : f[i] = x
  BY SetToSeqFacts
<1> HIDE DEF f, n
<1>2. DOMAIN lines = 1 .. n
  BY <1>1
<1>3. \A i \in 1 .. n : /\ f[i] \in S /\ Len(lines[i]) = 2
                        /\ lines[i][1] = f[i].comment /\ lines[i][2] = f[i].target
  BY <1>1 DEF Line
<1> HIDE DEF lines
<1>4. \A i \in 1 .. n : Scope(i) = Ok(f[i])
  BY <1>3
<1>5. \A i \in 1 .. n : Scope(i).ok /\ Scope(i).val = f[i] /\ Scope(i).val.comment = lines[i][1]
  <2> TAKE i \in 1 .. n
  <2> HIDE DEF Scope
  <2>1. Scope(i) = Ok(f[i])
    BY <1>4
  <2>2. Scope(i).ok /\ Scope(i).val = f[i]
    BY <2>1, OkFacts
  <2>3. QED
    BY <1>3, <2>2
<1>6. \A i, j \in 1 .. n : i # j => lines[i][1] # lines[j][1] /\ lines[i][2] # lines[j][2]
  BY <1>1, <1>3
<1>7. {Scope(i).val : i \in 1 .. n} = S
  BY <1>1, <1>5
<1>8. parse_scope_manifest(lines) = Ok({Scope(i).val : i \in DOMAIN lines})
  BY <1>2, <1>3, <1>5, <1>6 DEF parse_scope_manifest
<1>9. parse_scope_manifest(lines) = Ok(S)
  BY <1>2, <1>7, <1>8
<1>10. QED
  BY <1>9 DEF lines, f

\* The manifest of a tree whose scopes were loaded.
LEMMA TargetsReadBack ==
    ASSUME NEW n \in DOMAIN Trees, load_scopes(Trees[n]).ok
    PROVE  /\ parse_scope_manifest(target_rows(Trees[n])) = load_scopes(Trees[n])
           /\ \A s \in load_scopes(Trees[n]).val : from_target(s.target) = Ok(s)
           /\ \A s, r \in load_scopes(Trees[n]).val :
                 s # r => ~Overlap(s.comment, r.comment) /\ s.stat # r.stat
<1>1. PICK dirs \in Seq(Dirs) : /\ Listed(Trees[n], dirs)
                                /\ load_scopes(Trees[n]) = Ok(ScopesOf(dirs))
  BY LoadsListed
<1> DEFINE S == ScopesOf(dirs)
<1>2. load_scopes(Trees[n]).val = S
  BY <1>1 DEF Ok
<1>3. /\ \A s \in S : from_target(s.target) = Ok(s)
      /\ \A s, r \in S : s # r => /\ s.comment # r.comment /\ s.target # r.target /\ s.stat # r.stat
                                  /\ ~Overlap(s.comment, r.comment)
  BY <1>1, ListedApart
<1>4. IsFiniteSet(S)
  BY ScopesFinite
<1> HIDE DEF S
<1>5. target_rows(Trees[n]) = [i \in DOMAIN SetToSeq(S) |-> Line(SetToSeq(S)[i])]
  BY <1>2 DEF target_rows, Line
<1>6. parse_scope_manifest(target_rows(Trees[n])) = Ok(S)
  BY <1>3, <1>4, <1>5, LinesReadBack
<1>7. load_scopes(Trees[n]) = Ok(S)
  BY <1>1 DEF S
<1>8. QED
  BY <1>2, <1>3, <1>6, <1>7

\* Every article has the route of its page.
LEMMA RouteOfPage ==
    ASSUME NEW n \in DOMAIN Trees, NEW art \in article_paths(Trees[n])
    PROVE  SubSeq(art.route, 2, Len(art.route) - 1) = Front(Page(art))
<1>1. PICK p \in Trees[n].files : article_parse(p).ok /\ art = article_parse(p).val
  BY DEF article_paths
<1> DEFINE key == [p EXCEPT ![Len(p)] = Dir(p[Len(p)].name)]
<1>2. p \in Paths /\ p # <<>>
  BY <1>1, PathsAssumption
<1>3. p \in Seq(Segs) /\ Len(p) \in Nat \ {0}
  BY <1>2, PathsAreDirs DEF Dirs
<1>4. Dir(p[Len(p)].name) \in Segs
  <2>1. p[Len(p)] \in Segs
    BY <1>3
  <2>2. QED
    BY <2>1 DEF Segs, Dir, File
<1>5. art.key = key /\ art.route = Slashed(key) /\ \A i \in DOMAIN key : validate_article_segment(key[i])
  BY <1>1 DEF article_parse, Ok, Err
<1>6. key \in Seq(Segs) /\ key # <<>> /\ 1 \in DOMAIN key
  BY <1>3, <1>4
<1> HIDE DEF key
<1>7. key # <<Empty>>
  <2>1. key[1].name \in Plain
    BY <1>5, <1>6 DEF validate_article_segment
  <2>2. Empty.name = ""
    BY DEF Empty, Dir, File
  <2>3. <<Empty>>[1] = Empty
    OBVIOUS
  <2>4. QED
    BY <2>1, <2>2, <2>3, NamesAssumption, Zenon
<1>8. Inner(Slashed(key)) = key
  BY <1>6, <1>7, SlashedInner DEF Dirs
<1>9. Front(Append(key, File("index", "html"))) = key
  BY <1>6, NamedSegments, FrontAppend
<1>10. QED
  BY <1>5, <1>8, <1>9 DEF Page, Inner

\* So everything an accepted tree is published with reads back.
LEMMA AcceptedReadsBack ==
    ASSUME NEW n \in DOMAIN Trees, TreeAccepted[n]
    PROVE  ReadsBack[n]
<1> DEFINE t == Trees[n]
           scopes == parse_scope_manifest(target_rows(t))
<1>1. load_scopes(t).ok
  BY DEF TreeAccepted
<1>2. /\ scopes = load_scopes(t)
      /\ \A s \in scopes.val : from_target(s.target) = Ok(s)
      /\ \A s, r \in scopes.val : s # r => ~Overlap(s.comment, r.comment) /\ s.stat # r.stat
  BY <1>1, TargetsReadBack
<1>3. ASSUME NEW art \in article_paths(t)
      PROVE  /\ SubSeq(art.route, 2, Len(art.route) - 1) = Front(Page(art))
             /\ \A s \in scopes.val : contains_article(s, art) =>
                   from_target(s.target).val.directory = art.directory
  <2>1. SubSeq(art.route, 2, Len(art.route) - 1) = Front(Page(art))
    BY <1>3, RouteOfPage
  <2>2. ASSUME NEW s \in scopes.val, contains_article(s, art)
        PROVE  from_target(s.target).val.directory = art.directory
    <3>1. from_target(s.target).val = s
      BY <1>2, <2>2, OkFacts
    <3>2. QED
      BY <2>2, <3>1 DEF contains_article
  <2>3. QED
    BY <2>1, <2>2
<1> HIDE DEF scopes
<1>4. ReadsBack[n] = (/\ scopes = load_scopes(t)
                      /\ \A s \in scopes.val, r \in scopes.val :
                            s # r => ~Overlap(s.comment, r.comment) /\ s.stat # r.stat
                      /\ \A art \in article_paths(t) :
                            /\ SubSeq(art.route, 2, Len(art.route) - 1) = Front(Page(art))
                            /\ \A s \in scopes.val : contains_article(s, art) =>
                                  from_target(s.target).val.directory = art.directory)
  BY DEF ReadsBack, scopes
<1>5. QED
  BY <1>2, <1>3, <1>4

\* The manifest of the scopes was written for an accepted tree.
TargetsOK == targets # None => targets \in DOMAIN Trees /\ TreeAccepted[targets]

\* Only the step that writes the manifest changes it.
LEMMA TargetsKeep ==
    ASSUME IInv, TargetsOK, [Next]_vars
    PROVE  TargetsOK'
<1>1. CASE WriteTargets
  <2>1. build.tree = tree /\ tree \in DOMAIN Trees /\ TreeAccepted[tree]
    BY <1>1 DEF WriteTargets, IInv, ShapeOK, BuildOK, Building
  <2>2. QED
    BY <1>1, <2>1 DEF WriteTargets, TargetsOK
<1>2. CASE UNCHANGED targets
  BY <1>2 DEF TargetsOK
<1>3. WriteTargets \/ UNCHANGED targets
  BY DEF Next, vars, disk, Edit, ViteBuild, Refuse, Start, RemoveOld, CopyTemp, RemoveDone,
         RenameTemp, CopyDone, BackupTree, SwapTree, DropBackup, WriteManifest, CutShort, SwapFails
<1>4. QED
  BY <1>1, <1>2, <1>3

\* From .comment-targets.tsv and the routes of the articles, jaild and the web server get back the
\* configured directories with comment paths and snapshots of their own and each article its page
\* (parse_scope_manifest, from_target, ArticlePath::parse), for every content a build accepts.
THEOREM ManifestsAlwaysReadBack == Spec => []ManifestsReadBack
<1>1. Init => TargetsOK
  BY DEF Init, TargetsOK
<1>2. IInv /\ TargetsOK /\ [Next]_vars => TargetsOK'
  BY TargetsKeep
<1>3. TargetsOK => ManifestsReadBack
  BY AcceptedReadsBack DEF TargetsOK, ManifestsReadBack
<1>4. QED
  BY <1>1, <1>2, <1>3, InductiveInvariant, PTL DEF Spec

-----------------------------------------------------------------------------
(* Induction, over a set of numbers in place of a property of them: from the *)
(* well-foundedness of the order of Nat.                                     *)

\* A set of naturals that is not empty has a least one: the order of Nat is well-founded.
LEMMA Least ==
    ASSUME NEW T \in SUBSET Nat, T # {}
    PROVE  \E x \in T : \A y \in T : x <= y
<1>1. PICK x \in T : \A y \in T : ~ (<<y, x>> \in OpToRel(<, Nat))
  BY NatLessThanWellFounded, WFMin
<1>2. ASSUME NEW y \in T PROVE x <= y
  <2>1. y < x => <<y, x>> \in {ss \in Nat \X Nat : ss[1] < ss[2]}
    OBVIOUS
  <2>2. y < x => <<y, x>> \in OpToRel(<, Nat)
    BY <2>1 DEF OpToRel
  <2>3. ~(y < x)
    BY <1>1, <2>2, Zenon
  <2>4. QED
    BY <2>3
<1>3. QED
  BY <1>2

\* Induction, over a set instead of a property: from well-foundedness.
LEMMA Induction ==
    ASSUME NEW n \in Nat, NEW T, 0 \in T,
           \A k \in 0 .. n : k \in T /\ k + 1 \in 0 .. n => k + 1 \in T
    PROVE  \A k \in 0 .. n : k \in T
<1>1. ASSUME (0 .. n) \ T # {} PROVE FALSE
  <2> DEFINE U == (0 .. n) \ T
  <2>1. U \in SUBSET Nat /\ U # {}
    BY <1>1
  <2>2. PICK x \in U : \A y \in U : x <= y
    <3> HIDE DEF U
    <3>1. QED
      BY <2>1, Least
  <2>3. x # 0 /\ x - 1 \in 0 .. n /\ ~(x <= x - 1) /\ (x - 1) + 1 = x
    BY <2>2
  <2>4. QED
    BY <2>2, <2>3
<1>2. QED
  BY <1>1

\* Induction over all numbers.
LEMMA EveryNumber ==
    ASSUME NEW T \in SUBSET Nat, 0 \in T, \A n \in T : n + 1 \in T
    PROVE  T = Nat
<1>1. ASSUME Nat \ T # {} PROVE FALSE
  <2>1. PICK x \in Nat \ T : \A y \in Nat \ T : x <= y
    BY <1>1, Least
  <2>2. x # 0 /\ x - 1 \in Nat /\ ~(x <= x - 1) /\ (x - 1) + 1 = x
    BY <2>1
  <2>3. QED
    BY <2>1, <2>2
<1>2. QED
  BY <1>1

-----------------------------------------------------------------------------
(* Concatenation, one sequence at a time.                                    *)

\* f[k] is what the first k sequences of s are when they are put together.
Flats(f, s, n) == f = [i \in 1 .. n |-> IF i = 1 THEN s[i] ELSE f[i - 1] \o s[i]]

\* The same, as a first value and a step.
Steps(f, s, n) ==
    /\ 1 \in 1 .. n => f[1] = s[1]
    /\ \A k \in 1 .. n : k + 1 \in 1 .. n => f[k + 1] = f[k] \o s[k + 1]

\* A table of partial concatenations has its values.
LEMMA FlatsStep ==
    ASSUME NEW n \in Nat, NEW s, NEW f, Flats(f, s, n)
    PROVE  Steps(f, s, n)
<1>1. 1 \in 1 .. n => f[1] = s[1]
  BY Zenon DEF Flats
<1>2. ASSUME NEW k \in 1 .. n, k + 1 \in 1 .. n
      PROVE  f[k + 1] = f[k] \o s[k + 1]
  <2>1. k + 1 # 1 /\ (k + 1) - 1 = k
    OBVIOUS
  <2>2. f[k + 1] = IF k + 1 = 1 THEN s[k + 1] ELSE f[(k + 1) - 1] \o s[k + 1]
    BY <1>2, Zenon DEF Flats
  <2>3. QED
    BY <2>1, <2>2, Zenon
<1>3. QED
  BY <1>1, <1>2 DEF Steps

\* There is one more step to it.
LEMMA FlatsMore ==
    ASSUME NEW s, NEW n \in Nat, NEW f, Flats(f, s, n)
    PROVE  \E g : Flats(g, s, n + 1)
<1> DEFINE g == [i \in 1 .. n + 1 |-> IF i = 1 THEN s[i] ELSE f[i - 1] \o s[i]]
<1>1. ASSUME NEW i \in 1 .. n PROVE g[i] = f[i]
  <2>1. f[i] = IF i = 1 THEN s[i] ELSE f[i - 1] \o s[i]
    BY Zenon DEF Flats
  <2>2. i \in 1 .. n + 1
    OBVIOUS
  <2>3. QED
    BY <2>1, <2>2, Zenon
<1>2. \A i \in 1 .. n + 1 : i # 1 => i - 1 \in 1 .. n
  OBVIOUS
<1>3. g = [i \in 1 .. n + 1 |-> IF i = 1 THEN s[i] ELSE g[i - 1] \o s[i]]
  BY <1>1, <1>2
<1> HIDE DEF g
<1>4. QED
  BY <1>3 DEF Flats

\* There is one for every length.
LEMMA FlatsExists ==
    ASSUME NEW s, NEW n \in Nat
    PROVE  \E f : Flats(f, s, n)
<1> DEFINE T == {k \in Nat : \E f : Flats(f, s, k)}
<1>1. 0 \in T
  <2> DEFINE f == [i \in 1 .. 0 |-> <<>>]
  <2>1. \A i \in 1 .. 0 : FALSE
    OBVIOUS
  <2>2. f = [i \in 1 .. 0 |-> IF i = 1 THEN s[i] ELSE f[i - 1] \o s[i]]
    BY <2>1, Zenon
  <2> HIDE DEF f
  <2>3. Flats(f, s, 0)
    BY <2>2, Zenon DEF Flats
  <2>4. QED
    BY <2>3
<1>2. \A k \in T : k + 1 \in T
  BY FlatsMore
<1>3. n \in T
  <2> HIDE DEF T
  <2>1. \A k \in 0 .. n : k \in T /\ k + 1 \in 0 .. n => k + 1 \in T
    BY <1>2
  <2>2. \A k \in 0 .. n : k \in T
    BY <1>1, <2>1, Induction, Zenon
  <2>3. QED
    BY <2>2
<1>4. QED
  BY <1>3

\* FlattenSeq is the last of the partial concatenations.
LEMMA FlattenIs ==
    ASSUME NEW S, NEW s \in Seq(S), s # <<>>
    PROVE  \E f : Flats(f, s, Len(s)) /\ FlattenSeq(s) = f[Len(s)]
<1> DEFINE F == CHOOSE f : Flats(f, s, Len(s))
<1>1. Len(s) \in Nat /\ Len(s) # 0
  OBVIOUS
<1>2. Flats(F, s, Len(s))
  BY <1>1, FlatsExists, Zenon
<1>3. FlattenSeq(s) = F[Len(s)]
  BY <1>1 DEF FlattenSeq, Flats
<1>4. QED
  BY <1>2, <1>3, Zenon

\* Of nothing, nothing.
LEMMA FlattenEmpty == FlattenSeq(<<>>) = <<>>
  BY DEF FlattenSeq

\* Both f and h put the first sequences of s together.
SameUpTo(s, t, m) == \A k \in 1 .. m : s[k] = t[k]

\* Partial concatenations depend on what they concatenate only.
LEMMA FlatsAgree ==
    ASSUME NEW n \in Nat, NEW m \in 0 .. n, NEW s, NEW t, NEW f, NEW h,
           Flats(f, s, n), Flats(h, t, m), SameUpTo(s, t, m)
    PROVE  SameUpTo(f, h, m)
<1> DEFINE T == {k \in 0 .. m : k # 0 => f[k] = h[k]}
<1>0. m \in Nat
  OBVIOUS
<1>s. Steps(f, s, n)
  BY FlatsStep, Zenon
<1>t. Steps(h, t, m)
  BY <1>0, FlatsStep, Zenon
<1>1. 0 \in T
  OBVIOUS
<1>2. ASSUME NEW k \in 0 .. m, k \in T, k + 1 \in 0 .. m PROVE k + 1 \in T
  <2>1. k + 1 \in 1 .. m /\ k + 1 \in 1 .. n /\ s[k + 1] = t[k + 1]
    BY <1>2 DEF SameUpTo
  <2>2. CASE k = 0
    BY <1>s, <1>t, <2>1, <2>2 DEF Steps
  <2>3. CASE k # 0
    <3>1. k \in 1 .. m /\ k \in 1 .. n /\ f[k] = h[k]
      BY <1>2, <2>3
    <3>2. f[k + 1] = f[k] \o s[k + 1]
      BY <1>s, <2>1, <3>1, Zenon DEF Steps
    <3>3. h[k + 1] = h[k] \o t[k + 1]
      BY <1>t, <2>1, <3>1, Zenon DEF Steps
    <3>4. f[k + 1] = h[k + 1]
      BY <2>1, <3>1, <3>2, <3>3, Zenon
    <3>5. QED
      BY <2>1, <3>4
  <2>4. QED
    BY <2>2, <2>3
<1>3. \A k \in 0 .. m : k \in T
  <2>1. \A k \in 0 .. m : k \in T /\ k + 1 \in 0 .. m => k + 1 \in T
    BY <1>2
  <2> HIDE DEF T
  <2>2. QED
    BY <1>0, <1>1, <2>1, Induction, Zenon
<1>4. QED
  BY <1>3 DEF SameUpTo

\* One sequence more.
LEMMA FlattenAppend ==
    ASSUME NEW S, NEW s \in Seq(Seq(S)), NEW x \in Seq(S)
    PROVE  FlattenSeq(Append(s, x)) = FlattenSeq(s) \o x
<1> DEFINE a == Append(s, x)
           n == Len(s)
<1>1. /\ a \in Seq(Seq(S)) /\ a # <<>> /\ Len(a) = n + 1 /\ n \in Nat /\ a[n + 1] = x
      /\ \A k \in 1 .. n : a[k] = s[k]
  <2> DEFINE Q == Seq(S)
  <2>1. s \in Seq(Q) /\ x \in Q
    OBVIOUS
  <2> HIDE DEF Q
  <2>2. a \in Seq(Q) /\ Len(a) = n + 1 /\ n \in Nat /\ a[n + 1] = x /\ \A k \in 1 .. n : a[k] = s[k]
    BY <2>1
  <2>3. a # <<>>
    BY <2>2
  <2>4. QED
    BY <2>2, <2>3 DEF Q
<1>q. SameUpTo(a, s, n)
  BY <1>1 DEF SameUpTo
<1> HIDE DEF a, n
<1>2. PICK f : Flats(f, a, n + 1) /\ FlattenSeq(a) = f[n + 1]
  BY <1>1, FlattenIs
<1>3. n + 1 \in Nat /\ n + 1 \in 1 .. n + 1 /\ n \in 0 .. n + 1
  BY <1>1
<1>4. Steps(f, a, n + 1)
  BY <1>2, <1>3, FlatsStep, Zenon
<1>5. CASE s = <<>>
  <2>1. n = 0
    BY <1>5 DEF n
  <2>2. f[1] = x
    BY <1>1, <1>4, <2>1 DEF Steps
  <2>3. <<>> \o x = x
    OBVIOUS
  <2>4. QED
    BY <1>2, <1>5, <2>1, <2>2, <2>3, FlattenEmpty DEF a
<1>6. CASE s # <<>>
  <2>1. n \in 1 .. n /\ n \in 1 .. n + 1
    BY <1>1, <1>6 DEF n
  <2>2. PICK h : Flats(h, s, n) /\ FlattenSeq(s) = h[n]
    BY <1>6, FlattenIs DEF n
  <2>3. SameUpTo(f, h, n)
    BY <1>q, <1>2, <1>3, <2>2, FlatsAgree, Zenon
  <2>4. f[n + 1] = f[n] \o a[n + 1]
    BY <1>3, <1>4, <2>1, Zenon DEF Steps
  <2>5. QED
    BY <1>1, <1>2, <2>1, <2>2, <2>3, <2>4 DEF a, SameUpTo
<1>7. QED
  BY <1>5, <1>6

\* What is flattened has the elements of its parts.
LEMMA FlattenType ==
    ASSUME NEW S, NEW s \in Seq(Seq(S))
    PROVE  FlattenSeq(s) \in Seq(S)
<1>1. CASE s = <<>>
  <2>1. <<>> \in Seq(S)
    OBVIOUS
  <2>2. QED
    BY <1>1, <2>1, FlattenEmpty
<1>2. CASE s # <<>>
  <2> DEFINE n == Len(s)
  <2>1. PICK f : Flats(f, s, n) /\ FlattenSeq(s) = f[n]
    BY <1>2, FlattenIs
  <2>2. n \in Nat \ {0}
    BY <1>2
  <2>s. Steps(f, s, n)
    BY <2>1, <2>2, FlatsStep
  <2> DEFINE T == {k \in 0 .. n : k # 0 => f[k] \in Seq(S)}
  <2>3. 0 \in T
    BY <2>2
  <2>4. ASSUME NEW k \in 0 .. n, k \in T, k + 1 \in 0 .. n PROVE k + 1 \in T
    <3>1. k + 1 \in 1 .. n /\ s[k + 1] \in Seq(S)
      BY <2>2, <2>4
    <3>2. CASE k = 0
      <4>1. f[1] = s[1]
        BY <2>s, <3>1, <3>2 DEF Steps
      <4>2. QED
        BY <3>1, <3>2, <4>1
    <3>3. CASE k # 0
      <4>1. k \in 1 .. n /\ f[k] \in Seq(S)
        BY <2>4, <3>3
      <4>2. f[k + 1] = f[k] \o s[k + 1]
        BY <2>s, <3>1, <4>1, Zenon DEF Steps
      <4>3. f[k + 1] \in Seq(S)
        BY <3>1, <4>1, <4>2
      <4>4. QED
        BY <3>1, <4>3
    <3>4. QED
      BY <3>2, <3>3
  <2> HIDE DEF n
  <2>5. \A k \in 0 .. n : k \in T
    <3>1. \A k \in 0 .. n : k \in T /\ k + 1 \in 0 .. n => k + 1 \in T
      BY <2>4
    <3> HIDE DEF T
    <3>2. QED
      BY <2>2, <2>3, <3>1, Induction, Zenon
  <2>6. QED
    BY <2>1, <2>2, <2>5
<1>3. QED
  BY <1>1, <1>2

\* Where the members of s begin and end in what they are flattened to.
PartsIn(off, s, flat) ==
    /\ off[0] = 0
    /\ \A a \in 1 .. Len(s) : off[a - 1] \in Nat /\ off[a] = off[a - 1] + Len(s[a])
    /\ Len(flat) = off[Len(s)]
    /\ \A a \in 1 .. Len(s) : \A i \in 1 .. Len(s[a]) :
          off[a - 1] + i \in 1 .. Len(flat) /\ flat[off[a - 1] + i] = s[a][i]
    /\ \A p \in 1 .. Len(flat) : \E a \in 1 .. Len(s) : \E i \in 1 .. Len(s[a]) : p = off[a - 1] + i

\* With one more member.
LEMMA PartsInMore ==
    ASSUME NEW S, NEW s \in Seq(Seq(S)), NEW x \in Seq(S), NEW flat \in Seq(S), NEW off, PartsIn(off, s, flat)
    PROVE  \E g : PartsIn(g, Append(s, x), flat \o x)
<1> DEFINE n == Len(s)
           r == Append(s, x)
           w == flat \o x
           g == [a \in 0 .. n + 1 |-> IF a = n + 1 THEN Len(w) ELSE off[a]]
<1>1. n \in Nat /\ Len(flat) \in Nat /\ Len(x) \in Nat
  OBVIOUS
<1>2. /\ Len(r) = n + 1 /\ r[n + 1] = x /\ \A a \in 1 .. n : r[a] = s[a]
  <2> DEFINE Q == Seq(S)
  <2>1. s \in Seq(Q) /\ x \in Q
    OBVIOUS
  <2> HIDE DEF Q
  <2>2. QED
    BY <2>1
<1>3. /\ Len(w) = Len(flat) + Len(x) /\ \A p \in 1 .. Len(flat) : w[p] = flat[p]
      /\ \A i \in 1 .. Len(x) : w[Len(flat) + i] = x[i]
  <2>1. Len(w) = Len(flat) + Len(x)
    OBVIOUS
  <2>2. \A p \in 1 .. Len(flat) : w[p] = flat[p]
    OBVIOUS
  <2>3. \A i \in 1 .. Len(x) : w[Len(flat) + i] = x[i]
    OBVIOUS
  <2>4. QED
    BY <2>1, <2>2, <2>3
<1>4. \A a \in 1 .. n : Len(s[a]) \in Nat
  OBVIOUS
<1> DEFINE l == Len(flat)
           m == Len(w)
           e == Len(x)
<1> HIDE DEF n, r, w, l, m, e
<1>5. n \in Nat /\ l \in Nat /\ e \in Nat /\ m = l + e
  BY <1>1, <1>3 DEF l, m, e
<1>6. /\ off[0] = 0 /\ \A a \in 1 .. n : off[a - 1] \in Nat /\ off[a] = off[a - 1] + Len(s[a])
      /\ l = off[n]
  BY DEF PartsIn, n, l
<1>7. g[n + 1] = m /\ \A a \in 0 .. n : g[a] = off[a]
  BY <1>5 DEF m
<1> HIDE DEF g
<1>8. g[0] = 0
  BY <1>5, <1>6, <1>7
<1>9. ASSUME NEW a \in 1 .. n + 1
      PROVE  g[a - 1] \in Nat /\ g[a] = g[a - 1] + Len(r[a])
  <2>1. CASE a = n + 1
    <3>1. g[a - 1] = l /\ g[a] = l + e /\ Len(r[a]) = e
      BY <1>2, <1>5, <1>6, <1>7, <2>1 DEF e
    <3>2. QED
      BY <1>5, <3>1
  <2>2. CASE a # n + 1
    <3>1. a \in 1 .. n /\ a - 1 \in 0 .. n /\ a \in 0 .. n
      BY <1>5, <2>2
    <3>2. QED
      BY <1>2, <1>6, <1>7, <3>1
  <2>3. QED
    BY <2>1, <2>2
<1>10. ASSUME NEW a \in 1 .. n + 1, NEW i \in 1 .. Len(r[a])
       PROVE  g[a - 1] + i \in 1 .. m /\ w[g[a - 1] + i] = r[a][i]
  <2>1. CASE a = n + 1
    <3>1. g[a - 1] = l /\ r[a] = x /\ i \in 1 .. e
      BY <1>2, <1>5, <1>6, <1>7, <2>1 DEF e
    <3>2. w[l + i] = x[i]
      BY <1>3, <3>1 DEF e, l
    <3>3. l + i \in 1 .. m
      BY <1>5, <3>1
    <3>4. QED
      BY <3>1, <3>2, <3>3
  <2>2. CASE a # n + 1
    <3>1. a \in 1 .. n /\ a - 1 \in 0 .. n /\ r[a] = s[a] /\ g[a - 1] = off[a - 1]
      BY <1>2, <1>5, <1>7, <2>2
    <3>2. off[a - 1] + i \in 1 .. l /\ flat[off[a - 1] + i] = s[a][i]
      BY <1>10, <3>1 DEF PartsIn, n, l
    <3>3. w[off[a - 1] + i] = flat[off[a - 1] + i]
      BY <1>3, <3>2 DEF l
    <3>4. off[a - 1] + i \in 1 .. m
      BY <1>5, <3>2
    <3>5. QED
      BY <3>1, <3>2, <3>3, <3>4
  <2>3. QED
    BY <2>1, <2>2
<1>11. ASSUME NEW p \in 1 .. m
       PROVE  \E a \in 1 .. n + 1 : \E i \in 1 .. Len(r[a]) : p = g[a - 1] + i
  <2>1. CASE p \in 1 .. l
    <3>1. PICK a \in 1 .. n : \E i \in 1 .. Len(s[a]) : p = off[a - 1] + i
      BY <2>1 DEF PartsIn, n, l
    <3>2. a \in 1 .. n + 1 /\ a - 1 \in 0 .. n /\ r[a] = s[a] /\ g[a - 1] = off[a - 1]
      BY <1>2, <1>5, <1>7
    <3>3. QED
      BY <3>1, <3>2
  <2>2. CASE ~(p \in 1 .. l)
    <3>1. p - l \in 1 .. e /\ p = l + (p - l)
      BY <1>5, <2>2
    <3>2. n + 1 \in 1 .. n + 1 /\ (n + 1) - 1 = n /\ n \in 0 .. n
      BY <1>5
    <3>3. Len(r[n + 1]) = e /\ g[(n + 1) - 1] = l
      BY <1>2, <1>6, <1>7, <3>2 DEF e
    <3>4. QED
      BY <3>1, <3>2, <3>3
  <2>3. QED
    BY <2>1, <2>2
<1>12. Len(w) = g[n + 1]
  BY <1>7 DEF m
<1>13. PartsIn(g, r, w)
  <2>1. /\ g[0] = 0 /\ Len(w) = g[Len(r)]
        /\ \A a \in 1 .. Len(r) : g[a - 1] \in Nat /\ g[a] = g[a - 1] + Len(r[a])
    BY <1>2, <1>8, <1>9, <1>12
  <2>2. \A a \in 1 .. Len(r) : \A i \in 1 .. Len(r[a]) :
            g[a - 1] + i \in 1 .. Len(w) /\ w[g[a - 1] + i] = r[a][i]
    BY <1>2, <1>10 DEF m
  <2>3. \A p \in 1 .. Len(w) : \E a \in 1 .. Len(r) : \E i \in 1 .. Len(r[a]) : p = g[a - 1] + i
    BY <1>2, <1>11 DEF m
  <2>4. QED
    BY <2>1, <2>2, <2>3, Zenon DEF PartsIn
<1>14. QED
  BY <1>13 DEF r, w

\* Every member of a sequence of sequences has its place in the whole.
LEMMA FlattenPlaces ==
    ASSUME NEW S, NEW s \in Seq(Seq(S))
    PROVE  \E off : PartsIn(off, s, FlattenSeq(s))
<1> DEFINE n == Len(s)
           pre(k) == SubSeq(s, 1, k)
           T == {k \in 0 .. n : \E off : PartsIn(off, pre(k), FlattenSeq(pre(k)))}
<1>1. n \in Nat
  OBVIOUS
<1>2. 0 \in T
  <2>1. pre(0) = <<>> /\ FlattenSeq(<<>>) = <<>> /\ Len(<<>>) = 0
    BY FlattenEmpty
  <2> DEFINE g == [a \in {0} |-> 0]
  <2>2. g[0] = 0
    OBVIOUS
  <2> HIDE DEF g
  <2>3. PartsIn(g, <<>>, <<>>)
    BY <2>1, <2>2 DEF PartsIn
  <2>4. 0 \in 0 .. n
    BY <1>1
  <2> HIDE DEF pre, n
  <2>5. QED
    BY <2>1, <2>3, <2>4
<1>3. ASSUME NEW k \in 0 .. n, k \in T, k + 1 \in 0 .. n PROVE k + 1 \in T
  <2>1. /\ pre(k) \in Seq(Seq(S)) /\ s[k + 1] \in Seq(S)
        /\ pre(k + 1) = Append(pre(k), s[k + 1])
    <3> DEFINE Q == Seq(S)
    <3>1. s \in Seq(Q)
      OBVIOUS
    <3> HIDE DEF Q
    <3>2. pre(k) \in Seq(Q) /\ s[k + 1] \in Q
      BY <1>3, <3>1
    <3>3. pre(k + 1) = Append(pre(k), s[k + 1])
      BY <1>3, <3>1
    <3>4. QED
      BY <3>2, <3>3 DEF Q
  <2>2. PICK off : PartsIn(off, pre(k), FlattenSeq(pre(k)))
    BY <1>3
  <2>3. FlattenSeq(pre(k)) \in Seq(S)
    BY <2>1, FlattenType
  <2> HIDE DEF pre
  <2>4. \E g : PartsIn(g, Append(pre(k), s[k + 1]), FlattenSeq(pre(k)) \o s[k + 1])
    BY <2>1, <2>2, <2>3, PartsInMore
  <2>5. FlattenSeq(Append(pre(k), s[k + 1])) = FlattenSeq(pre(k)) \o s[k + 1]
    BY <2>1, FlattenAppend
  <2>6. QED
    BY <1>3, <2>1, <2>4, <2>5
<1>4. n \in T
  <2>1. \A k \in 0 .. n : k \in T /\ k + 1 \in 0 .. n => k + 1 \in T
    BY <1>3
  <2> HIDE DEF T, n
  <2>2. \A k \in 0 .. n : k \in T
    BY <1>1, <1>2, <2>1, Induction, Zenon
  <2>3. QED
    BY <1>1, <2>2
<1>5. pre(n) = s
  OBVIOUS
<1>6. QED
  BY <1>4, <1>5

-----------------------------------------------------------------------------
(* The articles, in the order of their keys.                                 *)

\* The members of S whose rank is not above that of a.
Lower(S, r, a) == {b \in S : r[b] <= r[a]}

\* Different members of S have different ranks.
Ranked(S, r) ==
    /\ IsFiniteSet(S)
    /\ \A a \in S : r[a] \in Nat
    /\ \A a, b \in S : r[a] = r[b] => a = b

\* Counting what is not above it gives each member a place of its own.
LEMMA PlaceFacts ==
    ASSUME NEW S, NEW r, Ranked(S, r)
    PROVE  /\ Cardinality(S) \in Nat
           /\ \A k \in 1 .. Cardinality(S) : \E a \in S : Cardinality(Lower(S, r, a)) = k
           /\ \A a \in S : Cardinality(Lower(S, r, a)) \in 1 .. Cardinality(S)
           /\ \A a, b \in S : Cardinality(Lower(S, r, a)) = Cardinality(Lower(S, r, b)) => a = b
<1> DEFINE n == Cardinality(S)
           f == [a \in S |-> Cardinality(Lower(S, r, a))]
<1>1. n \in Nat /\ IsFiniteSet(S)
  BY FS_CardinalityType DEF Ranked
<1>2. ASSUME NEW a \in S
      PROVE  IsFiniteSet(Lower(S, r, a)) /\ f[a] \in 1 .. n
  <2>1. Lower(S, r, a) \in SUBSET S /\ a \in Lower(S, r, a)
    BY DEF Lower, Ranked
  <2>2. IsFiniteSet(Lower(S, r, a)) /\ Cardinality(Lower(S, r, a)) <= n
    BY <1>1, <2>1, FS_Subset
  <2>3. Cardinality(Lower(S, r, a)) \in Nat /\ Cardinality(Lower(S, r, a)) # 0
    BY <2>1, <2>2, FS_CardinalityType, FS_EmptySet
  <2>4. QED
    BY <1>1, <2>2, <2>3
<1>3. ASSUME NEW a \in S, NEW b \in S, f[a] = f[b]
      PROVE  a = b
  <2>1. r[a] \in Nat /\ r[b] \in Nat
    BY DEF Ranked
  <2>2. ASSUME NEW x \in S, NEW y \in S, f[x] = f[y], r[x] <= r[y] PROVE x = y
    <3>1. Lower(S, r, x) \in SUBSET Lower(S, r, y)
      <4> SUFFICES ASSUME NEW z \in S, r[z] <= r[x] PROVE r[z] <= r[y]
        BY DEF Lower
      <4>1. r[z] \in Nat /\ r[x] \in Nat /\ r[y] \in Nat
        BY DEF Ranked
      <4>2. QED
        BY <2>2, <4>1
    <3>2. Lower(S, r, y) = Lower(S, r, x)
      BY <1>2, <2>2, <3>1, FS_Subset
    <3>3. y \in Lower(S, r, y)
      BY DEF Lower, Ranked
    <3>4. r[y] <= r[x]
      BY <3>2, <3>3 DEF Lower
    <3>5. r[x] = r[y]
      BY <2>2, <3>4 DEF Ranked
    <3>6. QED
      BY <3>5 DEF Ranked
  <2>3. r[a] <= r[b] \/ r[b] <= r[a]
    BY <2>1
  <2>4. QED
    BY <1>3, <2>2, <2>3
<1>4. f \in [S -> 1 .. n]
  BY <1>2
<1>5. f \in Injection(S, 1 .. n)
  BY <1>3, <1>4 DEF Injection, IsInjective
<1>6. IsFiniteSet(1 .. n) /\ Cardinality(1 .. n) = n
  BY <1>1, FS_Interval
<1>7. f \in Surjection(S, 1 .. n)
  BY <1>5, <1>6, FS_Injection
<1>8. \A k \in 1 .. n : \E a \in S : f[a] = k
  BY <1>7 DEF Surjection
<1>9. \A a \in S : f[a] = Cardinality(Lower(S, r, a))
  OBVIOUS
<1> HIDE DEF f, n
<1>10. \A k \in 1 .. n : \E a \in S : Cardinality(Lower(S, r, a)) = k
  BY <1>8, <1>9
<1>11. \A a \in S : Cardinality(Lower(S, r, a)) \in 1 .. n
  BY <1>2, <1>9
<1>12. \A a, b \in S : Cardinality(Lower(S, r, a)) = Cardinality(Lower(S, r, b)) => a = b
  BY <1>3, <1>9
<1>13. QED
  BY <1>1, <1>10, <1>11, <1>12 DEF n

\* An article is what its source is parsed as.
LEMMA ArticleOfSource ==
    ASSUME NEW t, NEW art \in article_paths(t)
    PROVE  /\ art = article_parse(art.source).val /\ article_parse(art.source).ok
           /\ art.source \in t.files
<1>1. PICK p \in t.files : article_parse(p).ok /\ art = article_parse(p).val
  BY DEF article_paths
<1>2. art.source = p
  BY <1>1 DEF article_parse, Ok, Err
<1>3. QED
  BY <1>1, <1>2

\* The key and the source of an article say the same.
LEMMA SourceOfKey ==
    ASSUME NEW n \in DOMAIN Trees, NEW art \in article_paths(Trees[n]),
           NEW other \in article_paths(Trees[n]), art.key = other.key
    PROVE  art = other
<1> DEFINE stem(p) == [p EXCEPT ![Len(p)] = Dir(p[Len(p)].name)]
<1>1. ASSUME NEW a \in article_paths(Trees[n])
      PROVE  /\ a.source \in Paths /\ Len(a.source) \in Nat \ {0}
             /\ a.key = stem(a.source) /\ a.source[Len(a.source)].ext = "md"
             /\ Len(a.key) = Len(a.source)
  <2>1. /\ a = article_parse(a.source).val /\ article_parse(a.source).ok
        /\ a.source \in Trees[n].files
    BY ArticleOfSource
  <2>2. a.source \in Paths /\ a.source # <<>>
    BY <2>1, PathsAssumption
  <2>3. a.key = stem(a.source) /\ a.source[Len(a.source)].ext = "md"
    BY <2>1 DEF article_parse, Ok, Err
  <2>4. Len(a.source) \in Nat \ {0} /\ DOMAIN a.source = 1 .. Len(a.source)
    BY <2>2 DEF Paths
  <2>5. DOMAIN stem(a.source) = 1 .. Len(a.source)
    BY <2>4
  <2>6. Len(stem(a.source)) = Len(a.source)
    BY <2>4, <2>5
  <2>7. QED
    BY <2>2, <2>3, <2>4, <2>6
<1> DEFINE p == art.source
           q == other.source
           m == Len(p)
<1>2. /\ p \in Paths /\ m \in Nat \ {0} /\ art.key = stem(p) /\ p[m].ext = "md"
      /\ q \in Paths /\ Len(q) = m /\ other.key = stem(q) /\ q[m].ext = "md"
  BY <1>1
<1>3. stem(p) = stem(q)
  BY <1>2
<1>4. DOMAIN p = 1 .. m /\ DOMAIN q = 1 .. m /\ m \in 1 .. m
  BY <1>2 DEF Paths
<1>5. p[m] \in Segments /\ q[m] \in Segments
  BY <1>2, <1>4 DEF Paths
<1>6. p[m] = q[m]
  <2>1. stem(p)[m] = Dir(p[m].name) /\ stem(q)[m] = Dir(q[m].name)
    BY <1>2, <1>4
  <2>2. Dir(p[m].name) = Dir(q[m].name)
    BY <1>3, <2>1
  <2>3. p[m].name = q[m].name
    BY <2>2 DEF Dir, File
  <2>4. p[m].ext = q[m].ext
    BY <1>2
  <2>5. QED
    BY <1>5, <2>3, <2>4 DEF Segments
<1>7. ASSUME NEW i \in 1 .. m PROVE p[i] = q[i]
  <2>1. CASE i = m
    BY <1>6, <2>1
  <2>2. CASE i # m
    <3>1. stem(p)[i] = p[i] /\ stem(q)[i] = q[i]
      BY <1>2, <1>4, <2>2
    <3>2. QED
      BY <1>3, <3>1
  <2>3. QED
    BY <2>1, <2>2
<1>8. p = q
  <2> HIDE DEF p, q, m
  <2>1. QED
    BY <1>2, <1>4, <1>7 DEF Paths
<1>9. QED
  BY <1>8, ArticleOfSource

\* The articles in their order: each of them once.
LEMMA ByKeyFacts ==
    ASSUME NEW n \in DOMAIN Trees
    PROVE  /\ Cardinality(article_paths(Trees[n])) \in Nat
           /\ ByKey(Trees[n]) \in [1 .. Cardinality(article_paths(Trees[n])) -> article_paths(Trees[n])]
           /\ \A art \in article_paths(Trees[n]) :
                 \E k \in 1 .. Cardinality(article_paths(Trees[n])) : ByKey(Trees[n])[k] = art
           /\ \A k, l \in 1 .. Cardinality(article_paths(Trees[n])) :
                 ByKey(Trees[n])[k].source = ByKey(Trees[n])[l].source => k = l
<1> DEFINE t == Trees[n]
           S == article_paths(t)
           r == [art \in S |-> KeyRank[art.key]]
           Q == {q \in t.files : /\ ~has_hidden_component(q) /\ Name(q).ext = "md" /\ article_parse(q).ok}
           f == [p \in Q |-> article_parse(p).val]
           place(art) == Cardinality({b \in S : KeyRank[b.key] <= KeyRank[art.key]})
<1>1. IsFiniteSet(Q)
  BY ContentAssumption, FS_Subset
<1>2. S = {article_parse(p).val : p \in Q}
  BY DEF article_paths
<1>3. f \in Surjection(Q, S)
  BY <1>2 DEF Surjection
<1>4. IsFiniteSet(S)
  <2> HIDE DEF Q, S, f
  <2>1. QED
    BY <1>1, <1>3, FS_Surjection
<1>5. Ranked(S, r)
  <2>1. \A a \in S : r[a] \in Nat
    BY ContentAssumption
  <2>2. \A a, b \in S : r[a] = r[b] => a = b
    BY ContentAssumption, SourceOfKey
  <2> HIDE DEF S, r
  <2>3. QED
    BY <1>4, <2>1, <2>2 DEF Ranked
<1>6. \A a \in S : place(a) = Cardinality(Lower(S, r, a))
  <2>1. ASSUME NEW a \in S PROVE {b \in S : KeyRank[b.key] <= KeyRank[a.key]} = Lower(S, r, a)
    BY DEF Lower
  <2>2. QED
    BY <2>1
<1>7. ByKey(t) = [k \in 1 .. Cardinality(S) |-> CHOOSE art \in S : place(art) = k]
  BY DEF ByKey, InOrder
<1>d. DEFINE c == Cardinality(S)
<1> HIDE DEF S, r, place, t
<1>8. /\ c \in Nat /\ \A k \in 1 .. c : \E a \in S : place(a) = k
      /\ \A a \in S : place(a) \in 1 .. c
      /\ \A a, b \in S : place(a) = place(b) => a = b
  <2>1. /\ c \in Nat /\ \A k \in 1 .. c : \E a \in S : Cardinality(Lower(S, r, a)) = k
        /\ \A a \in S : Cardinality(Lower(S, r, a)) \in 1 .. c
        /\ \A a, b \in S : Cardinality(Lower(S, r, a)) = Cardinality(Lower(S, r, b)) => a = b
    BY <1>5, PlaceFacts
  <2> HIDE DEF c
  <2>2. QED
    BY <1>6, <2>1
<1>9. ByKey(t) = [k \in 1 .. c |-> CHOOSE art \in S : place(art) = k]
  BY <1>7
<1> HIDE DEF c
<1>10. ASSUME NEW k \in 1 .. c
       PROVE  ByKey(t)[k] \in S /\ place(ByKey(t)[k]) = k
  <2>1. \E a \in S : place(a) = k
    BY <1>8
  <2>2. ByKey(t)[k] = CHOOSE art \in S : place(art) = k
    BY <1>9
  <2>3. QED
    BY <2>1, <2>2
<1>11. ByKey(t) \in [1 .. c -> S]
  BY <1>9, <1>10
<1>12. ASSUME NEW art \in S PROVE \E k \in 1 .. c : ByKey(t)[k] = art
  BY <1>8, <1>10
<1>13. ASSUME NEW k \in 1 .. c, NEW l \in 1 .. c, ByKey(t)[k].source = ByKey(t)[l].source
       PROVE  k = l
  <2>1. ByKey(t)[k] = ByKey(t)[l]
    BY <1>10, <1>13, ArticleOfSource DEF S
  <2>2. QED
    BY <1>10, <2>1
<1>14. QED
  BY <1>8, <1>11, <1>12, <1>13 DEF c, S, t

-----------------------------------------------------------------------------
(* The images of all articles, in the order they are looked at.              *)

\* The image at refs[i] of an article.
UrlAt(source, refs, i) == [source |-> source, dest |-> refs[i], first |-> i = 1]

\* Where the images of an article stand among those of all articles: after the first o.
Run(urls, source, refs, o) ==
    o \in Nat /\ \A i \in 1 .. Len(refs) : o + i \in 1 .. Len(urls) /\ urls[o + i] = UrlAt(source, refs, i)

\* The images of an article follow each other, and the first of them only is marked.
Together(urls) ==
    \A j, k \in 1 .. Len(urls) :
        j < k /\ urls[j].source = urls[k].source =>
            k - 1 \in 1 .. Len(urls) /\ urls[k - 1].source = urls[k].source /\ ~urls[k].first

\* So they are gathered.
LEMMA UrlsFacts ==
    ASSUME NEW n \in DOMAIN Trees
    PROVE  /\ \E U : image_urls(Trees[n]) \in Seq(U)
           /\ Together(image_urls(Trees[n]))
           /\ \A art \in article_paths(Trees[n]) :
                 \E o : Run(image_urls(Trees[n]), art.source, Trees[n].refs[art.source], o)
<1> DEFINE t == Trees[n]
           S == article_paths(t)
           c == Cardinality(S)
           arts == ByKey(t)
           refs(k) == t.refs[arts[k].source]
           of(k) == [i \in DOMAIN refs(k) |-> UrlAt(arts[k].source, refs(k), i)]
           s == [k \in DOMAIN arts |-> of(k)]
           U == [source : {arts[k].source : k \in 1 .. c}, dest : Urls, first : BOOLEAN]
           flat == image_urls(t)
<1>1. /\ c \in Nat /\ arts \in [1 .. c -> S]
      /\ \A art \in S : \E k \in 1 .. c : arts[k] = art
      /\ \A k, l \in 1 .. c : arts[k].source = arts[l].source => k = l
  BY ByKeyFacts
<1>2. flat = FlattenSeq(s)
  BY DEF image_urls, UrlsOf, UrlAt
<1>3. ASSUME NEW k \in 1 .. c PROVE refs(k) \in Seq(Urls)
  BY <1>1, ContentAssumption
<1>4. ASSUME NEW k \in 1 .. c
      PROVE  /\ of(k) \in Seq(U) /\ Len(of(k)) = Len(refs(k)) /\ Len(refs(k)) \in Nat
             /\ \A i \in 1 .. Len(refs(k)) : of(k)[i] = UrlAt(arts[k].source, refs(k), i)
  <2> DEFINE r == refs(k)
             src == arts[k].source
  <2>1. r \in Seq(Urls) /\ src \in {arts[l].source : l \in 1 .. c}
    BY <1>3
  <2> HIDE DEF r, src, arts, c
  <2>2. DOMAIN r = 1 .. Len(r) /\ Len(r) \in Nat /\ \A i \in 1 .. Len(r) : r[i] \in Urls
    BY <2>1
  <2>3. \A i \in 1 .. Len(r) : UrlAt(src, r, i) \in U
    BY <2>1, <2>2 DEF UrlAt
  <2> DEFINE v == [i \in DOMAIN r |-> UrlAt(src, r, i)]
  <2>4. v = [i \in 1 .. Len(r) |-> UrlAt(src, r, i)]
    BY <2>2
  <2> HIDE DEF U
  <2>5. v \in Seq(U) /\ Len(v) = Len(r)
    BY <2>2, <2>3, <2>4
  <2>6. \A i \in 1 .. Len(r) : v[i] = UrlAt(src, r, i)
    BY <2>4
  <2>7. QED
    BY <2>2, <2>5, <2>6 DEF r, src
<1>5. DOMAIN arts = 1 .. c
  BY <1>1
<1> HIDE DEF of, U, c, S, arts, t
<1>6. s \in Seq(Seq(U)) /\ Len(s) = c /\ \A k \in 1 .. c : s[k] = of(k)
  <2> DEFINE W == Seq(U)
  <2>1. \A k \in 1 .. c : of(k) \in W
    BY <1>4
  <2>2. s = [k \in 1 .. c |-> of(k)]
    BY <1>5
  <2> HIDE DEF W, s
  <2>3. s \in Seq(W) /\ Len(s) = c /\ \A k \in 1 .. c : s[k] = of(k)
    BY <1>1, <2>1, <2>2
  <2>4. QED
    BY <2>3 DEF W
<1> HIDE DEF s, flat
<1>7. PICK off : PartsIn(off, s, flat)
  BY <1>2, <1>6, FlattenPlaces
<1>8. flat \in Seq(U) /\ Len(flat) \in Nat
  <2>1. flat \in Seq(U)
    BY <1>2, <1>6, FlattenType
  <2>2. QED
    BY <2>1
<1>9. ASSUME NEW k \in 1 .. c
      PROVE  /\ off[k - 1] \in Nat /\ off[k] = off[k - 1] + Len(refs(k))
             /\ \A i \in 1 .. Len(refs(k)) :
                   off[k - 1] + i \in 1 .. Len(flat) /\ flat[off[k - 1] + i] = UrlAt(arts[k].source, refs(k), i)
  <2>1. s[k] = of(k) /\ Len(s[k]) = Len(refs(k))
    BY <1>4, <1>6
  <2>2. off[k - 1] \in Nat /\ off[k] = off[k - 1] + Len(s[k])
    BY <1>6, <1>7 DEF PartsIn
  <2>3. \A i \in 1 .. Len(s[k]) : off[k - 1] + i \in 1 .. Len(flat) /\ flat[off[k - 1] + i] = s[k][i]
    BY <1>6, <1>7 DEF PartsIn
  <2>4. QED
    BY <1>4, <2>1, <2>2, <2>3
<1>10. ASSUME NEW p \in 1 .. Len(flat)
       PROVE  \E k \in 1 .. c : \E i \in 1 .. Len(refs(k)) : p = off[k - 1] + i
  <2>1. PICK k \in 1 .. c : \E i \in 1 .. Len(s[k]) : p = off[k - 1] + i
    BY <1>6, <1>7 DEF PartsIn
  <2>2. Len(s[k]) = Len(refs(k))
    BY <1>4, <1>6
  <2>3. QED
    BY <2>1, <2>2
<1>11. ASSUME NEW art \in S
       PROVE  \E o : Run(flat, art.source, t.refs[art.source], o)
  <2>1. PICK k \in 1 .. c : arts[k] = art
    BY <1>1
  <2>2. Run(flat, art.source, refs(k), off[k - 1])
    BY <1>9, <2>1 DEF Run
  <2>3. QED
    BY <2>1, <2>2
<1>12. Together(flat)
  <2> SUFFICES ASSUME NEW p \in 1 .. Len(flat), NEW q \in 1 .. Len(flat), p < q,
                      flat[p].source = flat[q].source
               PROVE  q - 1 \in 1 .. Len(flat) /\ flat[q - 1].source = flat[q].source /\ ~flat[q].first
    BY DEF Together
  <2>1. PICK k \in 1 .. c : \E i \in 1 .. Len(refs(k)) : p = off[k - 1] + i
    BY <1>10
  <2>2. PICK i \in 1 .. Len(refs(k)) : p = off[k - 1] + i
    BY <2>1
  <2>3. PICK l \in 1 .. c : \E j \in 1 .. Len(refs(l)) : q = off[l - 1] + j
    BY <1>10
  <2>4. PICK j \in 1 .. Len(refs(l)) : q = off[l - 1] + j
    BY <2>3
  <2>5. flat[p].source = arts[k].source /\ flat[q].source = arts[l].source /\ flat[q].first = (j = 1)
    <3>1. flat[p] = UrlAt(arts[k].source, refs(k), i) /\ flat[q] = UrlAt(arts[l].source, refs(l), j)
      BY <1>9, <2>2, <2>4
    <3>2. QED
      BY <3>1 DEF UrlAt
  <2>6. k = l
    BY <1>1, <2>5
  <2>7. off[k - 1] \in Nat /\ Len(refs(k)) \in Nat
    BY <1>4, <1>9
  <2>8. i < j /\ j - 1 \in 1 .. Len(refs(l)) /\ q - 1 = off[l - 1] + (j - 1)
    <3> DEFINE o == off[k - 1]
               m == Len(refs(k))
    <3>1. p = o + i /\ q = o + j /\ i \in 1 .. m /\ j \in 1 .. m /\ o \in Nat /\ m \in Nat /\ p < q
      BY <2>2, <2>4, <2>6, <2>7
    <3> HIDE DEF o, m
    <3>2. i < j /\ j - 1 \in 1 .. m /\ q - 1 = o + (j - 1)
      BY <3>1
    <3>3. QED
      BY <2>6, <3>2 DEF o, m
  <2>9. off[l - 1] + (j - 1) \in 1 .. Len(flat)
        /\ flat[off[l - 1] + (j - 1)] = UrlAt(arts[l].source, refs(l), j - 1)
    BY <1>9, <2>8
  <2>10. flat[q - 1].source = arts[l].source /\ q - 1 \in 1 .. Len(flat)
    BY <2>8, <2>9 DEF UrlAt
  <2>11. j # 1
    BY <2>8
  <2>12. QED
    BY <2>5, <2>10, <2>11
<1>13. QED
  BY <1>8, <1>11, <1>12 DEF flat, S, t

-----------------------------------------------------------------------------
(* One image: published, left alone, or an error.                            *)

\* What gather_images has after url.
Visit(t, a, url) == PublishImage(t, url.source, Counted(a, url), url.dest)

\* The fields of what is gathered.
AccOK(a) ==
    /\ a = [errors |-> a.errors, owners |-> a.owners, web |-> a.web, terminal |-> a.terminal,
            meta |-> a.meta, bytes |-> a.bytes]
    /\ a.errors \in Nat /\ a.bytes \in 0 .. MaxArticleBytes

\* What its article has used of its budget when an image is looked at.
Used(a, url) == IF url.first THEN 0 ELSE a.bytes

Ref(url) == <<url.source, url.dest>>
Target(url) == normalize_local_path(url.source, url.dest).val
Out(a, url) == Budgeted(Used(a, url), Target(url), process_image(Target(url)).val)

\* An image that was published without an error.
Published(a, url, b) ==
    /\ Out(a, url).bytes \in Nat /\ process_image(Target(url)).val.bytes \in Nat
    /\ b.meta = Put(a.meta, Ref(url), Out(a, url))
    /\ Out(a, url).asset \in DOMAIN a.owners => a.owners[Out(a, url).asset] = Target(url)
    /\ b.owners = Put(a.owners, Out(a, url).asset, Target(url))
    /\ b.web = Put(a.web, Out(a, url).asset, Form(Out(a, url)))
    /\ DOMAIN b.owners = DOMAIN a.owners \cup {Out(a, url).asset}
    /\ a.terminal \subseteq b.terminal
    /\ Out(a, url).kind = "inline" => Out(a, url).asset \in b.terminal
    /\ b.bytes = Used(a, url) + Out(a, url).bytes

\* One that is left alone.
Skipped(a, url, b) ==
    /\ b.meta = a.meta /\ b.owners = a.owners /\ b.web = a.web /\ b.terminal = a.terminal
    /\ b.bytes = Used(a, url)

\* Without an error, one or the other has happened.
Visited(a, url, b) ==
    IF url.dest.foreign THEN Skipped(a, url, b) ELSE Published(a, url, b)

\* What process_image makes has a size.
LEMMA MadeFacts ==
    ASSUME NEW path, process_image(path).ok
    PROVE  process_image(path).val.bytes \in Nat
<1>1. path \in DOMAIN Images
  BY DEF process_image, Err
<1>2. Images[path].bytes \in Nat /\ Images[path].out \in Nat
  BY <1>1, ImagesAssumption
<1>3. process_image(path).val.bytes \in {0, Images[path].bytes, Images[path].out}
  <2>1. process_image(path)
          \in {Err, Ok(LinkOnly(path)), Ok(Inline(Images[path].bytes, path))}
             \cup {Ok(Inline(Images[path].out, q)) : q \in {path, with_png_ext(path)}}
    BY DEF process_image
  <2>2. Err.ok = FALSE
    BY DEF Err
  <2>3. \A v : Ok(v).val = v
    BY DEF Ok
  <2>4. LinkOnly(path).bytes = 0 /\ \A b, q : Inline(b, q).bytes = b
    BY DEF LinkOnly, Inline
  <2>5. process_image(path) # Err
    BY <2>2
  <2>6. QED
    BY <2>1, <2>3, <2>4, <2>5
<1>4. QED
  BY <1>2, <1>3

\* The budget is kept.
LEMMA BudgetedFacts ==
    ASSUME NEW used \in 0 .. MaxArticleBytes, NEW path, NEW out, out.bytes \in Nat
    PROVE  /\ Budgeted(used, path, out).bytes \in Nat
           /\ used + Budgeted(used, path, out).bytes \in 0 .. MaxArticleBytes
           /\ used + out.bytes <= MaxArticleBytes => Budgeted(used, path, out) = out
           /\ ~(used + out.bytes <= MaxArticleBytes) => Budgeted(used, path, out).bytes = 0
<1>1. LinkOnly(path).bytes = 0
  BY DEF LinkOnly
<1>2. Budgeted(used, path, out) = IF used + out.bytes > MaxArticleBytes THEN LinkOnly(path) ELSE out
  BY DEF Budgeted
<1>3. MaxArticleBytes \in Nat
  BY BudgetAssumption
<1> DEFINE x == out.bytes
           y == Budgeted(used, path, out)
<1>4. CASE used + x > MaxArticleBytes
  <2>1. y = LinkOnly(path) /\ ~(used + x <= MaxArticleBytes)
    BY <1>2, <1>3, <1>4
  <2>2. y.bytes = 0
    BY <1>1, <2>1
  <2> HIDE DEF x, y
  <2>3. y.bytes \in Nat /\ used + y.bytes \in 0 .. MaxArticleBytes
    BY <1>3, <2>2
  <2>4. QED
    BY <2>1, <2>2, <2>3 DEF x, y
<1>5. CASE ~(used + x > MaxArticleBytes)
  <2>1. y = out
    BY <1>2, <1>5
  <2>2. x \in Nat
    OBVIOUS
  <2> HIDE DEF x
  <2>3. used + x <= MaxArticleBytes /\ used + x \in 0 .. MaxArticleBytes
    BY <1>3, <1>5, <2>2
  <2>4. QED
    BY <2>1, <2>2, <2>3 DEF x
<1>6. QED
  BY <1>4, <1>5

\* A visit either publishes or counts an error.
LEMMA VisitFacts ==
    ASSUME NEW t, NEW a, AccOK(a), NEW url
    PROVE  /\ AccOK(Visit(t, a, url)) /\ Visit(t, a, url).errors \in {a.errors, a.errors + 1}
           /\ Visit(t, a, url).errors = a.errors => Visited(a, url, Visit(t, a, url))
<1> DEFINE c == Counted(a, url)
           b == Visit(t, a, url)
           path == normalize_local_path(url.source, url.dest)
           made == process_image(Target(url))
           out == Out(a, url)
           ref == Ref(url)
<1>1. /\ c = [errors |-> a.errors, owners |-> a.owners, web |-> a.web, terminal |-> a.terminal,
              meta |-> a.meta, bytes |-> Used(a, url)]
      /\ a.errors \in Nat
  BY DEF Counted, AccOK, Used
<1>2. Used(a, url) \in 0 .. MaxArticleBytes
  BY BudgetAssumption DEF Used, AccOK
<1>3. a.errors + 1 # a.errors /\ a.errors + 1 \in Nat
  BY <1>1
<1>4. AccOK(c)
  BY <1>1, <1>2 DEF AccOK
<1>5. /\ Faulty(c) = [errors |-> a.errors + 1, owners |-> a.owners, web |-> a.web,
                      terminal |-> a.terminal, meta |-> a.meta, bytes |-> Used(a, url)]
  BY <1>1 DEF Faulty
<1>6. AccOK(Faulty(c)) /\ Faulty(c).errors = a.errors + 1
  BY <1>2, <1>3, <1>5 DEF AccOK
<1>7. CASE url.dest.foreign
  <2>1. b = c
    BY <1>7 DEF Visit, PublishImage
  <2>2. Skipped(a, url, b)
    BY <1>1, <2>1 DEF Skipped
  <2>3. b.errors = a.errors
    BY <1>1, <2>1
  <2>4. QED
    BY <1>4, <1>7, <2>1, <2>2, <2>3 DEF Visited
<1>8. CASE ~url.dest.foreign
  <2>1. b = PublishFile(t.files, c, ref, path)
    BY <1>8 DEF Visit, PublishImage, Ref
  <2>2. CASE b = Faulty(c)
    BY <1>3, <1>6, <2>2
  <2>3. CASE b # Faulty(c)
    <3>1. b = PublishProcessed(c, ref, path.val, process_image(path.val))
      BY <2>1, <2>3 DEF PublishFile
    <3>2. made.ok /\ b = PublishAs(c, ref, path.val, Budgeted(c.bytes, path.val, made.val))
      BY <2>3, <3>1 DEF PublishProcessed, Target
    <3>3. c.bytes = Used(a, url) /\ path.val = Target(url)
      BY <1>1 DEF Target
    <3>4. b = PublishAs(c, ref, path.val, out)
      BY <3>2, <3>3 DEF Out
    <3>5. made.val.bytes \in Nat
      BY <3>2, MadeFacts
    <3>6. out.bytes \in Nat /\ Used(a, url) + out.bytes \in 0 .. MaxArticleBytes
      BY <1>2, <3>5, BudgetedFacts DEF Out
    <3> DEFINE owners == Put(a.owners, out.asset, path.val)
               web == Put(a.web, out.asset, Form(out))
               terminal == IF out.kind = "inline" THEN a.terminal \cup {out.asset} ELSE a.terminal
               meta == Put(a.meta, ref, out)
               bytes == Used(a, url) + out.bytes
    <3> HIDE DEF out, ref, made, path
    <3>7. b = [errors |-> a.errors, owners |-> owners, web |-> web, terminal |-> terminal,
               meta |-> meta, bytes |-> bytes]
      <4>1. b = [c EXCEPT !.owners = Put(c.owners, out.asset, path.val),
                          !.web = Put(c.web, out.asset, Form(out)),
                          !.terminal = IF out.kind = "inline" THEN c.terminal \cup {out.asset} ELSE c.terminal,
                          !.meta = Put(c.meta, ref, out),
                          !.bytes = c.bytes + out.bytes]
        BY <2>3, <3>4 DEF PublishAs
      <4> HIDE DEF b, c
      <4>2. /\ c.owners = a.owners /\ c.web = a.web /\ c.terminal = a.terminal /\ c.meta = a.meta
            /\ c.bytes = Used(a, url)
        BY <1>1
      <4>3. b = [c EXCEPT !.owners = owners, !.web = web, !.terminal = terminal, !.meta = meta,
                          !.bytes = bytes]
        BY <4>1, <4>2
      <4> HIDE DEF owners, web, terminal, meta, bytes
      <4>4. QED
        BY <1>1, <4>3
    <3>8. bytes \in 0 .. MaxArticleBytes
      BY <3>6
    <3>9. DOMAIN owners = DOMAIN a.owners \cup {out.asset}
      BY DEF Put
    <3>15. out.asset \in DOMAIN a.owners => a.owners[out.asset] = path.val
      BY <1>1, <2>3, <3>4 DEF PublishAs
    <3>16. owners = Put(a.owners, out.asset, Target(url)) /\ web = Put(a.web, out.asset, Form(out))
      BY <3>3
    <3>10. a.terminal \subseteq terminal /\ (out.kind = "inline" => out.asset \in terminal)
      OBVIOUS
    <3> HIDE DEF owners, web, terminal, b
    <3>11. /\ b.errors = a.errors /\ b.owners = owners /\ b.terminal = terminal /\ b.meta = meta
           /\ b.bytes = bytes /\ b.web = web
      BY <3>7
    <3>12. AccOK(b)
      BY <1>1, <3>7, <3>8, <3>11 DEF AccOK
    <3>13. Published(a, url, b)
      BY <3>3, <3>5, <3>6, <3>9, <3>10, <3>11, <3>15, <3>16 DEF Published, out, ref, made
    <3>14. QED
      BY <1>8, <3>11, <3>12, <3>13 DEF Visited, b
  <2>4. QED
    BY <2>2, <2>3
<1>9. QED
  BY <1>7, <1>8

-----------------------------------------------------------------------------
(* All images: the steps of gather_images.                                   *)

\* f[k] is what has been gathered after the first k of these images.
Gathers(f, t, urls, n) ==
    f = [k \in 0 .. n |->
            IF k = 0 THEN NoImages
            ELSE PublishImage(t, urls[k].source, Counted(f[k - 1], urls[k]), urls[k].dest)]

\* The same, as a first value and a step.
GatherSteps(f, t, urls, n) ==
    f[0] = NoImages /\ \A k \in 1 .. n : f[k] = Visit(t, f[k - 1], urls[k])

\* A table of what is gathered has its values.
LEMMA GathersStep ==
    ASSUME NEW t, NEW urls, NEW n \in Nat, NEW f, Gathers(f, t, urls, n)
    PROVE  GatherSteps(f, t, urls, n)
<1>1. 0 \in 0 .. n
  OBVIOUS
<1>2. f[0] = NoImages
  BY <1>1, Zenon DEF Gathers
<1>3. ASSUME NEW k \in 1 .. n PROVE f[k] = Visit(t, f[k - 1], urls[k])
  <2>1. k \in 0 .. n /\ k # 0
    OBVIOUS
  <2>2. f[k] = IF k = 0 THEN NoImages
               ELSE PublishImage(t, urls[k].source, Counted(f[k - 1], urls[k]), urls[k].dest)
    BY <2>1, Zenon DEF Gathers
  <2>3. QED
    BY <2>1, <2>2, Zenon DEF Visit
<1>4. QED
  BY <1>2, <1>3, Zenon DEF GatherSteps

\* It can be carried one image on ...
LEMMA GathersMore ==
    ASSUME NEW t, NEW urls, NEW n \in Nat, NEW f, Gathers(f, t, urls, n)
    PROVE  \E g : Gathers(g, t, urls, n + 1)
<1> DEFINE val(h, k) == IF k = 0 THEN NoImages
                        ELSE PublishImage(t, urls[k].source, Counted(h[k - 1], urls[k]), urls[k].dest)
           g == [k \in 0 .. n + 1 |-> val(f, k)]
<1>1. ASSUME NEW k \in 0 .. n PROVE g[k] = f[k]
  <2>1. f[k] = val(f, k)
    BY Zenon DEF Gathers
  <2>2. k \in 0 .. n + 1
    OBVIOUS
  <2>3. QED
    BY <2>1, <2>2, Zenon
<1>2. \A k \in 0 .. n + 1 : k # 0 => k - 1 \in 0 .. n
  OBVIOUS
<1>3. ASSUME NEW k \in 0 .. n + 1 PROVE val(f, k) = val(g, k)
  <2>1. CASE k = 0
    BY <2>1
  <2>2. CASE k # 0
    <3>1. g[k - 1] = f[k - 1]
      BY <1>1, <1>2, <2>2
    <3> HIDE DEF g
    <3>2. QED
      BY <3>1
  <2>3. QED
    BY <2>1, <2>2
<1>4. g = [k \in 0 .. n + 1 |-> val(g, k)]
  <2> DEFINE u == [k \in 0 .. n + 1 |-> val(g, k)]
  <2>1. \A k \in 0 .. n + 1 : val(f, k) = val(g, k)
    BY <1>3
  <2> HIDE DEF val
  <2>2. QED
    BY <2>1, Zenon
<1> HIDE DEF g
<1>5. QED
  BY <1>4 DEF Gathers

\* ... so there is one for any number of images.
LEMMA GathersExists ==
    ASSUME NEW t, NEW urls, NEW n \in Nat
    PROVE  \E f : Gathers(f, t, urls, n)
<1> DEFINE T == {k \in Nat : \E f : Gathers(f, t, urls, k)}
<1>1. 0 \in T
  <2> DEFINE f == [k \in {0} |-> NoImages]
  <2>1. 0 .. 0 = {0}
    OBVIOUS
  <2>2. f = [k \in {0} |->
               IF k = 0 THEN NoImages
               ELSE PublishImage(t, urls[k].source, Counted(f[k - 1], urls[k]), urls[k].dest)]
    BY Zenon
  <2> HIDE DEF f
  <2>3. Gathers(f, t, urls, 0)
    BY <2>1, <2>2, Zenon DEF Gathers
  <2>4. QED
    BY <2>3
<1>2. \A k \in T : k + 1 \in T
  BY GathersMore
<1>3. T = Nat
  <2> HIDE DEF T
  <2>1. T \in SUBSET Nat
    BY DEF T
  <2>2. QED
    BY <1>1, <1>2, <2>1, EveryNumber
<1>4. QED
  BY <1>3

\* gather_images is the last of them.
LEMMA GatherIs ==
    ASSUME NEW t, Len(image_urls(t)) \in Nat
    PROVE  \E f : /\ GatherSteps(f, t, image_urls(t), Len(image_urls(t)))
                  /\ gather_images(t) = f[Len(image_urls(t))]
<1> DEFINE urls == image_urls(t)
           F == CHOOSE f : Gathers(f, t, urls, Len(urls))
<1>1. Gathers(F, t, urls, Len(urls))
  BY GathersExists, Zenon
<1>2. gather_images(t) = F[Len(urls)]
  BY DEF gather_images, PublishImages, Gathers
<1> HIDE DEF F, urls
<1>3. GatherSteps(F, t, urls, Len(urls))
  <2>1. Len(urls) \in Nat
    BY DEF urls
  <2>2. QED
    BY <1>1, <2>1, GathersStep
<1>4. QED
  BY <1>2, <1>3 DEF urls

\* A gathering without an error.
Clean(f, urls, n) ==
    /\ f[0] = NoImages
    /\ \A k \in 0 .. n : AccOK(f[k])
    /\ \A k \in 1 .. n : Visited(f[k - 1], urls[k], f[k])

\* An error is never taken back.
LEMMA NoErrors ==
    ASSUME NEW t, NEW urls, NEW n \in Nat, NEW f, GatherSteps(f, t, urls, n), f[n].errors = 0
    PROVE  Clean(f, urls, n)
<1> DEFINE T == {k \in 0 .. n : AccOK(f[k])}
<1>1. 0 \in T
  <2>1. f[0] = NoImages
    BY DEF GatherSteps
  <2>2. AccOK(NoImages)
    BY BudgetAssumption DEF AccOK, NoImages
  <2>3. QED
    BY <2>1, <2>2
<1>2. ASSUME NEW k \in 0 .. n, AccOK(f[k]), k + 1 \in 0 .. n
      PROVE  /\ AccOK(f[k + 1]) /\ f[k + 1].errors \in {f[k].errors, f[k].errors + 1}
             /\ f[k + 1].errors = f[k].errors => Visited(f[k], urls[k + 1], f[k + 1])
  <2>1. k + 1 \in 1 .. n /\ (k + 1) - 1 = k
    BY <1>2
  <2>2. f[k + 1] = Visit(t, f[k], urls[k + 1])
    BY <2>1, Zenon DEF GatherSteps
  <2>3. QED
    BY <1>2, <2>2, VisitFacts
<1>3. \A k \in 0 .. n : k \in T
  <2>1. \A k \in 0 .. n : k \in T /\ k + 1 \in 0 .. n => k + 1 \in T
    BY <1>2
  <2> HIDE DEF T
  <2>2. QED
    BY <1>1, <2>1, Induction, Zenon
<1>4. \A k \in 0 .. n : AccOK(f[k])
  BY <1>3
<1> DEFINE V == {k \in 0 .. n : f[n - k].errors = 0}
<1>5. 0 \in V
  OBVIOUS
<1>6. ASSUME NEW k \in 0 .. n, k \in V, k + 1 \in 0 .. n PROVE k + 1 \in V
  <2> DEFINE m == n - (k + 1)
  <2>1. m \in 0 .. n /\ m + 1 = n - k /\ m + 1 \in 0 .. n
    BY <1>6
  <2>2. f[m + 1].errors = 0
    BY <1>6, <2>1
  <2>3. AccOK(f[m])
    BY <1>4, <2>1
  <2> HIDE DEF m
  <2>4. f[m + 1].errors \in {f[m].errors, f[m].errors + 1}
    BY <1>2, <2>1, <2>3
  <2>5. f[m].errors \in Nat
    BY <2>3 DEF AccOK
  <2>6. f[m].errors = 0
    BY <2>2, <2>4, <2>5
  <2>7. QED
    BY <1>6, <2>6 DEF m
<1>7. \A k \in 0 .. n : k \in V
  <2>1. \A k \in 0 .. n : k \in V /\ k + 1 \in 0 .. n => k + 1 \in V
    BY <1>6
  <2> HIDE DEF V
  <2>2. QED
    BY <1>5, <2>1, Induction, Zenon
<1>8. ASSUME NEW k \in 0 .. n PROVE f[k].errors = 0
  <2>1. n - k \in V /\ n - (n - k) = k
    BY <1>7
  <2>2. QED
    BY <2>1
<1>9. ASSUME NEW k \in 1 .. n PROVE Visited(f[k - 1], urls[k], f[k])
  <2> DEFINE m == k - 1
  <2>1. m \in 0 .. n /\ m + 1 \in 0 .. n /\ m + 1 = k
    OBVIOUS
  <2>2. f[m].errors = 0 /\ f[m + 1].errors = 0 /\ AccOK(f[m])
    BY <1>4, <1>8, <2>1
  <2> HIDE DEF m
  <2>3. Visited(f[m], urls[m + 1], f[m + 1])
    BY <1>2, <2>1, <2>2
  <2>4. QED
    BY <2>1, <2>3 DEF m
<1>10. QED
  BY <1>4, <1>9 DEF Clean, GatherSteps

-----------------------------------------------------------------------------
(* What holds while they are gathered.                                       *)

\* What is recorded of an image is published.
AllThere(a) ==
    \A ref \in DOMAIN a.meta : /\ a.meta[ref].asset \in DOMAIN a.owners
                               /\ a.meta[ref].kind = "inline" => a.meta[ref].asset \in a.terminal

\* What is recorded under a reference that points to a path.
TargetOf(ref) == normalize_local_path(ref[1], ref[2]).val
Outcomes(path) == {LinkOnly(path), process_image(path).val}

\* Each record is of its file, which owns the output, and some record of that output asks
\* for the form it is published in.
Told(a) ==
    \A ref \in DOMAIN a.meta :
        LET asset == a.meta[ref].asset IN
        /\ a.meta[ref] \in Outcomes(TargetOf(ref))
        /\ asset \in DOMAIN a.owners /\ a.owners[asset] = TargetOf(ref)
        /\ asset \in DOMAIN a.web
        /\ \E q \in DOMAIN a.meta : a.meta[q].asset = asset /\ Form(a.meta[q]) = a.web[asset]

\* The record of the j-th image fits what it was given of the budget.
Fits(f, urls, j, a) ==
    /\ Ref(urls[j]) \in DOMAIN a.meta /\ a.meta[Ref(urls[j])].bytes \in Nat
    /\ Used(f[j - 1], urls[j]) + a.meta[Ref(urls[j])].bytes <= f[j].bytes

\* After k images: all is there, in a form some record asks for, each record fits, and an article does not get bytes back.
GatherInv(f, urls, k) ==
    /\ AllThere(f[k]) /\ Told(f[k])
    /\ \A j \in 1 .. k : ~urls[j].dest.foreign => Fits(f, urls, j, f[k])
    /\ \A j \in 1 .. k : urls[j].source = urls[k].source => f[j].bytes <= f[k].bytes

\* One more image is all there.
LEMMA AllThereKeeps ==
    ASSUME NEW a, NEW b, NEW url, Visited(a, url, b), AllThere(a)
    PROVE  AllThere(b)
<1>1. CASE url.dest.foreign
  BY <1>1 DEF Visited, Skipped, AllThere
<1>2. CASE ~url.dest.foreign
  <2> DEFINE out == Out(a, url)
             x == Ref(url)
  <2>1. /\ b.meta = Put(a.meta, x, out) /\ DOMAIN b.owners = DOMAIN a.owners \cup {out.asset}
        /\ a.terminal \subseteq b.terminal
        /\ out.kind = "inline" => out.asset \in b.terminal
    BY <1>2 DEF Visited, Published
  <2> HIDE DEF out, x
  <2> SUFFICES ASSUME NEW ref \in DOMAIN b.meta
               PROVE  /\ b.meta[ref].asset \in DOMAIN b.owners
                      /\ b.meta[ref].kind = "inline" => b.meta[ref].asset \in b.terminal
    BY DEF AllThere
  <2>2. ref \in DOMAIN a.meta \cup {x} /\ b.meta[ref] = IF ref = x THEN out ELSE a.meta[ref]
    BY <2>1 DEF Put
  <2>3. CASE ref = x
    <3>1. b.meta[ref] = out
      BY <2>2, <2>3
    <3>2. QED
      BY <2>1, <3>1
  <2>4. CASE ref # x
    <3>1. ref \in DOMAIN a.meta /\ b.meta[ref] = a.meta[ref]
      BY <2>2, <2>4
    <3>2. QED
      BY <2>1, <3>1 DEF AllThere
  <2>5. QED
    BY <2>3, <2>4
<1>3. QED
  BY <1>1, <1>2

\* One more image is published as the last record of its output asks for.  A record it replaces
\* may have been the one that asked for the form of another output of the same file (of a webp
\* there are two); then every record of that output asks for the same.
LEMMA ToldKeeps ==
    ASSUME NEW a, NEW b, NEW url, Visited(a, url, b), Told(a)
    PROVE  Told(b)
<1>1. CASE url.dest.foreign
  BY <1>1 DEF Visited, Skipped, Told
<1>2. CASE ~url.dest.foreign
  <2> DEFINE out == Out(a, url)
             x == Ref(url)
             path == Target(url)
             A == out.asset
  <2>1. /\ b.meta = Put(a.meta, x, out) /\ b.owners = Put(a.owners, A, path)
        /\ b.web = Put(a.web, A, Form(out))
        /\ A \in DOMAIN a.owners => a.owners[A] = path
    BY <1>2 DEF Visited, Published
  <2>2. out \in Outcomes(path) /\ TargetOf(x) = path
    BY DEF Out, Budgeted, Outcomes, TargetOf, Target, Ref
  <2> HIDE DEF out, x, path
  <2>3. /\ DOMAIN b.meta = DOMAIN a.meta \cup {x} /\ b.meta[x] = out
        /\ \A q \in DOMAIN a.meta : q # x => b.meta[q] = a.meta[q]
        /\ DOMAIN b.owners = DOMAIN a.owners \cup {A} /\ b.owners[A] = path
        /\ \A o \in DOMAIN a.owners : o # A => b.owners[o] = a.owners[o]
        /\ DOMAIN b.web = DOMAIN a.web \cup {A} /\ b.web[A] = Form(out)
        /\ \A o \in DOMAIN a.web : o # A => b.web[o] = a.web[o]
    BY <2>1 DEF Put
  <2> SUFFICES ASSUME NEW ref \in DOMAIN b.meta
               PROVE  /\ b.meta[ref] \in Outcomes(TargetOf(ref))
                      /\ b.meta[ref].asset \in DOMAIN b.owners
                      /\ b.owners[b.meta[ref].asset] = TargetOf(ref)
                      /\ b.meta[ref].asset \in DOMAIN b.web
                      /\ \E q \in DOMAIN b.meta : /\ b.meta[q].asset = b.meta[ref].asset
                                                 /\ Form(b.meta[q]) = b.web[b.meta[ref].asset]
    BY DEF Told
  <2>4. CASE ref = x
    <3>1. b.meta[ref] = out
      BY <2>3, <2>4
    <3>2. QED
      BY <2>2, <2>3, <2>4, <3>1 DEF A
  <2>5. CASE ref # x
    <3> DEFINE y == a.meta[ref]
               B == y.asset
    <3>1. ref \in DOMAIN a.meta /\ b.meta[ref] = y
      BY <2>3, <2>5
    <3>2. /\ y \in Outcomes(TargetOf(ref)) /\ B \in DOMAIN a.owners /\ a.owners[B] = TargetOf(ref)
          /\ B \in DOMAIN a.web
          /\ \E q \in DOMAIN a.meta : a.meta[q].asset = B /\ Form(a.meta[q]) = a.web[B]
      BY <3>1 DEF Told
    <3> HIDE DEF y
    <3>3. CASE B = A
      <4>1. TargetOf(ref) = path
        BY <2>1, <3>2, <3>3
      <4>2. x \in DOMAIN b.meta /\ b.meta[x].asset = B /\ Form(b.meta[x]) = b.web[B]
        BY <2>3, <3>3
      <4>3. QED
        BY <2>3, <3>1, <3>2, <3>3, <4>1, <4>2
    <3>4. CASE B # A
      <4>1. B \in DOMAIN b.owners /\ b.owners[B] = TargetOf(ref) /\ B \in DOMAIN b.web /\ b.web[B] = a.web[B]
        BY <2>3, <3>2, <3>4
      <4>2. PICK q \in DOMAIN a.meta : a.meta[q].asset = B /\ Form(a.meta[q]) = a.web[B]
        BY <3>2
      <4>3. CASE q # x
        <5>1. q \in DOMAIN b.meta /\ b.meta[q] = a.meta[q]
          BY <2>3, <4>3
        <5>2. QED
          BY <3>1, <3>2, <4>1, <4>2, <5>1
      <4>4. CASE q = x
        <5> DEFINE z == a.meta[x]
        <5>1. z \in Outcomes(path) /\ z.asset = B /\ a.owners[B] = path
          BY <2>2, <4>2, <4>4 DEF Told
        <5>2. y \in Outcomes(path)
          BY <3>2, <5>1
        <5> HIDE DEF z
        <5>3. y = z
          BY <2>2, <3>4, <5>1, <5>2 DEF Outcomes
        <5>4. Form(b.meta[ref]) = b.web[B] /\ b.meta[ref].asset = B
          BY <3>1, <4>1, <4>2, <4>4, <5>3 DEF z
        <5>5. QED
          BY <3>1, <3>2, <4>1, <5>4
      <4>5. QED
        BY <4>3, <4>4
    <3>5. QED
      BY <3>3, <3>4
  <2>6. QED
    BY <2>4, <2>5
<1>3. QED
  BY <1>1, <1>2

\* Two visits of one image of an article: the later one does not take more than the earlier.
LEMMA LaterIsSmaller ==
    ASSUME NEW a, AccOK(a), NEW c, AccOK(c), NEW b, NEW url, NEW later, Ref(later) = Ref(url),
           Published(a, url, b), b.bytes <= Used(c, later)
    PROVE  Used(a, url) + Out(c, later).bytes <= b.bytes
<1> DEFINE made == process_image(Target(url)).val
           u == Used(a, url)
           v == Used(c, later)
           x == Out(a, url).bytes
           y == Out(c, later).bytes
<1>1. u \in 0 .. MaxArticleBytes /\ v \in 0 .. MaxArticleBytes
  BY BudgetAssumption DEF Used, AccOK
<1>2. made.bytes \in Nat /\ b.bytes = u + x /\ x \in Nat
  BY DEF Published
<1>3. Target(later) = Target(url)
  BY DEF Ref, Target
<1>4. /\ Out(a, url) = Budgeted(u, Target(url), made)
      /\ Out(c, later) = Budgeted(v, Target(url), made)
  BY <1>3 DEF Out
<1>5. /\ u + made.bytes <= MaxArticleBytes => x = made.bytes
      /\ v + made.bytes <= MaxArticleBytes => y = made.bytes
      /\ ~(v + made.bytes <= MaxArticleBytes) => y = 0
      /\ y \in Nat
  <2> HIDE DEF made, u, v
  <2>1. /\ u + made.bytes <= MaxArticleBytes => Out(a, url) = made
    BY <1>1, <1>2, <1>4, BudgetedFacts
  <2>2. /\ v + made.bytes <= MaxArticleBytes => Out(c, later) = made
        /\ ~(v + made.bytes <= MaxArticleBytes) => y = 0
        /\ y \in Nat
    BY <1>1, <1>2, <1>4, BudgetedFacts
  <2>3. QED
    BY <2>1, <2>2
<1> DEFINE m == made.bytes
           w == b.bytes
<1>6. w <= v
  OBVIOUS
<1> HIDE DEF m, w, u, v, x, y
<1>7. /\ m \in Nat /\ w = u + x /\ x \in Nat /\ y \in Nat
      /\ (u + m <= MaxArticleBytes => x = m) /\ (v + m <= MaxArticleBytes => y = m)
      /\ (~(v + m <= MaxArticleBytes) => y = 0)
  BY <1>2, <1>5 DEF m, w
<1>8. MaxArticleBytes \in Nat
  BY BudgetAssumption
<1>9. u + y <= w
  BY <1>1, <1>6, <1>7, <1>8
<1>10. QED
  BY <1>9 DEF u, y, w

\* The images of a clean gathering, as far as it has come.
Gathering(f, urls, n, k) ==
    /\ n \in Nat /\ n = Len(urls) /\ Clean(f, urls, n) /\ Together(urls)
    /\ k \in Nat /\ k + 1 \in 1 .. n

\* What an article has used so far is what it has used when the next image is looked at.
LEMMA BytesCarry ==
    ASSUME NEW f, NEW urls, NEW n, NEW k, Gathering(f, urls, n, k), GatherInv(f, urls, k),
           NEW j \in 1 .. k, urls[j].source = urls[k + 1].source
    PROVE  f[j].bytes <= Used(f[k], urls[k + 1])
<1>1. n \in Nat /\ n = Len(urls) /\ Together(urls) /\ k \in Nat /\ k + 1 \in 1 .. n
  BY DEF Gathering
<1>2. j \in 1 .. n /\ j < k + 1 /\ (k + 1) - 1 = k
  BY <1>1
<1>3. urls[k].source = urls[k + 1].source /\ ~urls[k + 1].first
  BY <1>1, <1>2 DEF Together
<1>4. f[j].bytes <= f[k].bytes
  BY <1>3 DEF GatherInv
<1>5. Used(f[k], urls[k + 1]) = f[k].bytes
  BY <1>3 DEF Used
<1>6. QED
  BY <1>4, <1>5

\* The invariant holds after one more image.
LEMMA GatherKeeps ==
    ASSUME NEW f, NEW urls, NEW n, NEW k, Gathering(f, urls, n, k), GatherInv(f, urls, k)
    PROVE  GatherInv(f, urls, k + 1)
<1> DEFINE a == f[k]
           b == f[k + 1]
           url == urls[k + 1]
<1>1. n \in Nat /\ k \in Nat /\ k + 1 \in 1 .. n /\ Clean(f, urls, n)
  BY DEF Gathering
<1>2. k \in 0 .. n /\ k + 1 \in 0 .. n /\ (k + 1) - 1 = k
  BY <1>1
<1>3. AccOK(a) /\ AccOK(b) /\ Visited(a, url, b)
  <2>1. AccOK(a) /\ AccOK(b)
    BY <1>1, <1>2 DEF Clean
  <2>2. Visited(f[(k + 1) - 1], url, b)
    BY <1>1 DEF Clean
  <2>3. QED
    BY <1>2, <2>1, <2>2
<1>4. AllThere(b) /\ Told(b)
  BY <1>3, AllThereKeeps, ToldKeeps DEF GatherInv
<1>5. a.bytes \in 0 .. MaxArticleBytes /\ b.bytes \in 0 .. MaxArticleBytes /\ Used(a, url) \in 0 .. MaxArticleBytes
  BY <1>3, BudgetAssumption DEF AccOK, Used
<1>6. Used(a, url) <= b.bytes
  <2>1. CASE url.dest.foreign
    <3>1. b.bytes = Used(a, url)
      BY <1>3, <2>1 DEF Visited, Skipped
    <3>2. QED
      BY <1>5, <3>1, BudgetAssumption
  <2>2. CASE ~url.dest.foreign
    <3>1. b.bytes = Used(a, url) + Out(a, url).bytes /\ Out(a, url).bytes \in Nat
      BY <1>3, <2>2 DEF Visited, Published
    <3>2. QED
      BY <1>5, <3>1, BudgetAssumption
  <2>3. QED
    BY <2>1, <2>2
<1>7. ASSUME NEW j \in 1 .. k + 1, urls[j].source = url.source
      PROVE  f[j].bytes <= b.bytes
  <2>1. CASE j = k + 1
    BY <1>5, <2>1, BudgetAssumption
  <2>2. CASE j # k + 1
    <3>1. j \in 1 .. k /\ j \in 0 .. n
      BY <1>1, <2>2
    <3>2. f[j].bytes <= Used(a, url)
      BY <1>7, <3>1, BytesCarry
    <3>3. f[j].bytes \in 0 .. MaxArticleBytes
      BY <1>1, <3>1 DEF Clean, AccOK
    <3>4. QED
      BY <1>5, <1>6, <3>2, <3>3, BudgetAssumption
  <2>3. QED
    BY <2>1, <2>2
<1>8. ASSUME NEW j \in 1 .. k + 1, ~urls[j].dest.foreign
      PROVE  Fits(f, urls, j, b)
  <2> DEFINE x == Ref(urls[j])
  <2>1. CASE url.dest.foreign
    <3>1. j \in 1 .. k
      BY <1>1, <1>8, <2>1
    <3>2. Fits(f, urls, j, a)
      BY <1>8, <3>1 DEF GatherInv
    <3>3. b.meta = a.meta
      BY <1>3, <2>1 DEF Visited, Skipped
    <3>4. QED
      BY <3>2, <3>3 DEF Fits
  <2>2. CASE ~url.dest.foreign
    <3>1. Published(a, url, b)
      BY <1>3, <2>2 DEF Visited
    <3>2. b.meta = Put(a.meta, Ref(url), Out(a, url)) /\ Out(a, url).bytes \in Nat
          /\ b.bytes = Used(a, url) + Out(a, url).bytes
      BY <3>1 DEF Published
    <3>3. CASE x # Ref(url)
      <4>1. j \in 1 .. k
        BY <1>1, <3>3
      <4>2. Fits(f, urls, j, a)
        BY <1>8, <4>1 DEF GatherInv
      <4>3. x \in DOMAIN b.meta /\ b.meta[x] = a.meta[x]
        BY <3>2, <3>3, <4>2 DEF Put, Fits
      <4>4. QED
        BY <4>2, <4>3 DEF Fits
    <3>4. CASE x = Ref(url)
      <4>1. x \in DOMAIN b.meta /\ b.meta[x] = Out(a, url)
        BY <3>2, <3>4 DEF Put
      <4>2. Used(f[j - 1], urls[j]) + Out(a, url).bytes <= f[j].bytes
        <5>1. CASE j = k + 1
          <6>1. f[j - 1] = a /\ urls[j] = url /\ f[j] = b
            BY <1>2, <5>1
          <6>2. b.bytes <= b.bytes
            BY <1>5
          <6>3. QED
            BY <3>2, <6>1, <6>2
        <5>2. CASE j # k + 1
          <6>1. j \in 1 .. k /\ j \in 1 .. n /\ j - 1 \in 0 .. n
            BY <1>1, <5>2
          <6>2. urls[j].source = url.source
            BY <3>4 DEF Ref
          <6>3. f[j].bytes <= Used(a, url)
            BY <6>1, <6>2, BytesCarry
          <6>4. Published(f[j - 1], urls[j], f[j]) /\ AccOK(f[j - 1])
            BY <1>1, <1>8, <6>1 DEF Clean, Visited
          <6>5. QED
            BY <1>3, <3>4, <6>3, <6>4, LaterIsSmaller
        <5>3. QED
          BY <5>1, <5>2
      <4>3. QED
        BY <3>2, <4>1, <4>2 DEF Fits
    <3>5. QED
      BY <3>3, <3>4
  <2>3. QED
    BY <2>1, <2>2
<1>9. QED
  BY <1>4, <1>7, <1>8 DEF GatherInv

\* So it holds of the whole gathering.
LEMMA GatherAll ==
    ASSUME NEW f, NEW urls, NEW n \in Nat, n = Len(urls), Clean(f, urls, n), Together(urls)
    PROVE  GatherInv(f, urls, n)
<1> DEFINE T == {k \in 0 .. n : GatherInv(f, urls, k)}
<1>1. 0 \in T
  <2>1. f[0].meta = <<>>
    BY DEF Clean, NoImages
  <2>2. AllThere(f[0]) /\ Told(f[0])
    BY <2>1 DEF AllThere, Told
  <2>3. \A j \in 1 .. 0 : FALSE
    OBVIOUS
  <2>4. QED
    BY <2>2, <2>3 DEF GatherInv
<1>2. ASSUME NEW k \in 0 .. n, k \in T, k + 1 \in 0 .. n PROVE k + 1 \in T
  <2>1. Gathering(f, urls, n, k)
    BY <1>2 DEF Gathering
  <2>2. GatherInv(f, urls, k)
    BY <1>2
  <2>3. QED
    BY <1>2, <2>1, <2>2, GatherKeeps
<1>3. n \in T
  <2>1. \A k \in 0 .. n : k \in T /\ k + 1 \in 0 .. n => k + 1 \in T
    BY <1>2
  <2> HIDE DEF T
  <2>2. \A k \in 0 .. n : k \in T
    BY <1>1, <2>1, Induction, Zenon
  <2>3. QED
    BY <2>2
<1>4. QED
  BY <1>3

-----------------------------------------------------------------------------
(* What an accepted content publishes of its images.                         *)

\* g[i] is what the first i images of an article show inline, in bytes.
Adds(g, meta, source, refs, n) ==
    g = [i \in 0 .. n |->
            IF i = 0 THEN 0
            ELSE g[i - 1] + IF refs[i].foreign THEN 0 ELSE meta[<<source, refs[i]>>].bytes]

\* The same, as a first value and a step.
AddSteps(g, meta, source, refs, n) ==
    /\ g[0] = 0
    /\ \A i \in 1 .. n :
          g[i] = g[i - 1] + IF refs[i].foreign THEN 0 ELSE meta[<<source, refs[i]>>].bytes

\* A table of sums has its values.
LEMMA AddsStep ==
    ASSUME NEW meta, NEW source, NEW refs, NEW n \in Nat, NEW g, Adds(g, meta, source, refs, n)
    PROVE  AddSteps(g, meta, source, refs, n)
<1>1. 0 \in 0 .. n
  OBVIOUS
<1>2. g[0] = 0
  BY <1>1, Zenon DEF Adds
<1>3. ASSUME NEW i \in 1 .. n
      PROVE  g[i] = g[i - 1] + IF refs[i].foreign THEN 0 ELSE meta[<<source, refs[i]>>].bytes
  <2>1. i \in 0 .. n /\ i # 0
    OBVIOUS
  <2>2. g[i] = IF i = 0 THEN 0
               ELSE g[i - 1] + IF refs[i].foreign THEN 0 ELSE meta[<<source, refs[i]>>].bytes
    BY <2>1, Zenon DEF Adds
  <2>3. QED
    BY <2>1, <2>2, Zenon
<1>4. QED
  BY <1>2, <1>3, Zenon DEF AddSteps

\* It can be carried one image on ...
LEMMA AddsMore ==
    ASSUME NEW meta, NEW source, NEW refs, NEW n \in Nat, NEW g, Adds(g, meta, source, refs, n)
    PROVE  \E h : Adds(h, meta, source, refs, n + 1)
<1> DEFINE val(u, i) == IF i = 0 THEN 0
                        ELSE u[i - 1] + IF refs[i].foreign THEN 0 ELSE meta[<<source, refs[i]>>].bytes
           h == [i \in 0 .. n + 1 |-> val(g, i)]
<1>1. ASSUME NEW i \in 0 .. n PROVE h[i] = g[i]
  <2>1. g[i] = val(g, i)
    BY Zenon DEF Adds
  <2>2. i \in 0 .. n + 1
    OBVIOUS
  <2>3. QED
    BY <2>1, <2>2, Zenon
<1>2. \A i \in 0 .. n + 1 : i # 0 => i - 1 \in 0 .. n
  OBVIOUS
<1>3. ASSUME NEW i \in 0 .. n + 1 PROVE val(g, i) = val(h, i)
  <2>1. CASE i = 0
    BY <2>1
  <2>2. CASE i # 0
    <3>1. h[i - 1] = g[i - 1]
      BY <1>1, <1>2, <2>2
    <3> HIDE DEF h
    <3>2. QED
      BY <3>1
  <2>3. QED
    BY <2>1, <2>2
<1>4. h = [i \in 0 .. n + 1 |-> val(h, i)]
  <2>1. \A i \in 0 .. n + 1 : val(g, i) = val(h, i)
    BY <1>3
  <2> HIDE DEF val
  <2>2. QED
    BY <2>1, Zenon
<1> HIDE DEF h
<1>5. QED
  BY <1>4 DEF Adds

\* ... so there is one for any number of images.
LEMMA AddsExists ==
    ASSUME NEW meta, NEW source, NEW refs, NEW n \in Nat
    PROVE  \E g : Adds(g, meta, source, refs, n)
<1> DEFINE T == {k \in Nat : \E g : Adds(g, meta, source, refs, k)}
<1>1. 0 \in T
  <2> DEFINE g == [i \in {0} |-> 0]
  <2>1. 0 .. 0 = {0}
    OBVIOUS
  <2>2. g = [i \in {0} |->
               IF i = 0 THEN 0
               ELSE g[i - 1] + IF refs[i].foreign THEN 0 ELSE meta[<<source, refs[i]>>].bytes]
    BY Zenon
  <2> HIDE DEF g
  <2>3. Adds(g, meta, source, refs, 0)
    BY <2>1, <2>2, Zenon DEF Adds
  <2>4. QED
    BY <2>3
<1>2. \A k \in T : k + 1 \in T
  BY AddsMore
<1>3. T = Nat
  <2> HIDE DEF T
  <2>1. T \in SUBSET Nat
    BY DEF T
  <2>2. QED
    BY <1>1, <1>2, <2>1, EveryNumber
<1>4. QED
  BY <1>3

\* InlineBytes is the last of them.
LEMMA InlineBytesIs ==
    ASSUME NEW meta, NEW source, NEW refs, Len(refs) \in Nat
    PROVE  \E g : AddSteps(g, meta, source, refs, Len(refs)) /\ InlineBytes(meta, source, refs) = g[Len(refs)]
<1> DEFINE G == CHOOSE g : Adds(g, meta, source, refs, Len(refs))
<1>1. Adds(G, meta, source, refs, Len(refs))
  BY AddsExists, Zenon
<1>2. InlineBytes(meta, source, refs) = G[Len(refs)]
  BY DEF InlineBytes, Adds
<1> HIDE DEF G
<1>3. AddSteps(G, meta, source, refs, Len(refs))
  BY <1>1, AddsStep
<1>4. QED
  BY <1>2, <1>3

\* A clean gathering, whole.
AllGathered(f, urls, n) ==
    n \in Nat /\ n = Len(urls) /\ Clean(f, urls, n) /\ GatherInv(f, urls, n)

\* What an article shows inline is within what it was given of its budget.
LEMMA WithinBudget ==
    ASSUME NEW f, NEW urls, NEW n, AllGathered(f, urls, n), NEW source, NEW refs, NEW o,
           Len(refs) \in Nat, Run(urls, source, refs, o)
    PROVE  InlineBytes(f[n].meta, source, refs) <= MaxArticleBytes
<1> DEFINE meta == f[n].meta
           L == Len(refs)
<1>1. PICK g : AddSteps(g, meta, source, refs, L) /\ InlineBytes(meta, source, refs) = g[L]
  BY InlineBytesIs
<1> DEFINE so(i) == IF i = 0 THEN 0 ELSE f[o + i].bytes
           T == {i \in 0 .. L : g[i] \in Nat /\ g[i] <= so(i)}
<1>2. n \in Nat /\ n = Len(urls) /\ Clean(f, urls, n) /\ o \in Nat /\ MaxArticleBytes \in Nat
  BY BudgetAssumption DEF AllGathered, Run
<1>3. ASSUME NEW i \in 1 .. L
      PROVE  o + i \in 1 .. n /\ urls[o + i] = UrlAt(source, refs, i)
  BY <1>2 DEF Run
<1>4. 0 \in T
  BY <1>1 DEF AddSteps
<1>5. \A i \in 0 .. L : so(i) \in 0 .. MaxArticleBytes
  <2> SUFFICES ASSUME NEW i \in 0 .. L, i # 0 PROVE f[o + i].bytes \in 0 .. MaxArticleBytes
    BY <1>2
  <2>1. o + i \in 0 .. n
    BY <1>2, <1>3
  <2>2. QED
    BY <1>2, <2>1 DEF Clean, AccOK
<1>6. ASSUME NEW i \in 0 .. L, i \in T, i + 1 \in 0 .. L PROVE i + 1 \in T
  <2> DEFINE k == o + (i + 1)
             url == urls[k]
             y == meta[<<source, refs[i + 1]>>].bytes
  <2>1. i + 1 \in 1 .. L /\ (i + 1) - 1 = i /\ i + 1 # 0
    BY <1>6
  <2>2. k \in 1 .. n /\ url = UrlAt(source, refs, i + 1) /\ k - 1 = o + i
    BY <1>2, <1>3, <2>1
  <2>3. Visited(f[k - 1], url, f[k])
    BY <1>2, <2>2 DEF Clean
  <2>4. Used(f[k - 1], url) = so(i)
    <3>1. url.first = (i + 1 = 1)
      BY <2>2 DEF UrlAt
    <3>2. Used(f[k - 1], url) = IF url.first THEN 0 ELSE f[k - 1].bytes
      BY DEF Used
    <3>i. i + 1 = 1 <=> i = 0
      BY <1>6
    <3>3. CASE i = 0
      <4>1. url.first /\ so(i) = 0
        BY <3>1, <3>i, <3>3
      <4> HIDE DEF k, url, so
      <4>2. QED
        BY <3>2, <4>1
    <3>4. CASE i # 0
      <4>0. url.first = FALSE
        BY <3>1, <3>i, <3>4
      <4>1. ~url.first /\ so(i) = f[o + i].bytes
        BY <3>4, <4>0
      <4>2. k - 1 = o + i
        BY <2>2
      <4> HIDE DEF k, url, so
      <4>3. QED
        BY <3>2, <4>1, <4>2
    <3>5. QED
      BY <3>3, <3>4
  <2>5. url.dest = refs[i + 1] /\ Ref(url) = <<source, refs[i + 1]>>
    BY <2>2 DEF UrlAt, Ref
  <2>6. g[i] \in Nat /\ g[i] <= so(i) /\ so(i) \in 0 .. MaxArticleBytes /\ so(i + 1) = f[k].bytes
        /\ so(i + 1) \in 0 .. MaxArticleBytes
    BY <1>5, <1>6, <2>1
  <2>7. g[i + 1] = g[i] + IF refs[i + 1].foreign THEN 0 ELSE y
    BY <1>1, <2>1 DEF AddSteps
  <2>8. CASE refs[i + 1].foreign
    <3>1. f[k].bytes = so(i)
      BY <2>3, <2>4, <2>5, <2>8 DEF Visited, Skipped
    <3>2. g[i + 1] = g[i]
      BY <2>6, <2>7, <2>8
    <3> HIDE DEF so, k
    <3>3. g[i + 1] \in Nat /\ g[i + 1] <= so(i + 1)
      BY <2>6, <3>1, <3>2
    <3>4. QED
      BY <1>6, <3>3
  <2>9. CASE ~refs[i + 1].foreign
    <3>1. Fits(f, urls, k, f[n])
      BY <2>2, <2>5, <2>9 DEF AllGathered, GatherInv
    <3>2. y \in Nat /\ so(i) + y <= f[k].bytes
      BY <2>4, <2>5, <3>1 DEF Fits
    <3>3. g[i + 1] = g[i] + y
      BY <2>7, <2>9
    <3> HIDE DEF so, k, y
    <3>4. g[i + 1] \in Nat /\ g[i + 1] <= so(i + 1)
      BY <2>6, <3>2, <3>3, <1>2
    <3>5. QED
      BY <1>6, <3>4
  <2>10. QED
    BY <2>8, <2>9
<1>7. L \in T
  <2>1. \A i \in 0 .. L : i \in T /\ i + 1 \in 0 .. L => i + 1 \in T
    BY <1>6
  <2> HIDE DEF T
  <2>2. \A i \in 0 .. L : i \in T
    BY <1>4, <2>1, Induction, Zenon
  <2>3. QED
    BY <2>2
<1>8. g[L] \in Nat /\ g[L] <= so(L) /\ so(L) \in 0 .. MaxArticleBytes
  BY <1>5, <1>7
<1> HIDE DEF so
<1>9. g[L] <= MaxArticleBytes
  BY <1>2, <1>8
<1>10. QED
  BY <1>1, <1>9

\* What every accepted tree publishes of the images of an article.
LEMMA AcceptedServes ==
    ASSUME NEW n \in DOMAIN Trees, TreeAccepted[n], NEW art \in article_paths(Trees[n])
    PROVE  LET refs == Trees[n].refs[art.source]
               meta == Gathered[n].meta
               shown(i) == meta[<<art.source, refs[i]>>]
           IN  /\ \A i \in DOMAIN refs : ~refs[i].foreign =>
                      /\ shown(i).asset \in Desired[n]
                      /\ \E ref \in DOMAIN meta :
                            /\ meta[ref].asset = shown(i).asset
                            /\ Gathered[n].web[shown(i).asset] = Form(meta[ref])
                      /\ shown(i).kind = "inline" => shown(i).asset \in Gathered[n].terminal
               /\ InlineBytes(meta, art.source, refs) <= MaxArticleBytes
<1> DEFINE t == Trees[n]
           urls == image_urls(t)
           refs == t.refs[art.source]
           N == Len(urls)
           all == gather_images(t)
           shown(i) == all.meta[<<art.source, refs[i]>>]
<1>1. Gathered[n] = all /\ all.errors = 0
  BY DEF Gathered, TreeAccepted
<1>2. N \in Nat
  <2>1. PICK U : urls \in Seq(U)
    BY UrlsFacts
  <2>2. QED
    BY <2>1
<1>3. Together(urls)
  BY UrlsFacts
<1>4. PICK o : Run(urls, art.source, refs, o)
  BY UrlsFacts
<1>5. refs \in Seq(Urls) /\ Len(refs) \in Nat /\ DOMAIN refs = 1 .. Len(refs)
  <2>1. refs \in Seq(Urls)
    BY ContentAssumption
  <2>2. QED
    BY <2>1
<1>6. PICK f : GatherSteps(f, t, urls, N) /\ all = f[N]
  BY <1>2, GatherIs
<1> HIDE DEF t, urls, refs, all
<1>7. Clean(f, urls, N)
  BY <1>1, <1>2, <1>6, NoErrors
<1>8. GatherInv(f, urls, N)
  BY <1>2, <1>3, <1>7, GatherAll
<1>9. AllGathered(f, urls, N)
  BY <1>2, <1>7, <1>8 DEF AllGathered
<1>10. InlineBytes(all.meta, art.source, refs) <= MaxArticleBytes
  BY <1>4, <1>5, <1>6, <1>9, WithinBudget
<1>11. ASSUME NEW p \in DOMAIN all.owners PROVE p \in Desired[n]
  <2>1. Claim(p, <<"image", all.owners[p]>>) \in desired_claims(t)
    BY DEF desired_claims, all
  <2>2. Claim(p, <<"image", all.owners[p]>>).path = p
    BY DEF Claim
  <2>3. QED
    BY <2>1, <2>2 DEF Desired, t
<1>12. ASSUME NEW i \in DOMAIN refs, ~refs[i].foreign
       PROVE  /\ shown(i).asset \in Desired[n]
              /\ \E ref \in DOMAIN all.meta :
                    all.meta[ref].asset = shown(i).asset /\ all.web[shown(i).asset] = Form(all.meta[ref])
              /\ shown(i).kind = "inline" => shown(i).asset \in all.terminal
  <2>1. o + i \in 1 .. N /\ urls[o + i] = UrlAt(art.source, refs, i)
    BY <1>4, <1>5 DEF Run
  <2>2. urls[o + i].dest = refs[i] /\ Ref(urls[o + i]) = <<art.source, refs[i]>>
    BY <2>1 DEF UrlAt, Ref
  <2>3. Fits(f, urls, o + i, all)
    BY <1>6, <1>8, <1>12, <2>1, <2>2 DEF GatherInv
  <2>4. <<art.source, refs[i]>> \in DOMAIN all.meta
    BY <2>2, <2>3 DEF Fits
  <2>5. AllThere(all)
    BY <1>6, <1>8 DEF GatherInv
  <2>6. shown(i).asset \in DOMAIN all.owners /\ (shown(i).kind = "inline" => shown(i).asset \in all.terminal)
    BY <2>4, <2>5 DEF AllThere
  <2>7. Told(all)
    BY <1>6, <1>8 DEF GatherInv
  <2>8. \E q \in DOMAIN all.meta : /\ all.meta[q].asset = shown(i).asset
                                  /\ Form(all.meta[q]) = all.web[shown(i).asset]
    BY <2>4, <2>7 DEF Told
  <2>9. QED
    BY <1>11, <2>6, <2>8
<1>13. QED
  BY <1>1, <1>10, <1>12 DEF t, refs

\* Every image that an article shows or links to lies in dist beside its page, processed or as
\* it is as some reference to that file asks for, and, where it is shown inline, among the
\* assets of the terminal; what one article shows inline stays within
\* MAX_ARTICLE_BYTES, in whatever order and however often its images come (the image loop of
\* main, process_image).
THEOREM ImagesAlwaysServed == Spec => []ImagesServed
<1>1. IInv /\ TargetsOK => ImagesServed
  <2> SUFFICES ASSUME IInv, TargetsOK, result = "ok", clean, NEW art \in article_paths(Trees[tree])
               PROVE  LET refs == Trees[tree].refs[art.source]
                          meta == Gathered[tree].meta
                          shown(i) == meta[<<art.source, refs[i]>>]
                      IN  /\ \A i \in DOMAIN refs : ~refs[i].foreign =>
                                 /\ shown(i).asset \in DOMAIN dist
                                 /\ dist[shown(i).asset] = trees["rendered"]
                                 /\ \E ref \in DOMAIN meta :
                                       /\ meta[ref].asset = shown(i).asset
                                       /\ Gathered[dist[shown(i).asset]].web[shown(i).asset]
                                             = IF meta[ref].kind = "inline" THEN "processed" ELSE "original"
                                 /\ shown(i).kind = "inline" =>
                                        shown(i).asset \in Gathered[trees["rendered-assets"]].terminal
                          /\ InlineBytes(meta, art.source, refs) <= MaxArticleBytes
    BY DEF ImagesServed
  <2>1. tree \in DOMAIN Trees
    BY DEF IInv, ShapeOK
  <2>2. /\ DOMAIN dist = Safe \cup Desired[tree] /\ \A p \in Desired[tree] : dist[p] = tree
        /\ manifest = Desired[tree] /\ trees["rendered"] = tree /\ trees["rendered-assets"] = tree
    BY DEF IInv, PublishedIsCurrent, Safe, Projections
  <2>3. TreeAccepted[tree]
    <3>1. targets = tree /\ tree # None
      BY <2>1, NoneAssumption DEF IInv, PublishedIsCurrent
    <3>2. QED
      BY <3>1 DEF TargetsOK
  <2> DEFINE refs == Trees[tree].refs[art.source]
             meta == Gathered[tree].meta
             shown(i) == meta[<<art.source, refs[i]>>]
  <2>4. /\ \A i \in DOMAIN refs : ~refs[i].foreign =>
               /\ shown(i).asset \in Desired[tree]
               /\ \E ref \in DOMAIN meta :
                     /\ meta[ref].asset = shown(i).asset
                     /\ Gathered[tree].web[shown(i).asset] = Form(meta[ref])
               /\ shown(i).kind = "inline" => shown(i).asset \in Gathered[tree].terminal
        /\ InlineBytes(meta, art.source, refs) <= MaxArticleBytes
    BY <2>1, <2>3, AcceptedServes
  <2> HIDE DEF refs, meta
  <2>5. ASSUME NEW i \in DOMAIN refs, ~refs[i].foreign
        PROVE  /\ shown(i).asset \in DOMAIN dist /\ dist[shown(i).asset] = tree
               /\ \E ref \in DOMAIN meta :
                     /\ meta[ref].asset = shown(i).asset
                     /\ Gathered[tree].web[shown(i).asset] = Form(meta[ref])
               /\ shown(i).kind = "inline" => shown(i).asset \in Gathered[tree].terminal
    BY <2>2, <2>4, <2>5
  <2>6. \A m : Form(m) = IF m.kind = "inline" THEN "processed" ELSE "original"
    BY DEF Form
  <2>7. QED
    BY <2>2, <2>4, <2>5, <2>6 DEF refs, meta
<1>2. Init => TargetsOK
  BY DEF Init, TargetsOK
<1>3. IInv /\ TargetsOK /\ [Next]_vars => TargetsOK'
  BY TargetsKeep
<1>4. QED
  BY <1>1, <1>2, <1>3, InductiveInvariant, PTL DEF Spec
=============================================================================
