---------------------------- MODULE ReportProofs ----------------------------
(***************************************************************************)
(* What migration-report.md tells the operator is true: the proofs that    *)
(* the apply order is a strict total order with the dependencies first,    *)
(* that every row about a deletion holds, that the list of manual files is *)
(* complete, that a directory apply takes only what is listed, that        *)
(* rewrites are replaced and additions merged, and that the plan of a dry  *)
(* run predicts the report of the run.                                     *)
(***************************************************************************)
EXTENDS Report, MigrateProofs, FiniteSetTheorems

-----------------------------------------------------------------------------
(***************************************************************************)
(* The apply order.                                                        *)
(***************************************************************************)

Names == {Alphabetical[i] : i \in DOMAIN Alphabetical}

\* The byte order of names is an order: every name has a place of its own.
LEMMA PlaceOfName ==
  \A n \in Names : Place(n) \in Nat \ {0} /\ Alphabetical[Place(n)] = n
<1> SUFFICES ASSUME NEW n \in Names
             PROVE  Place(n) \in Nat \ {0} /\ Alphabetical[Place(n)] = n
  OBVIOUS
<1>1. PICK i \in DOMAIN Alphabetical : Alphabetical[i] = n
  BY DEF Names
<1>2. Place(n) \in DOMAIN Alphabetical /\ Alphabetical[Place(n)] = n
  BY <1>1 DEF Place
<1>3. Place(n) \in Nat \ {0}
  BY <1>2, ElementType, LabelAssumption
<1> QED
  BY <1>2, <1>3

\* The kind subfolders.
LEMMA SubfolderValues ==
  Subfolder = {"backends", "resiliency", "routing", "zerotrust", "mesh",
               "observability", "other"}
BY DEF Subfolder, KindsUnder

\* subRank gives every subfolder a rank of its own, backends the first.
LEMMA RankOfSubfolder ==
  /\ \A s \in Subfolder : SubRank(s) \in Nat
  /\ \A s, u \in Subfolder : SubRank(s) = SubRank(u) => s = u
  /\ \A s \in Subfolder : s # "backends" => SubRank("backends") < SubRank(s)
<1>1. /\ SubRank("backends") = 0 /\ SubRank("resiliency") = 1
      /\ SubRank("routing") = 2 /\ SubRank("zerotrust") = 3
      /\ SubRank("observability") = 4 /\ SubRank("other") = 5
      /\ SubRank("mesh") = 100
  BY DEF SubRank
<1> QED
  BY <1>1, SubfolderValues

\* An apply directory as outputs are given one: dirFromOutputPath.
WellPlaced(d) ==
  /\ d = [ctx |-> d.ctx, area |-> d.area, sub |-> d.sub]
  /\ d.sub \in Subfolder /\ d.ctx \notin Subfolder
  /\ CPModeDir(d) \in Names
  /\ d.ctx = "" => d.area = <<>>
  /\ d.ctx # "" => \/ d.area = <<"global-scoped-resources">>
                   \/ \E m \in Names : d.area = <<"mesh", m>>

\* The four parts by which collectApplyDirs compares are numbers.
LEMMA KeyType ==
  \A d : WellPlaced(d) => SortKey(d) \in Nat \X Nat \X Nat \X Nat
<1> SUFFICES ASSUME NEW d, WellPlaced(d)
             PROVE  SortKey(d) \in Nat \X Nat \X Nat \X Nat
  OBVIOUS
<1>1. ApplyDirCPRank(CPModeDir(d)) \in Nat
  BY DEF ApplyDirCPRank
<1>2. Place(CPModeDir(d)) \in Nat
  BY PlaceOfName DEF WellPlaced
<1>3. SubRank(d.sub) \in Nat
  BY RankOfSubfolder DEF WellPlaced
<1>4. RelDirPlace(d) \in Nat
  <2>1. CASE d.area = <<>> \/ d.area = <<"global-scoped-resources">>
    BY <2>1 DEF RelDirPlace
  <2>2. ASSUME NEW m \in Names, d.area = <<"mesh", m>>
        PROVE  RelDirPlace(d) \in Nat
    <3>1. RelDirPlace(d) = Place(m)
      BY <2>2 DEF RelDirPlace
    <3> QED
      BY <3>1, PlaceOfName
  <2> QED
    BY <2>1, <2>2 DEF WellPlaced
<1> QED
  BY <1>1, <1>2, <1>3, <1>4 DEF SortKey

\* Directories that do not differ in any part are one directory.
LEMMA KeyTellsApart ==
  ASSUME NEW a, NEW b, WellPlaced(a), WellPlaced(b), SortKey(a) = SortKey(b)
  PROVE  a = b
<1>1. /\ Place(CPModeDir(a)) = Place(CPModeDir(b))
      /\ SubRank(a.sub) = SubRank(b.sub) /\ RelDirPlace(a) = RelDirPlace(b)
  BY DEF SortKey
<1>2. a.sub = b.sub
  BY <1>1, RankOfSubfolder DEF WellPlaced
<1>3. CPModeDir(a) = CPModeDir(b)
  BY <1>1, PlaceOfName DEF WellPlaced
<1>4. a.ctx = b.ctx
  BY <1>3 DEF CPModeDir, WellPlaced
<1>5. a.area = b.area
  <2>1. CASE a.ctx = ""
    BY <2>1, <1>4 DEF WellPlaced
  <2>2. CASE a.ctx # ""
    <3> DEFINE Apart(d) == d.area = <<"global-scoped-resources">>
               Meshed(d, m) == m \in Names /\ d.area = <<"mesh", m>>
    <3>1. /\ Apart(a) \/ \E m \in Names : Meshed(a, m)
          /\ Apart(b) \/ \E m \in Names : Meshed(b, m)
      BY <2>2, <1>4 DEF WellPlaced
    <3>2. \A d : Apart(d) => RelDirPlace(d) = 0
      BY DEF RelDirPlace
    <3>3. \A d, m : Meshed(d, m) => RelDirPlace(d) = Place(m)
      BY DEF RelDirPlace
    <3>4. \A m, n \in Names : Place(m) # 0 /\ (Place(m) = Place(n) => m = n)
      BY PlaceOfName
    <3>5. CASE Apart(a) /\ Apart(b)
      BY <3>5
    <3>6. ASSUME NEW m, Meshed(a, m), Apart(b) PROVE FALSE
      BY <3>6, <3>2, <3>3, <3>4, <1>1
    <3>7. ASSUME NEW m, Meshed(b, m), Apart(a) PROVE FALSE
      BY <3>7, <3>2, <3>3, <3>4, <1>1
    <3>8. ASSUME NEW m, NEW n, Meshed(a, m), Meshed(b, n) PROVE a.area = b.area
      BY <3>8, <3>3, <3>4, <1>1
    <3> QED
      BY <3>1, <3>5, <3>6, <3>7, <3>8
  <2> QED
    BY <2>1, <2>2
<1> QED
  BY <1>2, <1>4, <1>5 DEF WellPlaced

\* The less function, written out.
LEMMA SortsForm ==
  ASSUME NEW a, NEW b
  PROVE  LET p == SortKey(a)  q == SortKey(b)
         IN  SortsBefore(a, b) <=>
               \/ p[1] < q[1]
               \/ p[1] = q[1] /\ p[2] < q[2]
               \/ p[1] = q[1] /\ p[2] = q[2] /\ p[3] < q[3]
               \/ p[1] = q[1] /\ p[2] = q[2] /\ p[3] = q[3] /\ p[4] < q[4]
<1> DEFINE p == SortKey(a)
           q == SortKey(b)
           Less(i) == p[i] < q[i] /\ \A j \in 1..(i - 1) : p[j] = q[j]
<1>1. SortsBefore(a, b) <=> \E i \in 1..4 : Less(i)
  BY DEF SortsBefore
<1> HIDE DEF p, q
<1>2. /\ Less(1) <=> p[1] < q[1]
      /\ Less(2) <=> p[1] = q[1] /\ p[2] < q[2]
      /\ Less(3) <=> p[1] = q[1] /\ p[2] = q[2] /\ p[3] < q[3]
      /\ Less(4) <=> p[1] = q[1] /\ p[2] = q[2] /\ p[3] = q[3] /\ p[4] < q[4]
  OBVIOUS
<1> HIDE DEF Less
<1>3. (\E i \in 1..4 : Less(i)) <=> Less(1) \/ Less(2) \/ Less(3) \/ Less(4)
  <2>1. 1..4 = {1, 2, 3, 4}
    OBVIOUS
  <2> QED
    BY <2>1, Zenon
<1>4. SortsBefore(a, b) <=>
        \/ p[1] < q[1]
        \/ p[1] = q[1] /\ p[2] < q[2]
        \/ p[1] = q[1] /\ p[2] = q[2] /\ p[3] < q[3]
        \/ p[1] = q[1] /\ p[2] = q[2] /\ p[3] = q[3] /\ p[4] < q[4]
  BY <1>1, <1>2, <1>3, Zenon
<1> QED
  BY <1>4, Zenon DEF p, q

\* A lexicographic comparison of numbers is a strict total order.
LEMMA SortsTotal ==
  ASSUME NEW a, NEW b, NEW c, WellPlaced(a), WellPlaced(b), WellPlaced(c)
  PROVE  /\ SortsBefore(a, b) \/ SortsBefore(b, a) <=> a # b
         /\ ~(SortsBefore(a, b) /\ SortsBefore(b, a))
         /\ SortsBefore(a, b) /\ SortsBefore(b, c) => SortsBefore(a, c)
<1> DEFINE p == SortKey(a)
           q == SortKey(b)
           r == SortKey(c)
<1>1. /\ p \in Nat \X Nat \X Nat \X Nat /\ q \in Nat \X Nat \X Nat \X Nat
      /\ r \in Nat \X Nat \X Nat \X Nat
  BY KeyType
<1>2. p = q => a = b
  BY KeyTellsApart
<1>3. a = b => p = q
  OBVIOUS
<1>4. /\ SortsBefore(a, b) <=>
           \/ p[1] < q[1]
           \/ p[1] = q[1] /\ p[2] < q[2]
           \/ p[1] = q[1] /\ p[2] = q[2] /\ p[3] < q[3]
           \/ p[1] = q[1] /\ p[2] = q[2] /\ p[3] = q[3] /\ p[4] < q[4]
      /\ SortsBefore(b, a) <=>
           \/ q[1] < p[1]
           \/ q[1] = p[1] /\ q[2] < p[2]
           \/ q[1] = p[1] /\ q[2] = p[2] /\ q[3] < p[3]
           \/ q[1] = p[1] /\ q[2] = p[2] /\ q[3] = p[3] /\ q[4] < p[4]
      /\ SortsBefore(b, c) <=>
           \/ q[1] < r[1]
           \/ q[1] = r[1] /\ q[2] < r[2]
           \/ q[1] = r[1] /\ q[2] = r[2] /\ q[3] < r[3]
           \/ q[1] = r[1] /\ q[2] = r[2] /\ q[3] = r[3] /\ q[4] < r[4]
      /\ SortsBefore(a, c) <=>
           \/ p[1] < r[1]
           \/ p[1] = r[1] /\ p[2] < r[2]
           \/ p[1] = r[1] /\ p[2] = r[2] /\ p[3] < r[3]
           \/ p[1] = r[1] /\ p[2] = r[2] /\ p[3] = r[3] /\ p[4] < r[4]
  BY SortsForm, Zenon
<1> HIDE DEF p, q, r
<1>5. /\ p[1] \in Nat /\ p[2] \in Nat /\ p[3] \in Nat /\ p[4] \in Nat
      /\ q[1] \in Nat /\ q[2] \in Nat /\ q[3] \in Nat /\ q[4] \in Nat
      /\ r[1] \in Nat /\ r[2] \in Nat /\ r[3] \in Nat /\ r[4] \in Nat
  BY <1>1
<1>6. p = q <=> p[1] = q[1] /\ p[2] = q[2] /\ p[3] = q[3] /\ p[4] = q[4]
  BY <1>1
<1>7. ~(SortsBefore(a, b) /\ SortsBefore(b, a))
  BY <1>4, <1>5
<1>8. SortsBefore(a, b) /\ SortsBefore(b, c) => SortsBefore(a, c)
  BY <1>4, <1>5
<1>9. SortsBefore(a, b) \/ SortsBefore(b, a) <=> a # b
  <2>1. SortsBefore(a, b) \/ SortsBefore(b, a) <=>
          ~(p[1] = q[1] /\ p[2] = q[2] /\ p[3] = q[3] /\ p[4] = q[4])
    BY <1>4, <1>5
  <2> QED
    BY <1>2, <1>3, <1>6, <2>1
<1> QED
  BY <1>7, <1>8, <1>9

\* So is the order of the checklist, where mesh/ directories come last.
LEMMA AppliedTotal ==
  ASSUME NEW a, NEW b, NEW c, WellPlaced(a), WellPlaced(b), WellPlaced(c)
  PROVE  /\ (AppliedBefore(a, b) \/ AppliedBefore(b, a)) <=> a # b
         /\ ~(AppliedBefore(a, b) /\ AppliedBefore(b, a))
         /\ AppliedBefore(a, b) /\ AppliedBefore(b, c) => AppliedBefore(a, c)
         /\ a.ctx # "" /\ a.ctx = b.ctx /\ a.sub = "backends" /\ b.sub # a.sub =>
              AppliedBefore(a, b)
         /\ a.sub = "mesh" /\ b.sub # "mesh" => AppliedBefore(b, a)
<1>1. /\ SortsBefore(a, b) \/ SortsBefore(b, a) <=> a # b
      /\ ~(SortsBefore(a, b) /\ SortsBefore(b, a))
      /\ SortsBefore(a, b) /\ SortsBefore(b, c) => SortsBefore(a, c)
  BY SortsTotal
<1>2. a = b => a.sub = b.sub
  OBVIOUS
<1>3. /\ AppliedBefore(a, b) <=>
           \/ a.sub # "mesh" /\ b.sub = "mesh"
           \/ (a.sub = "mesh" <=> b.sub = "mesh") /\ SortsBefore(a, b)
      /\ AppliedBefore(b, a) <=>
           \/ b.sub # "mesh" /\ a.sub = "mesh"
           \/ (b.sub = "mesh" <=> a.sub = "mesh") /\ SortsBefore(b, a)
      /\ AppliedBefore(b, c) <=>
           \/ b.sub # "mesh" /\ c.sub = "mesh"
           \/ (b.sub = "mesh" <=> c.sub = "mesh") /\ SortsBefore(b, c)
      /\ AppliedBefore(a, c) <=>
           \/ a.sub # "mesh" /\ c.sub = "mesh"
           \/ (a.sub = "mesh" <=> c.sub = "mesh") /\ SortsBefore(a, c)
  BY Zenon DEF AppliedBefore
<1>4. ASSUME a.ctx # "", a.ctx = b.ctx, a.sub = "backends", b.sub # a.sub
      PROVE  SortsBefore(a, b)
  <2> DEFINE p == SortKey(a)
             q == SortKey(b)
  <2>1. p[1] = q[1] /\ p[2] = q[2] /\ p[3] = SubRank(a.sub) /\ q[3] = SubRank(b.sub)
    BY <1>4 DEF SortKey, CPModeDir
  <2>2. p[3] < q[3]
    BY <1>4, <2>1, RankOfSubfolder DEF WellPlaced
  <2> QED
    BY <2>1, <2>2, SortsForm, Zenon
<1> QED
  BY <1>1, <1>2, <1>3, <1>4

-----------------------------------------------------------------------------
(***************************************************************************)
(* What a closed file report is worth, whichever run it is of.             *)
(***************************************************************************)

\* The files a run can meet.
InputFiles ==
  (UNION {{tr[x] : x \in DOMAIN tr} : tr \in InputTrees}) \union {NoFile}

\* Outputs are recorded under the path of their document, and what is noted
\* of a document as manual is noted of its file.
Sourced(fr) ==
  /\ fr.file \in InputFiles
  /\ \A k \in DOMAIN fr.apply :
       fr.apply[k].path = OutputPath(fr.file, fr.apply[k].raw, FALSE)
  /\ \A j \in DOMAIN fr.changes : \A x \in DOMAIN fr.changes[j].manual :
       fr.changes[j].manual[x] \in ManualPaths(fr)

Made(c, t) == Transform(c.doc, t)

\* What a DocChange says is what the transform said.
Noted(f, c, t) ==
  IF SkipListed(f.env, c.doc)
  THEN c.scenario = "skipped" /\ ~c.errMsg /\ ~c.deleteBeforeV3
  ELSE /\ c.scenario = Made(c, t).scenario
       /\ c.deleteBeforeV3 = (t = "v3" /\ IsDefaultGatewayTimeout(c.doc))
       /\ c.errMsg = (~c.deleteBeforeV3 /\ Made(c, t).err # "none")
       /\ c.rejected = (~c.deleteBeforeV3 /\ Made(c, t).err = "rejected")

\* The results of the document go to the output loop as they are.
Converts(f, c, t) ==
  ~SkipListed(f.env, c.doc) /\ ~c.errMsg /\ ~c.deleteBeforeV3

\* RemovedByTarget, for any target.
Stays(raw, t) == t = "v3" /\ raw.kind \in RemovedInV3

Delivered(fr, c, raw, t) ==
  IF Stays(raw, t) THEN c.manual # <<>>
  ELSE \E x \in DOMAIN fr.apply : fr.apply[x].raw = Strip(raw)

AllDelivered(fr, t) ==
  \A j \in DOMAIN fr.changes :
    LET c == fr.changes[j]
    IN  Converts(fr.file, c, t) =>
          \A k \in DOMAIN Made(c, t).results :
            Delivered(fr, c, Made(c, t).results[k], t)

\* In the output loop: each result is in the queue, and delivered once passed.
Promise(fr, c, j, queue, done, t) ==
  Converts(fr.file, c, t) =>
    \A k \in DOMAIN Made(c, t).results :
      \E i \in DOMAIN queue :
        /\ queue[i].change = j /\ queue[i].raw = Made(c, t).results[k]
        /\ queue[i].manual = Stays(queue[i].raw, t)
        /\ i < done => Delivered(fr, c, queue[i].raw, t)

Promised(fr, queue, done, t) ==
  \A j \in DOMAIN fr.changes : Promise(fr, fr.changes[j], j, queue, done, t)

OpenSound(fr, t) ==
  Sourced(fr) /\ \A j \in DOMAIN fr.changes : Noted(fr.file, fr.changes[j], t)

FileSound(fr, t) ==
  OpenSound(fr, t) /\ (fr.label # "ERROR" => Paid(fr) /\ AllDelivered(fr, t))

ReportSound(rep) ==
  \A i \in DOMAIN rep.files : FileSound(rep.files[i], rep.target)

\* markReplacedOutputs has been applied to a published report.
Marks(rep) ==
  \A i \in DOMAIN rep.files :
    rep.files[i].replace = Replaced(rep.files, rep.files[i])

Published(rep) == ReportSound(rep) /\ ReportAcceptable(rep) /\ Marks(rep)

(***************************************************************************)
(* The invariant: every closed file report is sound, the open one will be, *)
(* and so are those of the published reports.                              *)
(***************************************************************************)
SoundInv ==
  /\ ReportSound(report)
  /\ OpenSound(cur, report.target)
  /\ Promised(cur, outs, Done, report.target)
  /\ \A rep \in planMd \union reportMd : Published(rep)

\* What the invariant says in the next state.
LEMMA SoundForm ==
  SoundInv' <=>
    /\ ReportSound(report')
    /\ OpenSound(cur', report'.target)
    /\ Promised(cur', outs', Done', report'.target)
    /\ \A rep \in planMd' \union reportMd' : Published(rep)
BY DEF SoundInv

\* A file report that is only begun is sound.
LEMMA NewSound ==
  ASSUME NEW f \in InputFiles
  PROVE  /\ \A t : FileSound(NewFileReport(f), t)
         /\ \A queue, done, t : Promised(NewFileReport(f), queue, done, t)
<1>1. /\ NewFileReport(f).file = f /\ DOMAIN NewFileReport(f).changes = {}
      /\ DOMAIN NewFileReport(f).apply = {}
  BY DEF NewFileReport
<1>2. Paid(NewFileReport(f))
  BY NewKept
<1> QED
  BY <1>1, <1>2 DEF FileSound, OpenSound, Sourced, AllDelivered, Promised

\* Soundness is about a few fields only.
LEMMA SameSound ==
  ASSUME NEW fr, NEW gr, fr.file = gr.file, fr.changes = gr.changes,
         fr.apply = gr.apply, fr.manual = gr.manual
  PROVE  \A t : /\ OpenSound(fr, t) <=> OpenSound(gr, t)
                /\ AllDelivered(fr, t) <=> AllDelivered(gr, t)
                /\ fr.label = gr.label => (FileSound(fr, t) <=> FileSound(gr, t))
<1>1. \A c, raw, t : Delivered(fr, c, raw, t) <=> Delivered(gr, c, raw, t)
  BY DEF Delivered
<1>2. Sourced(fr) <=> Sourced(gr)
  BY DEF Sourced, ManualPaths
<1>3. \A t : OpenSound(fr, t) <=> OpenSound(gr, t)
  BY <1>2 DEF OpenSound
<1>4. \A t : AllDelivered(fr, t) <=> AllDelivered(gr, t)
  BY <1>1, Zenon DEF AllDelivered
<1>5. Paid(fr) <=> Paid(gr)
  BY SameKept
<1> QED
  BY <1>3, <1>4, <1>5 DEF FileSound

\* One more file in a report.
LEMMA CountedSound ==
  ASSUME NEW rep \in Report, NEW fr, ReportSound(rep), FileSound(fr, rep.target)
  PROVE  ReportSound(Counted(rep, fr))
<1>1. /\ Counted(rep, fr).files = Append(rep.files, fr)
      /\ Counted(rep, fr).target = rep.target
      /\ rep.files \in Seq(FileReport)
  BY DEF Counted, Report
<1>2. \A i \in DOMAIN Counted(rep, fr).files :
        \/ i \in DOMAIN rep.files /\ Counted(rep, fr).files[i] = rep.files[i]
        \/ Counted(rep, fr).files[i] = fr
  BY <1>1
<1> QED
  BY <1>1, <1>2, Zenon DEF ReportSound

\* The fields of a file report that Marked leaves alone.
LEMMA MarkedFields ==
  ASSUME NEW rep \in Report
  PROVE  /\ Marked(rep).target = rep.target
         /\ Marked(rep).counts = rep.counts
         /\ DOMAIN Marked(rep).files = DOMAIN rep.files
         /\ \A i \in DOMAIN rep.files :
              LET fr == rep.files[i]
                  gr == Marked(rep).files[i]
              IN  /\ gr.file = fr.file /\ gr.changes = fr.changes
                  /\ gr.apply = fr.apply /\ gr.manual = fr.manual
                  /\ gr.label = fr.label
                  /\ gr = [fr EXCEPT !.replace = Replaced(rep.files, fr)]
                  /\ gr.replace = Replaced(rep.files, fr)
<1>1. /\ Marked(rep).target = rep.target /\ Marked(rep).counts = rep.counts
      /\ DOMAIN Marked(rep).files = DOMAIN rep.files
  BY DEF Marked, Report
<1>2. ASSUME NEW i \in DOMAIN rep.files
      PROVE  LET fr == rep.files[i]
                 gr == Marked(rep).files[i]
             IN  /\ gr.file = fr.file /\ gr.changes = fr.changes
                 /\ gr.apply = fr.apply /\ gr.manual = fr.manual
                 /\ gr.label = fr.label
                 /\ gr = [fr EXCEPT !.replace = Replaced(rep.files, fr)]
                 /\ gr.replace = Replaced(rep.files, fr)
  <2>1. rep.files[i] \in FileReport
    BY ElementType DEF Report
  <2>2. Marked(rep).files[i] =
          [rep.files[i] EXCEPT !.replace = Replaced(rep.files, rep.files[i])]
    BY DEF Marked, Report
  <2> QED
    BY <2>1, <2>2 DEF FileReport
<1> QED
  BY <1>1, <1>2

\* What is replaced depends on the documents and outputs alone.
LEMMA SameReplaced ==
  ASSUME NEW fs, NEW gs, NEW fr, NEW gr, DOMAIN fs = DOMAIN gs,
         \A i \in DOMAIN fs : fs[i].file = gs[i].file /\ fs[i].changes = gs[i].changes,
         fr.file = gr.file, fr.apply = gr.apply
  PROVE  Replaced(fs, fr) = Replaced(gs, gr)
<1>1. Positions(fs) = Positions(gs)
  BY DEF Positions
<1>2. \A p \in Positions(fs) : p[1] \in DOMAIN fs
  BY DEF Positions
<1>3. \A key : InputObject(fs, key) = InputObject(gs, key)
  <2> SUFFICES ASSUME NEW key PROVE InputObject(fs, key) = InputObject(gs, key)
    OBVIOUS
  <2> DEFINE Found(hs) == {p \in Positions(hs) :
                             /\ key # {}
                             /\ ResourceKey(hs[p[1]].file.ctx,
                                            hs[p[1]].changes[p[2]].doc) = key}
             Latest(hs) == {p \in Found(hs) :
                              \A q \in Found(hs) :
                                q[1] < p[1] \/ (q[1] = p[1] /\ q[2] <= p[2])}
  <2>1. Found(fs) = Found(gs)
    BY <1>1, <1>2
  <2>2. /\ InputObject(fs, key) =
             {Strip(fs[p[1]].changes[p[2]].doc) : p \in Latest(fs)}
        /\ InputObject(gs, key) =
             {Strip(gs[p[1]].changes[p[2]].doc) : p \in Latest(gs)}
    BY DEF InputObject
  <2>3. Found(fs) \subseteq Positions(fs)
    OBVIOUS
  <2> HIDE DEF Found
  <2>4. Latest(fs) = Latest(gs) /\ Latest(fs) \subseteq Positions(fs)
    BY <2>1, <2>3
  <2> HIDE DEF Latest
  <2> QED
    BY <1>2, <2>2, <2>4
<1> DEFINE Old(j) == InputObject(gs, ResourceKey(gr.file.ctx, gr.apply[j].raw))
<1>4. \A j : InputObject(fs, ResourceKey(fr.file.ctx, fr.apply[j].raw)) = Old(j)
  BY <1>3
<1> DEFINE F == {j \in DOMAIN fr.apply :
                  \E old \in InputObject(fs,
                       ResourceKey(fr.file.ctx, fr.apply[j].raw)) :
                    old # fr.apply[j].raw}
           G == {j \in DOMAIN gr.apply : \E old \in Old(j) : old # gr.apply[j].raw}
<1>5. /\ Replaced(fs, fr) = {fr.apply[i].path : i \in F}
      /\ Replaced(gs, gr) = {gr.apply[i].path : i \in G}
  BY Zenon DEF Replaced
<1> HIDE DEF Old
<1>6. F = G
  BY <1>4
<1> HIDE DEF F, G
<1> QED
  BY <1>5, <1>6

\* A report that is marked and published is as sound as it was.
LEMMA MarkedPublished ==
  ASSUME NEW rep \in Report, ReportSound(rep), ReportAcceptable(rep)
  PROVE  Published(Marked(rep))
<1> DEFINE mk == Marked(rep)
<1>1. /\ mk.target = rep.target /\ DOMAIN mk.files = DOMAIN rep.files
      /\ \A i \in DOMAIN rep.files :
           /\ mk.files[i].file = rep.files[i].file
           /\ mk.files[i].changes = rep.files[i].changes
           /\ mk.files[i].apply = rep.files[i].apply
           /\ mk.files[i].manual = rep.files[i].manual
           /\ mk.files[i].label = rep.files[i].label
           /\ mk.files[i].replace = Replaced(rep.files, rep.files[i])
  BY MarkedFields
<1> HIDE DEF mk
<1>2. ReportSound(mk)
  BY <1>1, SameSound DEF ReportSound
<1>3. ReportAcceptable(mk)
  BY <1>1 DEF ReportAcceptable, AllAcceptable
<1>4. Marks(mk)
  BY <1>1, SameReplaced DEF Marks
<1> QED
  BY <1>2, <1>3, <1>4 DEF Published, mk

-----------------------------------------------------------------------------
(***************************************************************************)
(* The document loop makes promises, the output loop keeps them.           *)
(***************************************************************************)

\* What ChangeOf notes of a document, and what Emitted queues of it.
LEMMA ChangeNoted ==
  ASSUME NEW d \in Doc, report \in Report, NEW f, ~SkipListed(f.env, d)
  PROVE  LET o == Transform(d, report.target)
             c == ChangeOf(d, o)
         IN  /\ c.doc = d /\ c.manual = <<>> /\ Noted(f, c, report.target)
             /\ ~c.errMsg /\ ~c.deleteBeforeV3 =>
                  /\ DOMAIN Emitted(d, o) = DOMAIN o.results
                  /\ \A k \in DOMAIN o.results :
                       /\ Emitted(d, o)[k].raw = o.results[k]
                       /\ Emitted(d, o)[k].manual
                            = Stays(o.results[k], report.target)
<1> DEFINE o == Transform(d, report.target)
           c == ChangeOf(d, o)
           gateway == V3 /\ IsDefaultGatewayTimeout(d)
<1>1. o \in Outcome
  BY TransformAssumption DEF Report
<1>2. o.err \in {"none", "error", "rejected"}
  BY <1>1 DEF Outcome
<1>3. /\ c.doc = d /\ c.manual = <<>> /\ c.scenario = o.scenario
      /\ c.errMsg = (~gateway /\ o.err # "none")
      /\ c.rejected = (~gateway /\ o.err = "rejected")
      /\ c.deleteBeforeV3 = gateway
  BY DEF ChangeOf
<1>4. V3 <=> report.target = "v3"
  BY DEF V3
<1>5. Made(c, report.target) = o
  BY <1>3 DEF Made
<1>6. gateway = (report.target = "v3" /\ IsDefaultGatewayTimeout(d))
  BY <1>4
<1> HIDE DEF c, gateway
<1>7. c.errMsg = (~c.deleteBeforeV3 /\ o.err # "none")
  BY <1>3
<1>8. c.rejected = (~c.deleteBeforeV3 /\ o.err = "rejected")
  BY <1>3
<1>9. Noted(f, c, report.target)
  BY <1>3, <1>5, <1>6, <1>7, <1>8, Zenon DEF Noted
<1>10. ASSUME ~c.errMsg, ~c.deleteBeforeV3
       PROVE  /\ DOMAIN Emitted(d, o) = DOMAIN o.results
              /\ \A k \in DOMAIN o.results :
                   /\ Emitted(d, o)[k].raw = o.results[k]
                   /\ Emitted(d, o)[k].manual
                        = Stays(o.results[k], report.target)
  <2>1. ~(V3 /\ IsDefaultGatewayTimeout(d)) /\ o.err = "none"
    BY <1>3, <1>10 DEF gateway
  <2>2. Emitted(d, o) = [i \in DOMAIN o.results |->
                           [raw |-> o.results[i],
                            manual |-> RemovedByTarget(o.results[i])]]
    BY <2>1, Zenon DEF Emitted
  <2>3. \A i : RemovedByTarget(o.results[i]) = Stays(o.results[i], report.target)
    BY DEF RemovedByTarget, Stays, V3
  <2> HIDE DEF o
  <2> QED
    BY <2>2, <2>3
<1> QED
  BY <1>3, <1>9, <1>10, Zenon DEF c

\* Another DocChange without manual paths leaves a file report sourced.
LEMMA MoreChangesSourced ==
  ASSUME NEW fr, NEW gr, Sourced(fr), gr.file = fr.file, gr.apply = fr.apply,
         gr.manual = fr.manual,
         \A j \in DOMAIN gr.changes :
           \/ j \in DOMAIN fr.changes /\ gr.changes[j] = fr.changes[j]
           \/ gr.changes[j].manual = <<>>
  PROVE  Sourced(gr)
<1>1. ManualPaths(gr) = ManualPaths(fr)
  BY DEF ManualPaths
<1>2. ASSUME NEW j \in DOMAIN gr.changes, NEW x \in DOMAIN gr.changes[j].manual
      PROVE  gr.changes[j].manual[x] \in ManualPaths(gr)
  <2>1. gr.changes[j].manual # <<>>
    BY <1>2
  <2>2. j \in DOMAIN fr.changes /\ gr.changes[j] = fr.changes[j]
    BY <1>2, <2>1
  <2> QED
    BY <1>1, <1>2, <2>2 DEF Sourced
<1> QED
  BY <1>2 DEF Sourced

\* A promise is kept or still to be kept in a file report that holds more.
LEMMA PromiseLasts ==
  ASSUME NEW fr, NEW gr, NEW c, NEW e, NEW j, NEW queue, NEW more, NEW t,
         NEW done, NEW later, Promise(fr, c, j, queue, done, t), e.doc = c.doc,
         Converts(gr.file, e, t) => Converts(fr.file, c, t),
         \A i \in DOMAIN queue :
           /\ i \in DOMAIN more /\ more[i] = queue[i]
           /\ queue[i].change = j /\ queue[i].manual = Stays(queue[i].raw, t)
              /\ (i < done => Delivered(fr, c, queue[i].raw, t)) =>
                (i < later => Delivered(gr, e, queue[i].raw, t))
  PROVE  Promise(gr, e, j, more, later, t)
<1>1. Made(e, t) = Made(c, t)
  BY DEF Made
<1> SUFFICES ASSUME Converts(gr.file, e, t), NEW k \in DOMAIN Made(e, t).results
             PROVE  \E i \in DOMAIN more :
                      /\ more[i].change = j /\ more[i].raw = Made(e, t).results[k]
                      /\ more[i].manual = Stays(more[i].raw, t)
                      /\ i < later => Delivered(gr, e, more[i].raw, t)
  BY Zenon DEF Promise
<1>2. k \in DOMAIN Made(c, t).results
  BY <1>1
<1>3. PICK i \in DOMAIN queue :
        /\ queue[i].change = j /\ queue[i].raw = Made(c, t).results[k]
        /\ queue[i].manual = Stays(queue[i].raw, t)
        /\ i < done => Delivered(fr, c, queue[i].raw, t)
  BY <1>2, Zenon DEF Promise
<1>4. queue[i].raw = Made(e, t).results[k]
  BY <1>1, <1>3
<1> QED
  BY <1>3, <1>4, Zenon

\* A converted document is noted, and its results are promised.
LEMMA ConvertPromises ==
  ASSUME ProcessOK, OpenSound(cur, report.target),
         Promised(cur, outs, 1, report.target), ConvertDocument
  PROVE  /\ OpenSound(cur', report.target)
         /\ Promised(cur', outs', 1, report.target)
<1> DEFINE t     == report.target
           o     == Transform(ThisDoc, t)
           items == Emitted(ThisDoc, o)
           c     == ChangeOf(ThisDoc, o)
           n     == Len(cur.changes) + 1
<1>1. /\ phase = "docs" /\ ~SkipListed(cur.file.env, ThisDoc)
      /\ cur' = [cur EXCEPT !.changes  = Append(@, c),
                            !.hasError = @ \/ c.errMsg,
                            !.found    = @ \union ScenarioVerdict(c)
                                           \union ManualVerdict(c, items)]
  BY DEF ConvertDocument
<1>2. /\ ThisDoc \in Doc /\ o \in Outcome /\ report \in Report
      /\ cur \in FileReport /\ cur.changes \in Seq(Change)
      /\ outs \in Seq(OutputDoc)
      /\ \A i \in DOMAIN outs : outs[i].change \in DOMAIN cur.changes
  BY <1>1, ThisDocType DEF ProcessOK
<1>3. /\ c.doc = ThisDoc /\ c.manual = <<>> /\ Noted(cur.file, c, t)
      /\ ~c.errMsg /\ ~c.deleteBeforeV3 =>
           /\ DOMAIN items = DOMAIN o.results
           /\ \A k \in DOMAIN o.results :
                /\ items[k].raw = o.results[k]
                /\ items[k].manual = Stays(o.results[k], t)
  BY <1>1, <1>2, ChangeNoted
<1>4. items \in Seq(Item) /\ Made(c, t) = o
  BY <1>2, <1>3, EmittedType DEF Made
<1>5. items = Emitted(ThisDoc, Transform(ThisDoc, report.target))
  OBVIOUS
<1> HIDE DEF o, items, c
<1>6. /\ DOMAIN outs \subseteq DOMAIN outs'
      /\ \A i \in DOMAIN outs : outs'[i] = outs[i]
  BY <1>5, QueueShape
<1>7. \A k \in DOMAIN items :
        /\ Len(outs) + k \in DOMAIN outs'
        /\ outs'[Len(outs) + k].raw = items[k].raw
        /\ outs'[Len(outs) + k].manual = items[k].manual
        /\ outs'[Len(outs) + k].change = n
  BY <1>5, QueueShape
<1>8. /\ cur'.changes = Append(cur.changes, c) /\ cur'.file = cur.file
      /\ cur'.apply = cur.apply /\ cur'.manual = cur.manual
  BY <1>1, <1>2 DEF FileReport
<1>9. /\ n \notin DOMAIN cur.changes /\ n \in Nat
      /\ DOMAIN cur'.changes = DOMAIN cur.changes \union {n}
      /\ \A j \in DOMAIN cur.changes : cur'.changes[j] = cur.changes[j]
      /\ cur'.changes[n] = c
  BY <1>2, <1>8
<1>10. Len(outs) \in Nat /\ \A k \in DOMAIN items : k \in Nat \ {0}
  BY <1>2, <1>4
<1>11. \A i \in Nat \ {0} : ~(i < 1)
  OBVIOUS
<1> HIDE DEF n, t
<1>12. OpenSound(cur', t)
  <2>1. Sourced(cur')
    BY <1>3, <1>8, <1>9, MoreChangesSourced DEF OpenSound
  <2>2. \A j \in DOMAIN cur'.changes : Noted(cur'.file, cur'.changes[j], t)
    BY <1>3, <1>8, <1>9, Zenon DEF OpenSound, t
  <2> QED
    BY <2>1, <2>2 DEF OpenSound
<1>13. ASSUME NEW j \in DOMAIN cur.changes
       PROVE  Promise(cur', cur'.changes[j], j, outs', 1, t)
  <2>1. Promise(cur, cur.changes[j], j, outs, 1, t)
    BY DEF Promised, t
  <2>2. \A i \in DOMAIN outs : ~(i < 1)
    BY <1>2, <1>11, ElementType
  <2> QED
    BY <1>6, <1>8, <1>9, <2>1, <2>2, PromiseLasts
<1>14. Promise(cur', c, n, outs', 1, t)
  <2> SUFFICES ASSUME Converts(cur'.file, c, t), NEW k \in DOMAIN o.results
               PROVE  \E i \in DOMAIN outs' :
                        /\ outs'[i].change = n /\ outs'[i].raw = o.results[k]
                        /\ outs'[i].manual = Stays(outs'[i].raw, t)
                        /\ i < 1 => Delivered(cur', c, outs'[i].raw, t)
    BY <1>4, <1>9, Zenon DEF Promise
  <2>1. k \in DOMAIN items /\ items[k].raw = o.results[k]
        /\ items[k].manual = Stays(o.results[k], t)
    BY <1>3 DEF Converts
  <2>2. ~(Len(outs) + k < 1)
    BY <1>10, <2>1
  <2> QED
    BY <1>7, <2>1, <2>2, Zenon
<1> QED
  BY <1>9, <1>12, <1>13, <1>14, Zenon DEF Promised, t

\* A skipped document promises nothing.
LEMMA SkipPromises ==
  ASSUME ProcessOK, OpenSound(cur, report.target),
         Promised(cur, outs, 1, report.target), SkipDocument
  PROVE  /\ OpenSound(cur', report.target)
         /\ Promised(cur', outs', 1, report.target)
<1> DEFINE t == report.target
           c == [doc |-> ThisDoc, scenario |-> "skipped",
                 errMsg |-> FALSE, rejected |-> FALSE,
                 deleteBeforeV3 |-> FALSE, rewritten |-> FALSE,
                 warned |-> FALSE, manual |-> <<>>]
<1>1. /\ cur' = [cur EXCEPT !.changes = Append(@, c),
                           !.found = @ \union {"skipped"}]
      /\ phase = "docs" /\ outs' = outs /\ SkipListed(cur.file.env, ThisDoc)
  BY DEF SkipDocument
<1>2. cur \in FileReport /\ cur.changes \in Seq(Change)
  BY <1>1, ThisDocType
<1>3. /\ c.doc = ThisDoc /\ c.scenario = "skipped" /\ ~c.errMsg
      /\ ~c.deleteBeforeV3 /\ c.manual = <<>>
  OBVIOUS
<1> HIDE DEF c
<1>4. /\ cur'.changes = Append(cur.changes, c) /\ cur'.file = cur.file
      /\ cur'.apply = cur.apply /\ cur'.manual = cur.manual
  BY <1>1, <1>2 DEF FileReport
<1>5. \A j \in DOMAIN cur'.changes :
        \/ j \in DOMAIN cur.changes /\ cur'.changes[j] = cur.changes[j]
        \/ cur'.changes[j] = c
  BY <1>2, <1>4
<1>6. Noted(cur.file, c, t) /\ ~Converts(cur.file, c, t)
  BY <1>1, <1>3 DEF Noted, Converts
<1> HIDE DEF t
<1>7. OpenSound(cur', t)
  <2>1. Sourced(cur')
    BY <1>3, <1>4, <1>5, MoreChangesSourced DEF OpenSound
  <2>2. \A j \in DOMAIN cur'.changes : Noted(cur'.file, cur'.changes[j], t)
    BY <1>4, <1>5, <1>6, Zenon DEF OpenSound, t
  <2> QED
    BY <2>1, <2>2 DEF OpenSound
<1>8. ASSUME NEW j \in DOMAIN cur'.changes
      PROVE  Promise(cur', cur'.changes[j], j, outs', 1, t)
  <2>1. CASE j \in DOMAIN cur.changes /\ cur'.changes[j] = cur.changes[j]
    <3>1. Promise(cur, cur.changes[j], j, outs, 1, t)
      BY <2>1 DEF Promised, t
    <3>2. \A raw : Delivered(cur, cur.changes[j], raw, t)
                     => Delivered(cur', cur'.changes[j], raw, t)
      BY <1>4, <2>1 DEF Delivered
    <3> QED
      <4>1. cur'.changes[j].doc = cur.changes[j].doc
            /\ (Converts(cur'.file, cur'.changes[j], t)
                  => Converts(cur.file, cur.changes[j], t))
        BY <1>4, <2>1
      <4>2. \A i \in DOMAIN outs : i \in DOMAIN outs' /\ outs'[i] = outs[i]
        BY <1>1
      <4> QED
        BY <3>1, <3>2, <4>1, <4>2, PromiseLasts
  <2>2. CASE cur'.changes[j] = c
    BY <1>4, <1>6, <2>2, Zenon DEF Promise
  <2> QED
    BY <1>5, <2>1, <2>2
<1> QED
  BY <1>7, <1>8 DEF Promised, t

\* Recording an output leaves what is noted of the documents.
LEMMA RecordedNotes ==
  ASSUME ProcessOK, Writing
  PROVE  \A j \in DOMAIN cur.changes :
           LET c == cur.changes[j]
               r == Recorded.changes[j]
           IN  /\ r.doc = c.doc /\ r.scenario = c.scenario
               /\ r.errMsg = c.errMsg /\ r.rejected = c.rejected
               /\ r.deleteBeforeV3 = c.deleteBeforeV3
<1> DEFINE n == outs[next].change
<1>1. /\ cur \in FileReport /\ cur.changes \in Seq(Change)
      /\ n \in DOMAIN cur.changes
  BY HereType DEF ProcessOK, FileReport
<1>2. \A j \in DOMAIN cur.changes : cur.changes[j] \in Change
  BY <1>1, ElementType
<1>3. CASE ~outs[next].manual
  BY <1>1, <1>2, <1>3 DEF Recorded, FileReport
<1>4. CASE outs[next].manual
  <2> DEFINE cs == [cur.changes EXCEPT ![n].manual = Append(@, Here)]
  <2>1. Recorded.changes = cs
    BY <1>1, <1>4 DEF Recorded, FileReport
  <2>2. \A j \in DOMAIN cur.changes :
          /\ cs[j].doc = cur.changes[j].doc
          /\ cs[j].scenario = cur.changes[j].scenario
          /\ cs[j].errMsg = cur.changes[j].errMsg
          /\ cs[j].rejected = cur.changes[j].rejected
          /\ cs[j].deleteBeforeV3 = cur.changes[j].deleteBeforeV3
    BY <1>2 DEF Change
  <2> QED
    BY <2>1, <2>2
<1> QED
  BY <1>3, <1>4

\* What is recorded goes to its own path, and is listed.
LEMMA RecordedSourced ==
  ASSUME ProcessOK, Writing, Sourced(cur)
  PROVE  Sourced(Recorded)
<1>1. /\ Recorded.file = cur.file /\ DOMAIN Recorded.changes = DOMAIN cur.changes
      /\ cur \in FileReport /\ cur.manual \in Seq(Path) /\ cur.apply \in Seq(Output)
      /\ outs[next].manual \in BOOLEAN /\ Here \in Path
  BY HereType DEF ProcessOK, FileReport, OutputDoc
<1>2. /\ outs[next].manual => Recorded.apply = cur.apply
                              /\ Recorded.manual = Append(cur.manual, Here)
      /\ ~outs[next].manual =>
           /\ Recorded.apply = Append(cur.apply, [path |-> Here, raw |-> Raw])
           /\ Recorded.manual = cur.manual
  BY RecordedShape
<1>3. \A j \in DOMAIN cur.changes :
        /\ cur.changes[j].manual \in Seq(Path)
        /\ Recorded.changes[j].manual =
             IF outs[next].manual /\ outs[next].change = j
             THEN Append(cur.changes[j].manual, Here) ELSE cur.changes[j].manual
  BY RecordedShape
<1>4. \A k \in DOMAIN Recorded.apply :
        Recorded.apply[k].path = OutputPath(Recorded.file, Recorded.apply[k].raw, FALSE)
  <2>1. CASE outs[next].manual
    BY <1>1, <1>2, <2>1 DEF Sourced
  <2>2. CASE ~outs[next].manual
    <3> DEFINE out == [path |-> Here, raw |-> Raw]
    <3>1. out.path = OutputPath(cur.file, out.raw, FALSE)
      BY <1>1, <2>2 DEF Here
    <3> HIDE DEF out
    <3>2. \A k \in DOMAIN Recorded.apply :
            \/ k \in DOMAIN cur.apply /\ Recorded.apply[k] = cur.apply[k]
            \/ Recorded.apply[k] = out
      BY <1>1, <1>2, <2>2 DEF out
    <3> QED
      BY <1>1, <3>1, <3>2 DEF Sourced
  <2> QED
    BY <2>1, <2>2
<1>5. /\ ManualPaths(cur) \subseteq ManualPaths(Recorded)
      /\ outs[next].manual => Here \in ManualPaths(Recorded)
  <2>1. CASE outs[next].manual
    <3>1. /\ \A k \in DOMAIN cur.manual :
               k \in DOMAIN Recorded.manual /\ Recorded.manual[k] = cur.manual[k]
          /\ Len(cur.manual) + 1 \in DOMAIN Recorded.manual
          /\ Recorded.manual[Len(cur.manual) + 1] = Here
      BY <1>1, <1>2, <2>1
    <3> QED
      BY <3>1 DEF ManualPaths
  <2>2. CASE ~outs[next].manual
    BY <1>2, <2>2 DEF ManualPaths
  <2> QED
    BY <2>1, <2>2
<1>6. ASSUME NEW j \in DOMAIN Recorded.changes,
             NEW x \in DOMAIN Recorded.changes[j].manual
      PROVE  Recorded.changes[j].manual[x] \in ManualPaths(Recorded)
  <2>1. \/ x \in DOMAIN cur.changes[j].manual
           /\ Recorded.changes[j].manual[x] = cur.changes[j].manual[x]
        \/ outs[next].manual /\ Recorded.changes[j].manual[x] = Here
    <3> DEFINE old == cur.changes[j].manual
               new == Recorded.changes[j].manual
    <3>1. old \in Seq(Path) /\ x \in DOMAIN new
          /\ \/ new = old
             \/ outs[next].manual = TRUE /\ new = Append(old, Here)
      <4>1. j \in DOMAIN cur.changes
        BY <1>1, <1>6
      <4>2. /\ old \in Seq(Path)
            /\ new = IF outs[next].manual /\ outs[next].change = j
                      THEN Append(old, Here) ELSE old
        BY <1>3, <4>1
      <4>3. x \in DOMAIN new
        BY <1>6
      <4> HIDE DEF old, new
      <4> QED
        BY <1>1, <4>2, <4>3
    <3> HIDE DEF old, new
    <3>2. CASE new = old
      BY <3>1, <3>2 DEF old, new
    <3>3. CASE outs[next].manual = TRUE /\ new = Append(old, Here)
      <4>1. \/ x \in DOMAIN old /\ new[x] = old[x]
            \/ new[x] = Here
        BY <1>1, <3>1, <3>3
      <4> QED
        BY <3>3, <4>1 DEF old, new
    <3> QED
      BY <3>1, <3>2, <3>3
  <2> QED
    BY <1>1, <1>5, <1>6, <2>1 DEF Sourced
<1> QED
  BY <1>1, <1>4, <1>6 DEF Sourced

\* Recording an output delivers it.
LEMMA RecordedDelivers ==
  ASSUME ProcessOK, Writing, OpenSound(cur, report.target),
         Promised(cur, outs, next, report.target)
  PROVE  /\ OpenSound(Recorded, report.target)
         /\ Promised(Recorded, outs, next + 1, report.target)
<1> DEFINE t == report.target
<1>1. /\ Recorded.file = cur.file /\ DOMAIN Recorded.changes = DOMAIN cur.changes
      /\ cur \in FileReport /\ cur.apply \in Seq(Output)
      /\ outs[next].manual \in BOOLEAN /\ next \in Nat \ {0}
      /\ DOMAIN outs \subseteq Nat /\ Here \in Path
  BY HereType DEF ProcessOK, FileReport, OutputDoc
<1>2. \A j \in DOMAIN cur.changes :
        LET c == cur.changes[j]
            r == Recorded.changes[j]
        IN  /\ r.doc = c.doc /\ r.scenario = c.scenario
            /\ r.errMsg = c.errMsg /\ r.rejected = c.rejected
            /\ r.deleteBeforeV3 = c.deleteBeforeV3
  BY RecordedNotes
<1> HIDE DEF t
<1>3. OpenSound(Recorded, t)
  <2>1. ASSUME NEW j \in DOMAIN cur.changes
        PROVE  Noted(Recorded.file, Recorded.changes[j], t)
    <3>1. Noted(cur.file, cur.changes[j], t)
      BY DEF OpenSound, t
    <3>2. Made(Recorded.changes[j], t) = Made(cur.changes[j], t)
      BY <1>2 DEF Made
    <3> QED
      BY <1>1, <1>2, <3>1, <3>2 DEF Noted
  <2> QED
    BY <1>1, <2>1, RecordedSourced DEF OpenSound
<1>4. ASSUME NEW j \in DOMAIN cur.changes
      PROVE  Promise(Recorded, Recorded.changes[j], j, outs, next + 1, t)
  <2> DEFINE c == cur.changes[j]
             r == Recorded.changes[j]
  <2>1. Promise(cur, cur.changes[j], j, outs, next, t)
    BY DEF Promised, t
  <2>2. r.doc = c.doc /\ (Converts(Recorded.file, r, t) <=> Converts(cur.file, c, t))
    BY <1>1, <1>2 DEF Converts
  <2>3. /\ c.manual \in Seq(Path)
        /\ outs[next].manual /\ outs[next].change = j =>
             r.manual = Append(c.manual, Here)
        /\ ~(outs[next].manual /\ outs[next].change = j) => r.manual = c.manual
    BY RecordedShape
  <2>4. Append(c.manual, Here) # <<>>
    BY <1>1, <2>3
  <2>5. /\ outs[next].manual => Recorded.apply = cur.apply
        /\ ~outs[next].manual =>
             Recorded.apply = Append(cur.apply, [path |-> Here, raw |-> Raw])
    BY RecordedShape
  <2>6. \A x \in DOMAIN cur.apply :
          x \in DOMAIN Recorded.apply /\ Recorded.apply[x] = cur.apply[x]
    BY <1>1, <2>5
  <2>7. ~outs[next].manual =>
          \E x \in DOMAIN Recorded.apply : Recorded.apply[x].raw = Strip(outs[next].raw)
    <3> DEFINE out == [path |-> Here, raw |-> Raw]
    <3>1. out.raw = Strip(outs[next].raw)
      BY DEF Raw
    <3> HIDE DEF out
    <3>2. ASSUME ~outs[next].manual
          PROVE  /\ Len(cur.apply) + 1 \in DOMAIN Recorded.apply
                 /\ Recorded.apply[Len(cur.apply) + 1] = out
      BY <1>1, <2>5, <3>2 DEF out
    <3> QED
      BY <3>1, <3>2
  <2> HIDE DEF c, r
  <2>8. \A raw : Delivered(cur, c, raw, t) => Delivered(Recorded, r, raw, t)
    <3> SUFFICES ASSUME NEW raw, Delivered(cur, c, raw, t)
                 PROVE  Delivered(Recorded, r, raw, t)
      OBVIOUS
    <3>1. c.manual # <<>> => r.manual # <<>>
      BY <2>3, <2>4
    <3> QED
      BY <2>6, <3>1 DEF Delivered
  <2>9. outs[next].change = j /\ outs[next].manual = Stays(outs[next].raw, t) =>
          Delivered(Recorded, r, outs[next].raw, t)
    <3> SUFFICES ASSUME outs[next].change = j,
                        outs[next].manual = Stays(outs[next].raw, t)
                 PROVE  Delivered(Recorded, r, outs[next].raw, t)
      OBVIOUS
    <3>1. CASE outs[next].manual
      <4>1. r.manual # <<>> /\ Stays(outs[next].raw, t)
        BY <2>3, <2>4, <3>1
      <4> QED
        BY <4>1, Zenon DEF Delivered
    <3>2. CASE ~outs[next].manual
      BY <2>7, <3>2, Zenon DEF Delivered
    <3> QED
      BY <3>1, <3>2
  <2>10. \A i \in DOMAIN outs : i < next + 1 => i = next \/ i < next
    BY <1>1
  <2>11. \A i \in DOMAIN outs :
           outs[i].change = j /\ outs[i].manual = Stays(outs[i].raw, t)
           /\ (i < next => Delivered(cur, c, outs[i].raw, t)) =>
             (i < next + 1 => Delivered(Recorded, r, outs[i].raw, t))
    BY <2>8, <2>9, <2>10, Zenon
  <2> QED
    BY <1>1, <2>1, <2>2, <2>11, PromiseLasts DEF c, r
<1> QED
  BY <1>1, <1>3, <1>4 DEF Promised, t

\* At the end of the output loop everything is delivered.
LEMMA PromisesKept ==
  ASSUME ProcessOK, next \notin DOMAIN outs, NEW t, Promised(cur, outs, next, t)
  PROVE  AllDelivered(cur, t)
<1>1. \A i \in DOMAIN outs : i < next
  BY DEF ProcessOK
<1> SUFFICES ASSUME NEW j \in DOMAIN cur.changes,
                    Converts(cur.file, cur.changes[j], t),
                    NEW k \in DOMAIN Made(cur.changes[j], t).results
             PROVE  Delivered(cur, cur.changes[j],
                              Made(cur.changes[j], t).results[k], t)
  BY Zenon DEF AllDelivered
<1>2. Promise(cur, cur.changes[j], j, outs, next, t)
  BY DEF Promised
<1>3. PICK i \in DOMAIN outs :
        /\ outs[i].change = j
        /\ outs[i].raw = Made(cur.changes[j], t).results[k]
        /\ outs[i].manual = Stays(outs[i].raw, t)
        /\ i < next => Delivered(cur, cur.changes[j], outs[i].raw, t)
  BY <1>2, Zenon DEF Promise
<1>4. Delivered(cur, cur.changes[j], outs[i].raw, t)
  BY <1>1, <1>3
<1> QED
  BY <1>3, <1>4

-----------------------------------------------------------------------------
(***************************************************************************)
(* Every step of the engine keeps the invariant.                           *)
(***************************************************************************)

\* A process that begins or ends has nothing open.
LEMMA FreshSound ==
  ASSUME SoundInv, cur' = NewFileReport(NoFile), NEW t, NEW d,
         report' = NewReport(t, d),
         \A rep \in planMd' \union reportMd' : Published(rep)
  PROVE  SoundInv'
<1>1. NoFile \in InputFiles
  BY DEF InputFiles
<1>2. OpenSound(cur', report'.target) /\ Promised(cur', outs', Done', report'.target)
  BY <1>1, NewSound DEF FileSound
<1>3. ReportSound(report')
  BY DEF ReportSound, NewReport
<1> QED
  BY <1>2, <1>3, SoundForm

\* Returning a file report that is sound keeps the invariant.
LEMMA ReturnSound ==
  ASSUME SoundInv, report \in Report, NEW rep \in Report, NEW fr,
         rep.files = report.files, rep.target = report.target, Return(rep, fr),
         FileSound(fr, report.target), UNCHANGED <<planMd, reportMd>>
  PROVE  SoundInv'
<1>1. report' = Counted(rep, fr) /\ cur' = NewFileReport(NoFile)
  BY DEF Return
<1>2. ReportSound(rep)
  BY DEF SoundInv, ReportSound
<1>3. ReportSound(report')
  BY <1>1, <1>2, CountedSound
<1>4. NoFile \in InputFiles
  BY DEF InputFiles
<1>5. OpenSound(cur', report'.target) /\ Promised(cur', outs', Done', report'.target)
  BY <1>1, <1>4, NewSound DEF FileSound
<1> QED
  BY <1>3, <1>5, SoundForm DEF SoundInv

LEMMA SoundStep ==
  ASSUME TypeOK, LossInv, ApplyInv, SoundInv, [Next]_vars
  PROVE  SoundInv'
<1>1. /\ ProcessOK /\ report \in Report /\ cur \in FileReport
      /\ next \in Nat \ {0} /\ tree \in InputTrees
  BY DEF TypeOK, FilesOK, ProcessOK
<1>2. /\ ReportSound(report) /\ OpenSound(cur, report.target)
      /\ Promised(cur, outs, Done, report.target)
      /\ \A rep \in planMd \union reportMd : Published(rep)
  BY DEF SoundInv
<1>3. ASSUME Walking
      PROVE  /\ Visited \in Report /\ Visited.files = report.files
             /\ Visited.target = report.target /\ tree[at] \in InputFiles
  <2>1. Visited \in Report
    BY <1>3, VisitedType
  <2>2. Visited.files = report.files /\ Visited.target = report.target
    BY <1>1 DEF Visited, Report
  <2>3. at \in DOMAIN tree
    BY <1>3 DEF Walking
  <2>4. tree[at] \in UNION {{tr[x] : x \in DOMAIN tr} : tr \in InputTrees}
    BY <1>1, <2>3
  <2> QED
    BY <2>1, <2>2, <2>4 DEF InputFiles
<1>4. ASSUME ProcessGone,
             \A rep \in planMd' \union reportMd' :
               rep \in planMd \union reportMd \/ rep = Marked(report)
      PROVE  SoundInv'
  <2>1. cur' = NewFileReport(NoFile) /\ report' = NewReport("v2", FALSE)
    BY <1>4, Zenon DEF ProcessGone
  <2>2. Published(Marked(report))
    BY <1>1, <1>2, MarkedPublished DEF ApplyInv
  <2>3. \A rep \in planMd' \union reportMd' : Published(rep)
    BY <1>2, <1>4, <2>2
  <2> QED
    BY <2>1, <2>3, FreshSound
<1>5. ASSUME NEW t \in Targets, NEW d \in Modes, NEW m \in MeshFilters,
             Start(t, d, m)
      PROVE  SoundInv'
  <2>1. /\ cur' = NewFileReport(NoFile) /\ report' = NewReport(t, d)
        /\ UNCHANGED <<planMd, reportMd>>
    BY <1>5 DEF Start
  <2>2. \A rep \in planMd' \union reportMd' : Published(rep)
    BY <1>2, <2>1
  <2> QED
    BY <2>1, <2>2, FreshSound
<1>6. CASE PassOver
  <2>1. UNCHANGED <<planMd, reportMd, phase, cur, next, outs, report>>
    BY <1>6 DEF PassOver
  <2>2. Done' = Done
    BY <2>1 DEF Done
  <2> QED
    BY <1>2, <2>1, <2>2, SoundForm
<1>7. CASE CannotRead
  <2> DEFINE new == NewFileReport(tree[at])
             fr  == [new EXCEPT !.hasError = TRUE, !.unread = TRUE,
                                !.label = "ERROR"]
  <2>1. Walking /\ Return(Visited, fr) /\ UNCHANGED <<planMd, reportMd>>
    BY <1>7, Zenon DEF CannotRead
  <2>2. /\ fr.file = new.file /\ fr.changes = new.changes
        /\ fr.apply = new.apply /\ fr.manual = new.manual /\ fr.label = "ERROR"
    BY DEF NewFileReport
  <2> HIDE DEF fr
  <2>3. OpenSound(new, report.target)
    BY <1>3, <2>1, NewSound DEF FileSound
  <2> HIDE DEF new
  <2>4. FileSound(fr, report.target)
    BY <2>2, <2>3, SameSound DEF FileSound
  <2> QED
    BY <1>1, <1>3, <2>1, <2>4, ReturnSound
<1>8. CASE OpenEmpty
  <2>1. /\ Walking /\ Return(Visited, NewFileReport(tree[at]))
        /\ UNCHANGED <<planMd, reportMd>>
    BY <1>8, Zenon DEF OpenEmpty
  <2> QED
    BY <1>1, <1>3, <2>1, NewSound, ReturnSound
<1>9. CASE Open
  <2>1. /\ Walking /\ report' = Visited /\ cur' = NewFileReport(tree[at])
        /\ UNCHANGED <<planMd, reportMd>>
    BY <1>9 DEF Open
  <2>2. /\ OpenSound(cur', report'.target)
        /\ Promised(cur', outs', Done', report'.target)
    BY <1>3, <2>1, NewSound DEF FileSound
  <2>3. ReportSound(report')
    BY <1>2, <1>3, <2>1 DEF ReportSound
  <2> QED
    BY <1>2, <2>1, <2>2, <2>3, SoundForm
<1>10. CASE SkipDocument \/ ConvertDocument
  <2>1. NextDocument /\ phase = "docs"
    BY <1>10, Zenon DEF SkipDocument, ConvertDocument
  <2>2. /\ UNCHANGED <<planMd, reportMd, report>> /\ phase' \in {"docs", "write"}
        /\ phase' = "write" => next' = 1
    BY <1>1, <2>1 DEF NextDocument
  <2>3. Done = 1 /\ Done' = 1
    BY <2>1, <2>2 DEF Done
  <2>4. /\ OpenSound(cur', report.target)
        /\ Promised(cur', outs', 1, report.target)
    BY <1>1, <1>2, <1>10, <2>3, SkipPromises, ConvertPromises
  <2> QED
    BY <1>2, <2>2, <2>3, <2>4, SoundForm
<1>11. ASSUME Writing
       PROVE  /\ OpenSound(Recorded, report.target)
              /\ Promised(Recorded, outs, next + 1, report.target)
              /\ Recorded \in FileReport
  <2>1. Done = next
    BY <1>11 DEF Done, Writing
  <2> QED
    BY <1>1, <1>2, <1>11, <2>1, RecordedDelivers, HereType
<1>12. CASE WriteOutput
  <2>1. /\ Writing /\ cur' = Recorded /\ next' = next + 1
        /\ UNCHANGED <<planMd, reportMd, outs, report, phase>>
    BY <1>12 DEF WriteOutput
  <2>2. Done' = next + 1
    BY <2>1 DEF Done, Writing
  <2> QED
    BY <1>2, <1>11, <2>1, <2>2, SoundForm
<1>13. CASE WriteFails
  <2> DEFINE fr == [Recorded EXCEPT !.hasError = TRUE, !.label = "ERROR"]
  <2>1. Writing /\ Return(report, fr) /\ UNCHANGED <<planMd, reportMd>>
    BY <1>13, Zenon DEF WriteFails
  <2>2. /\ fr.file = Recorded.file /\ fr.changes = Recorded.changes
        /\ fr.apply = Recorded.apply /\ fr.manual = Recorded.manual
        /\ fr.label = "ERROR"
    BY <1>11, <2>1 DEF FileReport
  <2> HIDE DEF fr
  <2>3. FileSound(fr, report.target)
    BY <1>11, <2>1, <2>2, SameSound DEF FileSound
  <2> QED
    BY <1>1, <2>1, <2>3, ReturnSound
<1>14. CASE CloseFile
  <2> DEFINE fr == [cur EXCEPT !.label = FinalLabel(cur)]
  <2>1. /\ phase = "write" /\ next \notin DOMAIN outs /\ Return(report, fr)
        /\ UNCHANGED <<planMd, reportMd>>
    BY <1>14, Zenon DEF CloseFile
  <2>2. /\ fr.file = cur.file /\ fr.changes = cur.changes
        /\ fr.apply = cur.apply /\ fr.manual = cur.manual
    BY <1>1 DEF FileReport
  <2> HIDE DEF fr
  <2>3. Done = next
    BY <2>1 DEF Done
  <2>4. Debts(cur, outs, next) /\ Promised(cur, outs, next, report.target)
    BY <1>2, <2>3 DEF LossInv
  <2>5. Paid(cur) /\ AllDelivered(cur, report.target)
    BY <1>1, <2>1, <2>4, DebtsPaid, PromisesKept
  <2>6. FileSound(fr, report.target)
    BY <1>2, <2>2, <2>5, SameSound, SameKept DEF FileSound
  <2> QED
    BY <1>1, <2>1, <2>6, ReturnSound
<1>15. CASE Publish \/ PublishFails \/ WalkAborts \/ Killed
  <2>1. ProcessGone
    BY <1>15, Zenon DEF Publish, PublishFails, WalkAborts, Killed
  <2>2. /\ planMd' \in {planMd, {}, {Marked(report)}}
        /\ reportMd' \in {reportMd, {}, {Marked(report)}}
    BY <1>15 DEF Publish, PublishFails, WalkAborts, Killed
  <2> QED
    BY <1>4, <2>1, <2>2
<1>16. CASE UNCHANGED vars
  <2>1. UNCHANGED <<planMd, reportMd, phase, cur, next, outs, report>>
    BY <1>16 DEF vars
  <2>2. Done' = Done
    BY <2>1 DEF Done
  <2> QED
    BY <1>2, <2>1, <2>2, SoundForm
<1> QED
  BY <1>5, <1>6, <1>7, <1>8, <1>9, <1>10, <1>12, <1>13, <1>14, <1>15, <1>16,
     Zenon DEF Next, Step, Progress, Failure

LEMMA SoundInit == Init => SoundInv
<1> SUFFICES ASSUME Init PROVE SoundInv
  OBVIOUS
<1>1. /\ report = NewReport("v2", FALSE) /\ cur = NewFileReport(NoFile)
      /\ planMd = {} /\ reportMd = {}
  BY Zenon DEF Init
<1>2. NoFile \in InputFiles
  BY DEF InputFiles
<1>3. OpenSound(cur, report.target) /\ Promised(cur, outs, Done, report.target)
  BY <1>1, <1>2, NewSound DEF FileSound
<1>4. ReportSound(report)
  BY <1>1 DEF ReportSound, NewReport
<1> QED
  BY <1>1, <1>3, <1>4 DEF SoundInv

-----------------------------------------------------------------------------
(***************************************************************************)
(* The order of the apply steps: ApplyOrderSound.                          *)
(***************************************************************************)

\* A file of the input is in a directory the byte order lists.
LEMMA FileNames ==
  \A f \in InputFiles :
    /\ f.ctx \notin Subfolder
    /\ f.ctx # "" => f.ctx \in Names
    /\ f.mesh # "" => f.mesh \in Names
<1> SUFFICES ASSUME NEW f \in InputFiles
             PROVE  /\ f.ctx \notin Subfolder
                    /\ f.ctx # "" => f.ctx \in Names
                    /\ f.mesh # "" => f.mesh \in Names
  OBVIOUS
<1>1. CASE f = NoFile
  BY <1>1, SubfolderValues DEF NoFile
<1>2. CASE f # NoFile
  <2>1. PICK tr \in InputTrees : \E x \in DOMAIN tr : f = tr[x]
    BY <1>2 DEF InputFiles
  <2>2. PICK x \in DOMAIN tr : f = tr[x]
    BY <2>1
  <2>3. /\ tr[x].ctx \notin Subfolder
        /\ {tr[x].ctx, tr[x].mesh} \ {""} \subseteq Names
    BY DirectoryAssumption DEF Names
  <2> QED
    BY <2>2, <2>3
<1> QED
  BY <1>1, <1>2

\* The directory of an output is one an order was given to.
LEMMA OutputDir ==
  ASSUME NEW f \in InputFiles, NEW raw, NEW m
  PROVE  WellPlaced(DirOf(OutputPath(f, raw, m)))
<1> DEFINE path == OutputPath(f, raw, m)
           d    == DirOf(path)
<1>1. /\ path.ctx = f.ctx /\ path.area = Area(f, raw.kind)
      /\ path.sub = OutputSubfolder(raw.kind)
  BY DEF OutputPath
<1>2. /\ d = [ctx |-> d.ctx, area |-> d.area, sub |-> d.sub]
      /\ d.ctx = f.ctx /\ d.area = Area(f, raw.kind)
      /\ d.sub = OutputSubfolder(raw.kind)
  BY <1>1 DEF DirOf
<1> HIDE DEF d
<1>3. d.sub \in Subfolder
  BY <1>2, SubfolderType
<1>4. /\ f.ctx \notin Subfolder /\ (f.ctx # "" => f.ctx \in Names)
      /\ f.mesh # "" => f.mesh \in Names
  BY FileNames
<1>5. CPModeDir(d) \in Names
  <2>1. Subfolder \subseteq Names
    BY DirectoryAssumption DEF Names
  <2> QED
    BY <1>2, <1>3, <1>4, <2>1 DEF CPModeDir
<1>6. /\ d.ctx = "" => d.area = <<>>
      /\ d.ctx # "" => \/ d.area = <<"global-scoped-resources">>
                       \/ \E n \in Names : d.area = <<"mesh", n>>
  <2>1. /\ f.ctx = "" => Area(f, raw.kind) = <<>>
        /\ f.ctx # "" =>
             \/ Area(f, raw.kind) = <<"global-scoped-resources">>
             \/ f.mesh # "" /\ Area(f, raw.kind) = <<"mesh", f.mesh>>
    BY Zenon DEF Area
  <2> QED
    BY <1>2, <1>4, <2>1
<1>7. WellPlaced(d)
  BY <1>2, <1>3, <1>4, <1>5, <1>6 DEF WellPlaced
<1> QED
  BY <1>7 DEF d

LEMMA OrderMeans == TypeOK /\ SoundInv => ApplyOrderSound
<1> SUFFICES ASSUME TypeOK, SoundInv, NEW rep \in reportMd,
                    NEW a \in ApplyDirs(rep), NEW b \in ApplyDirs(rep)
             PROVE
      /\ (AppliedBefore(a, b) \/ AppliedBefore(b, a)) <=> a # b
      /\ ~(AppliedBefore(a, b) /\ AppliedBefore(b, a))
      /\ \A c \in ApplyDirs(rep) :
           AppliedBefore(a, b) /\ AppliedBefore(b, c) => AppliedBefore(a, c)
      /\ a.ctx # "" /\ a.ctx = b.ctx /\ a.sub = "backends" /\ b.sub # a.sub =>
           AppliedBefore(a, b)
      /\ a.sub = "mesh" /\ b.sub # "mesh" => AppliedBefore(b, a)
  BY DEF ApplyOrderSound
<1>1. ReportSound(rep)
  BY DEF SoundInv, Published
<1>2. \A d \in ApplyDirs(rep) : WellPlaced(d)
  <2> SUFFICES ASSUME NEW d \in ApplyDirs(rep) PROVE WellPlaced(d)
    OBVIOUS
  <2>1. PICK path \in ApplyPaths(rep) : d = DirOf(path)
    BY DEF ApplyDirs
  <2>2. PICK i \in DOMAIN rep.files :
          \E k \in DOMAIN rep.files[i].apply : path = rep.files[i].apply[k].path
    BY DEF ApplyPaths
  <2>3. PICK k \in DOMAIN rep.files[i].apply : path = rep.files[i].apply[k].path
    BY <2>2
  <2>4. Sourced(rep.files[i])
    BY <1>1 DEF ReportSound, FileSound, OpenSound
  <2>5. /\ rep.files[i].file \in InputFiles
        /\ path = OutputPath(rep.files[i].file, rep.files[i].apply[k].raw, FALSE)
    BY <2>3, <2>4 DEF Sourced
  <2> QED
    BY <2>1, <2>5, OutputDir
<1>3. WellPlaced(a) /\ WellPlaced(b)
  BY <1>2
<1> HIDE DEF ApplyDirs
<1>4. \A c \in ApplyDirs(rep) :
        AppliedBefore(a, b) /\ AppliedBefore(b, c) => AppliedBefore(a, c)
  BY <1>2, <1>3, AppliedTotal
<1>5. /\ (AppliedBefore(a, b) \/ AppliedBefore(b, a)) <=> a # b
      /\ ~(AppliedBefore(a, b) /\ AppliedBefore(b, a))
      /\ a.ctx # "" /\ a.ctx = b.ctx /\ a.sub = "backends" /\ b.sub # a.sub =>
           AppliedBefore(a, b)
      /\ a.sub = "mesh" /\ b.sub # "mesh" => AppliedBefore(b, a)
  BY <1>3, AppliedTotal
<1> QED
  BY <1>4, <1>5

\* The invariant of every theorem below.
LEMMA SoundAlways ==
  Spec => [](TypeOK /\ LossInv /\ ApplyInv /\ SoundInv /\ RecordedInv)
<1>1. TypeOK /\ LossInv /\ ApplyInv /\ SoundInv /\ RecordedInv /\ [Next]_vars =>
        (TypeOK /\ LossInv /\ ApplyInv /\ SoundInv /\ RecordedInv)'
  BY NextType, LossStep, ApplyStep, SoundStep, RecordedStep
<1>2. Init => TypeOK /\ LossInv /\ ApplyInv /\ SoundInv /\ RecordedInv
  BY InitType, LossInit, ApplyInit, SoundInit, RecordedInit
<1> QED
  BY <1>1, <1>2, PTL DEF Spec

(***************************************************************************)
(* The apply order: whatever the contexts, meshes and kinds, the less      *)
(* function of collectApplyDirs and the later mesh/ steps order the        *)
(* directories of a report strictly and totally, with the backends of a    *)
(* context first and every Mesh last.                                      *)
(***************************************************************************)
THEOREM ApplyOrderIsSound == Spec => []ApplyOrderSound
BY SoundAlways, OrderMeans, PTL

-----------------------------------------------------------------------------
(***************************************************************************)
(* What the report says of deletions: DeletionsTruthful and                *)
(* DeletesAreReplaced.                                                     *)
(***************************************************************************)

\* A document of a file whose outputs were all written.
LEMMA WrittenDoc ==
  ASSUME NEW rep \in Report, ReportSound(rep), NEW p \in Written(rep)
  PROVE  LET fr == rep.files[p[1]]
             c  == ChangeAt(rep, p)
         IN  /\ p \in Positions(rep.files)
             /\ p[1] \in DOMAIN rep.files /\ p[2] \in DOMAIN fr.changes
             /\ c = fr.changes[p[2]] /\ c \in Change /\ fr.label # "ERROR"
             /\ Noted(fr.file, c, rep.target)
             /\ Special(c) \/ c.rejected => c.manual # <<>>
             /\ \A x \in DOMAIN c.manual : c.manual[x] \in ManualPaths(fr)
             /\ Converts(fr.file, c, rep.target) =>
                  \A k \in DOMAIN Made(c, rep.target).results :
                    Delivered(fr, c, Made(c, rep.target).results[k], rep.target)
<1>1. p \in Positions(rep.files) /\ rep.files[p[1]].label # "ERROR"
  BY DEF Written
<1>2. PICK i \in DOMAIN rep.files : p \in {<<i, j>> : j \in DOMAIN rep.files[i].changes}
  BY <1>1 DEF Positions
<1>3. PICK j \in DOMAIN rep.files[i].changes : p = <<i, j>>
  BY <1>2
<1>4. p[1] = i /\ p[2] = j
  BY <1>3
<1> DEFINE fr == rep.files[i]
           c  == fr.changes[j]
<1>5. ChangeAt(rep, p) = c
  BY <1>4 DEF ChangeAt
<1>6. fr \in FileReport
  BY ElementType DEF Report
<1>7. c \in Change
  BY <1>6, ElementType DEF FileReport
<1>8. FileSound(fr, rep.target)
  BY DEF ReportSound
<1>9. fr.label # "ERROR"
  BY <1>1, <1>4
<1> HIDE DEF fr
<1>10. Noted(fr.file, c, rep.target)
  BY <1>8 DEF FileSound, OpenSound, fr
<1>11. \A x \in DOMAIN c.manual : c.manual[x] \in ManualPaths(fr)
  BY <1>8 DEF FileSound, OpenSound, Sourced, fr
<1>12. Special(c) \/ c.rejected => c.manual # <<>>
  <2>1. /\ c.rejected => c.manual # <<>>
        /\ Special(c) => Len(c.manual) = 1
    BY <1>8, <1>9 DEF FileSound, Paid, fr
  <2>2. c.manual = <<>> => Len(c.manual) = 0
    OBVIOUS
  <2> HIDE DEF c
  <2> QED
    BY <2>1, <2>2
<1>13. Converts(fr.file, c, rep.target) =>
         \A k \in DOMAIN Made(c, rep.target).results :
           Delivered(fr, c, Made(c, rep.target).results[k], rep.target)
  BY <1>8, <1>9, Zenon DEF FileSound, AllDelivered, fr
<1> QED
  BY <1>1, <1>4, <1>5, <1>7, <1>9, <1>10, <1>11, <1>12, <1>13, Zenon DEF fr

\* What became of a document whose results went to the output loop.
LEMMA ConvertedDoc ==
  ASSUME NEW rep \in Report, ReportSound(rep), NEW p \in Written(rep),
         ~ChangeAt(rep, p).errMsg, ~ChangeAt(rep, p).deleteBeforeV3,
         ~SkipListed(rep.files[p[1]].file.env, ChangeAt(rep, p).doc)
  PROVE  LET c == ChangeAt(rep, p)
             o == Made(c, rep.target)
         IN  /\ o = Transform(c.doc, rep.target) /\ o.err = "none"
             /\ c.scenario = o.scenario
             /\ c.doc \in Doc /\ rep.target \in {"v2", "v3"}
             /\ c.manual = <<>>
                  \/ (\A k \in DOMAIN o.results : ~Stays(o.results[k], rep.target))
                  => ResultsApplied(rep, p)
             /\ \A k \in DOMAIN o.results :
                  Stays(o.results[k], rep.target) => c.manual # <<>>
<1> DEFINE fr == rep.files[p[1]]
           c  == ChangeAt(rep, p)
           o  == Made(c, rep.target)
<1>1. /\ c \in Change /\ Noted(fr.file, c, rep.target)
      /\ Converts(fr.file, c, rep.target) =>
           \A k \in DOMAIN o.results :
             Delivered(fr, c, o.results[k], rep.target)
  BY WrittenDoc, Zenon
<1>2. /\ o = Transform(c.doc, rep.target) /\ c.doc \in Doc
      /\ rep.target \in {"v2", "v3"}
  BY <1>1 DEF Made, Change, Report
<1>3. ~c.errMsg /\ ~c.deleteBeforeV3 /\ ~SkipListed(fr.file.env, c.doc)
  OBVIOUS
<1> HIDE DEF c, fr
<1>4. c.scenario = o.scenario /\ c.errMsg = (~c.deleteBeforeV3 /\ o.err # "none")
  BY <1>1, <1>3, Zenon DEF Noted
<1>5. o.err = "none"
  BY <1>3, <1>4
<1>6. \A k \in DOMAIN o.results : Delivered(fr, c, o.results[k], rep.target)
  BY <1>1, <1>3, Zenon DEF Converts
<1> HIDE DEF o
<1>7. \A k \in DOMAIN o.results :
        Stays(o.results[k], rep.target) => c.manual # <<>>
  BY <1>6, Zenon DEF Delivered
<1>8. ASSUME \/ c.manual = <<>>
             \/ \A k \in DOMAIN o.results : ~Stays(o.results[k], rep.target)
      PROVE  ResultsApplied(rep, p)
  <2>1. \A k \in DOMAIN o.results :
          \E x \in DOMAIN fr.apply : fr.apply[x].raw = Strip(o.results[k])
    BY <1>6, <1>7, <1>8, Zenon DEF Delivered
  <2>2. o.results # <<>> \/ o.scenario = "gatewayRoute"
    BY <1>2, <1>5, KindAssumption
  <2> QED
    BY <1>2, <2>1, <2>2, Zenon DEF ResultsApplied, fr, c
<1> QED
  BY <1>2, <1>4, <1>5, <1>7, <1>8, Zenon DEF c, o

LEMMA DeletionsMean == TypeOK /\ SoundInv /\ RecordedInv => DeletionsTruthful
<1> SUFFICES ASSUME TypeOK, SoundInv, RecordedInv, NEW rep \in reportMd,
                    rep.target = "v3", NEW p \in Written(rep),
                    ChangeAt(rep, p).doc.kind \in RemovedInV3,
                    ~SkipListed(rep.files[p[1]].file.env, ChangeAt(rep, p).doc)
             PROVE
      /\ p \in V3Deletions(rep)
      /\ IF SaysConverted(ChangeAt(rep, p)) THEN ResultsApplied(rep, p)
         ELSE \E k \in DOMAIN ChangeAt(rep, p).manual :
                ChangeAt(rep, p).manual[k] \in DOMAIN disk
  BY Zenon DEF DeletionsTruthful
<1> DEFINE fr == rep.files[p[1]]
           c  == ChangeAt(rep, p)
<1>1. rep \in Report /\ ReportSound(rep)
  BY DEF TypeOK, FilesOK, SoundInv, Published
<1>2. /\ p \in Positions(rep.files) /\ p[1] \in DOMAIN rep.files
      /\ c \in Change /\ fr.label # "ERROR" /\ Noted(fr.file, c, rep.target)
      /\ Special(c) \/ c.rejected => c.manual # <<>>
      /\ \A x \in DOMAIN c.manual : c.manual[x] \in ManualPaths(fr)
  BY <1>1, WrittenDoc, Zenon
<1>3. c.errMsg \/ c.deleteBeforeV3 => c.manual # <<>>
  BY <1>2 DEF Special
<1>4. ASSUME ~c.errMsg, ~c.deleteBeforeV3
      PROVE  LET o == Made(c, "v3")
             IN  /\ o = Transform(c.doc, "v3") /\ o.err = "none"
                 /\ c.scenario = o.scenario /\ c.doc \in Doc
                 /\ c.manual = <<>> => ResultsApplied(rep, p)
                 /\ \A k \in DOMAIN o.results :
                      Stays(o.results[k], "v3") => c.manual # <<>>
  BY <1>1, <1>4, ConvertedDoc, Zenon
<1>5. c.doc.kind \in RemovedInV3
  OBVIOUS
<1>6. ~(c.scenario = "skipped" /\ c.manual = <<>>)
  <2> SUFFICES ASSUME c.scenario = "skipped", c.manual = <<>> PROVE FALSE
    OBVIOUS
  <2> DEFINE o == Made(c, "v3")
  <2>1. /\ o = Transform(c.doc, "v3") /\ o.err = "none" /\ c.doc \in Doc
        /\ o.scenario = "skipped"
        /\ \A k \in DOMAIN o.results : ~Stays(o.results[k], "v3")
    BY <1>3, <1>4
  <2> HIDE DEF c, o
  <2>2. \E k \in DOMAIN o.results : o.results[k].kind = c.doc.kind
    BY <2>1, KindAssumption
  <2> QED
    BY <1>5, <2>1, <2>2 DEF Stays
<1>7. p \in V3Deletions(rep)
  BY <1>2, <1>5, <1>6 DEF V3Deletions
<1>8. ASSUME SaysConverted(c) PROVE ResultsApplied(rep, p)
  BY <1>4, <1>8 DEF SaysConverted
<1>9. ASSUME ~SaysConverted(c)
      PROVE  \E k \in DOMAIN c.manual : c.manual[k] \in DOMAIN disk
  <2>1. c.manual \in Seq(Path) /\ c.manual # <<>>
    BY <1>2, <1>3, <1>9 DEF SaysConverted, Change
  <2> HIDE DEF c
  <2>2. 1 \in DOMAIN c.manual
    BY <2>1
  <2>3. c.manual[1] \in ManualPaths(fr)
    BY <1>2, <2>2
  <2>4. \A k \in DOMAIN fr.manual : fr.manual[k] \in DOMAIN disk
    BY <1>2 DEF RecordedInv, RecordedExists
  <2> QED
    BY <2>2, <2>3, <2>4 DEF ManualPaths
<1> QED
  BY <1>7, <1>8, <1>9, Zenon

LEMMA DeletesMean == TypeOK /\ SoundInv => DeletesAreReplaced
<1> SUFFICES ASSUME TypeOK, SoundInv, NEW rep \in reportMd
             PROVE
      /\ DeletableOriginals(rep) \intersect V3Deletions(rep) = {}
      /\ \A p \in DeletableOriginals(rep) \intersect Written(rep) :
           ResultsApplied(rep, p)
  BY DEF DeletesAreReplaced
<1>1. rep \in Report /\ ReportSound(rep)
  BY DEF TypeOK, FilesOK, SoundInv, Published
<1>2. DeletableOriginals(rep) \intersect V3Deletions(rep) = {}
  BY DEF DeletableOriginals, V3Deletions
<1>3. ASSUME NEW p \in DeletableOriginals(rep), p \in Written(rep)
      PROVE  ResultsApplied(rep, p)
  <2> DEFINE fr == rep.files[p[1]]
             c  == ChangeAt(rep, p)
             o  == Made(c, rep.target)
  <2>1. /\ ~c.errMsg /\ c.scenario \in RequiresKubeDelete
        /\ ~(rep.target = "v3" /\ (c.doc.kind \in RemovedInV3 \/ c.deleteBeforeV3))
    BY Zenon DEF DeletableOriginals
  <2>2. Noted(fr.file, c, rep.target)
    BY <1>1, <1>3, WrittenDoc, Zenon
  <2>3. ~SkipListed(fr.file.env, c.doc) /\ ~c.deleteBeforeV3
    <3>1. c.scenario # "skipped"
      BY <2>1 DEF RequiresKubeDelete
    <3> HIDE DEF c, fr
    <3>2. ~SkipListed(fr.file.env, c.doc)
      BY <2>2, <3>1, Zenon DEF Noted
    <3>3. c.deleteBeforeV3 = (rep.target = "v3" /\ IsDefaultGatewayTimeout(c.doc))
      BY <2>2, <3>2, Zenon DEF Noted
    <3> QED
      BY <2>1, <3>2, <3>3
  <2>4. /\ o = Transform(c.doc, rep.target) /\ o.err = "none"
        /\ c.scenario = o.scenario
        /\ c.doc \in Doc /\ rep.target \in {"v2", "v3"}
        /\ (\A k \in DOMAIN o.results : ~Stays(o.results[k], rep.target))
             => ResultsApplied(rep, p)
    BY <1>1, <1>3, <2>1, <2>3, ConvertedDoc, Zenon
  <2> HIDE DEF c, o, fr
  <2>5. \A k \in DOMAIN o.results : ~Stays(o.results[k], rep.target)
    BY <2>1, <2>4, KindAssumption DEF Stays
  <2> QED
    BY <2>4, <2>5
<1> QED
  BY <1>2, <1>3

(***************************************************************************)
(* The deletions before the upgrade: whatever the kinds, files and runs,   *)
(* every removed kind of a written file is listed; a row that says         *)
(* converted has its replacement in the apply list, and any other row has  *)
(* its copy under _manual.                                                 *)
(***************************************************************************)
THEOREM DeletionRowsAreTrue == Spec => []DeletionsTruthful
BY SoundAlways, DeletionsMean, PTL

(***************************************************************************)
(* The deletions after the upgrade: an original is listed only when its    *)
(* migrated form is in the apply list, and never in both tables.           *)
(***************************************************************************)
THEOREM DeletesHaveReplacement == Spec => []DeletesAreReplaced
BY SoundAlways, DeletesMean, PTL

-----------------------------------------------------------------------------
(***************************************************************************)
(* What is replaced and what is merged: RewritesAreReplaced.               *)
(***************************************************************************)

\* One key names objects of one kind.
LEMMA KeyNamesKind ==
  ASSUME NEW x, NEW d, NEW y, NEW raw, Named(raw),
         ResourceKey(x, d) = ResourceKey(y, raw)
  PROVE  d.kind = raw.kind
<1> DEFINE of(c, e) == [ctx |-> c, kind |-> e.kind, name |-> e.name,
                        scope |-> IF e.universal THEN <<"mesh", e.mesh>>
                                  ELSE <<"ns">> \o e.ns]
<1>1. ResourceKey(y, raw) = {of(y, raw)}
  BY DEF ResourceKey
<1>2. ResourceKey(x, d) \in {{}, {of(x, d)}}
  BY DEF ResourceKey
<1>3. of(x, d).kind = d.kind /\ of(y, raw).kind = raw.kind
  OBVIOUS
<1> HIDE DEF of
<1>4. of(x, d) = of(y, raw)
  BY <1>1, <1>2
<1> QED
  BY <1>3, <1>4

\* A key is empty exactly when the document is not named.
LEMMA KeyOfNamed == \A x, raw : ResourceKey(x, raw) # {} <=> Named(raw)
BY DEF ResourceKey

\* Positions are pairs of numbers.
LEMMA PositionType ==
  ASSUME NEW rep \in Report, NEW p \in Positions(rep.files)
  PROVE  /\ p[1] \in DOMAIN rep.files
         /\ p[2] \in DOMAIN rep.files[p[1]].changes
         /\ p[1] \in Nat /\ p[2] \in Nat
<1>1. PICK i \in DOMAIN rep.files : p \in {<<i, j>> : j \in DOMAIN rep.files[i].changes}
  BY DEF Positions
<1>2. PICK j \in DOMAIN rep.files[i].changes : p = <<i, j>>
  BY <1>1
<1>3. p[1] = i /\ p[2] = j
  BY <1>2
<1>4. rep.files \in Seq(FileReport)
  BY DEF Report
<1>5. rep.files[i].changes \in Seq(Change)
  <2>1. rep.files[i] \in FileReport
    BY <1>4, ElementType
  <2> QED
    BY <2>1 DEF FileReport
<1>6. i \in Nat /\ j \in Nat
  BY <1>4, <1>5, ElementType
<1> QED
  BY <1>3, <1>6

\* The documents of the input a key names.
Live(rep, key) ==
  {p \in Positions(rep.files) :
     /\ key # {}
     /\ ResourceKey(rep.files[p[1]].file.ctx, ChangeAt(rep, p).doc) = key}

\* When there is at most one, it is what markReplacedOutputs compares with.
LEMMA OnlyInputObject ==
  ASSUME NEW rep \in Report, NEW key,
         \A p, q \in Live(rep, key) : p = q
  PROVE  InputObject(rep.files, key) =
           {Strip(ChangeAt(rep, p).doc) : p \in Live(rep, key)}
<1> DEFINE frs   == rep.files
           found == {p \in Positions(frs) :
                       /\ key # {}
                       /\ ResourceKey(frs[p[1]].file.ctx,
                                      frs[p[1]].changes[p[2]].doc) = key}
           last  == {p \in found :
                       \A q \in found : q[1] < p[1] \/ (q[1] = p[1] /\ q[2] <= p[2])}
<1>1. InputObject(frs, key) = {Strip(frs[p[1]].changes[p[2]].doc) : p \in last}
  BY DEF InputObject
<1>2. found = Live(rep, key)
  BY DEF Live, ChangeAt
<1>3. \A p \in found : p[1] \in Nat /\ p[2] \in Nat
  BY PositionType
<1> HIDE DEF found
<1>4. last = found
  BY <1>2, <1>3
<1> HIDE DEF last
<1> QED
  BY <1>1, <1>2, <1>4 DEF ChangeAt

\* A path with one writer is replaced exactly if it rewrites an input object.
LEMMA ReplacedIf ==
  ASSUME NEW rep \in Report, Marks(rep),
         NEW i \in DOMAIN rep.files, NEW k \in DOMAIN rep.files[i].apply,
         \A x \in DOMAIN rep.files : \A y \in DOMAIN rep.files[x].apply :
           rep.files[x].apply[y].path = rep.files[i].apply[k].path
             => x = i /\ y = k
  PROVE  LET out == rep.files[i].apply[k]
             key == ResourceKey(rep.files[i].file.ctx, out.raw)
         IN  out.path \in ReplacePaths(rep) <=>
               \E old \in InputObject(rep.files, key) : old # out.raw
<1> DEFINE Old(x, y) == InputObject(rep.files,
                          ResourceKey(rep.files[x].file.ctx,
                                      rep.files[x].apply[y].raw))
           New(x, y) == \E old \in Old(x, y) : old # rep.files[x].apply[y].raw
           path      == rep.files[i].apply[k].path
<1>1. \A x \in DOMAIN rep.files :
        rep.files[x].replace =
          {rep.files[x].apply[y].path :
             y \in {z \in DOMAIN rep.files[x].apply : New(x, z)}}
  BY Zenon DEF Marks, Replaced
<1> HIDE DEF New
<1>2. ASSUME path \in ReplacePaths(rep) PROVE New(i, k)
  <2>1. PICK x \in DOMAIN rep.files : path \in rep.files[x].replace
    BY <1>2 DEF ReplacePaths
  <2>2. PICK y \in DOMAIN rep.files[x].apply :
          New(x, y) /\ path = rep.files[x].apply[y].path
    BY <1>1, <2>1
  <2>3. x = i /\ y = k
    BY <2>2
  <2> QED
    BY <2>2, <2>3
<1>3. ASSUME New(i, k) PROVE path \in ReplacePaths(rep)
  <2>1. path \in rep.files[i].replace
    BY <1>1, <1>3
  <2> QED
    BY <2>1 DEF ReplacePaths
<1> QED
  BY <1>2, <1>3, Zenon DEF New

LEMMA RewritesMean == TypeOK /\ SoundInv => RewritesAreReplaced
<1> SUFFICES ASSUME TypeOK, SoundInv, NEW rep \in reportMd,
                    NEW i \in DOMAIN rep.files,
                    NEW k \in DOMAIN rep.files[i].apply
             PROVE
      LET out  == rep.files[i].apply[k]
          KeyAt(p) == ResourceKey(rep.files[p[1]].file.ctx, ChangeAt(rep, p).doc)
          live == {p \in Positions(rep.files) :
                     Named(out.raw) /\
                     KeyAt(p) = ResourceKey(rep.files[i].file.ctx, out.raw)}
          sole == \A x \in DOMAIN rep.files : \A y \in DOMAIN rep.files[x].apply :
                    rep.files[x].apply[y].path = out.path => x = i /\ y = k
      IN  sole /\ (\A p, q \in live : p = q) =>
            /\ out.path \in ReplacePaths(rep) =>
                 /\ live # {}
                 /\ \A p \in live \intersect V3Deletions(rep) :
                      ChangeAt(rep, p).deleteBeforeV3
            /\ WriteTool(CPModeDir(DirOf(out.path))) = "kubectl" =>
                 (Merges(rep, out.path) <=>
                    \A p \in live : Strip(ChangeAt(rep, p).doc) = out.raw)
  BY Zenon DEF RewritesAreReplaced
<1> DEFINE out  == rep.files[i].apply[k]
           key  == ResourceKey(rep.files[i].file.ctx, out.raw)
           live == {p \in Positions(rep.files) :
                      /\ Named(out.raw)
                      /\ ResourceKey(rep.files[p[1]].file.ctx,
                                     ChangeAt(rep, p).doc) = key}
           sole == \A x \in DOMAIN rep.files : \A y \in DOMAIN rep.files[x].apply :
                     rep.files[x].apply[y].path = out.path => x = i /\ y = k
<1>1. rep \in Report /\ Marks(rep) /\ ReportAcceptable(rep)
  BY DEF TypeOK, FilesOK, SoundInv, Published
<1>2. live = Live(rep, key)
  BY KeyOfNamed DEF Live
<1> SUFFICES ASSUME sole, \A p, q \in live : p = q
             PROVE  /\ out.path \in ReplacePaths(rep) =>
                         /\ live # {}
                         /\ \A p \in live \intersect V3Deletions(rep) :
                              ChangeAt(rep, p).deleteBeforeV3
                    /\ WriteTool(CPModeDir(DirOf(out.path))) = "kubectl" =>
                         (Merges(rep, out.path) <=>
                            \A p \in live : Strip(ChangeAt(rep, p).doc) = out.raw)
  BY Zenon
<1>3. InputObject(rep.files, key) = {Strip(ChangeAt(rep, p).doc) : p \in live}
  <2> HIDE DEF live, key
  <2> QED
    BY <1>1, <1>2, OnlyInputObject
<1>4. out.path \in ReplacePaths(rep) <=>
        \E old \in InputObject(rep.files, key) : old # out.raw
  BY <1>1, ReplacedIf, Zenon
<1>5. ASSUME NEW p \in live, p \in V3Deletions(rep)
      PROVE  ChangeAt(rep, p).deleteBeforeV3
  <2>1. ChangeAt(rep, p).doc.kind = out.raw.kind
    BY KeyNamesKind
  <2>2. /\ rep.target = "v3"
        /\ ChangeAt(rep, p).doc.kind \in RemovedInV3 \/ ChangeAt(rep, p).deleteBeforeV3
    BY <1>5 DEF V3Deletions
  <2>3. Acceptable(rep.files[i].file, out.raw, rep.target)
    BY <1>1 DEF ReportAcceptable, AllAcceptable
  <2>4. out.raw.kind \notin RemovedInV3
    BY <2>2, <2>3, Zenon DEF Acceptable
  <2> QED
    BY <2>1, <2>2, <2>4
<1> HIDE DEF live
<1>6. out.path \in ReplacePaths(rep) <=>
        \E p \in live : Strip(ChangeAt(rep, p).doc) # out.raw
  BY <1>3, <1>4
<1>7. WriteTool(CPModeDir(DirOf(out.path))) = "kubectl" =>
        (Merges(rep, out.path) <=> out.path \notin ReplacePaths(rep))
  BY DEF Merges
<1> HIDE DEF out
<1> QED
  BY <1>5, <1>6, <1>7

(***************************************************************************)
(* Rewrites and additions: whatever documents and outputs share a run, an  *)
(* apply file that is the only writer of its path and names at most one    *)
(* input document is merged exactly if that document already has its       *)
(* content, and replaces only an object of the input that is not of a      *)
(* removed kind.                                                           *)
(***************************************************************************)
THEOREM RewritesReplace == Spec => []RewritesAreReplaced
BY SoundAlways, RewritesMean, PTL

-----------------------------------------------------------------------------
(***************************************************************************)
(* What the first run leaves in a fresh output directory is listed:        *)
(* ManualListComplete and DirectoryApplyIsListed.                          *)
(***************************************************************************)

\* The report shows the path: with a document, or in the apply list.
Lists(fr, p) ==
  \/ /\ p.manual
     /\ \E j \in DOMAIN fr.changes : \E x \in DOMAIN fr.changes[j].manual :
          fr.changes[j].manual[x] = p
  \/ ~p.manual /\ \E k \in DOMAIN fr.apply : fr.apply[k].path = p

Covered(frs, fr, D) ==
  \A p \in D : Lists(fr, p) \/ \E i \in DOMAIN frs : Lists(frs[i], p)

(***************************************************************************)
(* The invariant of the first run: every file of the output directory is   *)
(* shown by a closed file report or by the open one, whatever failed.      *)
(***************************************************************************)
FreshInv ==
  /\ runs = 0 => disk = <<>> /\ reportMd = {} /\ phase = "idle"
  /\ runs = 1 /\ phase # "idle" =>
       reportMd = {} /\ Covered(report.files, cur, DOMAIN disk)
  /\ runs = 1 =>
       \A rep \in reportMd : \A p \in DOMAIN disk :
         \E i \in DOMAIN rep.files : Lists(rep.files[i], p)

\* What the invariant says in the next state.
LEMMA FreshForm ==
  FreshInv' <=>
    /\ runs' = 0 => disk' = <<>> /\ reportMd' = {} /\ phase' = "idle"
    /\ runs' = 1 /\ phase' # "idle" =>
         reportMd' = {} /\ Covered(report'.files, cur', DOMAIN disk')
    /\ runs' = 1 =>
         \A rep \in reportMd' : \A p \in DOMAIN disk' :
           \E i \in DOMAIN rep.files : Lists(rep.files[i], p)
BY DEF FreshInv

\* A file report that holds more shows more.
LEMMA ListsMore ==
  ASSUME NEW fr, NEW gr,
         \A k \in DOMAIN fr.apply :
           k \in DOMAIN gr.apply /\ gr.apply[k].path = fr.apply[k].path,
         \A j \in DOMAIN fr.changes :
           /\ j \in DOMAIN gr.changes
           /\ \A x \in DOMAIN fr.changes[j].manual :
                /\ x \in DOMAIN gr.changes[j].manual
                /\ gr.changes[j].manual[x] = fr.changes[j].manual[x]
  PROVE  \A p : Lists(fr, p) => Lists(gr, p)
<1> SUFFICES ASSUME NEW p, Lists(fr, p) PROVE Lists(gr, p)
  OBVIOUS
<1>1. CASE p.manual
  <2>1. PICK j \in DOMAIN fr.changes : \E x \in DOMAIN fr.changes[j].manual :
          fr.changes[j].manual[x] = p
    BY <1>1, Zenon DEF Lists
  <2> QED
    BY <1>1, <2>1 DEF Lists
<1>2. CASE ~p.manual
  <2>1. PICK k \in DOMAIN fr.apply : fr.apply[k].path = p
    BY <1>2, Zenon DEF Lists
  <2> QED
    BY <1>2, <2>1 DEF Lists
<1> QED
  BY <1>1, <1>2

\* The path of an output is recorded before it is written.
LEMMA RecordedLists ==
  ASSUME ProcessOK, Writing
  PROVE  /\ \A p : Lists(cur, p) => Lists(Recorded, p)
         /\ Lists(Recorded, Here)
<1> DEFINE n == outs[next].change
<1>1. /\ cur \in FileReport /\ cur.apply \in Seq(Output) /\ Here \in Path
      /\ n \in DOMAIN cur.changes /\ Raw \in Doc
  BY HereType DEF ProcessOK, FileReport
<1>2. /\ outs[next].manual => Recorded.apply = cur.apply
      /\ ~outs[next].manual =>
           Recorded.apply = Append(cur.apply, [path |-> Here, raw |-> Raw])
      /\ DOMAIN Recorded.changes = DOMAIN cur.changes
      /\ \A j \in DOMAIN cur.changes :
           /\ cur.changes[j].manual \in Seq(Path)
           /\ Recorded.changes[j].manual =
                IF outs[next].manual /\ outs[next].change = j
                THEN Append(cur.changes[j].manual, Here)
                ELSE cur.changes[j].manual
  BY RecordedShape, Zenon
<1>3. \A k \in DOMAIN cur.apply :
        k \in DOMAIN Recorded.apply /\ Recorded.apply[k].path = cur.apply[k].path
  <2>1. Recorded.apply = cur.apply
        \/ Recorded.apply = Append(cur.apply, [path |-> Here, raw |-> Raw])
    BY <1>2
  <2>2. [path |-> Here, raw |-> Raw] \in Output
    BY <1>1 DEF Output
  <2> QED
    BY <1>1, <2>1, <2>2
<1>4. \A j \in DOMAIN cur.changes :
        /\ j \in DOMAIN Recorded.changes
        /\ \A x \in DOMAIN cur.changes[j].manual :
             /\ x \in DOMAIN Recorded.changes[j].manual
             /\ Recorded.changes[j].manual[x] = cur.changes[j].manual[x]
  <2> SUFFICES ASSUME NEW j \in DOMAIN cur.changes
               PROVE  \A x \in DOMAIN cur.changes[j].manual :
                        /\ x \in DOMAIN Recorded.changes[j].manual
                        /\ Recorded.changes[j].manual[x] = cur.changes[j].manual[x]
    BY <1>2
  <2> DEFINE m == cur.changes[j].manual
             r == Recorded.changes[j].manual
  <2>1. m \in Seq(Path) /\ (r = m \/ r = Append(m, Here))
    BY <1>2
  <2> HIDE DEF m, r
  <2>2. \A x \in DOMAIN m : x \in DOMAIN r /\ r[x] = m[x]
    BY <1>1, <2>1
  <2> QED
    BY <2>2 DEF m, r
<1>5. \A p : Lists(cur, p) => Lists(Recorded, p)
  BY <1>3, <1>4, ListsMore
<1>6. Here.manual = outs[next].manual
  BY DEF Here, OutputPath
<1>7. CASE outs[next].manual
  <2> DEFINE m == cur.changes[n].manual
             r == Recorded.changes[n].manual
  <2>1. m \in Seq(Path) /\ r = Append(m, Here)
    BY <1>1, <1>2, <1>7
  <2> HIDE DEF m, r
  <2>2. Len(m) + 1 \in DOMAIN r /\ r[Len(m) + 1] = Here
    BY <1>1, <2>1
  <2> HIDE DEF n
  <2>3. \E x \in DOMAIN Recorded.changes[n].manual : Recorded.changes[n].manual[x] = Here
    BY <2>2, Zenon DEF r
  <2>4. Here.manual /\ n \in DOMAIN Recorded.changes
    BY <1>1, <1>2, <1>6, <1>7
  <2> QED
    BY <1>5, <2>3, <2>4 DEF Lists
<1>8. CASE ~outs[next].manual
  <2>1. Recorded.apply = Append(cur.apply, [path |-> Here, raw |-> Raw])
    BY <1>2, <1>8
  <2>2. [path |-> Here, raw |-> Raw] \in Output
    BY <1>1 DEF Output
  <2>3. /\ Len(cur.apply) + 1 \in DOMAIN Recorded.apply
        /\ Recorded.apply[Len(cur.apply) + 1].path = Here
    BY <1>1, <2>1, <2>2
  <2>4. \E k \in DOMAIN Recorded.apply : Recorded.apply[k].path = Here
    BY <2>3, Zenon
  <2>5. ~Here.manual
    BY <1>6, <1>8
  <2> QED
    BY <1>5, <2>4, <2>5 DEF Lists
<1> QED
  BY <1>5, <1>7, <1>8

\* Closing a file moves its outputs to the closed files.
LEMMA ReturnCovers ==
  ASSUME NEW rep \in Report, NEW fr, Return(rep, fr), NEW D,
         Covered(rep.files, fr, D)
  PROVE  Covered(report'.files, cur', D)
<1>1. rep.files \in Seq(FileReport) /\ report'.files = Append(rep.files, fr)
  BY DEF Return, Counted, Report
<1> DEFINE n == Len(rep.files) + 1
<1>2. /\ n \in DOMAIN report'.files /\ report'.files[n] = fr
      /\ \A i \in DOMAIN rep.files :
           i \in DOMAIN report'.files /\ report'.files[i] = rep.files[i]
  BY <1>1
<1> HIDE DEF n
<1> QED
  BY <1>2, Zenon DEF Covered

\* A process that is gone has published nothing, or what covers the disk.
LEMMA FreshStep ==
  ASSUME TypeOK, LossInv, SoundInv, FreshInv, [Next]_vars
  PROVE  FreshInv'
<1>1. /\ ProcessOK /\ report \in Report /\ cur \in FileReport /\ runs \in Nat
  BY DEF TypeOK, ProcessOK
<1>2. /\ runs = 0 => disk = <<>> /\ reportMd = {} /\ phase = "idle"
      /\ runs = 1 /\ phase # "idle" =>
           reportMd = {} /\ Covered(report.files, cur, DOMAIN disk)
      /\ runs = 1 =>
           \A rep \in reportMd : \A p \in DOMAIN disk :
             \E i \in DOMAIN rep.files : Lists(rep.files[i], p)
  BY DEF FreshInv
<1>3. ASSUME phase # "idle", UNCHANGED <<runs, reportMd>>, phase' # "idle",
             runs = 1 => Covered(report'.files, cur', DOMAIN disk')
      PROVE  FreshInv'
  BY <1>2, <1>3, FreshForm
<1>4. ASSUME phase = "walk"
      PROVE  \A p : ~Lists(cur, p)
  <2>1. cur.apply = <<>> /\ cur.manual = <<>>
    BY <1>4 DEF LossInv
  <2>2. ManualPaths(cur) = {}
    BY <2>1 DEF ManualPaths
  <2>3. \A j \in DOMAIN cur.changes : DOMAIN cur.changes[j].manual = {}
    BY <2>2 DEF SoundInv, OpenSound, Sourced
  <2> QED
    BY <2>1, <2>3 DEF Lists
<1>5. ASSUME phase = "walk", NEW frs, NEW fr, frs = report.files,
             Covered(report.files, cur, DOMAIN disk)
      PROVE  Covered(frs, fr, DOMAIN disk)
  BY <1>4, <1>5 DEF Covered
<1>6. ASSUME NEW t \in Targets, NEW d \in Modes, NEW m \in MeshFilters,
             Start(t, d, m)
      PROVE  FreshInv'
  <2>1. /\ runs' = runs + 1 /\ UNCHANGED <<disk, reportMd>>
        /\ phase' # "idle"
    BY <1>6 DEF Start
  <2>2. runs' # 0 /\ (runs' = 1 => runs = 0)
    BY <1>1, <2>1
  <2>3. runs = 0 => DOMAIN disk' = {} /\ reportMd' = {}
    BY <1>2, <2>1
  <2> QED
    BY <2>1, <2>2, <2>3, FreshForm DEF Covered
<1>7. CASE PassOver
  <2>1. /\ phase = "walk" /\ UNCHANGED <<disk, reportMd, phase, cur, report, runs>>
    BY <1>7 DEF PassOver, Walking
  <2> QED
    BY <1>2, <1>3, <2>1
<1>8. ASSUME NEW fr, NEW rep \in Report, rep.files = report.files,
             phase = "walk", Return(rep, fr), UNCHANGED <<disk, reportMd, runs>>
      PROVE  FreshInv'
  <2>1. phase' = "walk"
    BY <1>8 DEF Return
  <2>2. ASSUME runs = 1 PROVE Covered(report'.files, cur', DOMAIN disk')
    <3>1. Covered(rep.files, fr, DOMAIN disk)
      BY <1>2, <1>5, <1>8, <2>2
    <3> QED
      BY <1>8, <3>1, ReturnCovers
  <2> QED
    BY <1>3, <1>8, <2>1, <2>2
<1>9. ASSUME Walking
      PROVE  phase = "walk" /\ Visited \in Report /\ Visited.files = report.files
  BY <1>1, <1>9, VisitedType DEF Visited, Report, Walking, TypeOK
<1>10. CASE CannotRead
  <2> DEFINE fr == [NewFileReport(tree[at]) EXCEPT
                      !.hasError = TRUE, !.unread = TRUE, !.label = "ERROR"]
  <2>1. /\ Walking /\ Return(Visited, fr)
        /\ UNCHANGED <<disk, reportMd, runs>>
    BY <1>10, Zenon DEF CannotRead
  <2> HIDE DEF fr
  <2> QED
    BY <1>8, <1>9, <2>1
<1>11. CASE OpenEmpty
  <2> DEFINE fr == NewFileReport(tree[at])
  <2>1. /\ Walking /\ Return(Visited, fr)
        /\ UNCHANGED <<disk, reportMd, runs>>
    BY <1>11, Zenon DEF OpenEmpty
  <2> HIDE DEF fr
  <2> QED
    BY <1>8, <1>9, <2>1
<1>12. CASE Open
  <2>1. /\ Walking /\ report' = Visited /\ phase' = "docs"
        /\ UNCHANGED <<disk, reportMd, runs>>
    BY <1>12 DEF Open
  <2>2. ASSUME runs = 1 PROVE Covered(report'.files, cur', DOMAIN disk')
    BY <1>2, <1>5, <1>9, <2>1, <2>2
  <2> QED
    BY <1>3, <1>9, <2>1, <2>2
<1>13. CASE SkipDocument \/ ConvertDocument
  <2>1. NextDocument /\ phase = "docs"
    BY <1>13, Zenon DEF SkipDocument, ConvertDocument
  <2>2. /\ UNCHANGED <<disk, reportMd, report, runs>> /\ phase' \in {"docs", "write"}
    BY <1>1, <2>1 DEF NextDocument
  <2>3. \E c : /\ cur'.changes = Append(cur.changes, c)
               /\ cur'.apply = cur.apply
    BY <1>1, <1>13 DEF SkipDocument, ConvertDocument, FileReport
  <2>4. cur.changes \in Seq(Change)
    BY <1>1 DEF FileReport
  <2>5. \A j \in DOMAIN cur.changes :
          j \in DOMAIN cur'.changes /\ cur'.changes[j] = cur.changes[j]
    BY <2>3, <2>4
  <2>6. \A p : Lists(cur, p) => Lists(cur', p)
    BY <2>3, <2>5, ListsMore
  <2>7. ASSUME runs = 1 PROVE Covered(report'.files, cur', DOMAIN disk')
    BY <1>2, <2>1, <2>2, <2>6, <2>7 DEF Covered
  <2> QED
    BY <1>3, <2>1, <2>2, <2>7
<1>14. ASSUME Writing, runs = 1,
              \/ disk' = disk
              \/ \E raw : disk' = Put(Here, raw)
       PROVE  Covered(report.files, Recorded, DOMAIN disk')
  <2>1. phase = "write" /\ Covered(report.files, cur, DOMAIN disk)
    BY <1>2, <1>14 DEF Writing
  <2>2. DOMAIN disk' \subseteq DOMAIN disk \union {Here}
    BY <1>14 DEF Put
  <2> QED
    BY <1>1, <1>14, <2>1, <2>2, RecordedLists DEF Covered
<1>15. CASE WriteOutput
  <2>1. /\ Writing /\ cur' = Recorded
        /\ disk' = disk \/ disk' = Put(Here, Raw)
        /\ UNCHANGED <<reportMd, report, phase, runs>>
    BY <1>15 DEF WriteOutput
  <2>2. phase = "write"
    BY <2>1 DEF Writing
  <2> QED
    BY <1>3, <1>14, <2>1, <2>2
<1>16. CASE WriteFails
  <2> DEFINE fr == [Recorded EXCEPT !.hasError = TRUE, !.label = "ERROR"]
  <2>1. /\ Writing /\ Return(report, fr) /\ disk' \in {disk, Put(Here, Torn)}
        /\ UNCHANGED <<reportMd, runs>>
    BY <1>16, Zenon DEF WriteFails
  <2>2. Recorded \in FileReport
    BY <1>1, <2>1, HereType
  <2>3. fr.changes = Recorded.changes /\ fr.apply = Recorded.apply
    BY <2>2 DEF FileReport
  <2> HIDE DEF fr
  <2>4. \A p : Lists(Recorded, p) => Lists(fr, p)
    BY <2>3, ListsMore
  <2>5. ASSUME runs = 1 PROVE Covered(report'.files, cur', DOMAIN disk')
    <3>1. Covered(report.files, Recorded, DOMAIN disk')
      BY <1>14, <2>1, <2>5
    <3>2. Covered(report.files, fr, DOMAIN disk')
      BY <2>4, <3>1 DEF Covered
    <3> QED
      BY <1>1, <2>1, <3>2, ReturnCovers
  <2>6. phase = "write" /\ phase' = "walk"
    BY <2>1 DEF Writing, Return
  <2> QED
    BY <1>3, <2>1, <2>5, <2>6
<1>17. CASE CloseFile
  <2> DEFINE fr == [cur EXCEPT !.label = FinalLabel(cur)]
  <2>1. /\ phase = "write" /\ Return(report, fr)
        /\ UNCHANGED <<disk, reportMd, runs>>
    BY <1>17, Zenon DEF CloseFile
  <2>2. fr.changes = cur.changes /\ fr.apply = cur.apply
    BY <1>1 DEF FileReport
  <2> HIDE DEF fr
  <2>3. \A p : Lists(cur, p) => Lists(fr, p)
    BY <2>2, ListsMore
  <2>4. ASSUME runs = 1 PROVE Covered(report'.files, cur', DOMAIN disk')
    <3>1. Covered(report.files, fr, DOMAIN disk)
      BY <1>2, <2>1, <2>3, <2>4 DEF Covered
    <3> QED
      BY <1>1, <2>1, <3>1, ReturnCovers
  <2>5. phase' = "walk"
    BY <2>1 DEF Return
  <2> QED
    BY <1>3, <2>1, <2>4, <2>5
<1>18. CASE Publish
  <2>1. /\ phase = "walk" /\ phase' = "idle" /\ UNCHANGED <<disk, runs>>
        /\ reportMd' \subseteq reportMd \union {Marked(report)}
    BY <1>18 DEF Publish, AtEnd, ProcessGone
  <2>2. ASSUME runs = 1, NEW p \in DOMAIN disk
        PROVE  \E i \in DOMAIN Marked(report).files :
                 Lists(Marked(report).files[i], p)
    <3>1. PICK i \in DOMAIN report.files : Lists(report.files[i], p)
      BY <1>2, <1>4, <2>1, <2>2 DEF Covered
    <3>2. /\ i \in DOMAIN Marked(report).files
          /\ Marked(report).files[i].changes = report.files[i].changes
          /\ Marked(report).files[i].apply = report.files[i].apply
      BY <1>1, MarkedFields
    <3>3. Lists(Marked(report).files[i], p)
      BY <3>1, <3>2, ListsMore
    <3> QED
      BY <3>2, <3>3
  <2>3. runs = 1 => reportMd = {}
    BY <1>2, <2>1
  <2>4. runs # 0
    BY <1>2, <2>1
  <2> QED
    BY <2>1, <2>2, <2>3, <2>4, FreshForm
<1>19. CASE PublishFails \/ WalkAborts \/ Killed
  <2>1. /\ phase # "idle" /\ phase' = "idle" /\ runs' = runs
        /\ reportMd' \subseteq reportMd
    BY <1>19 DEF PublishFails, WalkAborts, Killed, AtEnd, ProcessGone
  <2>2. runs = 1 => reportMd' = {}
    BY <1>2, <2>1
  <2>3. runs # 0
    BY <1>2, <2>1
  <2> QED
    BY <2>1, <2>2, <2>3, FreshForm
<1>20. CASE UNCHANGED vars
  BY <1>2, <1>20, FreshForm DEF vars
<1> QED
  BY <1>6, <1>7, <1>10, <1>11, <1>12, <1>13, <1>15, <1>16, <1>17, <1>18,
     <1>19, <1>20, Zenon DEF Next, Step, Progress, Failure

LEMMA FreshAlways == Spec => [](TypeOK /\ FreshInv)
<1>1. Init => FreshInv
  BY DEF Init, FreshInv
<1>2. TypeOK /\ LossInv /\ SoundInv /\ FreshInv /\ [Next]_vars => FreshInv'
  BY FreshStep
<1> QED
  BY <1>1, <1>2, SoundAlways, PTL DEF Spec

LEMMA ManualListMeans == FreshInv => ManualListComplete
<1> SUFFICES ASSUME FreshInv, runs = 1, NEW rep \in reportMd,
                    NEW p \in DOMAIN disk, p.manual
             PROVE  p \in ManualEntries(rep)
  BY DEF ManualListComplete, Fresh
<1>1. PICK i \in DOMAIN rep.files : Lists(rep.files[i], p)
  BY DEF FreshInv
<1>2. PICK j \in DOMAIN rep.files[i].changes :
        \E x \in DOMAIN rep.files[i].changes[j].manual :
          rep.files[i].changes[j].manual[x] = p
  BY <1>1, Zenon DEF Lists
<1>3. <<i, j>> \in Positions(rep.files)
  BY DEF Positions
<1>4. ChangeAt(rep, <<i, j>>) = rep.files[i].changes[j]
  BY DEF ChangeAt
<1>5. p \in {ChangeAt(rep, <<i, j>>).manual[k] :
               k \in DOMAIN ChangeAt(rep, <<i, j>>).manual}
  BY <1>2, <1>4
<1> QED
  BY <1>3, <1>5 DEF ManualEntries

LEMMA DirectoryMeans == FreshInv => DirectoryApplyIsListed
<1> SUFFICES ASSUME FreshInv, runs = 1, NEW rep \in reportMd,
                    NEW d \in ApplyDirs(rep), NEW p \in Applied(rep, d)
             PROVE  p \in FilesIn(rep, d)
  BY DEF DirectoryApplyIsListed, Fresh
<1>1. CASE p \in FilesIn(rep, d)
  BY <1>1
<1>2. CASE p \in DOMAIN disk /\ ~p.manual /\ DirOf(p) = d
  <2>1. PICK i \in DOMAIN rep.files : Lists(rep.files[i], p)
    BY <1>2 DEF FreshInv
  <2>2. PICK k \in DOMAIN rep.files[i].apply : rep.files[i].apply[k].path = p
    BY <1>2, <2>1, Zenon DEF Lists
  <2>3. p \in ApplyPaths(rep)
    BY <2>2 DEF ApplyPaths
  <2> QED
    BY <1>2, <2>3 DEF FilesIn
<1> QED
  BY <1>1, <1>2 DEF Applied

(***************************************************************************)
(* The table "Kept Under _manual/": after the first run, whatever failed,  *)
(* every file of the manual tree has a row.                                *)
(***************************************************************************)
THEOREM ManualListIsComplete == Spec => []ManualListComplete
BY FreshAlways, ManualListMeans, PTL

(***************************************************************************)
(* A directory apply: after the first run, whatever failed or was torn, it *)
(* applies only files the report lists for that directory.                 *)
(***************************************************************************)
THEOREM DirectoryApplyListed == Spec => []DirectoryApplyIsListed
BY FreshAlways, DirectoryMeans, PTL

-----------------------------------------------------------------------------
(***************************************************************************)
(* Induction on the naturals, over sets of numbers.                        *)
(***************************************************************************)

\* A set of numbers that is not empty has a least member.
LEMMA LeastNumber ==
  ASSUME NEW S, S \subseteq Nat, S # {}
  PROVE  \E n \in S : \A m \in S : n <= m
<1> DEFINE less == OpToRel(<, Nat)
<1>1. IsWellFoundedOn(less, Nat)
  BY NatLessThanWellFounded, Zenon
<1>2. \A x, y \in Nat : <<x, y>> \in less <=> x < y
  BY DEF OpToRel
<1> HIDE DEF less
<1>3. \E x \in S : \A y \in S : <<y, x>> \notin less
  BY <1>1, WFMin, Zenon
<1>4. \A x, y \in S : <<y, x>> \in less \/ x <= y
  <2>1. \A x, y \in Nat : x < y \/ y <= x
    OBVIOUS
  <2> QED
    BY <1>2, <2>1, Zenon
<1> QED
  BY <1>3, <1>4, Zenon

\* A set that holds 0 and every successor of its members holds them all.
LEMMA Induction ==
  ASSUME NEW S, 0 \in S, \A n \in Nat : n \in S => n + 1 \in S
  PROVE  Nat \subseteq S
<1> SUFFICES ASSUME ~(Nat \subseteq S) PROVE FALSE
  OBVIOUS
<1> DEFINE T == Nat \ S
<1>1. T \subseteq Nat /\ T # {}
  OBVIOUS
<1> HIDE DEF T
<1>2. PICK n \in T : \A m \in T : n <= m
  BY <1>1, LeastNumber
<1> QED
  BY <1>2 DEF T

-----------------------------------------------------------------------------
(***************************************************************************)
(* The plan predicts the run: PlanPredictsRun.  What a file without an     *)
(* ERROR is reported as is the end of a trail of states of processFile,    *)
(* and there is only one trail for a file and a target.                    *)
(***************************************************************************)

\* The state of processFile for an open file.
Opened(f) == [phase |-> "docs", cur |-> NewFileReport(f), outs |-> <<>>, next |-> 1]

Ended(s) == s.phase = "write" /\ s.next \notin DOMAIN s.outs

\* The switch on the transform's result, for any target.
ItemsOf(d, o, t) ==
  LET original == <<[raw |-> d, manual |-> TRUE]>>
      refused(i) == o.refused = {} \/ i \in o.refused
  IN  IF t = "v3" /\ IsDefaultGatewayTimeout(d) THEN original
      ELSE IF o.err = "rejected" /\ o.results = <<>>
           THEN <<[raw |-> d, manual |-> refused(1)]>>
      ELSE IF o.err = "rejected"
           THEN [i \in DOMAIN o.results |->
                   [raw |-> o.results[i], manual |-> refused(i)]]
      ELSE IF o.err = "error" THEN original
      ELSE [i \in DOMAIN o.results |->
              [raw |-> o.results[i], manual |-> Stays(o.results[i], t)]]

NoteOf(d, o, t) ==
  LET gateway == t = "v3" /\ IsDefaultGatewayTimeout(d)
  IN  [doc |-> d, scenario |-> o.scenario,
       errMsg         |-> ~gateway /\ o.err # "none",
       rejected       |-> ~gateway /\ o.err = "rejected",
       deleteBeforeV3 |-> gateway,
       rewritten      |-> Rewritten(d, o),
       warned         |-> o.warned \/ (t = "v3" /\ DeleteNote(d.kind)),
       manual         |-> <<>>]

SkippedNote(d) ==
  [doc |-> d, scenario |-> "skipped", errMsg |-> FALSE, rejected |-> FALSE,
   deleteBeforeV3 |-> FALSE, rewritten |-> FALSE, warned |-> FALSE,
   manual |-> <<>>]

DocAt(s) == s.cur.file.docs[s.next]

\* The file report after the document loop looked at one more document.
Looked(s, t) ==
  LET d == DocAt(s)
      o == Transform(d, t)
      c == NoteOf(d, o, t)
  IN  IF SkipListed(s.cur.file.env, d)
      THEN [s.cur EXCEPT !.changes = Append(@, SkippedNote(d)),
                         !.found = @ \union {"skipped"}]
      ELSE [s.cur EXCEPT !.changes  = Append(@, c),
                         !.hasError = @ \/ c.errMsg,
                         !.found    = @ \union ScenarioVerdict(c)
                                        \union ManualVerdict(c, ItemsOf(d, o, t))]

Queued(s, t) ==
  LET items == ItemsOf(DocAt(s), Transform(DocAt(s), t), t)
  IN  IF SkipListed(s.cur.file.env, DocAt(s)) THEN s.outs
      ELSE s.outs \o [i \in DOMAIN items |->
                        [raw    |-> items[i].raw,
                         manual |-> items[i].manual,
                         change |-> Len(s.cur.changes) + 1]]

\* The file report after the output loop recorded one more output.
Noting(s) ==
  LET raw  == Strip(s.outs[s.next].raw)
      path == OutputPath(s.cur.file, raw, s.outs[s.next].manual)
  IN  IF s.outs[s.next].manual
      THEN [s.cur EXCEPT !.manual = Append(@, path),
                         !.changes[s.outs[s.next].change].manual = Append(@, path)]
      ELSE [s.cur EXCEPT !.apply = Append(@, [path |-> path, raw |-> raw])]

\* One step of processFile that does not fail.
Advance(s, t) ==
  IF s.phase = "docs"
  THEN LET more == s.next < Len(s.cur.file.docs)
       IN  [phase |-> IF more THEN "docs" ELSE "write",
            cur   |-> Looked(s, t),
            outs  |-> Queued(s, t),
            next  |-> IF more THEN s.next + 1 ELSE 1]
  ELSE [phase |-> s.phase, cur |-> Noting(s), outs |-> s.outs, next |-> s.next + 1]

\* h leads from the opening of file f to h[n], in n steps.
Trail(h, n, f, t) ==
  /\ h[0] = Opened(f)
  /\ \A i \in 0..(n - 1) : ~Ended(h[i]) /\ h[i + 1] = Advance(h[i], t)

Result(s) == [s.cur EXCEPT !.label = FinalLabel(s.cur), !.replace = {}]

Bare(fr) == [fr EXCEPT !.replace = {}]

\* A closed file without an ERROR is what its trail ends in.
Traced(fr, t) ==
  \/ fr.label = "ERROR"
  \/ fr.file.docs = <<>> /\ Bare(fr) = NewFileReport(fr.file)
  \/ /\ fr.file.docs # <<>>
     /\ \E h : \E n \in Nat :
          Trail(h, n, fr.file, t) /\ Ended(h[n]) /\ Bare(fr) = Result(h[n])

\* Two trails of one file for one target agree as far as both go.
LEMMA TrailsAgree ==
  ASSUME NEW h, NEW g, NEW n \in Nat, NEW m \in Nat, NEW f, NEW t,
         Trail(h, n, f, t), Trail(g, m, f, t)
  PROVE  \A i \in Nat : i <= n /\ i <= m => h[i] = g[i]
<1> DEFINE S == {i \in Nat : i <= n /\ i <= m => h[i] = g[i]}
<1>1. 0 \in S
  BY DEF Trail
<1>2. ASSUME NEW i \in Nat, i \in S PROVE i + 1 \in S
  <2> SUFFICES ASSUME i + 1 <= n, i + 1 <= m PROVE h[i + 1] = g[i + 1]
    OBVIOUS
  <2>1. i \in 0..(n - 1) /\ i \in 0..(m - 1) /\ h[i] = g[i]
    BY <1>2
  <2>2. h[i + 1] = Advance(h[i], t) /\ g[i + 1] = Advance(g[i], t)
    BY <2>1 DEF Trail
  <2> QED
    BY <2>1, <2>2
<1> HIDE DEF S
<1>3. Nat \subseteq S
  BY <1>1, <1>2, Induction
<1> QED
  BY <1>3 DEF S

\* So they end in the same state.
LEMMA TrailsEnd ==
  ASSUME NEW h, NEW g, NEW n \in Nat, NEW m \in Nat, NEW f, NEW t,
         Trail(h, n, f, t), Trail(g, m, f, t), Ended(h[n]), Ended(g[m])
  PROVE  h[n] = g[m]
<1>1. \A i \in Nat : i <= n /\ i <= m => h[i] = g[i]
  BY TrailsAgree
<1>2. ~(n < m)
  <2> SUFFICES ASSUME n < m PROVE FALSE
    OBVIOUS
  <2>1. h[n] = g[n] /\ n \in 0..(m - 1)
    BY <1>1
  <2> QED
    BY <2>1 DEF Trail
<1>3. ~(m < n)
  <2> SUFFICES ASSUME m < n PROVE FALSE
    OBVIOUS
  <2>1. h[m] = g[m] /\ m \in 0..(n - 1)
    BY <1>1
  <2> QED
    BY <2>1 DEF Trail
<1>4. n = m
  BY <1>2, <1>3
<1> QED
  BY <1>1, <1>4

\* Two reports of one file for one target agree.
LEMMA TracedAgree ==
  ASSUME NEW fr, NEW gr, NEW t, Traced(fr, t), Traced(gr, t),
         fr.file = gr.file, fr.label # "ERROR", gr.label # "ERROR"
  PROVE  Bare(fr) = Bare(gr)
<1>1. CASE fr.file.docs = <<>>
  BY <1>1 DEF Traced
<1>2. CASE fr.file.docs # <<>>
  <2>1. PICK h : \E n \in Nat :
          Trail(h, n, fr.file, t) /\ Ended(h[n]) /\ Bare(fr) = Result(h[n])
    BY <1>2, Zenon DEF Traced
  <2>2. PICK n \in Nat :
          Trail(h, n, fr.file, t) /\ Ended(h[n]) /\ Bare(fr) = Result(h[n])
    BY <2>1, Zenon
  <2>3. PICK g : \E m \in Nat :
          Trail(g, m, gr.file, t) /\ Ended(g[m]) /\ Bare(gr) = Result(g[m])
    BY <1>2, Zenon DEF Traced
  <2>4. PICK m \in Nat :
          Trail(g, m, gr.file, t) /\ Ended(g[m]) /\ Bare(gr) = Result(g[m])
    BY <2>3, Zenon
  <2>5. Trail(g, m, fr.file, t)
    BY <2>4
  <2>6. Trail(h, n, fr.file, t) /\ Ended(h[n]) /\ Ended(g[m])
    BY <2>2, <2>4
  <2>7. h[n] = g[m]
    BY <2>5, <2>6, TrailsEnd
  <2> QED
    BY <2>2, <2>4, <2>7
<1> QED
  BY <1>1, <1>2

\* The open file as a state of processFile.
Now == [phase |-> phase, cur |-> cur, outs |-> outs, next |-> next]

LEMMA NowFields ==
  /\ Now.phase = phase /\ Now.cur = cur /\ Now.outs = outs /\ Now.next = next
  /\ Now' = [phase |-> phase', cur |-> cur', outs |-> outs', next |-> next']
BY DEF Now

\* What is emitted and noted of a document depends on it and the target.
LEMMA SameItems ==
  ASSUME NEW d, NEW o
  PROVE  /\ Emitted(d, o) = ItemsOf(d, o, report.target)
         /\ ChangeOf(d, o) = NoteOf(d, o, report.target)
<1>1. \A raw : RemovedByTarget(raw) = Stays(raw, report.target)
  BY DEF RemovedByTarget, Stays, V3
<1>2. V3 = (report.target = "v3")
  BY DEF V3
<1>3. ChangeOf(d, o) = NoteOf(d, o, report.target)
  BY DEF ChangeOf, NoteOf, V3
<1>4. Emitted(d, o) = ItemsOf(d, o, report.target)
  BY <1>1, <1>2 DEF Emitted, ItemsOf
<1> QED
  BY <1>3, <1>4

\* Every step of the open file that does not fail is the one step.
LEMMA StepAdvances ==
  ASSUME ProcessOK, SkipDocument \/ ConvertDocument \/ WriteOutput
  PROVE  ~Ended(Now) /\ Now' = Advance(Now, report.target)
<1> DEFINE t == report.target
<1>1. DocAt(Now) = ThisDoc
  BY NowFields DEF DocAt, ThisDoc
<1>2. CASE SkipDocument \/ ConvertDocument
  <2>1. phase = "docs" /\ NextDocument
    BY <1>2, Zenon DEF SkipDocument, ConvertDocument
  <2>2. Looked(Now, t) = cur' /\ Queued(Now, t) = outs'
    <3>1. CASE SkipDocument
      BY <1>1, <3>1, NowFields DEF Looked, Queued, SkipDocument, SkippedNote
    <3>2. CASE ConvertDocument
      <4> DEFINE o == Transform(ThisDoc, t)
                 c == NoteOf(ThisDoc, o, t)
                 items == ItemsOf(ThisDoc, o, t)
      <4>1. /\ ~SkipListed(cur.file.env, ThisDoc)
            /\ Emitted(ThisDoc, o) = items /\ ChangeOf(ThisDoc, o) = c
        BY <3>2, SameItems DEF ConvertDocument
      <4>2. /\ outs' = outs \o [i \in DOMAIN items |->
                                 [raw    |-> items[i].raw,
                                  manual |-> items[i].manual,
                                  change |-> Len(cur.changes) + 1]]
            /\ cur' = [cur EXCEPT
                !.changes  = Append(@, c),
                !.hasError = @ \/ c.errMsg,
                !.found    = @ \union ScenarioVerdict(c)
                               \union ManualVerdict(c, items)]
        BY <3>2, <4>1 DEF ConvertDocument
      <4>3. /\ Looked(Now, t) =
                 [cur EXCEPT
                    !.changes  = Append(@, c),
                    !.hasError = @ \/ c.errMsg,
                    !.found    = @ \union ScenarioVerdict(c)
                                   \union ManualVerdict(c, items)]
            /\ Queued(Now, t) =
                 outs \o [i \in DOMAIN items |->
                           [raw    |-> items[i].raw,
                            manual |-> items[i].manual,
                            change |-> Len(cur.changes) + 1]]
        BY <1>1, <4>1, NowFields DEF Looked, Queued
      <4> QED
        BY <4>2, <4>3
    <3> QED
      BY <1>2, <3>1, <3>2
  <2>3. /\ next' = IF next < Len(cur.file.docs) THEN next + 1 ELSE 1
        /\ phase' = IF next < Len(cur.file.docs) THEN "docs" ELSE "write"
    BY <2>1 DEF NextDocument
  <2> QED
    BY <2>1, <2>2, <2>3, NowFields DEF Advance, Ended
<1>3. CASE WriteOutput
  <2>1. /\ phase = "write" /\ next \in DOMAIN outs /\ cur' = Recorded
        /\ next' = next + 1 /\ UNCHANGED <<phase, outs>>
    BY <1>3 DEF WriteOutput, Writing
  <2>2. Noting(Now) = Recorded
    BY NowFields DEF Noting, Recorded, Here, Raw
  <2> QED
    BY <2>1, <2>2, NowFields DEF Advance, Ended
<1> QED
  BY <1>2, <1>3

\* A trail goes on.
LEMMA TrailGoesOn ==
  ASSUME NEW h, NEW n \in Nat, NEW f, NEW t, NEW s, Trail(h, n, f, t),
         ~Ended(h[n]), s = Advance(h[n], t)
  PROVE  \E g : \E m \in Nat : Trail(g, m, f, t) /\ g[m] = s
<1> DEFINE g == [i \in 0..(n + 1) |-> IF i <= n THEN h[i] ELSE s]
<1>1. g[0] = h[0] /\ g[n + 1] = s /\ \A i \in 0..n : g[i] = h[i]
  OBVIOUS
<1> HIDE DEF g
<1>2. ASSUME NEW i \in 0..((n + 1) - 1)
      PROVE  ~Ended(g[i]) /\ g[i + 1] = Advance(g[i], t)
  <2>1. CASE i \in 0..(n - 1)
    <3>1. /\ g[i] = h[i] /\ g[i + 1] = h[i + 1]
          /\ ~Ended(h[i]) /\ h[i + 1] = Advance(h[i], t)
      BY <1>1, <2>1 DEF Trail
    <3> QED
      BY <3>1
  <2>2. CASE i = n
    BY <1>1, <2>2
  <2> QED
    BY <2>1, <2>2
<1>3. Trail(g, n + 1, f, t)
  BY <1>1, <1>2 DEF Trail
<1>4. n + 1 \in Nat
  OBVIOUS
<1> QED
  BY <1>1, <1>3, <1>4, Zenon

-----------------------------------------------------------------------------
(***************************************************************************)
(* The summary of a report counts its labels.                              *)
(***************************************************************************)

Labelled(frs, c) == {i \in DOMAIN frs : frs[i].label \in LabelsIn[c]}

Tallied(rep) == rep.counts = [c \in Counter |-> Cardinality(Labelled(rep.files, c))]

LEMMA LabelledFinite ==
  ASSUME NEW rep \in Report, NEW c PROVE IsFiniteSet(Labelled(rep.files, c))
<1>1. DOMAIN rep.files = 1..Len(rep.files) /\ Len(rep.files) \in Nat
  BY DEF Report
<1>2. IsFiniteSet(1..Len(rep.files))
  BY <1>1, FS_Interval
<1>3. Labelled(rep.files, c) \in SUBSET (1..Len(rep.files))
  BY <1>1 DEF Labelled
<1> QED
  BY <1>2, <1>3, FS_Subset

\* Counting a file keeps the tally.
LEMMA CountedTallied ==
  ASSUME NEW rep \in Report, NEW fr, Tallied(rep)
  PROVE  Tallied(Counted(rep, fr))
<1> DEFINE n == Len(rep.files) + 1
           more == Counted(rep, fr)
<1>1. /\ rep.files \in Seq(FileReport)
      /\ more.files = Append(rep.files, fr)
      /\ more.counts =
           [c \in Counter |->
              rep.counts[c] + IF fr.label \in LabelsIn[c] THEN 1 ELSE 0]
  BY DEF Counted, Report
<1> HIDE DEF more
<1>2. /\ DOMAIN more.files = DOMAIN rep.files \union {n}
      /\ n \notin DOMAIN rep.files /\ more.files[n] = fr
      /\ \A i \in DOMAIN rep.files : more.files[i] = rep.files[i]
  BY <1>1
<1> HIDE DEF n
<1>3. ASSUME NEW c \in Counter
      PROVE  more.counts[c] = Cardinality(Labelled(more.files, c))
  <2>1. /\ rep.counts[c] = Cardinality(Labelled(rep.files, c))
        /\ rep.counts[c] \in Nat
    BY DEF Tallied, Report
  <2>2. IsFiniteSet(Labelled(rep.files, c)) /\ n \notin Labelled(rep.files, c)
    BY <1>2, LabelledFinite DEF Labelled
  <2>3. CASE fr.label \in LabelsIn[c]
    <3>1. Labelled(more.files, c) = Labelled(rep.files, c) \union {n}
      BY <1>2, <2>3 DEF Labelled
    <3>2. Cardinality(Labelled(rep.files, c) \union {n})
            = Cardinality(Labelled(rep.files, c)) + 1
      BY <2>2, FS_AddElement
    <3> QED
      BY <1>1, <2>1, <2>3, <3>1, <3>2
  <2>4. CASE fr.label \notin LabelsIn[c]
    <3>1. Labelled(more.files, c) = Labelled(rep.files, c)
      BY <1>2, <2>4 DEF Labelled
    <3> QED
      BY <1>1, <2>1, <2>4, <3>1
  <2> QED
    BY <2>3, <2>4
<1>4. more.counts = [c \in Counter |-> more.counts[c]]
  BY <1>1
<1>5. Tallied(more)
  BY <1>3, <1>4 DEF Tallied
<1> QED
  BY <1>5 DEF more

\* Marking changes neither label nor count.
LEMMA MarkedTallied ==
  ASSUME NEW rep \in Report, Tallied(rep) PROVE Tallied(Marked(rep))
<1>1. /\ Marked(rep).counts = rep.counts
      /\ DOMAIN Marked(rep).files = DOMAIN rep.files
      /\ \A i \in DOMAIN rep.files : Marked(rep).files[i].label = rep.files[i].label
  BY MarkedFields
<1>2. \A c : Labelled(Marked(rep).files, c) = Labelled(rep.files, c)
  BY <1>1 DEF Labelled
<1> QED
  BY <1>1, <1>2 DEF Tallied

LEMMA NewTallied == \A t, d : Tallied(NewReport(t, d))
<1>1. \A t, d : /\ NewReport(t, d).counts = [c \in Counter |-> 0]
                /\ NewReport(t, d).files = <<>>
  BY DEF NewReport
<1>2. \A c : Cardinality(Labelled(<<>>, c)) = 0
  <2>1. \A c : Labelled(<<>>, c) = {}
    BY DEF Labelled
  <2>2. Cardinality({}) = 0
    BY FS_EmptySet, Zenon
  <2> QED
    BY <2>1, <2>2
<1>3. [c \in Counter |-> 0]
        = [c \in Counter |-> Cardinality(Labelled(<<>>, c))]
  BY <1>2
<1> SUFFICES ASSUME NEW t, NEW d PROVE Tallied(NewReport(t, d))
  OBVIOUS
<1> DEFINE rep == NewReport(t, d)
<1>4. rep.counts = [c \in Counter |-> 0] /\ rep.files = <<>>
  BY <1>1
<1> HIDE DEF rep
<1>5. Tallied(rep)
  BY <1>3, <1>4 DEF Tallied
<1> QED
  BY <1>5 DEF rep

-----------------------------------------------------------------------------
(***************************************************************************)
(* The invariant: the open file is on its trail, every closed file without *)
(* an ERROR is the end of one, and every summary counts its labels.        *)
(***************************************************************************)

OnTrail(f, t, s) ==
  f.docs # <<>> /\ \E h : \E n \in Nat : Trail(h, n, f, t) /\ h[n] = s

AllTraced(rep) == \A i \in DOMAIN rep.files : Traced(rep.files[i], rep.target)

TraceInv ==
  /\ phase \in {"docs", "write"} => OnTrail(cur.file, report.target, Now)
  /\ AllTraced(report) /\ Tallied(report)
  /\ \A rep \in planMd \union reportMd : AllTraced(rep) /\ Tallied(rep)

\* What the invariant says in the next state.
LEMMA TraceForm ==
  TraceInv' <=>
    /\ phase' \in {"docs", "write"} => OnTrail(cur'.file, report'.target, Now')
    /\ AllTraced(report') /\ Tallied(report')
    /\ \A rep \in planMd' \union reportMd' : AllTraced(rep) /\ Tallied(rep)
BY DEF TraceInv

\* What replaces what says nothing of a trail.
LEMMA BareMarked ==
  ASSUME NEW fr \in FileReport, NEW S PROVE Bare([fr EXCEPT !.replace = S]) = Bare(fr)
BY DEF Bare, FileReport

LEMMA MarkedTraced ==
  ASSUME NEW rep \in Report, AllTraced(rep) PROVE AllTraced(Marked(rep))
<1>1. /\ Marked(rep).target = rep.target
      /\ DOMAIN Marked(rep).files = DOMAIN rep.files
  BY MarkedFields
<1>2. ASSUME NEW i \in DOMAIN rep.files
      PROVE  Traced(Marked(rep).files[i], rep.target)
  <2> DEFINE fr == rep.files[i]
             gr == Marked(rep).files[i]
  <2>1. gr.file = fr.file /\ gr.label = fr.label
        /\ gr = [fr EXCEPT !.replace = Replaced(rep.files, fr)]
    BY MarkedFields
  <2>2. fr \in FileReport
    BY ElementType DEF Report
  <2> HIDE DEF fr
  <2>3. Bare(gr) = Bare(fr)
    BY <2>1, <2>2, BareMarked
  <2>4. Traced(fr, rep.target)
    BY DEF AllTraced, fr
  <2> HIDE DEF gr
  <2>5. Traced(gr, rep.target)
    BY <2>1, <2>3, <2>4 DEF Traced
  <2> QED
    BY <2>5 DEF gr
<1> QED
  BY <1>1, <1>2 DEF AllTraced

\* One more file in a report.
LEMMA CountedTraced ==
  ASSUME NEW rep \in Report, NEW fr, AllTraced(rep), Traced(fr, rep.target)
  PROVE  AllTraced(Counted(rep, fr))
<1>1. /\ Counted(rep, fr).files = Append(rep.files, fr)
      /\ Counted(rep, fr).target = rep.target
      /\ rep.files \in Seq(FileReport)
  BY DEF Counted, Report
<1>2. \A i \in DOMAIN Counted(rep, fr).files :
        \/ i \in DOMAIN rep.files /\ Counted(rep, fr).files[i] = rep.files[i]
        \/ Counted(rep, fr).files[i] = fr
  BY <1>1
<1> QED
  BY <1>1, <1>2, Zenon DEF AllTraced

\* The file report of a file without documents replaces nothing.
LEMMA BareNew ==
  ASSUME NEW f
  PROVE  NewFileReport(f).file = f /\ Bare(NewFileReport(f)) = NewFileReport(f)
<1> DEFINE r == NewFileReport(f)
<1>1. r.file = f /\ r.replace = {} /\ r = [x \in DOMAIN r |-> r[x]]
  BY DEF NewFileReport
<1> HIDE DEF r
<1>2. [r EXCEPT !.replace = {}] = r
  BY <1>1
<1>3. r.file = f /\ Bare(r) = r
  BY <1>1, <1>2 DEF Bare
<1> QED
  BY <1>3 DEF r

LEMMA TraceStep ==
  ASSUME TypeOK, TraceInv, [Next]_vars
  PROVE  TraceInv'
<1>1. ProcessOK /\ report \in Report /\ cur \in FileReport
  BY DEF TypeOK, ProcessOK
<1>2. /\ phase \in {"docs", "write"} => OnTrail(cur.file, report.target, Now)
      /\ AllTraced(report) /\ Tallied(report)
      /\ \A rep \in planMd \union reportMd : AllTraced(rep) /\ Tallied(rep)
  BY DEF TraceInv
<1>3. ASSUME NEW rep \in Report, rep.files = report.files, rep.target = report.target,
             rep.counts = report.counts, NEW fr, Traced(fr, report.target),
             Return(rep, fr), UNCHANGED <<planMd, reportMd>>
      PROVE  TraceInv'
  <2>1. report' = Counted(rep, fr) /\ phase' = "walk"
    BY <1>3 DEF Return
  <2>2. AllTraced(rep) /\ Tallied(rep)
    BY <1>2, <1>3 DEF AllTraced, Tallied
  <2>3. AllTraced(report') /\ Tallied(report')
    BY <1>3, <2>1, <2>2, CountedTraced, CountedTallied
  <2> QED
    BY <1>2, <1>3, <2>1, <2>3, TraceForm
<1>4. ASSUME NEW t, NEW d, report' = NewReport(t, d), phase' \in {"idle", "walk"},
             \A rep \in planMd' \union reportMd' :
               rep \in planMd \union reportMd \/ rep = Marked(report)
      PROVE  TraceInv'
  <2>1. AllTraced(report') /\ Tallied(report')
    BY <1>4, NewTallied DEF AllTraced, NewReport
  <2>2. AllTraced(Marked(report)) /\ Tallied(Marked(report))
    BY <1>1, <1>2, MarkedTraced, MarkedTallied
  <2>3. \A rep \in planMd' \union reportMd' : AllTraced(rep) /\ Tallied(rep)
    BY <1>2, <1>4, <2>2
  <2> QED
    BY <1>4, <2>1, <2>3, TraceForm
<1>5. ASSUME Walking
      PROVE  /\ Visited \in Report /\ Visited.files = report.files
             /\ Visited.target = report.target /\ Visited.counts = report.counts
  BY <1>1, <1>5, VisitedType DEF Visited, Report, Walking, TypeOK
<1>6. ASSUME NEW t \in Targets, NEW d \in Modes, NEW m \in MeshFilters,
             Start(t, d, m)
      PROVE  TraceInv'
  <2>1. /\ report' = NewReport(t, d) /\ phase' = "walk"
        /\ UNCHANGED <<planMd, reportMd>>
    BY <1>6 DEF Start
  <2> QED
    BY <1>4, <2>1
<1>7. CASE PassOver
  <2>1. phase = "walk" /\ UNCHANGED <<planMd, reportMd, phase, report>>
    BY <1>7 DEF PassOver, Walking
  <2> QED
    BY <1>2, <2>1, TraceForm
<1>8. CASE CannotRead
  <2> DEFINE fr == [NewFileReport(tree[at]) EXCEPT
                      !.hasError = TRUE, !.unread = TRUE, !.label = "ERROR"]
  <2>1. Walking /\ Return(Visited, fr) /\ UNCHANGED <<planMd, reportMd>>
    BY <1>8, Zenon DEF CannotRead
  <2>2. fr.label = "ERROR"
    BY DEF NewFileReport
  <2> HIDE DEF fr
  <2> QED
    BY <1>3, <1>5, <2>1, <2>2 DEF Traced
<1>9. CASE OpenEmpty
  <2> DEFINE fr == NewFileReport(tree[at])
  <2>1. /\ Walking /\ Return(Visited, fr) /\ UNCHANGED <<planMd, reportMd>>
        /\ tree[at].docs = <<>>
    BY <1>9, Zenon DEF OpenEmpty
  <2>2. fr.file = tree[at] /\ Bare(fr) = fr
    BY BareNew
  <2>3. fr.file.docs = <<>> /\ Bare(fr) = NewFileReport(fr.file)
    BY <2>1, <2>2
  <2>4. Traced(fr, report.target)
    BY <2>3, Zenon DEF Traced
  <2> HIDE DEF fr
  <2> QED
    BY <1>3, <1>5, <2>1, <2>4
<1>10. CASE Open
  <2>1. /\ Walking /\ tree[at].docs # <<>> /\ report' = Visited
        /\ phase' = "docs" /\ next' = 1 /\ outs' = <<>>
        /\ cur' = NewFileReport(tree[at]) /\ UNCHANGED <<planMd, reportMd>>
    BY <1>10 DEF Open
  <2>2. cur'.file = tree[at]
    BY <2>1 DEF NewFileReport
  <2>3. Now' = Opened(tree[at])
    BY <2>1, NowFields DEF Opened
  <2>4. \E h : \E n \in Nat : Trail(h, n, tree[at], report'.target) /\ h[n] = Now'
    <3> DEFINE h == [i \in {0} |-> Now']
    <3>1. h[0] = Now' /\ 0..(0 - 1) = {}
      OBVIOUS
    <3> HIDE DEF h
    <3>2. Trail(h, 0, tree[at], report'.target) /\ h[0] = Now'
      BY <2>3, <3>1 DEF Trail
    <3>3. 0 \in Nat
      OBVIOUS
    <3> QED
      BY <3>2, <3>3, Zenon
  <2>5. AllTraced(report') /\ Tallied(report')
    BY <1>2, <1>5, <2>1 DEF AllTraced, Tallied
  <2>6. OnTrail(cur'.file, report'.target, Now')
    BY <2>1, <2>2, <2>4, Zenon DEF OnTrail
  <2> QED
    BY <1>2, <2>1, <2>5, <2>6, TraceForm
<1>11. CASE SkipDocument \/ ConvertDocument \/ WriteOutput
  <2>1. /\ phase \in {"docs", "write"} /\ UNCHANGED <<planMd, reportMd, report>>
    BY <1>11 DEF SkipDocument, ConvertDocument, NextDocument, WriteOutput, Writing
  <2>2. cur'.file = cur.file
    <3>1. CASE SkipDocument \/ ConvertDocument
      BY <1>1, <3>1 DEF SkipDocument, ConvertDocument, FileReport
    <3>2. CASE WriteOutput
      BY <1>1, <3>2, HereType DEF WriteOutput
    <3> QED
      BY <1>11, <3>1, <3>2
  <2>3. ~Ended(Now) /\ Now' = Advance(Now, report.target)
    BY <1>1, <1>11, StepAdvances
  <2>4. OnTrail(cur.file, report.target, Now)
    BY <1>2, <2>1
  <2>5. PICK h : \E n \in Nat : Trail(h, n, cur.file, report.target) /\ h[n] = Now
    BY <2>4, Zenon DEF OnTrail
  <2>6. PICK n \in Nat : Trail(h, n, cur.file, report.target) /\ h[n] = Now
    BY <2>5, Zenon
  <2>7. ~Ended(h[n]) /\ Now' = Advance(h[n], report.target)
    BY <2>3, <2>6
  <2> DEFINE s == Now'
  <2>8. s = Advance(h[n], report.target)
    BY <2>7
  <2> HIDE DEF s
  <2>9. \E g : \E m \in Nat : Trail(g, m, cur.file, report.target) /\ g[m] = s
    <3>1. /\ n \in Nat /\ Trail(h, n, cur.file, report.target)
          /\ ~Ended(h[n]) /\ s = Advance(h[n], report.target)
      BY <2>6, <2>7, <2>8
    <3> QED
      BY <3>1, TrailGoesOn
  <2>10. OnTrail(cur.file, report.target, s)
    BY <2>4, <2>9, Zenon DEF OnTrail
  <2>11. OnTrail(cur'.file, report'.target, Now')
    BY <2>1, <2>2, <2>10 DEF s
  <2> QED
    BY <1>2, <2>1, <2>11, TraceForm
<1>12. CASE WriteFails
  <2> DEFINE fr == [Recorded EXCEPT !.hasError = TRUE, !.label = "ERROR"]
  <2>1. Writing /\ Return(report, fr) /\ UNCHANGED <<planMd, reportMd>>
    BY <1>12, Zenon DEF WriteFails
  <2>2. Recorded \in FileReport
    BY <1>1, <2>1, HereType
  <2>3. fr.label = "ERROR"
    BY <2>2 DEF FileReport
  <2> HIDE DEF fr
  <2> QED
    BY <1>1, <1>3, <2>1, <2>3 DEF Traced
<1>13. CASE CloseFile
  <2> DEFINE fr == [cur EXCEPT !.label = FinalLabel(cur)]
  <2>1. /\ phase = "write" /\ next \notin DOMAIN outs
        /\ Return(report, fr) /\ UNCHANGED <<planMd, reportMd>>
    BY <1>13, Zenon DEF CloseFile
  <2>2. Ended(Now) /\ Bare(fr) = Result(Now) /\ fr.file = cur.file
    BY <1>1, <2>1, NowFields DEF Ended, Bare, Result, FileReport
  <2> HIDE DEF fr
  <2>3. OnTrail(cur.file, report.target, Now)
    BY <1>2, <2>1
  <2>4. PICK h : \E n \in Nat : Trail(h, n, cur.file, report.target) /\ h[n] = Now
    BY <2>3, Zenon DEF OnTrail
  <2>5. PICK n \in Nat : Trail(h, n, cur.file, report.target) /\ h[n] = Now
    BY <2>4, Zenon
  <2>6. /\ Trail(h, n, fr.file, report.target) /\ Ended(h[n])
        /\ Bare(fr) = Result(h[n]) /\ fr.file.docs # <<>>
    BY <2>2, <2>3, <2>5 DEF OnTrail
  <2>7. Traced(fr, report.target)
    BY <2>6, Zenon DEF Traced
  <2> QED
    BY <1>1, <1>3, <2>1, <2>7
<1>14. CASE Publish \/ PublishFails \/ WalkAborts \/ Killed
  <2>1. report' = NewReport("v2", FALSE) /\ phase' = "idle"
    BY <1>14, Zenon DEF Publish, PublishFails, WalkAborts, Killed, ProcessGone
  <2>2. /\ planMd' \in {planMd, {}, {Marked(report)}}
        /\ reportMd' \in {reportMd, {}, {Marked(report)}}
    BY <1>14 DEF Publish, PublishFails, WalkAborts, Killed
  <2>3. \A rep \in planMd' \union reportMd' :
          rep \in planMd \union reportMd \/ rep = Marked(report)
    BY <2>2
  <2> QED
    BY <1>4, <2>1, <2>3
<1>15. CASE UNCHANGED vars
  <2>1. UNCHANGED <<planMd, reportMd, phase, cur, next, outs, report>>
    BY <1>15 DEF vars
  <2>2. Now' = Now
    BY <2>1 DEF Now
  <2> QED
    BY <1>2, <2>1, <2>2, TraceForm
<1> QED
  BY <1>6, <1>7, <1>8, <1>9, <1>10, <1>11, <1>12, <1>13, <1>14, <1>15,
     Zenon DEF Next, Step, Progress, Failure

LEMMA TraceAlways == Spec => [](TypeOK /\ SoundInv /\ TraceInv)
<1>1. Init => TraceInv
  <2> SUFFICES ASSUME Init PROVE TraceInv
    OBVIOUS
  <2>1. /\ report = NewReport("v2", FALSE) /\ phase = "idle"
        /\ planMd = {} /\ reportMd = {}
    BY Zenon DEF Init
  <2> QED
    BY <2>1, NewTallied DEF TraceInv, AllTraced, NewReport
<1>2. TypeOK /\ TraceInv /\ [Next]_vars => TraceInv'
  BY TraceStep
<1> QED
  BY <1>1, <1>2, SoundAlways, PTL DEF Spec

\* Two file reports that differ in replace at most.
LEMMA BareEqual ==
  ASSUME NEW fr \in FileReport, NEW gr \in FileReport, Bare(fr) = Bare(gr)
  PROVE  /\ fr.changes = gr.changes /\ fr.apply = gr.apply
         /\ fr.label = gr.label
         /\ fr.replace = gr.replace => fr = gr
<1> DEFINE a == Bare(fr)
           b == Bare(gr)
<1>1. /\ a.file = fr.file /\ a.changes = fr.changes /\ a.apply = fr.apply
      /\ a.manual = fr.manual /\ a.found = fr.found
      /\ a.hasError = fr.hasError /\ a.unread = fr.unread
      /\ a.label = fr.label
  BY DEF Bare, FileReport
<1>2. /\ b.file = gr.file /\ b.changes = gr.changes /\ b.apply = gr.apply
      /\ b.manual = gr.manual /\ b.found = gr.found
      /\ b.hasError = gr.hasError /\ b.unread = gr.unread
      /\ b.label = gr.label
  BY DEF Bare, FileReport
<1>3. a = b
  OBVIOUS
<1> HIDE DEF a, b
<1>4. /\ fr.file = gr.file /\ fr.changes = gr.changes /\ fr.apply = gr.apply
      /\ fr.manual = gr.manual /\ fr.found = gr.found
      /\ fr.hasError = gr.hasError /\ fr.unread = gr.unread
      /\ fr.label = gr.label
  BY <1>1, <1>2, <1>3, Zenon
<1>5. ASSUME fr.replace = gr.replace PROVE fr = gr
  BY <1>4, <1>5 DEF FileReport
<1> QED
  BY <1>4, <1>5

LEMMA PredictionMeans == TypeOK /\ SoundInv /\ TraceInv => PlanPredictsRun
<1> SUFFICES ASSUME TypeOK, SoundInv, TraceInv,
                    NEW p \in planMd, NEW r \in reportMd, p.target = r.target,
                    [i \in DOMAIN p.files |-> p.files[i].file]
                      = [i \in DOMAIN r.files |-> r.files[i].file],
                    ~\E i \in DOMAIN p.files : p.files[i].label = "ERROR",
                    ~\E i \in DOMAIN r.files : r.files[i].label = "ERROR"
             PROVE  p.files = r.files /\ p.counts = r.counts
  BY Zenon DEF PlanPredictsRun
<1>1. /\ p \in Report /\ r \in Report
      /\ Marks(p) /\ Marks(r) /\ AllTraced(p) /\ AllTraced(r)
      /\ Tallied(p) /\ Tallied(r)
  BY DEF TypeOK, FilesOK, SoundInv, Published, TraceInv
<1>2. p.files \in Seq(FileReport) /\ r.files \in Seq(FileReport)
  BY <1>1 DEF Report
<1>3. /\ DOMAIN p.files = DOMAIN r.files
      /\ \A i \in DOMAIN p.files : p.files[i].file = r.files[i].file
  <2> DEFINE F == [i \in DOMAIN p.files |-> p.files[i].file]
             G == [i \in DOMAIN r.files |-> r.files[i].file]
  <2>1. /\ DOMAIN F = DOMAIN p.files /\ DOMAIN G = DOMAIN r.files
        /\ \A i \in DOMAIN p.files : F[i] = p.files[i].file
        /\ \A i \in DOMAIN r.files : G[i] = r.files[i].file
    OBVIOUS
  <2>2. F = G
    OBVIOUS
  <2> HIDE DEF F, G
  <2> QED
    BY <2>1, <2>2
<1>4. \A i \in DOMAIN p.files : Bare(p.files[i]) = Bare(r.files[i])
  <2> SUFFICES ASSUME NEW i \in DOMAIN p.files
               PROVE  Bare(p.files[i]) = Bare(r.files[i])
    OBVIOUS
  <2>1. /\ Traced(p.files[i], p.target) /\ Traced(r.files[i], p.target)
        /\ p.files[i].label # "ERROR" /\ r.files[i].label # "ERROR"
        /\ p.files[i].file = r.files[i].file
    BY <1>1, <1>3 DEF AllTraced
  <2> QED
    BY <2>1, TracedAgree
<1>5. \A fr, gr \in FileReport :
        Bare(fr) = Bare(gr) =>
          /\ fr.changes = gr.changes /\ fr.apply = gr.apply
          /\ fr.label = gr.label
          /\ fr.replace = gr.replace => fr = gr
  BY BareEqual
<1>6. \A i \in DOMAIN p.files :
        p.files[i] \in FileReport /\ r.files[i] \in FileReport
  BY <1>2, <1>3, ElementType
<1>7. ASSUME NEW i \in DOMAIN p.files PROVE p.files[i].replace = r.files[i].replace
  <2>1. \A j \in DOMAIN p.files :
          /\ p.files[j].changes = r.files[j].changes
          /\ p.files[j].apply = r.files[j].apply
    BY <1>4, <1>5, <1>6
  <2>2. Replaced(p.files, p.files[i]) = Replaced(r.files, r.files[i])
    BY <1>3, <2>1, SameReplaced
  <2> QED
    BY <1>1, <1>3, <2>2 DEF Marks
<1>8. \A i \in DOMAIN p.files : p.files[i] = r.files[i]
  BY <1>4, <1>5, <1>6, <1>7
<1>9. p.files = r.files
  BY <1>2, <1>3, <1>8
<1>10. p.counts = r.counts
  BY <1>1, <1>9 DEF Tallied
<1> QED
  BY <1>9, <1>10

(***************************************************************************)
(* migration-plan.md predicts migration-report.md: a dry run and a run for *)
(* one target over the same files, neither with an ERROR, report the same  *)
(* documents, outputs, labels, replacements and summary, whatever the      *)
(* files hold, and whatever happened to the output directory between them. *)
(***************************************************************************)
THEOREM PlansPredictRuns == Spec => []PlanPredictsRun
BY TraceAlways, PredictionMeans, PTL

=============================================================================
