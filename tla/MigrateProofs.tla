--------------------------- MODULE MigrateProofs ----------------------------
(***************************************************************************)
(* Proofs about Migrate, for every catalogue of documents, every transform *)
(* that meets its assumptions, every input tree and every number of runs:  *)
(* types, dry runs, the summary, recorded paths, what the apply tree may   *)
(* hold, that Migrate implements Custody; and what a run says about a file *)
(* and leaves of it: labels tell the truth, nothing is silently lost, and  *)
(* a second run repairs what a first one left.                             *)
(***************************************************************************)
EXTENDS Migrate, TLAPS

-----------------------------------------------------------------------------
(***************************************************************************)
(* What the helpers return.                                                *)
(***************************************************************************)

\* Short sequences.
LEMMA OneMember == ASSUME NEW S, NEW x \in S PROVE <<x>> \in Seq(S)
OBVIOUS

LEMMA TwoMembers ==
  ASSUME NEW S, NEW x \in S, NEW y \in S PROVE <<x, y>> \in Seq(S)
OBVIOUS

\* The members of a sequence.
LEMMA ElementType ==
  ASSUME NEW S, NEW s \in Seq(S), NEW i \in DOMAIN s
  PROVE  s[i] \in S /\ i \in Nat \ {0}
OBVIOUS

\* A function on the positions of a sequence is a sequence.
LEMMA MapType ==
  ASSUME NEW S, NEW T, NEW s \in Seq(S), NEW g,
         g = [i \in DOMAIN s |-> g[i]], \A i \in DOMAIN s : g[i] \in T
  PROVE  g \in Seq(T) /\ DOMAIN g = DOMAIN s
<1>1. DOMAIN s = 1..Len(s) /\ Len(s) \in Nat
  OBVIOUS
<1>2. g \in [1..Len(s) -> T]
  BY <1>1
<1> QED
  BY <1>1, <1>2

\* Stripping server-set identity gives a document again (stripServerSetIdentity).
LEMMA StripType ==
  \A d \in Doc : Strip(d) \in Doc /\ Strip(d).pinned = FALSE
                 /\ Strip(d).kind = d.kind
BY DocAssumption DEF Strip, DocFields

\* Every kind has a subfolder (outputSubfolder).
LEMMA SubfolderType == \A kind : OutputSubfolder(kind) \in Subfolder
BY DEF OutputSubfolder, Subfolder

\* A document's file name is a sequence of segments (outputDocFilename).
LEMMA FileNameType == \A d \in Doc : FileName(d) \in Seq(Text)
<1> SUFFICES ASSUME NEW d \in Doc PROVE FileName(d) \in Seq(Text)
  OBVIOUS
<1>1. d.kind \in Text /\ d.ns \in Seq(Text) /\ d.name \in Seq(Text)
  BY DocAssumption DEF DocFields
<1>2. <<d.kind>> \in Seq(Text) /\ <<"unknown">> \in Seq(Text)
  BY <1>1, OneMember, TextAssumption
<1>3. <<d.kind>> \o d.ns \o d.name \in Seq(Text)
  BY <1>1, <1>2
<1> QED
  BY <1>2, <1>3 DEF FileName

\* An output goes to a path (processFile, manualDirFor).
LEMMA PathType ==
  \A f \in InputFile, d \in Doc, m \in BOOLEAN : OutputPath(f, d, m) \in Path
<1> SUFFICES ASSUME NEW f \in InputFile, NEW d \in Doc, NEW m \in BOOLEAN
             PROVE  OutputPath(f, d, m) \in Path
  OBVIOUS
<1>1. f.ctx \in Text /\ f.mesh \in Text
  BY DEF InputFile
<1>2. Area(f, d.kind) \in Seq(Text)
  <2>1. <<"mesh", f.mesh>> \in Seq(Text)
    BY <1>1, TwoMembers, TextAssumption
  <2>2. <<"global-scoped-resources">> \in Seq(Text)
    BY OneMember, TextAssumption
  <2>3. <<>> \in Seq(Text)
    OBVIOUS
  <2>4. Area(f, d.kind) \in {<<>>, <<"mesh", f.mesh>>,
                             <<"global-scoped-resources">>}
    BY Zenon DEF Area
  <2> QED
    BY <2>1, <2>2, <2>3, <2>4
<1>3. OutputSubfolder(d.kind) \in Subfolder /\ FileName(d) \in Seq(Text)
  BY SubfolderType, FileNameType
<1> QED
  BY <1>1, <1>2, <1>3 DEF OutputPath, Path

\* Among the verdicts of a file one comes first (the label switch).
LEMMA FirstVerdict ==
  ASSUME NEW seen, seen \subseteq Verdict, seen # {}
  PROVE  \E i \in DOMAIN Verdicts :
           /\ Verdicts[i] \in seen
           /\ \A j \in 1..(i - 1) : Verdicts[j] \notin seen
BY DEF Verdict, Verdicts

\* A closed file has one of the labels of the report.
LEMMA FinalLabelType ==
  \A fr \in FileReport : FinalLabel(fr) \in Label
<1> SUFFICES ASSUME NEW fr \in FileReport PROVE FinalLabel(fr) \in Label
  OBVIOUS
<1> DEFINE seen == fr.found \ (IF fr.apply = <<>> THEN {} ELSE {"manual"})
           First(i) == /\ Verdicts[i] \in seen
                       /\ \A j \in 1..(i - 1) : Verdicts[j] \notin seen
<1>1. seen \subseteq Verdict
  BY DEF FileReport
<1>2. CASE seen # {}
  <2>1. \E i \in DOMAIN Verdicts : First(i)
    BY <1>1, <1>2, FirstVerdict
  <2> DEFINE i0 == CHOOSE i \in DOMAIN Verdicts : First(i)
  <2>2. i0 \in DOMAIN Verdicts
    BY <2>1
  <2>3. Verdicts[i0] \in Verdict
    BY <2>2 DEF Verdict
  <2>4. LabelOf[Verdicts[i0]] \in Label
    BY <2>3 DEF Label
  <2> QED
    BY <1>2, <2>4 DEF FinalLabel, Label
<1>3. CASE seen = {}
  BY <1>3 DEF FinalLabel, Label
<1> QED
  BY <1>2, <1>3

\* The values a run starts from.
LEMMA FreshTypes ==
  /\ \A f \in InputFile : NewFileReport(f) \in FileReport
  /\ \A t \in {"v2", "v3"}, d \in BOOLEAN : NewReport(t, d) \in Report
  /\ NoFile \in InputFile
<1>1. \A S : <<>> \in Seq(S)
  OBVIOUS
<1>2. \A f \in InputFile : NewFileReport(f) \in FileReport
  BY <1>1 DEF NewFileReport, FileReport, Label
<1>3. \A t \in {"v2", "v3"}, d \in BOOLEAN : NewReport(t, d) \in Report
  BY <1>1 DEF NewReport, Report
<1>4. NoFile \in InputFile
  BY <1>1, TextAssumption DEF NoFile, InputFile
<1> QED
  BY <1>2, <1>3, <1>4

\* Accounting for a file keeps the report a report (runMigration).
LEMMA CountedType ==
  \A rep \in Report, fr \in FileReport : Counted(rep, fr) \in Report
<1> SUFFICES ASSUME NEW rep \in Report, NEW fr \in FileReport
             PROVE  Counted(rep, fr) \in Report
  OBVIOUS
<1>1. Append(rep.files, fr) \in Seq(FileReport)
  BY DEF Report
<1>2. \A c \in Counter :
        rep.counts[c] + (IF fr.label \in LabelsIn[c] THEN 1 ELSE 0) \in Nat
  BY DEF Report
<1>3. [c \in Counter |->
         rep.counts[c] + IF fr.label \in LabelsIn[c] THEN 1 ELSE 0]
        \in [Counter -> Nat]
  BY <1>2
<1> QED
  BY <1>1, <1>3 DEF Counted, Report

\* Marking the rewritten outputs keeps the report a report.
LEMMA MarkedType == \A rep \in Report : Marked(rep) \in Report
<1> SUFFICES ASSUME NEW rep \in Report PROVE Marked(rep) \in Report
  OBVIOUS
<1> DEFINE mark(fr) == [fr EXCEPT !.replace = Replaced(rep.files, fr)]
           marked   == [i \in DOMAIN rep.files |-> mark(rep.files[i])]
<1>1. \A fr \in FileReport : mark(fr) \in FileReport
  <2> SUFFICES ASSUME NEW fr \in FileReport PROVE mark(fr) \in FileReport
    OBVIOUS
  <2>1. fr.apply \in Seq(Output)
    BY DEF FileReport
  <2>2. \A i \in DOMAIN fr.apply : fr.apply[i].path \in Path
    <3>1. \A i \in DOMAIN fr.apply : fr.apply[i] \in Output
      BY <2>1, ElementType
    <3> QED
      BY <3>1 DEF Output
  <2>3. Replaced(rep.files, fr) \subseteq Path
    BY <2>2 DEF Replaced
  <2> QED
    BY <2>3 DEF FileReport
<1>2. rep.files \in Seq(FileReport)
  BY DEF Report
<1>3. marked \in Seq(FileReport)
  BY <1>1, <1>2, MapType
<1> QED
  BY <1>3 DEF Marked, Report

-----------------------------------------------------------------------------
(***************************************************************************)
(* One document: what it emits and what is noted about it.                 *)
(***************************************************************************)

Item == [raw: Doc, manual: BOOLEAN]

\* What a document sends to the output loop is a sequence of documents.
LEMMA EmittedType ==
  \A d \in Doc, o \in Outcome : Emitted(d, o) \in Seq(Item)
<1> SUFFICES ASSUME NEW d \in Doc, NEW o \in Outcome
             PROVE  Emitted(d, o) \in Seq(Item)
  OBVIOUS
<1>1. \A m \in BOOLEAN : <<[raw |-> d, manual |-> m]>> \in Seq(Item)
  BY OneMember DEF Item
<1>2. o.results \in Seq(Doc)
  BY DEF Outcome
<1>3. \A i \in DOMAIN o.results : \A m \in BOOLEAN :
        [raw |-> o.results[i], manual |-> m] \in Item
  <2>1. \A i \in DOMAIN o.results : o.results[i] \in Doc
    BY <1>2, ElementType
  <2> QED
    BY <2>1 DEF Item
<1>4. \A m \in [DOMAIN o.results -> BOOLEAN] :
        [i \in DOMAIN o.results |-> [raw |-> o.results[i], manual |-> m[i]]]
          \in Seq(Item)
  <2> SUFFICES ASSUME NEW m \in [DOMAIN o.results -> BOOLEAN]
               PROVE  [i \in DOMAIN o.results |->
                         [raw |-> o.results[i], manual |-> m[i]]] \in Seq(Item)
    OBVIOUS
  <2> DEFINE item(i) == [raw |-> o.results[i], manual |-> m[i]]
             items   == [i \in DOMAIN o.results |-> item(i)]
  <2>1. \A i \in DOMAIN o.results : item(i) \in Item
    BY <1>3
  <2> HIDE DEF item
  <2>2. items \in Seq(Item)
    BY <1>2, <2>1, MapType
  <2> QED
    BY <2>2 DEF item
<1>5. [i \in DOMAIN o.results |->
         [raw |-> o.results[i], manual |-> o.refused = {} \/ i \in o.refused]]
        \in Seq(Item)
  <2> DEFINE m == [i \in DOMAIN o.results |-> o.refused = {} \/ i \in o.refused]
  <2>1. m \in [DOMAIN o.results -> BOOLEAN]
    OBVIOUS
  <2> QED
    BY <1>4, <2>1
<1>6. [i \in DOMAIN o.results |->
         [raw |-> o.results[i],
          manual |-> V3 /\ o.results[i].kind \in RemovedInV3]] \in Seq(Item)
  <2> DEFINE m == [i \in DOMAIN o.results |->
                     V3 /\ o.results[i].kind \in RemovedInV3]
  <2>1. m \in [DOMAIN o.results -> BOOLEAN]
    BY DEF V3
  <2> QED
    BY <1>4, <2>1
<1> QED
  BY <1>1, <1>5, <1>6 DEF Emitted, RemovedByTarget

\* What is noted about a document is a DocChange.
LEMMA ChangeType ==
  \A d \in Doc, o \in Outcome : ChangeOf(d, o) \in Change
BY DEF ChangeOf, Change, Outcome, Rewritten, V3, IsDefaultGatewayTimeout,
       DeleteNote

\* The found flags of a document are verdicts.
LEMMA VerdictType ==
  \A c \in Change : ScenarioVerdict(c) \subseteq Verdict
BY DEF ScenarioVerdict, Verdict, Verdicts, Change, Scenario

-----------------------------------------------------------------------------
(***************************************************************************)
(* Type correctness.                                                       *)
(***************************************************************************)

\* processFile returning a file report keeps the types.
LEMMA ReturnType ==
  ASSUME ProcessOK, NEW rep \in Report, NEW fr \in FileReport,
         Return(rep, fr), UNCHANGED runs
  PROVE  ProcessOK'
<1>1. NewFileReport(NoFile) \in FileReport
  BY FreshTypes
<1>2. Counted(rep, fr) \in Report
  BY CountedType
<1>3. <<>> \in Seq(OutputDoc) /\ DOMAIN <<>> = {}
  OBVIOUS
<1>4. at' \in Nat \ {0} /\ next' \in Nat \ {0} /\ runs' \in Nat
  BY DEF Return, ProcessOK
<1>5. phase' = "walk" /\ filter' \in Text
  BY DEF Return, ProcessOK
<1>6. cur' \in FileReport /\ report' \in Report
  BY <1>1, <1>2 DEF Return
<1>7. outs' \in Seq(OutputDoc) /\ DOMAIN outs' = {}
  BY <1>3 DEF Return
<1> QED
  BY <1>4, <1>5, <1>6, <1>7 DEF ProcessOK

\* So does the process leaving nothing behind in memory.
LEMMA GoneType ==
  ASSUME ProcessOK, ProcessGone, UNCHANGED runs
  PROVE  ProcessOK'
<1>1. NewFileReport(NoFile) \in FileReport /\ NewReport("v2", FALSE) \in Report
  BY FreshTypes
<1>2. <<>> \in Seq(OutputDoc) /\ DOMAIN <<>> = {}
  OBVIOUS
<1>3. /\ phase' = "idle" /\ filter' = "" /\ at' = 1 /\ next' = 1
      /\ cur' = NewFileReport(NoFile) /\ outs' = <<>>
  BY Zenon DEF ProcessGone
<1>4. filter' \in Text
  BY <1>3, TextAssumption
<1>5. at' \in Nat \ {0} /\ next' \in Nat \ {0}
  <2>1. 1 \in Nat \ {0}
    OBVIOUS
  <2>2. at' = 1 /\ next' = 1
    BY <1>3, Zenon
  <2> QED
    BY <2>1, <2>2, Zenon
<1>6. runs' \in Nat
  BY DEF ProcessOK
<1>7. cur' \in FileReport /\ report' \in Report
  BY <1>1, Zenon DEF ProcessGone
<1>8. outs' \in Seq(OutputDoc) /\ DOMAIN outs' = {}
  BY <1>2, <1>3
<1>9. phase' \in {"idle", "walk", "docs", "write"} /\ phase' # "docs"
  BY <1>3
<1> QED
  BY <1>4, <1>5, <1>6, <1>7, <1>8, <1>9 DEF ProcessOK

\* Writing a document, or part of one, keeps the disk a disk.
LEMMA PutType ==
  ASSUME FilesOK, NEW p \in Path, NEW raw \in Doc \union {Torn}
  PROVE  /\ DOMAIN Put(p, raw) = DOMAIN disk \union {p}
         /\ \A q \in DOMAIN Put(p, raw) : Put(p, raw)[q] \in Doc \union {Torn}
         /\ DOMAIN Put(p, raw) \subseteq Path
BY DEF FilesOK, Put

\* The file the walk is at.
LEMMA TreeType ==
  ASSUME FilesOK, at \in DOMAIN tree
  PROVE  tree[at] \in InputFile
<1>1. tree \in Seq(InputFile)
  BY TreeAssumption DEF FilesOK
<1> QED
  BY <1>1, ElementType

\* The output being written, and where.
LEMMA HereType ==
  ASSUME ProcessOK, Writing
  PROVE  /\ outs[next] \in OutputDoc /\ Raw \in Doc /\ Here \in Path
         /\ outs[next].change \in DOMAIN cur.changes
         /\ Recorded \in FileReport
         /\ Recorded.file = cur.file
         /\ DOMAIN Recorded.changes = DOMAIN cur.changes
<1>1. outs[next] \in OutputDoc /\ outs[next].change \in DOMAIN cur.changes
  BY ElementType DEF ProcessOK, Writing
<1>2. Raw \in Doc
  BY <1>1, StripType DEF Raw, OutputDoc
<1>3. cur \in FileReport /\ cur.file \in InputFile
  BY DEF ProcessOK, FileReport
<1>4. Here \in Path
  BY <1>1, <1>2, <1>3, PathType DEF Here, OutputDoc
<1> DEFINE c == outs[next].change
<1>5. cur.changes \in Seq(Change) /\ cur.changes[c] \in Change
  BY <1>1, <1>3, ElementType DEF FileReport
<1>6. cur.changes[c].manual \in Seq(Path)
  BY <1>5 DEF Change
<1>7. Append(cur.changes[c].manual, Here) \in Seq(Path)
  BY <1>4, <1>6
<1>8. [cur.changes[c] EXCEPT !.manual = Append(cur.changes[c].manual, Here)]
        \in Change
  BY <1>5, <1>7 DEF Change
<1> DEFINE cs == [cur.changes EXCEPT ![c].manual = Append(@, Here)]
<1>9. cs \in Seq(Change) /\ DOMAIN cs = DOMAIN cur.changes
  BY <1>1, <1>5, <1>8
<1>10. Append(cur.manual, Here) \in Seq(Path)
  BY <1>3, <1>4 DEF FileReport
<1>11. Append(cur.apply, [path |-> Here, raw |-> Raw]) \in Seq(Output)
  BY <1>2, <1>3, <1>4 DEF FileReport, Output
<1>12. CASE outs[next].manual
  <2>1. Recorded = [cur EXCEPT !.manual = Append(cur.manual, Here),
                               !.changes = cs]
    BY <1>12, <1>3 DEF Recorded, FileReport
  <2> QED
    BY <1>1, <1>2, <1>3, <1>4, <1>9, <1>10, <2>1 DEF FileReport
<1>13. CASE ~outs[next].manual
  BY <1>1, <1>2, <1>3, <1>4, <1>11, <1>13 DEF FileReport, Recorded
<1> QED
  BY <1>12, <1>13

\* The document being transformed.
LEMMA ThisDocType ==
  ASSUME ProcessOK, phase = "docs"
  PROVE  /\ ThisDoc \in Doc /\ Transform(ThisDoc, report.target) \in Outcome
         /\ cur \in FileReport /\ cur.changes \in Seq(Change)
         /\ cur.file \in InputFile
<1>1. cur \in FileReport /\ next \in DOMAIN cur.file.docs
      /\ report \in Report
  BY DEF ProcessOK
<1>2. cur.file \in InputFile /\ cur.changes \in Seq(Change)
  BY <1>1 DEF FileReport
<1>3. cur.file.docs \in Seq(Doc)
  BY <1>2 DEF InputFile
<1>4. ThisDoc \in Doc
  BY <1>1, <1>3, ElementType DEF ThisDoc
<1>5. report.target \in {"v2", "v3"}
  BY <1>1 DEF Report
<1>6. Transform(ThisDoc, report.target) \in Outcome
  BY <1>4, <1>5, TransformAssumption
<1> QED
  BY <1>1, <1>2, <1>4, <1>6

\* The document loop going on, or giving way to the output loop.
LEMMA NextDocumentType ==
  ASSUME ProcessOK, phase = "docs", NextDocument,
         cur' \in FileReport, cur'.file = cur.file, outs' \in Seq(OutputDoc),
         \A i \in DOMAIN outs' : outs'[i].change \in DOMAIN cur'.changes
  PROVE  ProcessOK'
<1>1. cur.file.docs \in Seq(Doc) /\ next \in DOMAIN cur.file.docs
  BY ThisDocType DEF ProcessOK, InputFile
<1>2. next' \in Nat \ {0} /\ (phase' = "docs" => next' \in DOMAIN cur'.file.docs)
  BY <1>1 DEF NextDocument, ProcessOK
<1>3. phase' \in {"idle", "walk", "docs", "write"}
  BY DEF NextDocument
<1>4. filter' \in Text /\ at' \in Nat \ {0} /\ runs' \in Nat
  BY DEF NextDocument, ProcessOK
<1>5. report' \in Report
  BY DEF NextDocument, ProcessOK
<1> QED
  BY <1>2, <1>3, <1>4, <1>5 DEF ProcessOK

\* Skipping a document keeps the types.
LEMMA SkipType ==
  ASSUME ProcessOK, SkipDocument
  PROVE  ProcessOK'
<1> DEFINE c == [doc |-> ThisDoc, scenario |-> "skipped",
                 errMsg |-> FALSE, rejected |-> FALSE,
                 deleteBeforeV3 |-> FALSE, rewritten |-> FALSE,
                 warned |-> FALSE, manual |-> <<>>]
<1>1. ThisDoc \in Doc /\ cur \in FileReport /\ cur.changes \in Seq(Change)
  BY ThisDocType DEF SkipDocument
<1>2. <<>> \in Seq(Path)
  OBVIOUS
<1>3. c \in Change
  BY <1>1, <1>2 DEF Change, Scenario
<1>4. cur' = [cur EXCEPT !.changes = Append(cur.changes, c),
                         !.found = cur.found \union {"skipped"}]
  BY Zenon DEF SkipDocument
<1> HIDE DEF c
<1>5. /\ Append(cur.changes, c) \in Seq(Change)
      /\ DOMAIN cur.changes \subseteq DOMAIN Append(cur.changes, c)
  BY <1>1, <1>3
<1>6. {"skipped"} \subseteq Verdict
  BY DEF Verdict, Verdicts
<1>7. cur' \in FileReport /\ cur'.file = cur.file
      /\ cur'.changes = Append(cur.changes, c)
  BY <1>1, <1>4, <1>5, <1>6 DEF FileReport
<1>8. outs' = outs /\ phase = "docs" /\ NextDocument
  BY DEF SkipDocument
<1>9. outs' \in Seq(OutputDoc)
      /\ \A i \in DOMAIN outs' : outs'[i].change \in DOMAIN cur'.changes
  BY <1>5, <1>7, <1>8 DEF ProcessOK
<1> QED
  BY <1>7, <1>8, <1>9, NextDocumentType

\* The outputs of one document behind those of the documents before it.
LEMMA QueueType ==
  ASSUME NEW q \in Seq(OutputDoc), NEW items \in Seq(Item),
         NEW n \in Nat \ {0}
  PROVE  LET more == [i \in DOMAIN items |-> [raw    |-> items[i].raw,
                                              manual |-> items[i].manual,
                                              change |-> n]]
         IN  /\ q \o more \in Seq(OutputDoc)
             /\ \A i \in DOMAIN (q \o more) :
                  \/ i \in DOMAIN q /\ (q \o more)[i] = q[i]
                  \/ (q \o more)[i].change = n
<1> DEFINE out(i) == [raw |-> items[i].raw, manual |-> items[i].manual,
                      change |-> n]
           more   == [i \in DOMAIN items |-> out(i)]
<1>1. \A i \in DOMAIN items : out(i) \in OutputDoc /\ out(i).change = n
  <2> SUFFICES ASSUME NEW i \in DOMAIN items
               PROVE  out(i) \in OutputDoc /\ out(i).change = n
    OBVIOUS
  <2>1. items[i] \in Item
    BY ElementType
  <2> QED
    BY <2>1 DEF Item, OutputDoc
<1> HIDE DEF out
<1>2. more \in Seq(OutputDoc) /\ DOMAIN more = DOMAIN items
  BY <1>1, MapType
<1>3. \A i \in DOMAIN more : more[i].change = n
  BY <1>1
<1> HIDE DEF more
<1>4. q \o more \in Seq(OutputDoc)
  BY <1>2
<1>5. \A i \in DOMAIN (q \o more) :
        \/ i \in DOMAIN q /\ (q \o more)[i] = q[i]
        \/ i - Len(q) \in DOMAIN more /\ (q \o more)[i] = more[i - Len(q)]
  BY <1>2
<1>6. \A i \in DOMAIN (q \o more) :
        \/ i \in DOMAIN q /\ (q \o more)[i] = q[i]
        \/ (q \o more)[i].change = n
  BY <1>3, <1>5
<1> QED
  BY <1>4, <1>6 DEF more, out

\* Converting a document keeps the types.
LEMMA ConvertType ==
  ASSUME ProcessOK, ConvertDocument
  PROVE  ProcessOK'
<1> DEFINE o       == Transform(ThisDoc, report.target)
           emitted == Emitted(ThisDoc, o)
           change  == ChangeOf(ThisDoc, o)
           n       == Len(cur.changes) + 1
           found   == cur.found \union ScenarioVerdict(change)
                        \union ManualVerdict(change, emitted)
<1>1. /\ ThisDoc \in Doc /\ cur \in FileReport /\ cur.changes \in Seq(Change)
      /\ o \in Outcome
  BY ThisDocType DEF ConvertDocument
<1>2. emitted \in Seq(Item) /\ change \in Change
  BY <1>1, EmittedType, ChangeType
<1>3. found \subseteq Verdict
  <2>1. cur.found \subseteq Verdict
    BY <1>1 DEF FileReport
  <2>2. {"manual"} \subseteq Verdict
    BY DEF Verdict, Verdicts
  <2>3. ManualVerdict(change, emitted) \subseteq Verdict
    BY <2>2 DEF ManualVerdict
  <2> QED
    BY <1>2, <2>1, <2>3, VerdictType
<1>4. /\ cur' = [cur EXCEPT !.changes  = Append(cur.changes, change),
                            !.hasError = cur.hasError \/ change.errMsg,
                            !.found    = found]
      /\ outs' = outs \o [i \in DOMAIN emitted |->
                            [raw    |-> emitted[i].raw,
                             manual |-> emitted[i].manual,
                             change |-> n]]
      /\ phase = "docs" /\ NextDocument
  BY Zenon DEF ConvertDocument
<1> HIDE DEF emitted, change, found, o
<1>5. /\ Append(cur.changes, change) \in Seq(Change)
      /\ DOMAIN Append(cur.changes, change) = DOMAIN cur.changes \union {n}
      /\ n \in Nat \ {0}
  BY <1>1, <1>2
<1>6. (cur.hasError \/ change.errMsg) \in BOOLEAN
  OBVIOUS
<1>7. cur' \in FileReport /\ cur'.file = cur.file
      /\ cur'.changes = Append(cur.changes, change)
  BY <1>1, <1>3, <1>4, <1>5, <1>6 DEF FileReport
<1>8. /\ outs' \in Seq(OutputDoc)
      /\ \A i \in DOMAIN outs' :
           \/ i \in DOMAIN outs /\ outs'[i] = outs[i]
           \/ outs'[i].change = n
  <2>1. outs \in Seq(OutputDoc)
    BY DEF ProcessOK
  <2> HIDE DEF n
  <2> QED
    BY <1>2, <1>4, <1>5, <2>1, QueueType
<1>9. \A i \in DOMAIN outs' : outs'[i].change \in DOMAIN cur'.changes
  BY <1>5, <1>7, <1>8 DEF ProcessOK
<1> QED
  BY <1>4, <1>7, <1>8, <1>9, NextDocumentType

\* The file the walk is at, counted (runMigration).
LEMMA VisitedType ==
  ASSUME TypeOK, Walking
  PROVE  tree[at] \in InputFile /\ Visited \in Report
<1>1. tree[at] \in InputFile
  BY TreeType DEF TypeOK, Walking
<1>2. report \in Report
  BY DEF TypeOK, ProcessOK
<1>3. Visited \in Report
  BY <1>2 DEF Visited, Report
<1> QED
  BY <1>1, <1>3

\* A run starts with an empty report.
LEMMA StartType ==
  ASSUME TypeOK,
         NEW t \in Targets, NEW d \in Modes, NEW m \in MeshFilters,
         Start(t, d, m)
  PROVE  TypeOK'
<1>1. t \in {"v2", "v3"} /\ d \in BOOLEAN /\ m \in Text
  BY TreeAssumption
<1>2. NewFileReport(NoFile) \in FileReport /\ NewReport(t, d) \in Report
  BY <1>1, FreshTypes
<1>3. tree' \in InputTrees
  BY DEF TypeOK, FilesOK, Start
<1>4. FilesOK'
  BY <1>3 DEF TypeOK, FilesOK, Start
<1>5. outs' \in Seq(OutputDoc) /\ DOMAIN outs' = {}
  BY DEF Start
<1>6. /\ phase' = "walk" /\ filter' \in Text /\ at' \in Nat \ {0}
      /\ next' \in Nat \ {0} /\ runs' \in Nat
  BY <1>1 DEF TypeOK, ProcessOK, Start
<1>7. cur' \in FileReport /\ report' \in Report
  BY <1>2 DEF Start
<1> QED
  BY <1>4, <1>5, <1>6, <1>7 DEF TypeOK, ProcessOK

\* Opening a file.
LEMMA OpenType ==
  ASSUME TypeOK, Open
  PROVE  ProcessOK'
<1>1. tree[at] \in InputFile /\ Visited \in Report
  BY VisitedType DEF Open
<1>2. NewFileReport(tree[at]) \in FileReport
      /\ NewFileReport(tree[at]).file = tree[at]
  BY <1>1, FreshTypes DEF NewFileReport
<1>3. tree[at].docs \in Seq(Doc) /\ tree[at].docs # <<>>
  BY <1>1 DEF InputFile, Open
<1>4. 1 \in DOMAIN tree[at].docs
  BY <1>3
<1>5. cur' \in FileReport /\ report' \in Report
      /\ (phase' = "docs" => next' \in DOMAIN cur'.file.docs)
  BY <1>1, <1>2, <1>4 DEF Open
<1>6. outs' \in Seq(OutputDoc) /\ DOMAIN outs' = {}
  BY DEF Open
<1>7. /\ phase' = "docs" /\ filter' \in Text /\ at' \in Nat \ {0}
      /\ next' \in Nat \ {0} /\ runs' \in Nat
  BY DEF Open, TypeOK, ProcessOK
<1> QED
  BY <1>5, <1>6, <1>7 DEF ProcessOK

\* Every step of a run keeps the types.
LEMMA StepType ==
  ASSUME TypeOK, Step
  PROVE  TypeOK'
<1> USE DEF TypeOK
<1>1. CASE PassOver
  BY <1>1 DEF PassOver, FilesOK, ProcessOK
<1>2. CASE CannotRead
  <2>1. tree[at] \in InputFile /\ Visited \in Report
    BY <1>2, VisitedType DEF CannotRead
  <2> DEFINE fr == [NewFileReport(tree[at]) EXCEPT
                      !.hasError = TRUE, !.unread = TRUE, !.label = "ERROR"]
  <2>2. NewFileReport(tree[at]) \in FileReport
    BY <2>1, FreshTypes
  <2>3. fr \in FileReport
    BY <2>2 DEF FileReport, Label
  <2>4. Return(Visited, fr) /\ UNCHANGED runs
    BY <1>2, Zenon DEF CannotRead
  <2>5. ProcessOK'
    BY <2>1, <2>3, <2>4, ReturnType
  <2> QED
    BY <1>2, <2>5 DEF CannotRead, FilesOK
<1>3. CASE OpenEmpty
  <2>1. tree[at] \in InputFile /\ Visited \in Report
    BY <1>3, VisitedType DEF OpenEmpty
  <2>2. ProcessOK'
    BY <1>3, <2>1, FreshTypes, ReturnType DEF OpenEmpty
  <2> QED
    BY <1>3, <2>2 DEF OpenEmpty, FilesOK
<1>4. CASE Open
  BY <1>4, OpenType DEF Open, FilesOK
<1>5. CASE SkipDocument
  BY <1>5, SkipType DEF SkipDocument, NextDocument, FilesOK
<1>6. CASE ConvertDocument
  <2>1. UNCHANGED <<tree, disk, planMd, reportMd>>
    BY <1>6, Zenon DEF ConvertDocument, NextDocument
  <2> QED
    BY <1>6, <2>1, ConvertType DEF FilesOK
<1>7. CASE WriteOutput
  <2>1. /\ Raw \in Doc /\ Here \in Path /\ Recorded \in FileReport
        /\ Recorded.file = cur.file
        /\ DOMAIN Recorded.changes = DOMAIN cur.changes
    BY <1>7, HereType DEF WriteOutput
  <2>2. /\ cur' = Recorded /\ phase' = "write" /\ next' = next + 1
        /\ UNCHANGED <<tree, planMd, reportMd, filter, at, outs, report, runs>>
    BY <1>7 DEF WriteOutput, Writing
  <2>3. ProcessOK'
    BY <2>1, <2>2 DEF ProcessOK
  <2>4. disk' = disk \/ disk' = Put(Here, Raw)
    BY <1>7 DEF WriteOutput
  <2>5. /\ DOMAIN disk' \subseteq Path
        /\ \A p \in DOMAIN disk' : disk'[p] \in Doc \union {Torn}
    <3>1. CASE disk' = disk
      BY <3>1 DEF FilesOK
    <3>2. CASE disk' = Put(Here, Raw)
      BY <2>1, <3>2, PutType
    <3> QED
      BY <2>4, <3>1, <3>2
  <2> QED
    BY <2>2, <2>3, <2>5 DEF FilesOK
<1>8. CASE WriteFails
  <2>1. Here \in Path /\ Recorded \in FileReport /\ report \in Report
    BY <1>8, HereType DEF WriteFails, ProcessOK
  <2>2. [Recorded EXCEPT !.hasError = TRUE, !.label = "ERROR"] \in FileReport
    BY <2>1 DEF FileReport, Label
  <2>3. ProcessOK'
    BY <1>8, <2>1, <2>2, ReturnType DEF WriteFails
  <2>4. /\ DOMAIN disk' \subseteq Path
        /\ \A p \in DOMAIN disk' : disk'[p] \in Doc \union {Torn}
    <3>1. CASE disk' = disk
      BY <3>1 DEF FilesOK
    <3>2. CASE disk' = Put(Here, Torn)
      BY <2>1, <3>2, PutType
    <3> QED
      BY <1>8, <3>1, <3>2 DEF WriteFails
  <2> QED
    BY <1>8, <2>3, <2>4 DEF FilesOK, WriteFails
<1>9. CASE CloseFile
  <2>1. cur \in FileReport /\ report \in Report /\ FinalLabel(cur) \in Label
    BY FinalLabelType DEF ProcessOK
  <2>2. [cur EXCEPT !.label = FinalLabel(cur)] \in FileReport
    BY <2>1 DEF FileReport
  <2>3. ProcessOK'
    BY <1>9, <2>1, <2>2, ReturnType DEF CloseFile
  <2> QED
    BY <1>9, <2>3 DEF FilesOK, CloseFile
<1>10. CASE Publish
  <2>1. Marked(report) \in Report
    BY MarkedType DEF ProcessOK
  <2>2. planMd' \subseteq Report /\ reportMd' \subseteq Report
    BY <1>10, <2>1 DEF Publish, FilesOK
  <2>3. ProcessOK'
    BY <1>10, GoneType, Zenon DEF Publish
  <2> QED
    BY <1>10, <2>2, <2>3 DEF Publish, FilesOK
<1>11. CASE PublishFails
  <2>1. planMd' \subseteq Report /\ reportMd' \subseteq Report
    BY <1>11 DEF PublishFails, FilesOK
  <2>2. ProcessOK'
    BY <1>11, GoneType, Zenon DEF PublishFails
  <2> QED
    BY <1>11, <2>1, <2>2 DEF PublishFails, FilesOK
<1>12. CASE WalkAborts
  <2>1. ProcessOK'
    BY <1>12, GoneType, Zenon DEF WalkAborts
  <2> QED
    BY <1>12, <2>1 DEF WalkAborts, FilesOK
<1> QED
  BY <1>1, <1>2, <1>3, <1>4, <1>5, <1>6, <1>7, <1>8, <1>9, <1>10, <1>11,
     <1>12 DEF Step, Progress, Failure

\* So does a kill.
LEMMA KilledType ==
  ASSUME TypeOK, Killed
  PROVE  TypeOK'
<1>1. ProcessOK'
  BY GoneType, Zenon DEF TypeOK, Killed
<1>2. /\ DOMAIN disk' \subseteq Path
      /\ \A p \in DOMAIN disk' : disk'[p] \in Doc \union {Torn}
  <2>1. CASE disk' = disk
    BY <2>1 DEF TypeOK, FilesOK
  <2>2. CASE Writing /\ disk' = Put(Here, Torn)
    <3>1. Here \in Path
      BY <2>2, HereType DEF TypeOK
    <3> QED
      BY <2>2, <3>1, PutType DEF TypeOK
  <2> QED
    BY <2>1, <2>2 DEF Killed
<1>3. UNCHANGED <<tree, planMd, reportMd>>
  BY Zenon DEF Killed
<1> QED
  BY <1>1, <1>2, <1>3 DEF TypeOK, FilesOK

\* The process starts out well typed.
LEMMA InitType == Init => TypeOK
<1> SUFFICES ASSUME Init PROVE TypeOK
  OBVIOUS
<1>1. NewFileReport(NoFile) \in FileReport /\ NewReport("v2", FALSE) \in Report
  BY FreshTypes
<1>2. FilesOK
  <2>1. disk = <<>> /\ planMd = {} /\ reportMd = {} /\ tree \in InputTrees
    BY Zenon DEF Init
  <2>2. DOMAIN disk = {}
    BY <2>1
  <2> QED
    BY <2>1, <2>2 DEF FilesOK
<1>3. cur \in FileReport /\ report \in Report
  BY <1>1, Zenon DEF Init
<1>4. outs \in Seq(OutputDoc) /\ DOMAIN outs = {}
  <2>1. outs = <<>>
    BY Zenon DEF Init
  <2> QED
    BY <2>1
<1>5. /\ phase \in {"idle", "walk", "docs", "write"} /\ phase # "docs"
      /\ filter \in Text /\ runs \in Nat
  BY TextAssumption DEF Init
<1>6. at \in Nat \ {0} /\ next \in Nat \ {0}
  <2>1. 1 \in Nat \ {0}
    OBVIOUS
  <2>2. at = 1 /\ next = 1
    BY Zenon DEF Init
  <2> QED
    BY <2>1, <2>2, Zenon
<1> QED
  BY <1>2, <1>3, <1>4, <1>5, <1>6 DEF TypeOK, ProcessOK

\* Every step keeps the types.
LEMMA NextType == TypeOK /\ [Next]_vars => TypeOK'
<1> SUFFICES ASSUME TypeOK, [Next]_vars PROVE TypeOK'
  OBVIOUS
<1>1. ASSUME NEW t \in Targets, NEW d \in Modes, NEW m \in MeshFilters,
             Start(t, d, m)
      PROVE  TypeOK'
  BY <1>1, StartType
<1>2. CASE Step
  BY <1>2, StepType
<1>3. CASE Killed
  BY <1>3, KilledType
<1>4. CASE UNCHANGED vars
  BY <1>4 DEF vars, TypeOK, FilesOK, ProcessOK
<1> QED
  BY <1>1, <1>2, <1>3, <1>4, Zenon DEF Next

(***************************************************************************)
(* Type correctness, with the two indexed slices of processFile: the       *)
(* document loop never leaves the file's documents, and an output always   *)
(* finds the DocChange it came from.                                       *)
(***************************************************************************)
THEOREM TypeCorrect == Spec => []TypeOK
BY InitType, NextType, PTL DEF Spec

-----------------------------------------------------------------------------
(***************************************************************************)
(* What a run may write.                                                   *)
(***************************************************************************)

\* A write never removes a path.
LEMMA PutKeeps == \A p, raw : DOMAIN disk \subseteq DOMAIN Put(p, raw)
BY DEF Put

\* A file report returned, or memory given up, leaves every file alone.
LEMMA DryRunStep ==
  ASSUME [Next]_vars
  PROVE  /\ phase # "idle" /\ report.dry => UNCHANGED <<disk, reportMd>>
         /\ phase # "idle" /\ ~report.dry => UNCHANGED planMd
         /\ DOMAIN disk \subseteq DOMAIN disk'
<1>1. ASSUME NEW t \in Targets, NEW d \in Modes, NEW m \in MeshFilters,
             Start(t, d, m)
      PROVE  phase = "idle" /\ UNCHANGED <<disk, planMd, reportMd>>
  BY <1>1 DEF Start
<1>2. CASE PassOver \/ CannotRead \/ OpenEmpty \/ Open \/ SkipDocument
             \/ CloseFile \/ WalkAborts
  BY <1>2 DEF PassOver, CannotRead, OpenEmpty, Open, SkipDocument,
              NextDocument, CloseFile, WalkAborts
<1>3. CASE ConvertDocument
  <2>1. NextDocument
    BY <1>3, Zenon DEF ConvertDocument
  <2> QED
    BY <2>1 DEF NextDocument
<1>4. CASE WriteOutput \/ WriteFails
  <2>1. UNCHANGED <<planMd, reportMd>>
    BY <1>4 DEF WriteOutput, WriteFails
  <2>2. report.dry => UNCHANGED disk
    BY <1>4 DEF WriteOutput, WriteFails
  <2>3. DOMAIN disk \subseteq DOMAIN disk'
    BY <1>4, PutKeeps DEF WriteOutput, WriteFails
  <2> QED
    BY <2>1, <2>2, <2>3
<1>5. CASE Publish \/ PublishFails
  BY <1>5 DEF Publish, PublishFails
<1>6. CASE Killed
  <2>1. UNCHANGED <<planMd, reportMd>>
    BY <1>6, Zenon DEF Killed
  <2>2. UNCHANGED disk \/ (~report.dry /\ disk' = Put(Here, Torn))
    BY <1>6, Zenon DEF Killed
  <2> QED
    BY <2>1, <2>2, PutKeeps
<1>7. CASE UNCHANGED vars
  BY <1>7 DEF vars
<1> QED
  BY <1>1, <1>2, <1>3, <1>4, <1>5, <1>6, <1>7, Zenon DEF Next, Step, Progress, Failure

(***************************************************************************)
(* A dry run changes no output file and no report of a real run, and no    *)
(* run deletes a file, for every kind of tree and every sequence of runs.  *)
(***************************************************************************)
THEOREM DryRunHarmless == Spec => DryRunWritesNothing
BY DryRunStep, PTL DEF Spec, DryRunWritesNothing

-----------------------------------------------------------------------------
(***************************************************************************)
(* The summary table.                                                      *)
(***************************************************************************)

\* The labels, spelled out.
LEMMA LabelValues ==
  Label \subseteq
    {"MIGRATED LEGACY", "MIGRATED SUBSET", "MIGRATED RULES", "MIGRATED MESH",
     "MIGRATED ES", "MIGRATED GW", "MIGRATED OPA", "MANUAL", "REWRITTEN",
     "SCANNED", "ALREADY MIGRATED", "SKIP", "SKIP (empty)", "ERROR",
     "PARTIAL ERROR"}
<1>1. \A v \in Verdict :
        LabelOf[v] \in
          {"MIGRATED LEGACY", "MIGRATED SUBSET", "MIGRATED RULES",
           "MIGRATED MESH", "MIGRATED ES", "MIGRATED GW", "MIGRATED OPA",
           "MANUAL", "REWRITTEN", "SCANNED", "ALREADY MIGRATED", "SKIP"}
  <2>1. Verdict \subseteq {"legacy", "subset", "rules", "mesh", "es", "gw",
                           "opa", "manual", "rewritten", "scanned",
                           "already", "skipped"}
    BY DEF Verdict, Verdicts
  <2>2. /\ LabelOf["legacy"] = "MIGRATED LEGACY"
        /\ LabelOf["subset"] = "MIGRATED SUBSET"
        /\ LabelOf["rules"] = "MIGRATED RULES"
        /\ LabelOf["mesh"] = "MIGRATED MESH"
        /\ LabelOf["es"] = "MIGRATED ES"
        /\ LabelOf["gw"] = "MIGRATED GW"
        /\ LabelOf["opa"] = "MIGRATED OPA"
        /\ LabelOf["manual"] = "MANUAL"
        /\ LabelOf["rewritten"] = "REWRITTEN"
        /\ LabelOf["scanned"] = "SCANNED"
        /\ LabelOf["already"] = "ALREADY MIGRATED"
        /\ LabelOf["skipped"] = "SKIP"
    BY DEF LabelOf
  <2> QED
    BY <2>1, <2>2
<1> QED
  BY <1>1 DEF Label

\* One to add when the label belongs to counter c (the counters switch).
Adds(label, c) == IF label \in LabelsIn[c] THEN 1 ELSE 0

\* The switch over labels adds each file to exactly one counter.
LEMMA OneCounter ==
  \A label \in Label :
    Adds(label, "migrated") + Adds(label, "alreadyDone")
      + Adds(label, "scanned") + Adds(label, "manual")
      + Adds(label, "skipped") + Adds(label, "errors") = 1
<1> SUFFICES ASSUME NEW label \in Label
             PROVE  Adds(label, "migrated") + Adds(label, "alreadyDone")
                      + Adds(label, "scanned") + Adds(label, "manual")
                      + Adds(label, "skipped") + Adds(label, "errors") = 1
  OBVIOUS
<1>1. /\ Adds(label, "migrated") =
            IF label \in {"MIGRATED LEGACY", "MIGRATED SUBSET",
                          "MIGRATED RULES", "MIGRATED MESH", "MIGRATED ES",
                          "MIGRATED GW", "MIGRATED OPA", "REWRITTEN"}
            THEN 1 ELSE 0
      /\ Adds(label, "alreadyDone") =
            IF label = "ALREADY MIGRATED" THEN 1 ELSE 0
      /\ Adds(label, "scanned") = IF label = "SCANNED" THEN 1 ELSE 0
      /\ Adds(label, "manual") = IF label = "MANUAL" THEN 1 ELSE 0
      /\ Adds(label, "skipped") =
            IF label \in {"SKIP", "SKIP (empty)"} THEN 1 ELSE 0
      /\ Adds(label, "errors") =
            IF label \in {"ERROR", "PARTIAL ERROR"} THEN 1 ELSE 0
  BY DEF Adds, LabelsIn
<1>2. CASE label \in {"MIGRATED LEGACY", "MIGRATED SUBSET", "MIGRATED RULES",
                      "MIGRATED MESH", "MIGRATED ES", "MIGRATED GW",
                      "MIGRATED OPA", "REWRITTEN"}
  <2>1. /\ Adds(label, "migrated") = 1 /\ Adds(label, "alreadyDone") = 0
        /\ Adds(label, "scanned") = 0 /\ Adds(label, "manual") = 0
        /\ Adds(label, "skipped") = 0 /\ Adds(label, "errors") = 0
    BY <1>1, <1>2
  <2> QED
    BY <2>1
<1>3. CASE label = "ALREADY MIGRATED"
  <2>1. /\ Adds(label, "migrated") = 0 /\ Adds(label, "alreadyDone") = 1
        /\ Adds(label, "scanned") = 0 /\ Adds(label, "manual") = 0
        /\ Adds(label, "skipped") = 0 /\ Adds(label, "errors") = 0
    BY <1>1, <1>3
  <2> QED
    BY <2>1
<1>4. CASE label = "SCANNED"
  <2>1. /\ Adds(label, "migrated") = 0 /\ Adds(label, "alreadyDone") = 0
        /\ Adds(label, "scanned") = 1 /\ Adds(label, "manual") = 0
        /\ Adds(label, "skipped") = 0 /\ Adds(label, "errors") = 0
    BY <1>1, <1>4
  <2> QED
    BY <2>1
<1>5. CASE label = "MANUAL"
  <2>1. /\ Adds(label, "migrated") = 0 /\ Adds(label, "alreadyDone") = 0
        /\ Adds(label, "scanned") = 0 /\ Adds(label, "manual") = 1
        /\ Adds(label, "skipped") = 0 /\ Adds(label, "errors") = 0
    BY <1>1, <1>5
  <2> QED
    BY <2>1
<1>6. CASE label \in {"SKIP", "SKIP (empty)"}
  <2>1. /\ Adds(label, "migrated") = 0 /\ Adds(label, "alreadyDone") = 0
        /\ Adds(label, "scanned") = 0 /\ Adds(label, "manual") = 0
        /\ Adds(label, "skipped") = 1 /\ Adds(label, "errors") = 0
    BY <1>1, <1>6
  <2> QED
    BY <2>1
<1>7. CASE label \in {"ERROR", "PARTIAL ERROR"}
  <2>1. /\ Adds(label, "migrated") = 0 /\ Adds(label, "alreadyDone") = 0
        /\ Adds(label, "scanned") = 0 /\ Adds(label, "manual") = 0
        /\ Adds(label, "skipped") = 0 /\ Adds(label, "errors") = 1
    BY <1>1, <1>7
  <2> QED
    BY <2>1
<1> QED
  BY <1>2, <1>3, <1>4, <1>5, <1>6, <1>7, LabelValues

\* Six counters, of which one moves.
LEMMA SixCounters ==
  ASSUME NEW x1 \in Nat, NEW x2 \in Nat, NEW x3 \in Nat, NEW x4 \in Nat,
         NEW x5 \in Nat, NEW x6 \in Nat, NEW a1 \in Nat, NEW a2 \in Nat,
         NEW a3 \in Nat, NEW a4 \in Nat, NEW a5 \in Nat, NEW a6 \in Nat,
         a1 + a2 + a3 + a4 + a5 + a6 = 1
  PROVE  (x1 + a1) + (x2 + a2) + (x3 + a3) + (x4 + a4) + (x5 + a5) + (x6 + a6)
           = (x1 + x2 + x3 + x4 + x5 + x6) + 1
OBVIOUS

\* So counting a file moves both totals by one.
LEMMA CountedSum ==
  ASSUME NEW rep \in Report, NEW fr \in FileReport
  PROVE  /\ Sum(Counted(rep, fr).counts) = Sum(rep.counts) + 1
         /\ Counted(rep, fr).total = rep.total
         /\ Len(Counted(rep, fr).files) = Len(rep.files) + 1
         /\ Counted(rep, fr).dry = rep.dry
         /\ Counted(rep, fr).target = rep.target
         /\ Counted(rep, fr).files = Append(rep.files, fr)
<1>1. rep.counts \in [Counter -> Nat] /\ rep.files \in Seq(FileReport)
      /\ fr.label \in Label
  BY DEF Report, FileReport
<1>2. Counter = {"migrated", "alreadyDone", "scanned", "manual", "skipped",
                 "errors"}
  BY DEF Counter, LabelsIn
<1>3. Counted(rep, fr).counts =
        [c \in Counter |-> rep.counts[c] + Adds(fr.label, c)]
  BY DEF Counted, Report, Adds
<1>4. \A c \in Counter :
        /\ Counted(rep, fr).counts[c] = rep.counts[c] + Adds(fr.label, c)
        /\ rep.counts[c] \in Nat /\ Adds(fr.label, c) \in Nat
  BY <1>1, <1>3 DEF Adds
<1>5. Sum(Counted(rep, fr).counts) = Sum(rep.counts) + 1
  <2> DEFINE cs == Counted(rep, fr).counts
             a(c) == Adds(fr.label, c)
  <2>1. /\ cs["migrated"] = rep.counts["migrated"] + a("migrated")
        /\ cs["alreadyDone"] = rep.counts["alreadyDone"] + a("alreadyDone")
        /\ cs["scanned"] = rep.counts["scanned"] + a("scanned")
        /\ cs["manual"] = rep.counts["manual"] + a("manual")
        /\ cs["skipped"] = rep.counts["skipped"] + a("skipped")
        /\ cs["errors"] = rep.counts["errors"] + a("errors")
    BY <1>2, <1>4
  <2>2. /\ rep.counts["migrated"] \in Nat /\ a("migrated") \in Nat
        /\ rep.counts["alreadyDone"] \in Nat /\ a("alreadyDone") \in Nat
        /\ rep.counts["scanned"] \in Nat /\ a("scanned") \in Nat
        /\ rep.counts["manual"] \in Nat /\ a("manual") \in Nat
        /\ rep.counts["skipped"] \in Nat /\ a("skipped") \in Nat
        /\ rep.counts["errors"] \in Nat /\ a("errors") \in Nat
    BY <1>2, <1>4
  <2>3. a("migrated") + a("alreadyDone") + a("scanned") + a("manual")
          + a("skipped") + a("errors") = 1
    BY <1>1, OneCounter
  <2> HIDE DEF cs, a
  <2>4. Sum(cs) =
          (rep.counts["migrated"] + a("migrated"))
            + (rep.counts["alreadyDone"] + a("alreadyDone"))
            + (rep.counts["scanned"] + a("scanned"))
            + (rep.counts["manual"] + a("manual"))
            + (rep.counts["skipped"] + a("skipped"))
            + (rep.counts["errors"] + a("errors"))
    BY <2>1, Zenon DEF Sum
  <2>5. Sum(cs) =
          (rep.counts["migrated"] + rep.counts["alreadyDone"]
             + rep.counts["scanned"] + rep.counts["manual"]
             + rep.counts["skipped"] + rep.counts["errors"]) + 1
    BY <2>2, <2>3, <2>4, SixCounters
  <2> QED
    BY <2>5 DEF cs, Sum
<1>6. /\ Counted(rep, fr).files = Append(rep.files, fr)
      /\ Counted(rep, fr).total = rep.total
      /\ Counted(rep, fr).dry = rep.dry
      /\ Counted(rep, fr).target = rep.target
  BY DEF Counted, Report
<1> QED
  BY <1>1, <1>5, <1>6

\* The totals of a report with as many files still open.
Balanced(rep, open) ==
  rep.total = Sum(rep.counts) + open /\ rep.total = Len(rep.files) + open

\* Counting the open file balances the report.
LEMMA CountedBalance ==
  ASSUME NEW rep \in Report, NEW fr \in FileReport, Balanced(rep, 1)
  PROVE  Balanced(Counted(rep, fr), 0)
<1>1. Sum(rep.counts) \in Nat /\ Len(rep.files) \in Nat
  BY DEF Sum, Report, Counter, LabelsIn
<1> QED
  BY <1>1, CountedSum DEF Balanced

\* Marking rewritten outputs changes no total.
LEMMA MarkedBalance ==
  ASSUME NEW rep \in Report, Balanced(rep, 0)
  PROVE  Marked(rep).total = Sum(Marked(rep).counts)
         /\ Marked(rep).total = Len(Marked(rep).files)
<1>1. /\ Marked(rep).total = rep.total /\ Marked(rep).counts = rep.counts
      /\ DOMAIN Marked(rep).files = DOMAIN rep.files
  BY DEF Marked, Report
<1>2. rep.files \in Seq(FileReport) /\ Marked(rep).files \in Seq(FileReport)
  BY MarkedType DEF Report
<1>3. Len(Marked(rep).files) = Len(rep.files)
  BY <1>1, <1>2
<1>4. Sum(rep.counts) \in Nat /\ Len(rep.files) \in Nat
  BY DEF Sum, Report, Counter, LabelsIn
<1> QED
  BY <1>1, <1>3, <1>4 DEF Balanced

\* A new report is balanced.
LEMMA NewBalance == \A t, d : Balanced(NewReport(t, d), 0)
<1>1. \A t, d : /\ NewReport(t, d).total = 0 /\ NewReport(t, d).files = <<>>
                /\ NewReport(t, d).counts = [c \in Counter |-> 0]
  BY DEF NewReport
<1>2. Sum([c \in Counter |-> 0]) = 0
  BY DEF Sum, Counter, LabelsIn
<1> QED
  BY <1>1, <1>2 DEF Balanced

\* The files of phase "docs" and "write" are the open ones.
OpenFiles == IF phase \in {"docs", "write"} THEN 1 ELSE 0

PublishedBalance ==
  \A r \in planMd \union reportMd :
    r.total = Sum(r.counts) /\ r.total = Len(r.files)

LEMMA CountersForm ==
  CountersAddUp <=> Balanced(report, OpenFiles) /\ PublishedBalance
BY DEF CountersAddUp, Balanced, OpenFiles, PublishedBalance

\* Visiting a file opens it.
LEMMA VisitedBalance ==
  ASSUME report \in Report, Balanced(report, 0)
  PROVE  Balanced(Visited, 1)
<1>1. Sum(report.counts) \in Nat /\ Len(report.files) \in Nat
  BY DEF Sum, Report, Counter, LabelsIn
<1>2. /\ Visited.total = report.total + 1 /\ Visited.counts = report.counts
      /\ Visited.files = report.files
  BY DEF Visited, Report
<1> QED
  BY <1>1, <1>2 DEF Balanced

\* Every step keeps the summary in balance.
LEMMA CountersStep ==
  ASSUME TypeOK, CountersAddUp, [Next]_vars
  PROVE  CountersAddUp'
<1>1. /\ report \in Report /\ Balanced(report, OpenFiles) /\ PublishedBalance
      /\ TypeOK'
  BY CountersForm, NextType DEF TypeOK, ProcessOK
<1> SUFFICES Balanced(report', OpenFiles') /\ PublishedBalance'
  BY DEF CountersAddUp, Balanced, OpenFiles, PublishedBalance
<1>2. ASSUME NEW rep \in Report, NEW fr \in FileReport, Balanced(rep, 1),
             Return(rep, fr), UNCHANGED <<planMd, reportMd>>
      PROVE  Balanced(report', OpenFiles') /\ PublishedBalance'
  <2>1. report' = Counted(rep, fr) /\ OpenFiles' = 0
    BY <1>2 DEF Return, OpenFiles
  <2> QED
    BY <1>1, <1>2, <2>1, CountedBalance DEF PublishedBalance
<1>3. ASSUME ProcessGone
      PROVE  Balanced(report', OpenFiles')
  <2>1. report' = NewReport("v2", FALSE) /\ phase' = "idle"
    BY <1>3, Zenon DEF ProcessGone
  <2>2. OpenFiles' = 0
    BY <2>1 DEF OpenFiles
  <2> QED
    BY <2>1, <2>2, NewBalance, Zenon
<1>4. ASSUME Walking PROVE Visited \in Report /\ Balanced(Visited, 1)
  <2>1. OpenFiles = 0
    BY <1>4 DEF Walking, OpenFiles
  <2> QED
    BY <1>1, <1>4, <2>1, VisitedBalance, VisitedType
<1>5. ASSUME NEW t \in Targets, NEW d \in Modes, NEW m \in MeshFilters,
             Start(t, d, m)
      PROVE  Balanced(report', OpenFiles') /\ PublishedBalance'
  <2>1. report' = NewReport(t, d) /\ phase' = "walk"
        /\ UNCHANGED <<planMd, reportMd>>
    BY <1>5 DEF Start
  <2> QED
    BY <1>1, <2>1, NewBalance DEF OpenFiles, PublishedBalance
<1>6. CASE PassOver
  <2>1. UNCHANGED <<report, phase, planMd, reportMd>>
    BY <1>6 DEF PassOver
  <2> QED
    BY <1>1, <2>1 DEF OpenFiles, PublishedBalance
<1>7. CASE CannotRead
  <2> DEFINE fr == [NewFileReport(tree[at]) EXCEPT
                      !.hasError = TRUE, !.unread = TRUE, !.label = "ERROR"]
  <2>1. Walking /\ Return(Visited, fr) /\ UNCHANGED <<planMd, reportMd>>
    BY <1>7, Zenon DEF CannotRead
  <2>2. NewFileReport(tree[at]) \in FileReport
    BY <2>1, VisitedType, FreshTypes
  <2>3. fr \in FileReport
    BY <2>2 DEF FileReport, Label
  <2> QED
    BY <1>2, <1>4, <2>1, <2>3
<1>8. CASE OpenEmpty
  <2>1. Walking /\ Return(Visited, NewFileReport(tree[at]))
        /\ UNCHANGED <<planMd, reportMd>>
    BY <1>8 DEF OpenEmpty
  <2>2. NewFileReport(tree[at]) \in FileReport
    BY <2>1, VisitedType, FreshTypes
  <2> QED
    BY <1>2, <1>4, <2>1, <2>2
<1>9. CASE Open
  <2>1. Walking /\ report' = Visited /\ phase' = "docs"
        /\ UNCHANGED <<planMd, reportMd>>
    BY <1>9 DEF Open
  <2> QED
    BY <1>1, <1>4, <2>1 DEF OpenFiles, PublishedBalance
<1>10. CASE SkipDocument \/ ConvertDocument
  <2>1. phase = "docs" /\ NextDocument
    BY <1>10, Zenon DEF SkipDocument, ConvertDocument
  <2>2. UNCHANGED <<report, planMd, reportMd>> /\ phase' \in {"docs", "write"}
    BY <2>1 DEF NextDocument
  <2> QED
    BY <1>1, <2>1, <2>2 DEF OpenFiles, PublishedBalance
<1>11. CASE WriteOutput
  <2>1. UNCHANGED <<report, phase, planMd, reportMd>>
    BY <1>11 DEF WriteOutput
  <2> QED
    BY <1>1, <2>1 DEF OpenFiles, PublishedBalance
<1>12. CASE WriteFails
  <2>1. phase = "write" /\ Recorded \in FileReport
    BY <1>12, HereType DEF WriteFails, Writing, TypeOK
  <2>2. [Recorded EXCEPT !.hasError = TRUE, !.label = "ERROR"] \in FileReport
    BY <2>1 DEF FileReport, Label
  <2>3. Balanced(report, 1)
    BY <1>1, <2>1 DEF OpenFiles
  <2> QED
    BY <1>1, <1>2, <1>12, <2>2, <2>3 DEF WriteFails
<1>13. CASE CloseFile
  <2>1. phase = "write" /\ cur \in FileReport /\ FinalLabel(cur) \in Label
    BY <1>13, FinalLabelType DEF CloseFile, TypeOK, ProcessOK
  <2>2. [cur EXCEPT !.label = FinalLabel(cur)] \in FileReport
    BY <2>1 DEF FileReport
  <2>3. Balanced(report, 1)
    BY <1>1, <2>1 DEF OpenFiles
  <2> QED
    BY <1>1, <1>2, <1>13, <2>2, <2>3 DEF CloseFile
<1>14. CASE Publish
  <2>1. phase = "walk" /\ ProcessGone
        /\ planMd' \union reportMd' \subseteq
             planMd \union reportMd \union {Marked(report)}
    BY <1>14 DEF Publish, AtEnd
  <2>2. Balanced(report, 0)
    BY <1>1, <2>1 DEF OpenFiles
  <2>3. Marked(report).total = Sum(Marked(report).counts)
        /\ Marked(report).total = Len(Marked(report).files)
    BY <1>1, <2>2, MarkedBalance
  <2>4. PublishedBalance'
    BY <1>1, <2>1, <2>3 DEF PublishedBalance
  <2> QED
    BY <1>3, <2>1, <2>4
<1>15. CASE PublishFails
  <2>1. ProcessGone
        /\ planMd' \union reportMd' \subseteq planMd \union reportMd
    BY <1>15 DEF PublishFails
  <2> QED
    BY <1>1, <1>3, <2>1 DEF PublishedBalance
<1>16. CASE WalkAborts \/ Killed
  <2>1. ProcessGone /\ UNCHANGED <<planMd, reportMd>>
    BY <1>16, Zenon DEF WalkAborts, Killed
  <2> QED
    BY <1>1, <1>3, <2>1 DEF PublishedBalance
<1>17. CASE UNCHANGED vars
  BY <1>1, <1>17 DEF vars, OpenFiles, PublishedBalance
<1> QED
  BY <1>5, <1>6, <1>7, <1>8, <1>9, <1>10, <1>11, <1>12, <1>13, <1>14, <1>15,
     <1>16, <1>17, Zenon DEF Next, Step, Progress, Failure

\* Nothing has been counted at the start.
LEMMA CountersInit == Init => CountersAddUp
<1> SUFFICES ASSUME Init PROVE CountersAddUp
  OBVIOUS
<1>1. /\ report = NewReport("v2", FALSE) /\ phase = "idle"
      /\ planMd = {} /\ reportMd = {}
  BY Zenon DEF Init
<1>2. Balanced(report, 0)
  BY <1>1, NewBalance, Zenon
<1>3. OpenFiles = 0
  BY <1>1 DEF OpenFiles
<1>4. PublishedBalance
  BY <1>1, Zenon DEF PublishedBalance
<1> QED
  BY <1>2, <1>3, <1>4, CountersForm

(***************************************************************************)
(* The six counters of the summary table account for every file walked,    *)
(* in the running report and in the published ones.                        *)
(***************************************************************************)
THEOREM SummaryBalances == Spec => []CountersAddUp
BY TypeCorrect, CountersInit, CountersStep, PTL DEF Spec

-----------------------------------------------------------------------------
(***************************************************************************)
(* Recorded paths exist.                                                   *)
(***************************************************************************)

\* Every path a file report lists is in D.
Within(fr, D) ==
  /\ \A k \in DOMAIN fr.apply : fr.apply[k].path \in D
  /\ \A k \in DOMAIN fr.manual : fr.manual[k] \in D

\* Every path an unfailed file report of rep lists is in D.
RecordedIn(rep, D) ==
  \A i \in DOMAIN rep.files :
    rep.files[i].label # "ERROR" => Within(rep.files[i], D)

LEMMA RecordedForm ==
  RecordedExists <=>
    /\ ~report.dry => RecordedIn(report, DOMAIN disk)
    /\ \A r \in reportMd : RecordedIn(r, DOMAIN disk)
BY DEF RecordedExists, RecordedIn, Within

(***************************************************************************)
(* The inductive invariant: the report under construction lists nothing    *)
(* that is not written, the open file included.  A failed write records a  *)
(* path it may not have created, and ends the file as ERROR.               *)
(***************************************************************************)
RecordedInv == RecordedExists /\ (~report.dry => Within(cur, DOMAIN disk))

\* What is within a directory stays so while files are only added.
LEMMA WithinGrows ==
  ASSUME NEW D, NEW E, D \subseteq E
  PROVE  /\ \A fr : Within(fr, D) => Within(fr, E)
         /\ \A rep : RecordedIn(rep, D) => RecordedIn(rep, E)
BY DEF Within, RecordedIn

\* A report that lists no path.
LEMMA NewWithin ==
  /\ \A f, D : Within(NewFileReport(f), D)
  /\ \A t, d, D : RecordedIn(NewReport(t, d), D)
BY DEF Within, RecordedIn, NewFileReport, NewReport

\* Adding a file report that is within D, or failed.
LEMMA CountedWithin ==
  ASSUME NEW rep \in Report, NEW fr \in FileReport, NEW D, RecordedIn(rep, D),
         fr.label # "ERROR" => Within(fr, D)
  PROVE  RecordedIn(Counted(rep, fr), D)
<1>1. rep.files \in Seq(FileReport)
  BY DEF Report
<1>2. \A i \in DOMAIN Append(rep.files, fr) :
        \/ i \in DOMAIN rep.files /\ Append(rep.files, fr)[i] = rep.files[i]
        \/ Append(rep.files, fr)[i] = fr
  BY <1>1
<1> QED
  BY <1>2, CountedSum DEF RecordedIn

\* Marking the rewritten outputs lists no other path.
LEMMA MarkedWithin ==
  ASSUME NEW rep \in Report, NEW D, RecordedIn(rep, D)
  PROVE  RecordedIn(Marked(rep), D)
<1>1. DOMAIN Marked(rep).files = DOMAIN rep.files
  BY DEF Marked, Report
<1>2. \A i \in DOMAIN rep.files :
        /\ Marked(rep).files[i].label = rep.files[i].label
        /\ Marked(rep).files[i].apply = rep.files[i].apply
        /\ Marked(rep).files[i].manual = rep.files[i].manual
  <2> SUFFICES ASSUME NEW i \in DOMAIN rep.files
               PROVE  /\ Marked(rep).files[i].label = rep.files[i].label
                      /\ Marked(rep).files[i].apply = rep.files[i].apply
                      /\ Marked(rep).files[i].manual = rep.files[i].manual
    OBVIOUS
  <2>1. rep.files[i] \in FileReport
    BY ElementType DEF Report
  <2>2. Marked(rep).files[i] =
          [rep.files[i] EXCEPT !.replace = Replaced(rep.files, rep.files[i])]
    BY DEF Marked, Report
  <2> QED
    BY <2>1, <2>2 DEF FileReport
<1> QED
  BY <1>1, <1>2 DEF RecordedIn, Within

\* Recording an output adds the path of that output.
LEMMA RecordedWithin ==
  ASSUME TypeOK, Writing, NEW D, Within(cur, D), Here \in D
  PROVE  Within(Recorded, D)
<1>1. cur \in FileReport /\ Here \in Path /\ Raw \in Doc
  BY HereType DEF TypeOK, ProcessOK
<1>2. cur.manual \in Seq(Path) /\ cur.apply \in Seq(Output)
  BY <1>1 DEF FileReport
<1>3. CASE outs[next].manual
  <2>1. Recorded.manual = Append(cur.manual, Here)
        /\ Recorded.apply = cur.apply
    BY <1>1, <1>3 DEF Recorded, FileReport
  <2>2. \A k \in DOMAIN Append(cur.manual, Here) :
          \/ k \in DOMAIN cur.manual
             /\ Append(cur.manual, Here)[k] = cur.manual[k]
          \/ Append(cur.manual, Here)[k] = Here
    BY <1>2
  <2> QED
    BY <2>1, <2>2 DEF Within
<1>4. CASE ~outs[next].manual
  <2> DEFINE out == [path |-> Here, raw |-> Raw]
  <2>1. Recorded.apply = Append(cur.apply, out)
        /\ Recorded.manual = cur.manual
    BY <1>1, <1>4 DEF Recorded, FileReport
  <2>2. out.path = Here
    OBVIOUS
  <2> HIDE DEF out
  <2>3. \A k \in DOMAIN Append(cur.apply, out) :
          \/ k \in DOMAIN cur.apply
             /\ Append(cur.apply, out)[k] = cur.apply[k]
          \/ Append(cur.apply, out)[k] = out
    BY <1>2
  <2> QED
    BY <2>1, <2>2, <2>3 DEF Within
<1> QED
  BY <1>3, <1>4

\* Every step keeps the recorded paths on disk.
LEMMA RecordedStep ==
  ASSUME TypeOK, RecordedInv, [Next]_vars
  PROVE  RecordedInv'
<1>1. /\ report \in Report /\ cur \in FileReport
      /\ ~report.dry =>
           RecordedIn(report, DOMAIN disk) /\ Within(cur, DOMAIN disk)
      /\ \A r \in reportMd : RecordedIn(r, DOMAIN disk)
  BY RecordedForm DEF TypeOK, ProcessOK, RecordedInv
<1>2. DOMAIN disk \subseteq DOMAIN disk'
  BY DryRunStep
<1>3. /\ ~report.dry =>
           RecordedIn(report, DOMAIN disk') /\ Within(cur, DOMAIN disk')
      /\ \A r \in reportMd : RecordedIn(r, DOMAIN disk')
  BY <1>1, <1>2, WithinGrows
<1> DEFINE Good == /\ ~report'.dry => RecordedIn(report', DOMAIN disk')
                   /\ ~report'.dry => Within(cur', DOMAIN disk')
           Kept == \A r \in reportMd' : RecordedIn(r, DOMAIN disk')
<1> SUFFICES Good /\ Kept
  BY DEF RecordedInv, RecordedExists, RecordedIn, Within
<1>4. UNCHANGED reportMd => Kept
  BY <1>3
<1>5. ASSUME NEW rep \in Report, NEW fr \in FileReport, Return(rep, fr),
             rep.dry = report.dry, rep.files = report.files,
             ~report.dry /\ fr.label # "ERROR" => Within(fr, DOMAIN disk')
      PROVE  Good
  <2>1. report' = Counted(rep, fr) /\ cur' = NewFileReport(NoFile)
    BY <1>5 DEF Return
  <2>2. report'.dry = report.dry
    BY <1>5, <2>1, CountedSum
  <2>3. ~report.dry => RecordedIn(rep, DOMAIN disk')
    BY <1>3, <1>5 DEF RecordedIn
  <2> QED
    BY <1>5, <2>1, <2>2, <2>3, CountedWithin, NewWithin
<1>6. ASSUME ProcessGone PROVE Good
  <2>1. report' = NewReport("v2", FALSE) /\ cur' = NewFileReport(NoFile)
    BY <1>6, Zenon DEF ProcessGone
  <2> QED
    BY <2>1, NewWithin, Zenon
<1>7. ASSUME Walking
      PROVE  /\ Visited \in Report /\ Visited.dry = report.dry
             /\ Visited.files = report.files
             /\ NewFileReport(tree[at]) \in FileReport
  BY <1>1, <1>7, VisitedType, FreshTypes DEF Visited, Report
<1>8. ASSUME NEW t \in Targets, NEW d \in Modes, NEW m \in MeshFilters,
             Start(t, d, m)
      PROVE  Good /\ Kept
  <2>1. report' = NewReport(t, d) /\ cur' = NewFileReport(NoFile)
        /\ UNCHANGED reportMd
    BY <1>8 DEF Start
  <2> QED
    BY <1>4, <2>1, NewWithin
<1>9. CASE PassOver
  BY <1>3, <1>9 DEF PassOver
<1>10. CASE CannotRead
  <2> DEFINE fr == [NewFileReport(tree[at]) EXCEPT
                      !.hasError = TRUE, !.unread = TRUE, !.label = "ERROR"]
  <2>1. Walking /\ Return(Visited, fr) /\ UNCHANGED reportMd
    BY <1>10, Zenon DEF CannotRead
  <2>2. fr \in FileReport /\ fr.label = "ERROR"
    BY <1>7, <2>1 DEF FileReport, Label
  <2> HIDE DEF fr
  <2> QED
    BY <1>4, <1>5, <1>7, <2>1, <2>2
<1>11. CASE OpenEmpty
  BY <1>4, <1>5, <1>7, <1>11, NewWithin DEF OpenEmpty
<1>12. CASE Open
  <2>1. Walking /\ report' = Visited /\ cur' = NewFileReport(tree[at])
        /\ UNCHANGED reportMd
    BY <1>12 DEF Open
  <2> QED
    BY <1>3, <1>4, <1>7, <2>1, NewWithin DEF RecordedIn
<1>13. CASE SkipDocument \/ ConvertDocument
  <2>1. NextDocument
    BY <1>13, Zenon DEF SkipDocument, ConvertDocument
  <2>2. cur'.apply = cur.apply /\ cur'.manual = cur.manual
    BY <1>1, <1>13 DEF SkipDocument, ConvertDocument, FileReport
  <2> QED
    BY <1>3, <1>4, <2>1, <2>2 DEF NextDocument, Within
<1>14. CASE WriteOutput
  <2>1. Writing /\ cur' = Recorded /\ UNCHANGED <<report, reportMd>>
        /\ (~report.dry => disk' = Put(Here, Raw))
    BY <1>14 DEF WriteOutput
  <2>2. ~report.dry => Here \in DOMAIN disk'
    BY <2>1 DEF Put
  <2> QED
    BY <1>3, <1>4, <2>1, <2>2, RecordedWithin
<1>15. CASE WriteFails
  <2> DEFINE fr == [Recorded EXCEPT !.hasError = TRUE, !.label = "ERROR"]
  <2>1. Writing /\ Return(report, fr) /\ UNCHANGED reportMd
    BY <1>15, Zenon DEF WriteFails
  <2>2. Recorded \in FileReport
    BY <2>1, HereType DEF TypeOK
  <2>3. fr \in FileReport /\ fr.label = "ERROR"
    BY <2>2 DEF FileReport, Label
  <2> HIDE DEF fr
  <2> QED
    BY <1>1, <1>4, <1>5, <2>1, <2>3
<1>16. CASE CloseFile
  <2> DEFINE fr == [cur EXCEPT !.label = FinalLabel(cur)]
  <2>1. Return(report, fr) /\ UNCHANGED reportMd
    BY <1>16, Zenon DEF CloseFile
  <2>2. fr \in FileReport /\ fr.apply = cur.apply /\ fr.manual = cur.manual
    BY <1>1, FinalLabelType DEF FileReport
  <2>3. ~report.dry => Within(fr, DOMAIN disk')
    BY <1>3, <2>2 DEF Within
  <2> HIDE DEF fr
  <2> QED
    BY <1>1, <1>4, <1>5, <2>1, <2>2, <2>3
<1>17. CASE Publish
  <2>1. ProcessGone
        /\ reportMd' = IF report.dry THEN reportMd ELSE {Marked(report)}
    BY <1>17 DEF Publish
  <2>2. ~report.dry => RecordedIn(Marked(report), DOMAIN disk')
    BY <1>1, <1>3, MarkedWithin
  <2> QED
    BY <1>3, <1>6, <2>1, <2>2
<1>18. CASE PublishFails
  <2>1. ProcessGone /\ reportMd' \subseteq reportMd
    BY <1>18 DEF PublishFails
  <2> QED
    BY <1>3, <1>6, <2>1
<1>19. CASE WalkAborts \/ Killed
  <2>1. ProcessGone /\ UNCHANGED reportMd
    BY <1>19, Zenon DEF WalkAborts, Killed
  <2> QED
    BY <1>4, <1>6, <2>1
<1>20. CASE UNCHANGED vars
  BY <1>3, <1>20 DEF vars
<1> QED
  BY <1>8, <1>9, <1>10, <1>11, <1>12, <1>13, <1>14, <1>15, <1>16, <1>17,
     <1>18, <1>19, <1>20, Zenon DEF Next, Step, Progress, Failure

\* Nothing is recorded at the start.
LEMMA RecordedInit == Init => RecordedInv
<1> SUFFICES ASSUME Init PROVE RecordedInv
  OBVIOUS
<1>1. /\ report = NewReport("v2", FALSE) /\ reportMd = {}
      /\ cur = NewFileReport(NoFile)
  BY Zenon DEF Init
<1>2. RecordedIn(report, DOMAIN disk) /\ Within(cur, DOMAIN disk)
  BY <1>1, NewWithin, Zenon
<1>3. \A r \in reportMd : RecordedIn(r, DOMAIN disk)
  BY <1>1, Zenon
<1> QED
  BY <1>2, <1>3, RecordedForm DEF RecordedInv

(***************************************************************************)
(* Every path an unfailed file report lists exists on disk, in the report  *)
(* of a run and in the published one, through failures, kills and re-runs. *)
(***************************************************************************)
THEOREM RecordedFilesExist == Spec => []RecordedExists
<1>1. RecordedInv => RecordedExists
  BY DEF RecordedInv
<1> QED
  BY <1>1, TypeCorrect, RecordedInit, RecordedStep, PTL DEF Spec

-----------------------------------------------------------------------------
(***************************************************************************)
(* The apply tree only holds what the target control plane accepts.  The   *)
(* proofs of ApplyListAcceptable and of ApplyTreeAcceptable.               *)
(***************************************************************************)

-----------------------------------------------------------------------------
(***************************************************************************)
(* One document.                                                           *)
(***************************************************************************)

\* A document kept in a list of items, by the mark it got.
LEMMA UnmarkedItem ==
  ASSUME NEW rs, NEW m \in [DOMAIN rs -> BOOLEAN], NEW items,
         items = [k \in DOMAIN rs |-> [raw |-> rs[k], manual |-> m[k]]],
         NEW i \in DOMAIN items, ~items[i].manual
  PROVE  i \in DOMAIN rs /\ ~m[i] /\ items[i].raw = rs[i]
OBVIOUS

(***************************************************************************)
(* What a document sends to the apply tree is acceptable: the switch of    *)
(* processFile, read against RejectionAssumption.                          *)
(***************************************************************************)
LEMMA EmittedAcceptable ==
  ASSUME NEW f \in InputFile, NEW j \in DOMAIN f.docs, report \in Report,
         ~SkipListed(f.env, f.docs[j])
  PROVE  LET items == Emitted(f.docs[j], Transform(f.docs[j], report.target))
         IN  \A i \in DOMAIN items :
               ~items[i].manual =>
                 Acceptable(f, Strip(items[i].raw), report.target)
<1> DEFINE d == f.docs[j]
           o == Transform(d, report.target)
<1>1. d \in Doc /\ report.target \in {"v2", "v3"}
  <2>1. f.docs \in Seq(Doc)
    BY DEF InputFile
  <2> QED
    BY <2>1, ElementType DEF Report
<1>2. o \in Outcome /\ o.results \in Seq(Doc)
  BY <1>1, TransformAssumption DEF Outcome
<1>3. \A i \in DOMAIN o.results :
        o.results[i] \in Doc /\ Strip(o.results[i]).kind = o.results[i].kind
  BY <1>2, ElementType, StripType
<1>4. o.err = "rejected" =>
        /\ o.refused \subseteq DOMAIN o.results
        /\ o.refused # {} =>
             \A i \in DOMAIN o.results :
               i \in o.refused \/ o.results[i].kind \notin RemovedInV3
  BY <1>1, RejectionAssumption
<1> HIDE DEF o
<1> SUFFICES ASSUME NEW i \in DOMAIN Emitted(d, o), ~Emitted(d, o)[i].manual
             PROVE  Acceptable(f, Strip(Emitted(d, o)[i].raw), report.target)
  BY DEF o
<1> DEFINE original == <<[raw |-> d, manual |-> TRUE]>>
           refused == [k \in DOMAIN o.results |->
                         o.refused = {} \/ k \in o.refused]
           removed == [k \in DOMAIN o.results |->
                         V3 /\ o.results[k].kind \in RemovedInV3]
<1>5. ASSUME NEW k \in DOMAIN o.results, ~(V3 /\ IsDefaultGatewayTimeout(d)),
             V3 => o.results[k].kind \notin RemovedInV3,
             \/ o.err = "none"
             \/ o.err = "rejected" /\ o.refused # {} /\ k \notin o.refused
      PROVE  Acceptable(f, Strip(o.results[k]), report.target)
  BY <1>3, <1>5 DEF Acceptable, o, V3
<1>6. CASE V3 /\ IsDefaultGatewayTimeout(d)
  <2>1. Emitted(d, o) = original
    BY <1>6, Zenon DEF Emitted
  <2>2. DOMAIN original = {1} /\ original[1].manual
    OBVIOUS
  <2> HIDE DEF original
  <2> QED
    BY <2>1, <2>2
<1>7. CASE ~(V3 /\ IsDefaultGatewayTimeout(d)) /\ o.err = "rejected"
           /\ o.results = <<>>
  <2> DEFINE m    == o.refused = {} \/ 1 \in o.refused
             sole == <<[raw |-> d, manual |-> m]>>
  <2>1. Emitted(d, o) = sole
    BY <1>7, Zenon DEF Emitted
  <2>2. m = TRUE
    BY <1>4, <1>7
  <2> HIDE DEF m
  <2>3. DOMAIN sole = {1} /\ sole[1].manual
    BY <2>2
  <2> HIDE DEF sole
  <2> QED
    BY <2>1, <2>3
<1>8. CASE ~(V3 /\ IsDefaultGatewayTimeout(d)) /\ o.err = "rejected"
           /\ o.results # <<>>
  <2>1. Emitted(d, o) = [k \in DOMAIN o.results |->
                           [raw |-> o.results[k], manual |-> refused[k]]]
    BY <1>8 DEF Emitted, RemovedByTarget, V3
  <2>2. refused \in [DOMAIN o.results -> BOOLEAN]
    BY DEF V3
  <2> HIDE DEF refused
  <2>3. i \in DOMAIN o.results /\ ~refused[i]
        /\ Emitted(d, o)[i].raw = o.results[i]
    BY <2>1, <2>2, UnmarkedItem
  <2> QED
    BY <1>4, <1>5, <1>8, <2>3 DEF refused
<1>9. CASE ~(V3 /\ IsDefaultGatewayTimeout(d)) /\ o.err = "error"
  <2>1. Emitted(d, o) = original
    BY <1>9 DEF Emitted
  <2>2. DOMAIN original = {1} /\ original[1].manual
    OBVIOUS
  <2> HIDE DEF original
  <2> QED
    BY <2>1, <2>2
<1>10. CASE ~(V3 /\ IsDefaultGatewayTimeout(d)) /\ o.err = "none"
  <2>1. Emitted(d, o) = [k \in DOMAIN o.results |->
                           [raw |-> o.results[k], manual |-> removed[k]]]
    BY <1>10 DEF Emitted, RemovedByTarget, V3
  <2>2. removed \in [DOMAIN o.results -> BOOLEAN]
    BY DEF V3
  <2> HIDE DEF removed
  <2>3. i \in DOMAIN o.results /\ ~removed[i]
        /\ Emitted(d, o)[i].raw = o.results[i]
    BY <2>1, <2>2, UnmarkedItem
  <2> QED
    BY <1>5, <1>10, <2>3 DEF removed
<1> QED
  BY <1>2, <1>6, <1>7, <1>8, <1>9, <1>10 DEF Outcome

-----------------------------------------------------------------------------
(***************************************************************************)
(* The apply list.                                                         *)
(***************************************************************************)

AllAcceptable(fr, target) ==
  \A k \in DOMAIN fr.apply : Acceptable(fr.file, fr.apply[k].raw, target)

ReportAcceptable(rep) ==
  \A i \in DOMAIN rep.files : AllAcceptable(rep.files[i], rep.target)

(***************************************************************************)
(* The inductive invariant: acceptable are the apply list of every closed  *)
(* file, that of the open file, and what waits to be written.              *)
(***************************************************************************)
ApplyInv ==
  /\ ReportAcceptable(report)
  /\ AllAcceptable(cur, report.target)
  /\ \A i \in DOMAIN outs :
       ~outs[i].manual =>
         Acceptable(cur.file, Strip(outs[i].raw), report.target)

\* An empty list is acceptable.
LEMMA NewAcceptable ==
  /\ \A f, t : AllAcceptable(NewFileReport(f), t)
  /\ \A t, d : ReportAcceptable(NewReport(t, d))
BY DEF AllAcceptable, ReportAcceptable, NewFileReport, NewReport

\* Adding a file whose list is acceptable.
LEMMA CountedAcceptable ==
  ASSUME NEW rep \in Report, NEW fr \in FileReport, ReportAcceptable(rep),
         AllAcceptable(fr, rep.target)
  PROVE  ReportAcceptable(Counted(rep, fr))
<1>1. rep.files \in Seq(FileReport)
  BY DEF Report
<1>2. \A i \in DOMAIN Append(rep.files, fr) :
        \/ i \in DOMAIN rep.files /\ Append(rep.files, fr)[i] = rep.files[i]
        \/ Append(rep.files, fr)[i] = fr
  BY <1>1
<1> QED
  BY <1>2, CountedSum DEF ReportAcceptable

\* Recording an output that is acceptable.
LEMMA RecordedAcceptable ==
  ASSUME ProcessOK, ApplyInv, Writing
  PROVE  AllAcceptable(Recorded, report.target)
<1>1. cur \in FileReport /\ Here \in Path /\ Raw \in Doc
      /\ Recorded.file = cur.file
  BY HereType DEF ProcessOK
<1>2. cur.apply \in Seq(Output)
  BY <1>1 DEF FileReport
<1>3. CASE outs[next].manual
  <2>1. Recorded.apply = cur.apply
    BY <1>1, <1>3 DEF Recorded, FileReport
  <2> QED
    BY <1>1, <2>1 DEF ApplyInv, AllAcceptable
<1>4. CASE ~outs[next].manual
  <2> DEFINE out == [path |-> Here, raw |-> Raw]
  <2>1. Recorded.apply = Append(cur.apply, out)
    BY <1>1, <1>4 DEF Recorded, FileReport
  <2>2. Acceptable(cur.file, out.raw, report.target)
    BY <1>4 DEF ApplyInv, Raw, Writing
  <2> HIDE DEF out
  <2>3. \A k \in DOMAIN Append(cur.apply, out) :
          \/ k \in DOMAIN cur.apply
             /\ Append(cur.apply, out)[k] = cur.apply[k]
          \/ Append(cur.apply, out)[k] = out
    BY <1>2
  <2> QED
    BY <1>1, <2>1, <2>2, <2>3 DEF ApplyInv, AllAcceptable
<1> QED
  BY <1>3, <1>4

\* What a document adds to the queue is acceptable.
LEMMA QueueAcceptable ==
  ASSUME ProcessOK, ApplyInv, ConvertDocument
  PROVE  \A i \in DOMAIN outs' :
           ~outs'[i].manual =>
             Acceptable(cur.file, Strip(outs'[i].raw), report.target)
<1> DEFINE items   == Emitted(ThisDoc, Transform(ThisDoc, report.target))
           n       == Len(cur.changes) + 1
           out(i)  == [raw |-> items[i].raw, manual |-> items[i].manual,
                       change |-> n]
           more    == [i \in DOMAIN items |-> out(i)]
<1>1. /\ ThisDoc \in Doc /\ Transform(ThisDoc, report.target) \in Outcome
      /\ cur.file \in InputFile /\ next \in DOMAIN cur.file.docs
      /\ report \in Report /\ outs \in Seq(OutputDoc)
  BY ThisDocType DEF ConvertDocument, ProcessOK
<1>2. items \in Seq(Item)
  BY <1>1, EmittedType
<1>3. ~SkipListed(cur.file.env, cur.file.docs[next])
  BY DEF ConvertDocument, ThisDoc
<1>4. \A i \in DOMAIN items :
        ~items[i].manual =>
          Acceptable(cur.file, Strip(items[i].raw), report.target)
  BY <1>1, <1>3, EmittedAcceptable DEF ThisDoc
<1>5. outs' = outs \o more
  BY Zenon DEF ConvertDocument
<1> HIDE DEF items, n
<1>6. more \in Seq([raw: {items[i].raw : i \in DOMAIN items},
                    manual: {items[i].manual : i \in DOMAIN items},
                    change: {n}])
  <2> DEFINE T == [raw: {items[i].raw : i \in DOMAIN items},
                   manual: {items[i].manual : i \in DOMAIN items},
                   change: {n}]
  <2>1. \A i \in DOMAIN items : out(i) \in T
    OBVIOUS
  <2> HIDE DEF out, T
  <2>2. more \in Seq(T)
    BY <1>2, <2>1, MapType
  <2> QED
    BY <2>2 DEF T, out
<1>7. \A i \in DOMAIN more :
        i \in DOMAIN items /\ more[i].raw = items[i].raw
        /\ more[i].manual = items[i].manual
  OBVIOUS
<1> HIDE DEF more
<1>8. \A i \in DOMAIN (outs \o more) :
        \/ i \in DOMAIN outs /\ (outs \o more)[i] = outs[i]
        \/ i - Len(outs) \in DOMAIN more
             /\ (outs \o more)[i] = more[i - Len(outs)]
  BY <1>1, <1>6
<1>9. ASSUME NEW i \in DOMAIN outs', ~outs'[i].manual
      PROVE  Acceptable(cur.file, Strip(outs'[i].raw), report.target)
  <2>1. CASE i \in DOMAIN outs /\ outs'[i] = outs[i]
    BY <1>9, <2>1 DEF ApplyInv
  <2>2. CASE i - Len(outs) \in DOMAIN more /\ outs'[i] = more[i - Len(outs)]
    BY <1>4, <1>7, <1>9, <2>2
  <2> QED
    BY <1>5, <1>8, <1>9, <2>1, <2>2
<1> QED
  BY <1>9

\* Every step keeps the apply list acceptable.
LEMMA ApplyStep ==
  ASSUME TypeOK, ApplyInv, [Next]_vars
  PROVE  ApplyInv'
<1>1. /\ report \in Report /\ cur \in FileReport /\ ProcessOK
      /\ ReportAcceptable(report) /\ AllAcceptable(cur, report.target)
  BY DEF TypeOK, ProcessOK, ApplyInv
<1>2. ASSUME NEW rep \in Report, NEW fr \in FileReport, Return(rep, fr),
             ReportAcceptable(rep), AllAcceptable(fr, rep.target)
      PROVE  ApplyInv'
  <2>1. report' = Counted(rep, fr) /\ cur' = NewFileReport(NoFile)
        /\ outs' = <<>>
    BY <1>2 DEF Return
  <2>2. ReportAcceptable(report') /\ AllAcceptable(cur', report'.target)
    BY <1>2, <2>1, CountedAcceptable, NewAcceptable
  <2>3. DOMAIN outs' = {}
    BY <2>1
  <2> QED
    BY <2>2, <2>3 DEF ApplyInv, ReportAcceptable, AllAcceptable
<1>3. ASSUME cur' = NewFileReport(NoFile), outs' = <<>>,
             NEW t, NEW d, report' = NewReport(t, d)
      PROVE  ApplyInv'
  <2>1. ReportAcceptable(report') /\ AllAcceptable(cur', report'.target)
    BY <1>3, NewAcceptable
  <2>2. DOMAIN outs' = {}
    BY <1>3
  <2> QED
    BY <2>1, <2>2 DEF ApplyInv, ReportAcceptable, AllAcceptable
<1>4. ASSUME ProcessGone PROVE ApplyInv'
  <2>1. cur' = NewFileReport(NoFile) /\ outs' = <<>>
    BY <1>4, Zenon DEF ProcessGone
  <2>2. report' = NewReport("v2", FALSE)
    BY <1>4, Zenon DEF ProcessGone
  <2> QED
    BY <1>3, <2>1, <2>2, Zenon
<1>5. ASSUME NEW t \in Targets, NEW d \in Modes, NEW m \in MeshFilters,
             Start(t, d, m)
      PROVE  ApplyInv'
  BY <1>3, <1>5 DEF Start
<1>6. ASSUME UNCHANGED <<report, cur, outs>>
      PROVE  ApplyInv'
  BY <1>6 DEF ApplyInv, ReportAcceptable, AllAcceptable
<1>7. ASSUME Walking
      PROVE  /\ Visited \in Report /\ Visited.target = report.target
             /\ ReportAcceptable(Visited)
             /\ NewFileReport(tree[at]) \in FileReport
  BY <1>1, <1>7, VisitedType, FreshTypes DEF Visited, Report, ReportAcceptable
<1>8. CASE PassOver
  BY <1>6, <1>8 DEF PassOver
<1>9. CASE CannotRead
  <2> DEFINE fr == [NewFileReport(tree[at]) EXCEPT
                      !.hasError = TRUE, !.unread = TRUE, !.label = "ERROR"]
  <2>1. Walking /\ Return(Visited, fr)
    BY <1>9, Zenon DEF CannotRead
  <2>2. fr \in FileReport /\ fr.apply = <<>>
    BY <1>7, <2>1 DEF FileReport, Label, NewFileReport
  <2> HIDE DEF fr
  <2>3. AllAcceptable(fr, Visited.target)
    BY <2>2 DEF AllAcceptable
  <2> QED
    BY <1>2, <1>7, <2>1, <2>2, <2>3
<1>10. CASE OpenEmpty
  BY <1>2, <1>7, <1>10, NewAcceptable DEF OpenEmpty
<1>11. CASE Open
  <2>1. Walking /\ report' = Visited /\ cur' = NewFileReport(tree[at])
        /\ outs' = <<>>
    BY <1>11 DEF Open
  <2>2. ReportAcceptable(report') /\ AllAcceptable(cur', report'.target)
    BY <1>7, <2>1, NewAcceptable
  <2>3. DOMAIN outs' = {}
    BY <2>1
  <2> QED
    BY <2>2, <2>3 DEF ApplyInv, ReportAcceptable, AllAcceptable
<1>12. CASE SkipDocument
  <2>1. UNCHANGED <<report, outs>>
    BY <1>12 DEF SkipDocument, NextDocument
  <2>2. cur'.apply = cur.apply /\ cur'.file = cur.file
    BY <1>1, <1>12 DEF SkipDocument, FileReport
  <2> QED
    BY <2>1, <2>2 DEF ApplyInv, ReportAcceptable, AllAcceptable
<1>13. CASE ConvertDocument
  <2>1. UNCHANGED report
    BY <1>13, Zenon DEF ConvertDocument, NextDocument
  <2>2. cur'.apply = cur.apply /\ cur'.file = cur.file
    BY <1>1, <1>13 DEF ConvertDocument, FileReport
  <2>3. \A i \in DOMAIN outs' :
          ~outs'[i].manual =>
            Acceptable(cur.file, Strip(outs'[i].raw), report.target)
    BY <1>1, <1>13, QueueAcceptable
  <2> QED
    BY <2>1, <2>2, <2>3
       DEF ApplyInv, ReportAcceptable, AllAcceptable
<1>14. CASE WriteOutput
  <2>1. Writing /\ cur' = Recorded /\ UNCHANGED <<report, outs>>
    BY <1>14 DEF WriteOutput
  <2>2. AllAcceptable(Recorded, report.target) /\ Recorded.file = cur.file
    BY <1>1, <2>1, RecordedAcceptable, HereType
  <2> QED
    BY <2>1, <2>2 DEF ApplyInv, ReportAcceptable, AllAcceptable
<1>15. CASE WriteFails
  <2> DEFINE fr == [Recorded EXCEPT !.hasError = TRUE, !.label = "ERROR"]
  <2>1. Writing /\ Return(report, fr)
    BY <1>15, Zenon DEF WriteFails
  <2>2. Recorded \in FileReport /\ AllAcceptable(Recorded, report.target)
    BY <1>1, <2>1, HereType, RecordedAcceptable
  <2>3. fr \in FileReport /\ fr.apply = Recorded.apply
        /\ fr.file = Recorded.file
    BY <2>2 DEF FileReport, Label
  <2> HIDE DEF fr
  <2>4. AllAcceptable(fr, report.target)
    BY <2>2, <2>3 DEF AllAcceptable
  <2> QED
    BY <1>1, <1>2, <2>1, <2>3, <2>4
<1>16. CASE CloseFile
  <2> DEFINE fr == [cur EXCEPT !.label = FinalLabel(cur)]
  <2>1. Return(report, fr)
    BY <1>16, Zenon DEF CloseFile
  <2>2. fr \in FileReport /\ fr.apply = cur.apply /\ fr.file = cur.file
    BY <1>1, FinalLabelType DEF FileReport
  <2> HIDE DEF fr
  <2>3. AllAcceptable(fr, report.target)
    BY <1>1, <2>2 DEF AllAcceptable
  <2> QED
    BY <1>1, <1>2, <2>1, <2>2, <2>3
<1>17. CASE Publish \/ PublishFails \/ WalkAborts \/ Killed
  <2>1. ProcessGone
    BY <1>17, Zenon DEF Publish, PublishFails, WalkAborts, Killed
  <2> QED
    BY <1>4, <2>1
<1>18. CASE UNCHANGED vars
  BY <1>6, <1>18 DEF vars
<1> QED
  BY <1>5, <1>8, <1>9, <1>10, <1>11, <1>12, <1>13, <1>14, <1>15, <1>16,
     <1>17, <1>18, Zenon DEF Next, Step, Progress, Failure

\* Nothing is listed at the start.
LEMMA ApplyInit == Init => ApplyInv
<1> SUFFICES ASSUME Init PROVE ApplyInv
  OBVIOUS
<1>1. report = NewReport("v2", FALSE) /\ cur = NewFileReport(NoFile)
      /\ outs = <<>>
  BY Zenon DEF Init
<1>2. ReportAcceptable(report) /\ AllAcceptable(cur, report.target)
  BY <1>1, NewAcceptable, Zenon
<1>3. outs = <<>>
  BY <1>1, Zenon
<1>4. DOMAIN outs = {}
  BY <1>3
<1> QED
  BY <1>2, <1>4 DEF ApplyInv

(***************************************************************************)
(* Every document an apply step lists is one the target accepts, whatever  *)
(* mixture of documents a file holds and whichever write fails.            *)
(***************************************************************************)
THEOREM ApplyListSound == Spec => []ApplyListAcceptable
<1>1. ApplyInv => ApplyListAcceptable
  BY DEF ApplyInv, ApplyListAcceptable, ReportAcceptable, AllAcceptable
<1>2. TypeOK /\ ApplyInv /\ [Next]_vars => ApplyInv'
  BY ApplyStep
<1> QED
  BY <1>1, <1>2, TypeCorrect, ApplyInit, PTL DEF Spec

-----------------------------------------------------------------------------
(***************************************************************************)
(* The apply tree.                                                         *)
(***************************************************************************)

\* A running process works for one of the targets considered.
TreeInv ==
  /\ ApplyTreeAcceptable
  /\ phase # "idle" => report.target \in Targets

\* What one write leaves on disk.
LEMMA PutAcceptable ==
  ASSUME TypeOK, ApplyInv, TreeInv, Writing,
         disk' = Put(Here, Raw) \/ disk' = Put(Here, Torn)
  PROVE  ApplyTreeAcceptable'
<1>1. /\ outs[next] \in OutputDoc /\ next \in DOMAIN outs
      /\ report.target \in Targets
  BY HereType DEF TypeOK, TreeInv, Writing
<1>2. ~Raw.pinned /\ (Here.manual = outs[next].manual)
  BY <1>1, StripType DEF Raw, Here, OutputPath, OutputDoc
<1>3. ~Here.manual /\ Targets = {"v3"} => Raw.kind \notin RemovedInV3
  BY <1>1, <1>2 DEF ApplyInv, Acceptable, Raw
<1>4. \A p \in DOMAIN disk' :
        \/ p \in DOMAIN disk /\ disk'[p] = disk[p]
        \/ p = Here /\ disk'[p] = Raw
        \/ disk'[p] = Torn
  BY DEF Put
<1> QED
  BY <1>2, <1>3, <1>4 DEF TreeInv, ApplyTreeAcceptable

\* Every step keeps the apply tree acceptable.
LEMMA TreeStep ==
  ASSUME TypeOK, ApplyInv, TreeInv, [Next]_vars
  PROVE  TreeInv'
<1>1. report \in Report
  BY DEF TypeOK, ProcessOK
<1>2. ASSUME UNCHANGED disk PROVE ApplyTreeAcceptable'
  BY <1>2 DEF TreeInv, ApplyTreeAcceptable
<1>3. ASSUME ProcessGone PROVE phase' = "idle"
  BY <1>3, Zenon DEF ProcessGone
<1>4. ASSUME phase # "idle", report'.target = report.target
      PROVE  report'.target \in Targets
  BY <1>4 DEF TreeInv
<1>5. ASSUME NEW rep \in Report, NEW fr, Return(rep, fr)
      PROVE  report'.target = rep.target
  BY <1>5 DEF Return, Counted, Report
<1>6. Visited \in Report /\ Visited.target = report.target
  BY <1>1 DEF Visited, Report
<1>7. ASSUME NEW t \in Targets, NEW d \in Modes, NEW m \in MeshFilters,
             Start(t, d, m)
      PROVE  TreeInv'
  BY <1>2, <1>7 DEF Start, NewReport, TreeInv
<1>8. CASE PassOver \/ Open \/ OpenEmpty
  <2>1. UNCHANGED disk /\ phase # "idle"
    BY <1>8 DEF PassOver, Open, OpenEmpty, Walking
  <2>2. report'.target = report.target
    BY <1>5, <1>6, <1>8 DEF PassOver, Open, OpenEmpty
  <2> QED
    BY <1>2, <1>4, <2>1, <2>2 DEF TreeInv
<1>9. CASE CannotRead
  <2>1. Walking /\ UNCHANGED disk /\ \E fr : Return(Visited, fr)
    BY <1>9, Zenon DEF CannotRead
  <2> QED
    BY <1>2, <1>4, <1>5, <1>6, <2>1 DEF Walking, TreeInv
<1>10. CASE SkipDocument \/ ConvertDocument
  <2>1. phase = "docs" /\ NextDocument
    BY <1>10, Zenon DEF SkipDocument, ConvertDocument
  <2> QED
    BY <1>2, <1>4, <2>1 DEF NextDocument, TreeInv
<1>11. CASE WriteOutput
  <2>1. Writing /\ UNCHANGED <<phase, report>>
        /\ (disk' = disk \/ disk' = Put(Here, Raw))
    BY <1>11 DEF WriteOutput
  <2> QED
    BY <1>2, <2>1, PutAcceptable DEF TreeInv
<1>12. CASE WriteFails
  <2>1. Writing /\ (disk' = disk \/ disk' = Put(Here, Torn))
        /\ \E fr : Return(report, fr)
    BY <1>12, Zenon DEF WriteFails
  <2>2. ApplyTreeAcceptable'
    BY <1>2, <2>1, PutAcceptable
  <2> QED
    BY <1>1, <1>4, <1>5, <2>1, <2>2 DEF Writing, TreeInv
<1>13. CASE CloseFile
  <2>1. phase = "write" /\ UNCHANGED disk /\ \E fr : Return(report, fr)
    BY <1>13, Zenon DEF CloseFile
  <2> QED
    BY <1>1, <1>2, <1>4, <1>5, <2>1 DEF TreeInv
<1>14. CASE Publish \/ PublishFails \/ WalkAborts
  <2>1. ProcessGone /\ UNCHANGED disk
    BY <1>14, Zenon DEF Publish, PublishFails, WalkAborts
  <2> QED
    BY <1>2, <1>3, <2>1 DEF TreeInv
<1>15. CASE Killed
  <2>1. ProcessGone /\ (disk' = disk \/ (Writing /\ disk' = Put(Here, Torn)))
    BY <1>15, Zenon DEF Killed
  <2>2. ApplyTreeAcceptable'
    BY <1>2, <2>1, PutAcceptable
  <2> QED
    BY <1>3, <2>1, <2>2 DEF TreeInv
<1>16. CASE UNCHANGED vars
  BY <1>2, <1>16 DEF vars, TreeInv
<1> QED
  BY <1>7, <1>8, <1>9, <1>10, <1>11, <1>12, <1>13, <1>14, <1>15, <1>16, Zenon
     DEF Next, Step, Progress, Failure

(***************************************************************************)
(* If every run into a directory is for v3, no file outside _manual is of  *)
(* a kind 3.0 removes, and no file anywhere carries server-set identity,   *)
(* after any number of runs, failed writes and kills.                      *)
(***************************************************************************)
THEOREM ApplyTreeSound == Spec => []ApplyTreeAcceptable
<1>1. Init => TreeInv
  <2> SUFFICES ASSUME Init PROVE TreeInv
    OBVIOUS
  <2>1. disk = <<>> /\ phase = "idle"
    BY Zenon DEF Init
  <2>2. DOMAIN disk = {}
    BY <2>1
  <2> QED
    BY <2>1, <2>2 DEF TreeInv, ApplyTreeAcceptable
<1>2. TypeOK /\ ApplyInv /\ [Next]_vars => ApplyInv'
  BY ApplyStep
<1>3. TypeOK /\ ApplyInv /\ TreeInv /\ [Next]_vars => TreeInv'
  BY TreeStep
<1>4. TreeInv => ApplyTreeAcceptable
  BY DEF TreeInv
<1> QED
  BY <1>1, <1>2, <1>3, <1>4, TypeCorrect, ApplyInit, PTL DEF Spec

-----------------------------------------------------------------------------
(***************************************************************************)
(* Migrate implements Custody: each of its steps is a step of Custody, or  *)
(* changes nothing Custody sees.                                           *)
(***************************************************************************)

-----------------------------------------------------------------------------
(***************************************************************************)
(* What Custody sees of a report.                                          *)
(***************************************************************************)

\* A new report has no entry.
LEMMA NoEntries == \A t, d : Entries(NewReport(t, d)) = <<>>
BY DEF Entries, NewReport

\* Accounting for a file adds its entry (runMigration).
LEMMA CountedEntries ==
  ASSUME NEW rep \in Report, NEW fr
  PROVE  /\ Entries(Counted(rep, fr)) = Append(Entries(rep), Entry(fr))
         /\ Counted(rep, fr).dry = rep.dry
<1>1. rep.files \in Seq(FileReport)
  BY DEF Report
<1>2. Counted(rep, fr).files = Append(rep.files, fr)
      /\ Counted(rep, fr).dry = rep.dry
  BY DEF Counted, Report
<1> DEFINE n == Len(rep.files)
           more == Append(rep.files, fr)
<1>3. n \in Nat /\ DOMAIN rep.files = 1..n /\ DOMAIN more = 1..(n + 1)
  BY <1>1
<1>4. \A i \in 1..n : more[i] = rep.files[i]
  BY <1>1
<1>5. more[n + 1] = fr
  BY <1>1
<1>6. Entries(Counted(rep, fr)) = [i \in 1..(n + 1) |-> Entry(more[i])]
  BY <1>2, <1>3 DEF Entries
<1>7. Entries(rep) = [i \in 1..n |-> Entry(rep.files[i])]
  BY <1>3 DEF Entries
<1> DEFINE entries == [i \in 1..n |-> Entry(rep.files[i])]
<1>8. entries \in Seq({Entry(rep.files[i]) : i \in 1..n}) /\ Len(entries) = n
  BY <1>3
<1>9. Append(entries, Entry(fr)) =
        [i \in 1..(n + 1) |-> IF i = n + 1 THEN Entry(fr) ELSE entries[i]]
  BY <1>3, <1>8
<1>10. \A i \in 1..(n + 1) :
         Entry(more[i]) = IF i = n + 1 THEN Entry(fr) ELSE entries[i]
  BY <1>3, <1>4, <1>5
<1>11. [i \in 1..(n + 1) |-> Entry(more[i])] =
         [i \in 1..(n + 1) |-> IF i = n + 1 THEN Entry(fr) ELSE entries[i]]
  BY <1>10
<1> QED
  BY <1>2, <1>6, <1>7, <1>9, <1>11

\* Marking the rewritten outputs changes no entry (markReplacedOutputs).
LEMMA MarkedEntries ==
  ASSUME NEW rep \in Report
  PROVE  Entries(Marked(rep)) = Entries(rep)
<1>1. DOMAIN Marked(rep).files = DOMAIN rep.files
  BY DEF Marked, Report
<1>2. \A i \in DOMAIN rep.files :
        Entry(Marked(rep).files[i]) = Entry(rep.files[i])
  <2> SUFFICES ASSUME NEW i \in DOMAIN rep.files
               PROVE  Entry(Marked(rep).files[i]) = Entry(rep.files[i])
    OBVIOUS
  <2>1. rep.files[i] \in FileReport
    BY ElementType DEF Report
  <2>2. Marked(rep).files[i] =
          [rep.files[i] EXCEPT !.replace = Replaced(rep.files, rep.files[i])]
    BY DEF Marked, Report
  <2>3. /\ Marked(rep).files[i].label = rep.files[i].label
        /\ Marked(rep).files[i].file = rep.files[i].file
        /\ Marked(rep).files[i].apply = rep.files[i].apply
        /\ Marked(rep).files[i].manual = rep.files[i].manual
    BY <2>1, <2>2 DEF FileReport
  <2> QED
    BY <2>3 DEF Entry, OutputsOf
<1> QED
  BY <1>1, <1>2 DEF Entries

\* The outputs of a file report that is within the output directory.
LEMMA OutputsWithin ==
  \A fr, D : Within(fr, D) => OutputsOf(fr) \subseteq D
BY DEF Within, OutputsOf

-----------------------------------------------------------------------------
(***************************************************************************)
(* The open file is the one the walk is at, and --mesh lets it through.    *)
(***************************************************************************)
OpenFile ==
  phase \in {"docs", "write"} =>
    /\ at \in DOMAIN tree /\ cur.file = tree[at]
    /\ C!Wanted(tree[at])

\* The --mesh filter of Custody is the filter of the walk.
LEMMA FilterWanted == \A f : C!Wanted(f) <=> ~OtherMesh(f)
BY DEF C!Wanted, OtherMesh

\* The open file stays the one the walk is at.
LEMMA OpenFileStep == TypeOK /\ OpenFile /\ [Next]_vars => OpenFile'
<1> SUFFICES ASSUME TypeOK, OpenFile, [Next]_vars PROVE OpenFile'
  OBVIOUS
<1>1. cur \in FileReport
  BY DEF TypeOK, ProcessOK
<1>2. ASSUME phase' \notin {"docs", "write"} PROVE OpenFile'
  BY <1>2 DEF OpenFile
<1>3. CASE \/ \E t \in Targets, d \in Modes, m \in MeshFilters : Start(t, d, m)
           \/ OpenEmpty \/ CloseFile \/ Publish \/ CannotRead \/ WriteFails
           \/ PublishFails \/ WalkAborts \/ Killed
  <2>1. phase' \in {"idle", "walk"}
    BY <1>3 DEF Start, OpenEmpty, CloseFile, Publish, CannotRead, WriteFails,
                PublishFails, WalkAborts, Killed, ProcessGone, Return
  <2> QED
    BY <1>2, <2>1
<1>4. CASE PassOver
  BY <1>2, <1>4 DEF PassOver, Walking
<1>5. CASE Open
  <2>1. /\ at \in DOMAIN tree /\ ~OtherMesh(tree[at])
        /\ cur' = NewFileReport(tree[at]) /\ UNCHANGED <<tree, at, filter>>
    BY <1>5 DEF Open, Walking
  <2>2. cur'.file = tree[at]
    BY <2>1 DEF NewFileReport
  <2> QED
    BY <2>1, <2>2, FilterWanted DEF OpenFile, C!Wanted
<1>6. CASE SkipDocument \/ ConvertDocument
  <2>1. phase = "docs" /\ UNCHANGED <<tree, at, filter>>
    BY <1>6 DEF SkipDocument, ConvertDocument, NextDocument
  <2>2. cur'.file = cur.file
    BY <1>1, <1>6 DEF SkipDocument, ConvertDocument, FileReport
  <2> QED
    BY <2>1, <2>2 DEF OpenFile, C!Wanted
<1>7. CASE WriteOutput
  <2>1. Writing /\ cur' = Recorded /\ UNCHANGED <<tree, at, filter, phase>>
    BY <1>7 DEF WriteOutput
  <2>2. cur'.file = cur.file
    BY <2>1, HereType DEF TypeOK
  <2> QED
    BY <2>1, <2>2 DEF OpenFile, C!Wanted, Writing
<1>8. CASE UNCHANGED vars
  BY <1>8 DEF vars, OpenFile, C!Wanted
<1> QED
  BY <1>3, <1>4, <1>5, <1>6, <1>7, <1>8, Zenon
     DEF Next, Step, Progress, Failure

-----------------------------------------------------------------------------
(***************************************************************************)
(* Each step of Migrate is a step of Custody, or a stutter.                *)
(***************************************************************************)

\* The process ending rests Custody.
LEMMA GoneRests == ProcessGone => C!Resting'
<1> SUFFICES ASSUME ProcessGone PROVE C!Resting'
  OBVIOUS
<1>1. phase' = "idle" /\ filter' = "" /\ at' = 1 /\ report' = NewReport("v2", FALSE)
  BY Zenon DEF ProcessGone
<1>2. Entries(report') = <<>> /\ report'.dry = FALSE
  <2>1. NewReport("v2", FALSE).dry = FALSE
    BY DEF NewReport
  <2> QED
    BY <1>1, <2>1, NoEntries, Zenon
<1> QED
  BY <1>1, <1>2 DEF C!Resting

\* A write brings at most one path into being (processFile).
LEMMA PutGrows ==
  ASSUME ~report.dry, NEW p, NEW raw, disk' \in {disk, Put(p, raw)}
  PROVE  C!StoreGrows
<1>1. DOMAIN disk' \in {DOMAIN disk, DOMAIN disk \union {p}}
  BY DEF Put
<1> QED
  BY <1>1 DEF C!StoreGrows

\* processFile returning a file report settles the file the walk is at.
LEMMA ReturnSettles ==
  ASSUME NEW rep \in Report, NEW fr, Return(rep, fr),
         phase # "idle", at \in DOMAIN tree, C!Wanted(tree[at]),
         rep.dry = report.dry, rep.files = report.files,
         fr.file = tree[at],
         ~report.dry /\ fr.label # "ERROR" => Within(fr, DOMAIN disk),
         C!StoreGrows, UNCHANGED <<tree, planMd, reportMd>>
  PROVE  C!Settle
<1>1. /\ report' = Counted(rep, fr) /\ phase' = "walk" /\ at' = at + 1
      /\ filter' = filter
  BY DEF Return
<1>2. Entries(rep) = Entries(report)
  BY DEF Entries
<1>3. Entries(report') = Append(Entries(report), Entry(fr))
      /\ report'.dry = report.dry
  BY <1>1, <1>2, CountedEntries
<1>4. Entry(fr).file = tree[at] /\ Entry(fr).well = (fr.label # "ERROR")
      /\ Entry(fr).outputs = OutputsOf(fr)
  BY DEF Entry
<1>5. Entry(fr).well /\ ~report.dry => Entry(fr).outputs \subseteq DOMAIN disk
  BY <1>4, OutputsWithin
<1>6. Entries(report')[Len(Entries(report'))] = Entry(fr)
  <2>1. report.files \in Seq(FileReport)
    BY DEF Report
  <2> DEFINE es == Entries(report)
  <2>2. es \in Seq({Entry(report.files[i]) : i \in DOMAIN report.files})
    BY <2>1 DEF Entries
  <2> HIDE DEF es
  <2>3. Append(es, Entry(fr))[Len(Append(es, Entry(fr)))] = Entry(fr)
    BY <2>2
  <2> QED
    BY <1>3, <2>3 DEF es
<1>7. /\ {Entries(r) : r \in planMd'} = {Entries(r) : r \in planMd}
      /\ {Entries(r) : r \in reportMd'} = {Entries(r) : r \in reportMd}
  OBVIOUS
<1> QED
  BY <1>1, <1>3, <1>4, <1>5, <1>6, <1>7 DEF C!Settle

\* Publishing the report shows Custody the entries of the run (runMigration).
LEMMA PublishStep == TypeOK /\ Publish => C!Publish
<1> SUFFICES ASSUME TypeOK, Publish PROVE C!Publish
  OBVIOUS
<1>1. report \in Report
  BY DEF TypeOK, ProcessOK
<1>2. Entries(Marked(report)) = Entries(report)
  BY <1>1, MarkedEntries
<1>3. /\ phase = "walk" /\ at \notin DOMAIN tree /\ ProcessGone
      /\ planMd' = IF report.dry THEN {Marked(report)} ELSE planMd
      /\ reportMd' = IF report.dry THEN reportMd ELSE {Marked(report)}
      /\ UNCHANGED <<tree, disk>>
  BY DEF Publish, AtEnd
<1>4. C!Resting'
  BY <1>3, GoneRests
<1>5. {Entries(r) : r \in {Marked(report)}} = {Entries(report)}
  BY <1>2
<1>6. {Entries(r) : r \in planMd'} =
        IF report.dry THEN {Entries(report)} ELSE {Entries(r) : r \in planMd}
  BY <1>3, <1>5
<1>7. {Entries(r) : r \in reportMd'} =
        IF report.dry THEN {Entries(r) : r \in reportMd} ELSE {Entries(report)}
  BY <1>3, <1>5
<1> QED
  BY <1>3, <1>4, <1>6, <1>7 DEF C!Publish

\* A run that ends without publishing stops.
LEMMA StopStep ==
  ASSUME phase # "idle", ProcessGone, C!StoreGrows,
         planMd' \subseteq planMd, reportMd' \subseteq reportMd,
         IF report.dry THEN UNCHANGED reportMd ELSE UNCHANGED planMd,
         UNCHANGED tree
  PROVE  C!Stop
<1>1. C!Resting'
  BY GoneRests
<1>2. /\ {Entries(r) : r \in planMd'} \subseteq {Entries(r) : r \in planMd}
      /\ {Entries(r) : r \in reportMd'} \subseteq {Entries(r) : r \in reportMd}
  OBVIOUS
<1>3. IF report.dry
      THEN {Entries(r) : r \in reportMd'} = {Entries(r) : r \in reportMd}
      ELSE {Entries(r) : r \in planMd'} = {Entries(r) : r \in planMd}
  OBVIOUS
<1> QED
  BY <1>1, <1>2, <1>3 DEF C!Stop

\* A step that leaves what Custody sees leaves Custody where it is.
LEMMA SameView ==
  ASSUME UNCHANGED <<tree, disk, planMd, reportMd, filter, at>>,
         (phase' # "idle") = (phase # "idle"),
         report'.dry = report.dry, report'.files = report.files
  PROVE  UNCHANGED C!vars
<1>1. Entries(report') = Entries(report)
  BY DEF Entries
<1>2. /\ {Entries(r) : r \in planMd'} = {Entries(r) : r \in planMd}
      /\ {Entries(r) : r \in reportMd'} = {Entries(r) : r \in reportMd}
  OBVIOUS
<1> QED
  BY <1>1, <1>2 DEF C!vars

\* Every step of Migrate is a step of Custody, or a stutter.
LEMMA CustodyStep ==
  ASSUME TypeOK, TypeOK', RecordedInv, OpenFile, [Next]_vars
  PROVE  [C!Next]_(C!vars)
<1>1. report \in Report /\ cur \in FileReport /\ DOMAIN disk \subseteq Path
  BY DEF TypeOK, ProcessOK, FilesOK
<1>2. UNCHANGED disk => C!StoreGrows
  BY DEF C!StoreGrows
<1>3. ASSUME Walking
      PROVE  /\ Visited \in Report /\ Visited.dry = report.dry
             /\ Visited.files = report.files
             /\ NewFileReport(tree[at]) \in FileReport
  BY <1>1, <1>3, VisitedType, FreshTypes DEF Visited, Report, TypeOK
<1>4. CASE \E t \in Targets, d \in Modes, m \in MeshFilters : Start(t, d, m)
  <2>1. PICK t \in Targets, d \in Modes, m \in MeshFilters : Start(t, d, m)
    BY <1>4
  <2>2. /\ phase = "idle" /\ phase' = "walk" /\ filter' = m /\ at' = 1
        /\ report' = NewReport(t, d)
        /\ UNCHANGED <<disk, planMd, reportMd>>
    BY <2>1 DEF Start
  <2>3. tree' \in InputTrees
    BY DEF TypeOK, FilesOK
  <2>4. Entries(report') = <<>> /\ report'.dry = d
    <3>1. NewReport(t, d).dry = d
      BY DEF NewReport
    <3> QED
      BY <2>2, <3>1, NoEntries, Zenon
  <2>5. d \in BOOLEAN
    BY TreeAssumption
  <2>6. /\ {Entries(r) : r \in planMd'} = {Entries(r) : r \in planMd}
        /\ {Entries(r) : r \in reportMd'} = {Entries(r) : r \in reportMd}
    BY <2>2
  <2>7. C!Begin
    BY <2>2, <2>3, <2>4, <2>5, <2>6 DEF C!Begin
  <2> QED
    BY <2>7 DEF C!Next
<1>5. CASE PassOver
  <2>1. C!Pass
    BY <1>5, FilterWanted DEF PassOver, Walking, C!Pass
  <2> QED
    BY <2>1 DEF C!Next
<1>6. CASE CannotRead
  <2> DEFINE fr == [NewFileReport(tree[at]) EXCEPT
                      !.hasError = TRUE, !.unread = TRUE, !.label = "ERROR"]
  <2>1. /\ Walking /\ ~OtherMesh(tree[at]) /\ Return(Visited, fr)
        /\ UNCHANGED <<tree, disk, planMd, reportMd>>
    BY <1>6, Zenon DEF CannotRead
  <2>2. fr.label = "ERROR" /\ fr.file = tree[at]
    BY DEF NewFileReport
  <2> HIDE DEF fr
  <2>3. C!Settle
    BY <1>2, <1>3, <2>1, <2>2, FilterWanted, ReturnSettles DEF Walking
  <2> QED
    BY <2>3 DEF C!Next
<1>7. CASE OpenEmpty
  <2> DEFINE fr == NewFileReport(tree[at])
  <2>1. /\ Walking /\ ~OtherMesh(tree[at]) /\ Return(Visited, fr)
        /\ UNCHANGED <<tree, disk, planMd, reportMd>>
    BY <1>7, Zenon DEF OpenEmpty
  <2>2. Within(fr, DOMAIN disk) /\ fr.file = tree[at]
    BY NewWithin DEF NewFileReport
  <2> HIDE DEF fr
  <2>3. C!Settle
    BY <1>2, <1>3, <2>1, <2>2, FilterWanted, ReturnSettles DEF Walking
  <2> QED
    BY <2>3 DEF C!Next
<1>8. CASE Open
  <2>1. /\ Walking /\ phase' = "docs" /\ report' = Visited
        /\ UNCHANGED <<tree, disk, planMd, reportMd, filter, at>>
    BY <1>8 DEF Open
  <2> QED
    BY <1>3, <2>1, SameView DEF Walking
<1>9. CASE SkipDocument \/ ConvertDocument
  <2>1. phase = "docs" /\ NextDocument
    BY <1>9, Zenon DEF SkipDocument, ConvertDocument
  <2>2. phase' \in {"docs", "write"}
        /\ UNCHANGED <<tree, disk, planMd, reportMd, filter, at, report>>
    BY <2>1 DEF NextDocument
  <2> QED
    BY <2>1, <2>2, SameView
<1>10. CASE WriteOutput
  <2>1. /\ Writing /\ disk' = IF report.dry THEN disk ELSE Put(Here, Raw)
        /\ UNCHANGED <<tree, planMd, reportMd, phase, filter, at, report>>
    BY <1>10 DEF WriteOutput
  <2>2. CASE report.dry
    BY <2>1, <2>2, SameView
  <2>3. CASE ~report.dry
    <3>1. C!StoreGrows
      BY <2>1, <2>3, PutGrows
    <3>2. phase # "idle"
      BY <2>1 DEF Writing
    <3>3. C!Store
      BY <2>1, <3>1, <3>2 DEF C!Store
    <3> QED
      BY <3>3 DEF C!Next
  <2> QED
    BY <2>2, <2>3
<1>11. CASE WriteFails
  <2> DEFINE fr == [Recorded EXCEPT !.hasError = TRUE, !.label = "ERROR"]
  <2>1. /\ Writing /\ ~report.dry /\ disk' \in {disk, Put(Here, Torn)}
        /\ Return(report, fr) /\ UNCHANGED <<tree, planMd, reportMd>>
    BY <1>11, Zenon DEF WriteFails
  <2>2. Recorded \in FileReport /\ Recorded.file = cur.file
    BY <2>1, HereType DEF TypeOK
  <2>3. fr.label = "ERROR" /\ fr.file = cur.file
    BY <2>2 DEF FileReport
  <2>4. phase # "idle" /\ at \in DOMAIN tree /\ cur.file = tree[at]
        /\ C!Wanted(tree[at])
    BY <2>1 DEF OpenFile, Writing
  <2>5. C!StoreGrows
    BY <2>1, PutGrows
  <2> HIDE DEF fr
  <2>6. C!Settle
    BY <1>1, <2>1, <2>3, <2>4, <2>5, ReturnSettles
  <2> QED
    BY <2>6 DEF C!Next
<1>12. CASE CloseFile
  <2> DEFINE fr == [cur EXCEPT !.label = FinalLabel(cur)]
  <2>1. /\ phase = "write" /\ Return(report, fr)
        /\ UNCHANGED <<tree, disk, planMd, reportMd>>
    BY <1>12, Zenon DEF CloseFile
  <2>2. fr.apply = cur.apply /\ fr.manual = cur.manual /\ fr.file = cur.file
    BY <1>1 DEF FileReport
  <2>3. ~report.dry => Within(fr, DOMAIN disk)
    BY <2>2 DEF RecordedInv, Within
  <2>4. phase # "idle" /\ at \in DOMAIN tree /\ cur.file = tree[at]
        /\ C!Wanted(tree[at])
    BY <2>1 DEF OpenFile
  <2> HIDE DEF fr
  <2>5. C!Settle
    BY <1>1, <1>2, <2>1, <2>2, <2>3, <2>4, ReturnSettles
  <2> QED
    BY <2>5 DEF C!Next
<1>13. CASE Publish
  BY <1>13, PublishStep DEF C!Next
<1>14. CASE PublishFails
  <2>1. /\ phase # "idle" /\ ProcessGone /\ UNCHANGED <<tree, disk>>
        /\ IF report.dry THEN planMd' \in {planMd, {}} /\ UNCHANGED reportMd
           ELSE reportMd' \in {reportMd, {}} /\ UNCHANGED planMd
    BY <1>14 DEF PublishFails, AtEnd
  <2>2. C!Stop
    BY <1>2, <2>1, StopStep
  <2> QED
    BY <2>2 DEF C!Next
<1>15. CASE WalkAborts
  <2>1. phase # "idle" /\ ProcessGone
        /\ UNCHANGED <<tree, disk, planMd, reportMd>>
    BY <1>15 DEF WalkAborts
  <2>2. C!Stop
    BY <1>2, <2>1, StopStep
  <2> QED
    BY <2>2 DEF C!Next
<1>16. CASE Killed
  <2>1. /\ phase # "idle" /\ ProcessGone /\ UNCHANGED <<tree, planMd, reportMd>>
        /\ \/ UNCHANGED disk
           \/ ~report.dry /\ disk' = Put(Here, Torn)
    BY <1>16 DEF Killed
  <2>2. C!StoreGrows
    BY <1>2, <2>1, PutGrows
  <2>3. C!Stop
    BY <2>1, <2>2, StopStep
  <2> QED
    BY <2>3 DEF C!Next
<1>17. CASE UNCHANGED vars
  BY <1>17, SameView DEF vars
<1> QED
  BY <1>4, <1>5, <1>6, <1>7, <1>8, <1>9, <1>10, <1>11, <1>12, <1>13, <1>14,
     <1>15, <1>16, <1>17, Zenon DEF Next, Step, Progress, Failure

\* Migrate starts where Custody does.
LEMMA CustodyInit == Init => C!Init /\ OpenFile
<1> SUFFICES ASSUME Init PROVE C!Init /\ OpenFile
  OBVIOUS
<1>1. /\ tree \in InputTrees /\ disk = <<>> /\ planMd = {} /\ reportMd = {}
      /\ phase = "idle" /\ filter = "" /\ at = 1
      /\ report = NewReport("v2", FALSE)
  BY Zenon DEF Init
<1>2. Entries(report) = <<>> /\ report.dry = FALSE
  <2>1. NewReport("v2", FALSE).dry = FALSE
    BY DEF NewReport
  <2> QED
    BY <1>1, <2>1, NoEntries, Zenon
<1>3. DOMAIN disk = {}
  <2>1. DOMAIN <<>> = {}
    OBVIOUS
  <2> QED
    BY <1>1, <2>1, Zenon
<1>4. {Entries(r) : r \in planMd} = {} /\ {Entries(r) : r \in reportMd} = {}
  BY <1>1
<1> QED
  BY <1>1, <1>2, <1>3, <1>4 DEF C!Init, C!Resting, OpenFile

(***************************************************************************)
(* Migrate implements Custody, for every catalogue, transform, input tree  *)
(* and number of runs: every published report lists exactly the files the  *)
(* walk met, in order, and vouches only for outputs that are there.        *)
(***************************************************************************)
THEOREM MigrateKeepsCustody == Spec => KeepsCustody
<1>1. TypeOK /\ TypeOK' /\ RecordedInv /\ OpenFile /\ [Next]_vars
        => [C!Next]_(C!vars)
  BY CustodyStep
<1> QED
  BY <1>1, TypeCorrect, RecordedInit, RecordedStep, CustodyInit, OpenFileStep,
     PTL DEF Spec, KeepsCustody, C!Spec

-----------------------------------------------------------------------------
(***************************************************************************)
(* The label of a file tells the truth: LabelTellsTheTruth.                *)
(***************************************************************************)

-----------------------------------------------------------------------------
(***************************************************************************)
(* Labels and verdicts.                                                    *)
(***************************************************************************)

\* The verdicts that say an output differs from its document.
Changing == {"legacy", "subset", "rules", "mesh", "es", "gw", "opa",
             "rewritten", "scanned"}

Untouched(fr) == ~fr.hasError /\ fr.found \cap Changing = {}

\* The documents of a file as they are written when nothing is converted.
Own(fr) == {Strip(fr.file.docs[j]) : j \in DOMAIN fr.file.docs}

\* What the label of a closed file says of it.
Truthful(fr) ==
  /\ fr.label \notin LabelsIn["errors"] =>
       \A j \in DOMAIN fr.changes : ~fr.changes[j].errMsg
  /\ fr.label = "MANUAL" => fr.apply = <<>> /\ fr.manual # <<>>
  /\ fr.label \in {"ALREADY MIGRATED", "SKIP"} =>
       \A k \in DOMAIN fr.apply : fr.apply[k].raw \in Own(fr)

LEMMA LabelForm ==
  LabelTellsTheTruth <=>
    \A i \in DOMAIN report.files : Truthful(report.files[i])
BY DEF LabelTellsTheTruth, Truthful, Own

\* The verdicts in the order of the label switch, and their labels.
LEMMA VerdictAt ==
  /\ DOMAIN Verdicts = 1..12
  /\ Verdicts[1] = "legacy" /\ Verdicts[2] = "subset"
  /\ Verdicts[3] = "rules" /\ Verdicts[4] = "mesh"
  /\ Verdicts[5] = "es" /\ Verdicts[6] = "gw"
  /\ Verdicts[7] = "opa" /\ Verdicts[8] = "manual"
  /\ Verdicts[9] = "rewritten" /\ Verdicts[10] = "scanned"
  /\ Verdicts[11] = "already" /\ Verdicts[12] = "skipped"
BY DEF Verdicts

LEMMA LabelAt ==
  /\ LabelOf["legacy"] = "MIGRATED LEGACY"
  /\ LabelOf["subset"] = "MIGRATED SUBSET"
  /\ LabelOf["rules"] = "MIGRATED RULES"
  /\ LabelOf["mesh"] = "MIGRATED MESH"
  /\ LabelOf["es"] = "MIGRATED ES"
  /\ LabelOf["gw"] = "MIGRATED GW"
  /\ LabelOf["opa"] = "MIGRATED OPA"
  /\ LabelOf["manual"] = "MANUAL"
  /\ LabelOf["rewritten"] = "REWRITTEN"
  /\ LabelOf["scanned"] = "SCANNED"
  /\ LabelOf["already"] = "ALREADY MIGRATED"
  /\ LabelOf["skipped"] = "SKIP"
BY DEF LabelOf

\* What the label switch of processFile implies.
LEMMA FinalLabelMeans ==
  ASSUME NEW fr \in FileReport
  PROVE  /\ FinalLabel(fr) \notin LabelsIn["errors"] => ~fr.hasError
         /\ FinalLabel(fr) = "MANUAL" =>
              fr.apply = <<>> /\ "manual" \in fr.found
         /\ FinalLabel(fr) \in {"ALREADY MIGRATED", "SKIP"} => Untouched(fr)
<1> DEFINE seen == fr.found \ (IF fr.apply = <<>> THEN {} ELSE {"manual"})
           First(i) == /\ Verdicts[i] \in seen
                       /\ \A j \in 1..(i - 1) : Verdicts[j] \notin seen
           i0 == CHOOSE i \in DOMAIN Verdicts : First(i)
<1>1. seen \subseteq Verdict
  BY DEF FileReport
<1>2. CASE fr.hasError
  BY <1>2 DEF FinalLabel, LabelsIn
<1>3. CASE ~fr.hasError /\ seen = {}
  BY <1>3 DEF FinalLabel, LabelsIn
<1>4. CASE ~fr.hasError /\ seen # {}
  <2>1. FinalLabel(fr) = LabelOf[Verdicts[i0]]
    BY <1>4 DEF FinalLabel
  <2>2. \E i \in DOMAIN Verdicts : First(i)
    BY <1>1, <1>4, FirstVerdict
  <2>3. i0 \in DOMAIN Verdicts /\ First(i0)
    BY <2>2
  <2> HIDE DEF i0
  <2>4. i0 \in 1..12 /\ Verdicts[i0] \in seen
        /\ \A j \in 1..(i0 - 1) : Verdicts[j] \notin seen
    BY <2>3 DEF Verdicts
  <2> HIDE DEF seen
  <2> DEFINE v == Verdicts[i0]
  <2>5. /\ v \in {"legacy", "subset", "rules", "mesh", "es", "gw", "opa",
                  "manual", "rewritten", "scanned", "already", "skipped"}
        /\ v \in {"already", "skipped"} => i0 \in {11, 12}
    <3>1. \/ i0 = 1 \/ i0 = 2 \/ i0 = 3 \/ i0 = 4 \/ i0 = 5 \/ i0 = 6
          \/ i0 = 7 \/ i0 = 8 \/ i0 = 9 \/ i0 = 10 \/ i0 = 11 \/ i0 = 12
      BY <2>4
    <3> QED
      BY <3>1, VerdictAt, Zenon
  <2> HIDE DEF v
  <2>6. /\ LabelOf[v] = "MANUAL" => v = "manual"
        /\ LabelOf[v] \in {"ALREADY MIGRATED", "SKIP"} =>
             v \in {"already", "skipped"}
    BY <2>5, LabelAt
  <2>7. FinalLabel(fr) = "MANUAL" => "manual" \in seen
    BY <2>1, <2>4, <2>6 DEF v
  <2>8. FinalLabel(fr) \in {"ALREADY MIGRATED", "SKIP"} => i0 \in {11, 12}
    BY <2>1, <2>5, <2>6 DEF v
  <2>9. i0 \in {11, 12} => \A j \in 1..10 : Verdicts[j] \notin seen
    BY <2>4
  <2>10. (\A j \in 1..10 : Verdicts[j] \notin seen) => seen \cap Changing = {}
    BY DEF Verdicts, Changing
  <2>11. seen \cap Changing = {} => fr.found \cap Changing = {}
    BY DEF seen, Changing
  <2>12. "manual" \in seen => fr.apply = <<>> /\ "manual" \in fr.found
    BY DEF seen
  <2> QED
    BY <1>4, <2>7, <2>8, <2>9, <2>10, <2>11, <2>12 DEF Untouched
<1> QED
  BY <1>2, <1>3, <1>4

-----------------------------------------------------------------------------
(***************************************************************************)
(* One document.                                                           *)
(***************************************************************************)

\* An item that is not manual repeats its document, or the change tells.
LEMMA EmittedTells ==
  ASSUME NEW d \in Doc, report \in Report
  PROVE  LET o == Transform(d, report.target)
             c == ChangeOf(d, o)
         IN  \A i \in DOMAIN Emitted(d, o) :
               ~Emitted(d, o)[i].manual =>
                 \/ c.errMsg
                 \/ ScenarioVerdict(c) \cap Changing # {}
                 \/ Emitted(d, o)[i].raw = d
<1> DEFINE o == Transform(d, report.target)
           c == ChangeOf(d, o)
<1>1. report.target \in {"v2", "v3"}
  BY DEF Report
<1>2. o \in Outcome
  BY <1>1, TransformAssumption
<1>3. o.scenario = "unknown" => o.err = "error"
  BY <1>1, ScenarioAssumption
<1> HIDE DEF o
<1>4. o.results \in Seq(Doc) /\ o.err \in {"none", "error", "rejected"}
      /\ o.scenario \in Scenario
  BY <1>2 DEF Outcome
<1> SUFFICES ASSUME NEW i \in DOMAIN Emitted(d, o), ~Emitted(d, o)[i].manual,
                    ~c.errMsg, ScenarioVerdict(c) \cap Changing = {}
             PROVE  Emitted(d, o)[i].raw = d
  BY DEF o
<1> DEFINE original == <<[raw |-> d, manual |-> TRUE]>>
<1>5. CASE V3 /\ IsDefaultGatewayTimeout(d)
  <2>1. Emitted(d, o) = original
    BY <1>5, Zenon DEF Emitted
  <2>2. DOMAIN original = {1} /\ original[1].raw = d
    OBVIOUS
  <2> QED
    BY <2>1, <2>2
<1>6. CASE ~(V3 /\ IsDefaultGatewayTimeout(d))
  <2>1. o.err = "none"
    BY <1>4, <1>6 DEF ChangeOf
  <2>2. o.scenario # "unknown"
    BY <1>3, <2>1
  <2>3. c.scenario = o.scenario /\ c.rewritten = Rewritten(d, o)
    BY DEF ChangeOf
  <2>4. o.scenario \in {"passthrough", "skipped"} /\ ~Rewritten(d, o)
    <3> HIDE DEF c
    <3> QED
      BY <1>4, <2>2, <2>3 DEF ScenarioVerdict, Changing, Scenario
  <2>5. Len(o.results) = 1 /\ o.results[1] = d
    BY <2>1, <2>4 DEF Rewritten
  <2> DEFINE m == [k \in DOMAIN o.results |->
                     V3 /\ o.results[k].kind \in RemovedInV3]
  <2>6. Emitted(d, o) = [k \in DOMAIN o.results |->
                           [raw |-> o.results[k], manual |-> m[k]]]
    BY <1>6, <2>1 DEF Emitted, RemovedByTarget, V3
  <2>7. DOMAIN o.results = {1}
    BY <1>4, <2>5
  <2> HIDE DEF m
  <2>8. i = 1 /\ Emitted(d, o)[1].raw = o.results[1]
    BY <2>6, <2>7
  <2> QED
    BY <2>5, <2>8
<1> QED
  BY <1>5, <1>6

\* The manual verdict has a manual item behind it.
LEMMA ManualTells ==
  ASSUME NEW c \in Change, NEW items,
         "manual" \in ScenarioVerdict(c) \union ManualVerdict(c, items)
  PROVE  \E i \in DOMAIN items : items[i].manual
<1>1. "manual" \notin ScenarioVerdict(c)
  BY DEF ScenarioVerdict, Change, Scenario
<1> QED
  BY <1>1 DEF ManualVerdict

-----------------------------------------------------------------------------
(***************************************************************************)
(* The inductive invariant.  Of the open file: without hasError no change  *)
(* has an error; unless a verdict tells, its outputs are its own           *)
(* documents, those that wait to be written included; and the verdict      *)
(* "manual" has an output behind it, which the output loop will record.    *)
(***************************************************************************)
QueueTruthful(fr, queue) ==
  /\ Untouched(fr) =>
       \A i \in DOMAIN queue : ~queue[i].manual => Strip(queue[i].raw) \in Own(fr)
  /\ "manual" \in fr.found => \E i \in DOMAIN queue : queue[i].manual

OpenTruthful(fr) ==
  /\ ~fr.hasError => \A j \in DOMAIN fr.changes : ~fr.changes[j].errMsg
  /\ Untouched(fr) => \A k \in DOMAIN fr.apply : fr.apply[k].raw \in Own(fr)

LoopTruthful ==
  phase = "write" =>
    /\ next <= Len(outs) + 1
    /\ \A i \in DOMAIN outs : i < next /\ outs[i].manual => cur.manual # <<>>

LabelInv ==
  /\ \A i \in DOMAIN report.files : Truthful(report.files[i])
  /\ OpenTruthful(cur) /\ QueueTruthful(cur, outs) /\ LoopTruthful

\* Adding a truthful file report.
LEMMA CountedTruthful ==
  ASSUME NEW rep \in Report, NEW fr, Truthful(fr),
         \A i \in DOMAIN rep.files : Truthful(rep.files[i])
  PROVE  \A i \in DOMAIN Counted(rep, fr).files :
           Truthful(Counted(rep, fr).files[i])
<1>1. rep.files \in Seq(FileReport)
  BY DEF Report
<1>2. Counted(rep, fr).files = Append(rep.files, fr)
  BY DEF Counted, Report
<1>3. \A i \in DOMAIN Append(rep.files, fr) :
        \/ i \in DOMAIN rep.files /\ Append(rep.files, fr)[i] = rep.files[i]
        \/ Append(rep.files, fr)[i] = fr
  BY <1>1
<1> QED
  BY <1>2, <1>3

\* A file report that holds nothing yet.
LEMMA NewTruthful ==
  /\ \A f : OpenTruthful(NewFileReport(f)) /\ QueueTruthful(NewFileReport(f), <<>>)
            /\ Truthful(NewFileReport(f))
  /\ \A t, d : \A i \in DOMAIN NewReport(t, d).files :
       Truthful(NewReport(t, d).files[i])
<1>1. DOMAIN <<>> = {}
  OBVIOUS
<1> QED
  BY <1>1 DEF OpenTruthful, QueueTruthful, Truthful, NewFileReport, NewReport

\* Recording an output of a truthful file.
LEMMA RecordedTruthful ==
  ASSUME ProcessOK, Writing, OpenTruthful(cur), QueueTruthful(cur, outs)
  PROVE  /\ OpenTruthful(Recorded) /\ QueueTruthful(Recorded, outs)
         /\ outs[next].manual => Recorded.manual # <<>>
         /\ cur.manual # <<>> => Recorded.manual # <<>>
<1> DEFINE n == outs[next].change
<1>1. /\ cur \in FileReport /\ Here \in Path /\ Raw \in Doc
      /\ Recorded.file = cur.file /\ n \in DOMAIN cur.changes
  BY HereType DEF ProcessOK
<1>2. cur.apply \in Seq(Output) /\ cur.manual \in Seq(Path)
      /\ cur.changes \in Seq(Change)
  BY <1>1 DEF FileReport
<1>3. Recorded.found = cur.found /\ Recorded.hasError = cur.hasError
  BY <1>1 DEF Recorded, FileReport
<1>4. DOMAIN Recorded.changes = DOMAIN cur.changes
      /\ \A j \in DOMAIN cur.changes :
           Recorded.changes[j].errMsg = cur.changes[j].errMsg
  <2>1. \A j \in DOMAIN cur.changes : cur.changes[j] \in Change
    BY <1>2, ElementType
  <2>2. CASE ~outs[next].manual
    BY <1>1, <2>2 DEF Recorded, FileReport
  <2>3. CASE outs[next].manual
    <3> DEFINE cs == [cur.changes EXCEPT ![n].manual = Append(@, Here)]
    <3>1. Recorded.changes = cs
      BY <1>1, <2>3 DEF Recorded, FileReport
    <3>2. \A j \in DOMAIN cur.changes : cs[j].errMsg = cur.changes[j].errMsg
      BY <2>1 DEF Change
    <3> QED
      BY <3>1, <3>2
  <2> QED
    BY <2>2, <2>3
<1>5. Own(Recorded) = Own(cur) /\ Untouched(Recorded) = Untouched(cur)
  BY <1>1, <1>3 DEF Own, Untouched
<1>6. QueueTruthful(Recorded, outs)
  BY <1>3, <1>5 DEF QueueTruthful
<1>7. CASE outs[next].manual
  <2>1. Recorded.apply = cur.apply /\ Recorded.manual = Append(cur.manual, Here)
    BY <1>1, <1>7 DEF Recorded, FileReport
  <2>2. Append(cur.manual, Here) # <<>>
    BY <1>1, <1>2
  <2> QED
    BY <1>3, <1>4, <1>5, <1>6, <2>1, <2>2 DEF OpenTruthful
<1>8. CASE ~outs[next].manual
  <2> DEFINE out == [path |-> Here, raw |-> Raw]
  <2>1. Recorded.apply = Append(cur.apply, out) /\ Recorded.manual = cur.manual
    BY <1>1, <1>8 DEF Recorded, FileReport
  <2>2. Untouched(cur) => out.raw \in Own(cur)
    BY <1>8 DEF QueueTruthful, Raw, Writing
  <2> HIDE DEF out
  <2>3. \A k \in DOMAIN Append(cur.apply, out) :
          \/ k \in DOMAIN cur.apply
             /\ Append(cur.apply, out)[k] = cur.apply[k]
          \/ Append(cur.apply, out)[k] = out
    BY <1>2
  <2> QED
    BY <1>3, <1>4, <1>5, <1>6, <1>8, <2>1, <2>2, <2>3 DEF OpenTruthful
<1> QED
  BY <1>7, <1>8

\* One more change at the end of a file's changes.
LEMMA MoreChanges ==
  ASSUME NEW cs \in Seq(Change), NEW c \in Change, NEW bad \in BOOLEAN,
         ~bad => \A j \in DOMAIN cs : ~cs[j].errMsg
  PROVE  ~(bad \/ c.errMsg) =>
           \A j \in DOMAIN Append(cs, c) : ~Append(cs, c)[j].errMsg
<1>1. \A j \in DOMAIN Append(cs, c) :
        \/ j \in DOMAIN cs /\ Append(cs, c)[j] = cs[j]
        \/ Append(cs, c)[j] = c
  OBVIOUS
<1> QED
  BY <1>1

\* Skipping a document keeps the open file truthful.
LEMMA SkipTruthful ==
  ASSUME ProcessOK, OpenTruthful(cur), QueueTruthful(cur, outs), SkipDocument
  PROVE  OpenTruthful(cur') /\ QueueTruthful(cur', outs')
<1> DEFINE c == [doc |-> ThisDoc, scenario |-> "skipped",
                 errMsg |-> FALSE, rejected |-> FALSE,
                 deleteBeforeV3 |-> FALSE, rewritten |-> FALSE,
                 warned |-> FALSE, manual |-> <<>>]
<1>1. /\ phase = "docs" /\ outs' = outs
      /\ cur' = [cur EXCEPT !.changes = Append(@, c),
                            !.found = @ \union {"skipped"}]
  BY DEF SkipDocument
<1>2. ThisDoc \in Doc /\ cur \in FileReport /\ cur.changes \in Seq(Change)
  BY <1>1, ThisDocType
<1>3. c \in Change /\ c.errMsg = FALSE
  BY <1>2 DEF Change, Scenario
<1> HIDE DEF c
<1>4. /\ cur'.changes = Append(cur.changes, c) /\ cur'.file = cur.file
      /\ cur'.found = cur.found \union {"skipped"} /\ cur'.apply = cur.apply
      /\ cur'.hasError = cur.hasError /\ cur.hasError \in BOOLEAN
  BY <1>1, <1>2 DEF FileReport
<1>5. Untouched(cur') = Untouched(cur) /\ Own(cur') = Own(cur)
  BY <1>4 DEF Untouched, Own, Changing
<1>6. ~cur'.hasError => \A j \in DOMAIN cur'.changes : ~cur'.changes[j].errMsg
  BY <1>2, <1>3, <1>4, MoreChanges DEF OpenTruthful
<1>7. "manual" \in cur'.found => "manual" \in cur.found
  BY <1>4
<1> QED
  BY <1>1, <1>4, <1>5, <1>6, <1>7 DEF OpenTruthful, QueueTruthful

\* What converting a document adds to the queue: its items, in order.
LEMMA QueueShape ==
  ASSUME ProcessOK, ConvertDocument, NEW items,
         items = Emitted(ThisDoc, Transform(ThisDoc, report.target))
  PROVE  /\ DOMAIN outs \subseteq DOMAIN outs'
         /\ \A i \in DOMAIN outs : outs'[i] = outs[i]
         /\ \A k \in DOMAIN items :
              /\ Len(outs) + k \in DOMAIN outs'
              /\ outs'[Len(outs) + k].raw = items[k].raw
              /\ outs'[Len(outs) + k].manual = items[k].manual
              /\ outs'[Len(outs) + k].change = Len(cur.changes) + 1
         /\ \A i \in DOMAIN outs' :
              i \in DOMAIN outs \/ \E k \in DOMAIN items : i = Len(outs) + k
<1> DEFINE n      == Len(cur.changes) + 1
           out(i) == [raw |-> items[i].raw, manual |-> items[i].manual,
                      change |-> n]
           more   == [i \in DOMAIN items |-> out(i)]
<1>1. /\ ThisDoc \in Doc /\ Transform(ThisDoc, report.target) \in Outcome
      /\ outs \in Seq(OutputDoc)
  BY ThisDocType DEF ConvertDocument, ProcessOK
<1>2. items \in Seq(Item)
  BY <1>1, EmittedType
<1>3. outs' = outs \o more
  BY Zenon DEF ConvertDocument
<1> HIDE DEF n
<1>4. more \in Seq([raw: {items[i].raw : i \in DOMAIN items},
                    manual: {items[i].manual : i \in DOMAIN items},
                    change: {n}])
      /\ DOMAIN more = DOMAIN items
  <2> DEFINE T == [raw: {items[i].raw : i \in DOMAIN items},
                   manual: {items[i].manual : i \in DOMAIN items},
                   change: {n}]
  <2>1. \A i \in DOMAIN items : out(i) \in T
    OBVIOUS
  <2> HIDE DEF out, T
  <2>2. more \in Seq(T) /\ DOMAIN more = DOMAIN items
    BY <1>2, <2>1, MapType
  <2> QED
    BY <2>2 DEF T, out
<1>5. \A k \in DOMAIN items : more[k] = out(k)
  OBVIOUS
<1> HIDE DEF more, out
<1>6. /\ DOMAIN outs = 1..Len(outs) /\ DOMAIN more = 1..Len(more)
      /\ Len(outs) \in Nat /\ Len(more) \in Nat
      /\ DOMAIN (outs \o more) = 1..(Len(outs) + Len(more))
  BY <1>1, <1>4
<1>7. \A i \in DOMAIN outs : (outs \o more)[i] = outs[i]
  BY <1>1, <1>4
<1>8. \A k \in DOMAIN more : (outs \o more)[Len(outs) + k] = more[k]
  <2> SUFFICES ASSUME NEW k \in DOMAIN more
               PROVE  (outs \o more)[Len(outs) + k] = more[k]
    OBVIOUS
  <2> DEFINE i == Len(outs) + k
  <2>1. i \in 1..(Len(outs) + Len(more)) /\ ~(i <= Len(outs))
        /\ i - Len(outs) = k
    BY <1>6
  <2> HIDE DEF i
  <2>2. (outs \o more)[i] = more[i - Len(outs)]
    BY <1>1, <1>4, <2>1
  <2> QED
    BY <2>1, <2>2 DEF i
<1>9. \A k \in DOMAIN items :
        Len(outs) + k \in DOMAIN outs' /\ outs'[Len(outs) + k] = out(k)
  <2> SUFFICES ASSUME NEW k \in DOMAIN items
               PROVE  Len(outs) + k \in DOMAIN outs'
                      /\ outs'[Len(outs) + k] = out(k)
    OBVIOUS
  <2>1. k \in 1..Len(more)
    BY <1>4, <1>6
  <2>2. Len(outs) + k \in 1..(Len(outs) + Len(more))
    BY <1>6, <2>1
  <2> QED
    BY <1>3, <1>4, <1>5, <1>6, <1>8, <2>2, Zenon
<1>10. \A k \in DOMAIN items :
         /\ out(k).raw = items[k].raw /\ out(k).manual = items[k].manual
         /\ out(k).change = n
  BY DEF out
<1>11. \A i \in DOMAIN outs' :
         i \in DOMAIN outs \/ \E k \in DOMAIN items : i = Len(outs) + k
  <2> SUFFICES ASSUME NEW i \in DOMAIN outs', i \notin DOMAIN outs
               PROVE  \E k \in DOMAIN items : i = Len(outs) + k
    OBVIOUS
  <2>1. i - Len(outs) \in DOMAIN items /\ i = Len(outs) + (i - Len(outs))
    BY <1>3, <1>4, <1>6
  <2> QED
    BY <2>1
<1>12. \A k \in DOMAIN items :
         /\ Len(outs) + k \in DOMAIN outs'
         /\ outs'[Len(outs) + k].raw = items[k].raw
         /\ outs'[Len(outs) + k].manual = items[k].manual
         /\ outs'[Len(outs) + k].change = n
  BY <1>9, <1>10
<1> QED
  BY <1>3, <1>6, <1>7, <1>11, <1>12 DEF n

\* Converting a document keeps the open file truthful.
LEMMA ConvertTruthful ==
  ASSUME ProcessOK, OpenTruthful(cur), QueueTruthful(cur, outs),
         ConvertDocument
  PROVE  OpenTruthful(cur') /\ QueueTruthful(cur', outs')
<1> DEFINE o     == Transform(ThisDoc, report.target)
           items == Emitted(ThisDoc, o)
           c     == ChangeOf(ThisDoc, o)
<1>1. /\ phase = "docs"
      /\ cur' = [cur EXCEPT !.changes  = Append(@, c),
                            !.hasError = @ \/ c.errMsg,
                            !.found    = @ \union ScenarioVerdict(c)
                                           \union ManualVerdict(c, items)]
  BY DEF ConvertDocument
<1>2. /\ ThisDoc \in Doc /\ o \in Outcome /\ report \in Report
      /\ cur \in FileReport /\ cur.changes \in Seq(Change)
      /\ cur.file \in InputFile /\ next \in DOMAIN cur.file.docs
  BY <1>1, ThisDocType DEF ProcessOK
<1>3. c \in Change
  BY <1>2, ChangeType
<1>4. \A i \in DOMAIN items :
        ~items[i].manual =>
          c.errMsg \/ ScenarioVerdict(c) \cap Changing # {}
            \/ items[i].raw = ThisDoc
  BY <1>2, EmittedTells
<1>5. Strip(ThisDoc) \in Own(cur)
  BY <1>2 DEF Own, ThisDoc
<1> HIDE DEF o
<1>6. items = Emitted(ThisDoc, Transform(ThisDoc, report.target))
  BY DEF o
<1>7. /\ DOMAIN outs \subseteq DOMAIN outs'
      /\ \A i \in DOMAIN outs : outs'[i] = outs[i]
      /\ \A k \in DOMAIN items :
           /\ Len(outs) + k \in DOMAIN outs'
           /\ outs'[Len(outs) + k].raw = items[k].raw
           /\ outs'[Len(outs) + k].manual = items[k].manual
      /\ \A i \in DOMAIN outs' :
           i \in DOMAIN outs \/ \E k \in DOMAIN items : i = Len(outs) + k
  <2> HIDE DEF items
  <2>1. /\ DOMAIN outs \subseteq DOMAIN outs'
        /\ \A i \in DOMAIN outs : outs'[i] = outs[i]
        /\ \A i \in DOMAIN outs' :
             i \in DOMAIN outs \/ \E k \in DOMAIN items : i = Len(outs) + k
    BY <1>6, QueueShape
  <2>2. \A k \in DOMAIN items :
          /\ Len(outs) + k \in DOMAIN outs'
          /\ outs'[Len(outs) + k].raw = items[k].raw
          /\ outs'[Len(outs) + k].manual = items[k].manual
    BY <1>6, QueueShape
  <2> QED
    BY <2>1, <2>2
<1> HIDE DEF c, items
<1>8. /\ cur'.changes = Append(cur.changes, c) /\ cur'.file = cur.file
      /\ cur'.hasError = (cur.hasError \/ c.errMsg)
      /\ cur'.found = (cur.found \union ScenarioVerdict(c))
                        \union ManualVerdict(c, items)
      /\ cur'.apply = cur.apply /\ cur.hasError \in BOOLEAN
  BY <1>1, <1>2 DEF FileReport
<1>9. Own(cur') = Own(cur)
  BY <1>8 DEF Own
<1>10. Untouched(cur') => /\ Untouched(cur) /\ ~c.errMsg
                         /\ ScenarioVerdict(c) \cap Changing = {}
  BY <1>8 DEF Untouched
<1>11. ~cur'.hasError => \A j \in DOMAIN cur'.changes : ~cur'.changes[j].errMsg
  BY <1>2, <1>3, <1>8, MoreChanges DEF OpenTruthful
<1>12. ASSUME Untouched(cur'), NEW i \in DOMAIN outs', ~outs'[i].manual
       PROVE  Strip(outs'[i].raw) \in Own(cur')
  <2>1. CASE i \in DOMAIN outs
    BY <1>7, <1>9, <1>10, <1>12, <2>1 DEF QueueTruthful
  <2>2. CASE \E k \in DOMAIN items : i = Len(outs) + k
    <3>1. PICK k \in DOMAIN items : i = Len(outs) + k
      BY <2>2
    <3>2. ~items[k].manual /\ outs'[i].raw = items[k].raw
      BY <1>7, <1>12, <3>1
    <3> QED
      BY <1>4, <1>5, <1>9, <1>10, <1>12, <3>2
  <2> QED
    BY <1>7, <2>1, <2>2
<1>13. ASSUME "manual" \in cur'.found
       PROVE  \E i \in DOMAIN outs' : outs'[i].manual
  <2>1. CASE "manual" \in cur.found
    BY <1>7, <2>1 DEF QueueTruthful
  <2>2. CASE "manual" \in ScenarioVerdict(c) \union ManualVerdict(c, items)
    BY <1>3, <1>7, <2>2, ManualTells
  <2> QED
    BY <1>8, <1>13, <2>1, <2>2
<1>14. Untouched(cur') => \A k \in DOMAIN cur'.apply : cur'.apply[k].raw \in Own(cur')
  BY <1>8, <1>9, <1>10 DEF OpenTruthful
<1> QED
  BY <1>11, <1>12, <1>13, <1>14 DEF OpenTruthful, QueueTruthful

\* Every step keeps the labels truthful.
LEMMA LabelStep ==
  ASSUME TypeOK, LabelInv, [Next]_vars
  PROVE  LabelInv'
<1>1. /\ report \in Report /\ cur \in FileReport /\ ProcessOK
      /\ \A i \in DOMAIN report.files : Truthful(report.files[i])
      /\ OpenTruthful(cur) /\ QueueTruthful(cur, outs) /\ LoopTruthful
  BY DEF TypeOK, ProcessOK, LabelInv
<1> DEFINE Closed == \A i \in DOMAIN report'.files : Truthful(report'.files[i])
           Open2  == OpenTruthful(cur') /\ QueueTruthful(cur', outs')
<1> SUFFICES Closed /\ Open2 /\ LoopTruthful'
  BY DEF LabelInv, Truthful, Own, OpenTruthful, QueueTruthful, Untouched
<1>2. ASSUME NEW rep \in Report, NEW fr, Return(rep, fr), Truthful(fr),
             rep.files = report.files
      PROVE  Closed /\ Open2 /\ LoopTruthful'
  <2>1. report' = Counted(rep, fr) /\ cur' = NewFileReport(NoFile)
        /\ outs' = <<>> /\ phase' = "walk"
    BY <1>2 DEF Return
  <2>2. \A i \in DOMAIN rep.files : Truthful(rep.files[i])
    BY <1>1, <1>2
  <2>3. Closed
    BY <1>2, <2>1, <2>2, CountedTruthful
  <2>4. Open2
    BY <2>1, NewTruthful
  <2> QED
    BY <2>1, <2>3, <2>4 DEF LoopTruthful
<1>3. ASSUME cur' = NewFileReport(NoFile), outs' = <<>>, phase' # "write",
             NEW t, NEW d, report' = NewReport(t, d)
      PROVE  Closed /\ Open2 /\ LoopTruthful'
  BY <1>3, NewTruthful DEF LoopTruthful
<1>4. ASSUME ProcessGone PROVE Closed /\ Open2 /\ LoopTruthful'
  <2>1. cur' = NewFileReport(NoFile) /\ outs' = <<>> /\ phase' = "idle"
    BY <1>4, Zenon DEF ProcessGone
  <2>2. report' = NewReport("v2", FALSE) /\ phase' # "write"
    BY <1>4, <2>1, Zenon DEF ProcessGone
  <2> QED
    BY <1>3, <2>1, <2>2, Zenon
<1>5. ASSUME report'.files = report.files PROVE Closed
  BY <1>1, <1>5
<1>6. ASSUME Walking
      PROVE  /\ Visited \in Report /\ Visited.files = report.files
             /\ NewFileReport(tree[at]) \in FileReport
  BY <1>1, <1>6, VisitedType, FreshTypes DEF Visited, Report, TypeOK
<1>7. ASSUME NEW t \in Targets, NEW d \in Modes, NEW m \in MeshFilters,
             Start(t, d, m)
      PROVE  Closed /\ Open2 /\ LoopTruthful'
  BY <1>3, <1>7 DEF Start
<1>8. CASE PassOver
  BY <1>1, <1>5, <1>8 DEF PassOver, Walking, LoopTruthful
<1>9. CASE CannotRead
  <2> DEFINE fr == [NewFileReport(tree[at]) EXCEPT
                      !.hasError = TRUE, !.unread = TRUE, !.label = "ERROR"]
  <2>1. Walking /\ Return(Visited, fr)
    BY <1>9, Zenon DEF CannotRead
  <2>2. fr.label = "ERROR"
    BY DEF NewFileReport
  <2> HIDE DEF fr
  <2>3. Truthful(fr)
    BY <2>2 DEF Truthful, LabelsIn
  <2> QED
    BY <1>2, <1>6, <2>1, <2>3
<1>10. CASE OpenEmpty
  <2>1. Walking /\ Return(Visited, NewFileReport(tree[at]))
    BY <1>10, Zenon DEF OpenEmpty
  <2> QED
    BY <1>2, <1>6, <2>1, NewTruthful
<1>11. CASE Open
  <2>1. Walking /\ report' = Visited /\ cur' = NewFileReport(tree[at])
        /\ outs' = <<>> /\ phase' = "docs"
    BY <1>11 DEF Open
  <2> QED
    BY <1>5, <1>6, <2>1, NewTruthful DEF LoopTruthful
<1>12. CASE SkipDocument \/ ConvertDocument
  <2>1. NextDocument /\ phase = "docs"
    BY <1>12, Zenon DEF SkipDocument, ConvertDocument
  <2>2. Open2
    BY <1>1, <1>12, SkipTruthful, ConvertTruthful
  <2>3. Closed
    BY <1>5, <2>1 DEF NextDocument
  <2>4. LoopTruthful'
    <3> SUFFICES ASSUME phase' = "write"
                 PROVE  next' <= Len(outs') + 1
                        /\ \A i \in DOMAIN outs' : ~(i < next')
      BY DEF LoopTruthful
    <3>1. next' = 1
      <4>1. next \in Nat
        BY <1>1 DEF ProcessOK
      <4> QED
        BY <2>1, <4>1 DEF NextDocument
    <3>2. outs' \in Seq(OutputDoc)
      BY <1>1, <1>12, SkipType, ConvertType DEF ProcessOK
    <3> QED
      BY <3>1, <3>2
  <2> QED
    BY <2>2, <2>3, <2>4
<1>13. CASE WriteOutput
  <2>1. /\ Writing /\ cur' = Recorded /\ next' = next + 1
        /\ UNCHANGED <<outs, report, phase>>
    BY <1>13 DEF WriteOutput
  <2>2. Open2
    BY <1>1, <2>1, RecordedTruthful
  <2>3. /\ next \in Nat /\ outs \in Seq(OutputDoc) /\ next \in DOMAIN outs
        /\ phase = "write"
    BY <1>1, <2>1 DEF ProcessOK, Writing
  <2>4. \A i \in DOMAIN outs : i < next + 1 /\ outs[i].manual
                                 => Recorded.manual # <<>>
    <3> SUFFICES ASSUME NEW i \in DOMAIN outs, i < next + 1, outs[i].manual
                 PROVE  Recorded.manual # <<>>
      OBVIOUS
    <3>1. i = next \/ i < next
      BY <2>3
    <3> QED
      BY <1>1, <2>1, <2>3, <3>1, RecordedTruthful DEF LoopTruthful
  <2>5. next + 1 <= Len(outs) + 1
    BY <2>3
  <2> QED
    BY <1>5, <2>1, <2>2, <2>4, <2>5 DEF LoopTruthful
<1>14. CASE WriteFails
  <2> DEFINE fr == [Recorded EXCEPT !.hasError = TRUE, !.label = "ERROR"]
  <2>1. Writing /\ Return(report, fr)
    BY <1>14, Zenon DEF WriteFails
  <2>2. Recorded \in FileReport
    BY <2>1, HereType DEF TypeOK
  <2>3. fr.label = "ERROR"
    BY <2>2 DEF FileReport
  <2> HIDE DEF fr
  <2>4. Truthful(fr)
    BY <2>3 DEF Truthful, LabelsIn
  <2> QED
    BY <1>1, <1>2, <2>1, <2>4
<1>15. CASE CloseFile
  <2> DEFINE fr == [cur EXCEPT !.label = FinalLabel(cur)]
  <2>1. phase = "write" /\ next \notin DOMAIN outs /\ Return(report, fr)
    BY <1>15, Zenon DEF CloseFile
  <2>2. /\ fr.label = FinalLabel(cur) /\ fr.changes = cur.changes
        /\ fr.apply = cur.apply /\ fr.manual = cur.manual
        /\ fr.file = cur.file
    BY <1>1 DEF FileReport
  <2> HIDE DEF fr
  <2>3. "manual" \in cur.found => cur.manual # <<>>
    <3> SUFFICES ASSUME "manual" \in cur.found PROVE cur.manual # <<>>
      OBVIOUS
    <3>1. PICK i \in DOMAIN outs : outs[i].manual
      BY <1>1 DEF QueueTruthful
    <3>2. i < next
      <4>1. outs \in Seq(OutputDoc) /\ next \in Nat \ {0}
        BY <1>1 DEF ProcessOK
      <4> QED
        BY <1>1, <2>1, <4>1 DEF LoopTruthful
    <3> QED
      BY <1>1, <2>1, <3>1, <3>2 DEF LoopTruthful
  <2>4. Own(fr) = Own(cur)
    BY <2>2 DEF Own
  <2>5. Truthful(fr)
    BY <1>1, <2>2, <2>3, <2>4, FinalLabelMeans DEF Truthful, OpenTruthful
  <2> QED
    BY <1>1, <1>2, <2>1, <2>5
<1>16. CASE Publish \/ PublishFails \/ WalkAborts \/ Killed
  <2>1. ProcessGone
    BY <1>16, Zenon DEF Publish, PublishFails, WalkAborts, Killed
  <2> QED
    BY <1>4, <2>1
<1>17. CASE UNCHANGED vars
  BY <1>1, <1>17 DEF vars, LoopTruthful
<1> QED
  BY <1>7, <1>8, <1>9, <1>10, <1>11, <1>12, <1>13, <1>14, <1>15, <1>16,
     <1>17, Zenon DEF Next, Step, Progress, Failure

\* No label is given at the start.
LEMMA LabelInit == Init => LabelInv
<1> SUFFICES ASSUME Init PROVE LabelInv
  OBVIOUS
<1>1. /\ report = NewReport("v2", FALSE) /\ cur = NewFileReport(NoFile)
      /\ outs = <<>> /\ phase = "idle"
  BY Zenon DEF Init
<1>2. LoopTruthful
  BY <1>1 DEF LoopTruthful
<1> QED
  BY <1>1, <1>2, NewTruthful, Zenon DEF LabelInv

(***************************************************************************)
(* The label of every file tells the truth, whatever mixture of documents  *)
(* the file holds and however the transform treats them.                   *)
(***************************************************************************)
THEOREM LabelsTruthful == Spec => []LabelTellsTheTruth
<1>1. LabelInv => LabelTellsTheTruth
  BY LabelForm DEF LabelInv
<1> QED
  BY <1>1, TypeCorrect, LabelInit, LabelStep, PTL DEF Spec

-----------------------------------------------------------------------------
(***************************************************************************)
(* Nothing is silently lost: NothingLost and RerunRepairs.                 *)
(***************************************************************************)

-----------------------------------------------------------------------------
(***************************************************************************)
(* Who wrote what.                                                         *)
(***************************************************************************)

\* The outputs recorded so far, by path.
Writers == [p \in Path |-> WritersOf(p)]

Sole(S) == \A v, w \in S : v = w

\* Path p exists, and holds raw if it was recorded once.
Holds(D, W, p, raw) == p \in DOMAIN D /\ (Sole(W[p]) => D[p] = raw)

(***************************************************************************)
(* The output directory and the records of a step: what is recorded stays  *)
(* recorded, and only a path that is recorded once more may change.        *)
(***************************************************************************)
Later(D, W, E, V) ==
  \A p \in Path :
    /\ W[p] \subseteq V[p]
    /\ p \in DOMAIN D =>
         p \in DOMAIN E /\ (E[p] = D[p] \/ ~(V[p] \subseteq W[p]))

\* A path that is recorded holds what it held, or was recorded twice.
LEMMA HoldsLater ==
  ASSUME NEW D, NEW W, NEW E, NEW V, Later(D, W, E, V),
         NEW p \in Path, NEW raw, W[p] # {}, Holds(D, W, p, raw)
  PROVE  Holds(E, V, p, raw)
<1>1. /\ W[p] \subseteq V[p] /\ p \in DOMAIN D /\ p \in DOMAIN E
      /\ E[p] = D[p] \/ ~(V[p] \subseteq W[p])
  BY DEF Later, Holds
<1>2. ASSUME Sole(V[p]) PROVE V[p] \subseteq W[p] /\ Sole(W[p])
  BY <1>1, <1>2 DEF Sole
<1> QED
  BY <1>1, <1>2 DEF Holds

\* The documents that must stand unconverted under _manual.
Special(c) == (c.errMsg /\ ~c.rejected) \/ c.deleteBeforeV3

ManualPaths(fr) == {fr.manual[k] : k \in DOMAIN fr.manual}

(***************************************************************************)
(* What a file report records stands in the output directory, converted or *)
(* not, unless a later output took the path.                               *)
(***************************************************************************)
ChangeKept(c, paths, D, W) ==
  \A x \in DOMAIN c.manual :
    /\ c.manual[x] \in paths
    /\ Special(c) => Holds(D, W, c.manual[x], Strip(c.doc))

Kept(fr, D, W) ==
  /\ \A k \in DOMAIN fr.apply : Holds(D, W, fr.apply[k].path, fr.apply[k].raw)
  /\ \A j \in DOMAIN fr.changes :
       ChangeKept(fr.changes[j], ManualPaths(fr), D, W)

\* The paths of a file report.
LEMMA ReportPaths ==
  ASSUME NEW fr \in FileReport
  PROVE  /\ \A k \in DOMAIN fr.apply :
              fr.apply[k].path \in Path /\ Claims(fr, fr.apply[k].path) # {}
         /\ \A p \in ManualPaths(fr) : p \in Path /\ Claims(fr, p) # {}
<1>1. fr.apply \in Seq(Output) /\ fr.manual \in Seq(Path)
  BY DEF FileReport
<1>2. \A k \in DOMAIN fr.apply : fr.apply[k].path \in Path
  <2>1. \A k \in DOMAIN fr.apply : fr.apply[k] \in Output
    BY <1>1, ElementType
  <2> QED
    BY <2>1 DEF Output
<1>3. \A k \in DOMAIN fr.apply :
        <<"apply", k>> \in Claims(fr, fr.apply[k].path)
  BY DEF Claims
<1>4. \A k \in DOMAIN fr.manual :
        fr.manual[k] \in Path /\ <<"manual", k>> \in Claims(fr, fr.manual[k])
  BY <1>1, ElementType DEF Claims
<1> QED
  BY <1>2, <1>3, <1>4 DEF ManualPaths

\* A file report whose outputs are on record stays kept.
LEMMA KeptLater ==
  ASSUME NEW D, NEW W, NEW E, NEW V, Later(D, W, E, V),
         NEW fr \in FileReport, Kept(fr, D, W),
         \A p \in Path : Claims(fr, p) # {} => W[p] # {}
  PROVE  Kept(fr, E, V)
<1>1. \A k \in DOMAIN fr.apply :
        Holds(E, V, fr.apply[k].path, fr.apply[k].raw)
  BY ReportPaths, HoldsLater DEF Kept
<1>2. ASSUME NEW j \in DOMAIN fr.changes
      PROVE  ChangeKept(fr.changes[j], ManualPaths(fr), E, V)
  <2>1. ChangeKept(fr.changes[j], ManualPaths(fr), D, W)
    BY DEF Kept
  <2> QED
    BY <2>1, ReportPaths, HoldsLater DEF ChangeKept
<1> QED
  BY <1>1, <1>2 DEF Kept

-----------------------------------------------------------------------------
(***************************************************************************)
(* The records of each step.                                               *)
(***************************************************************************)

\* The records when fr is the open file.
WritersWith(fs, fr, p) ==
  (UNION {{i} \X Claims(fs[i], p) : i \in DOMAIN fs})
    \union ({Len(fs) + 1} \X Claims(fr, p))

\* The outputs of a closed file, and of the open one, are on record.
LEMMA OnRecord ==
  ASSUME NEW p \in Path
  PROVE  /\ Writers[p] = WritersWith(report.files, cur, p)
         /\ \A i \in DOMAIN report.files :
              Claims(report.files[i], p) # {} => Writers[p] # {}
         /\ Claims(cur, p) # {} => Writers[p] # {}
<1>1. Writers[p] = WritersWith(report.files, cur, p)
  BY DEF Writers, WritersOf, WritersWith
<1>2. ASSUME NEW i \in DOMAIN report.files, NEW c \in Claims(report.files[i], p)
      PROVE  <<i, c>> \in WritersWith(report.files, cur, p)
  <2>1. <<i, c>> \in {i} \X Claims(report.files[i], p)
    OBVIOUS
  <2> QED
    BY <2>1 DEF WritersWith
<1>3. ASSUME NEW c \in Claims(cur, p)
      PROVE  <<Len(report.files) + 1, c>> \in WritersWith(report.files, cur, p)
  <2>1. \A n, S : <<n, c>> \in S \union ({n} \X Claims(cur, p))
    OBVIOUS
  <2> DEFINE S == UNION {{i} \X Claims(report.files[i], p) :
                           i \in DOMAIN report.files}
             n == Len(report.files) + 1
  <2>2. WritersWith(report.files, cur, p) = S \union ({n} \X Claims(cur, p))
    BY Zenon DEF WritersWith
  <2> HIDE DEF S, n
  <2>3. <<n, c>> \in WritersWith(report.files, cur, p)
    BY <2>1, <2>2
  <2> QED
    BY <2>3 DEF n
<1> QED
  BY <1>1, <1>2, <1>3

\* One more set in a union.
LEMMA UnionAdd == \A S, T : UNION (S \union {T}) = (UNION S) \union T
<1> SUFFICES ASSUME NEW S, NEW T
             PROVE  UNION (S \union {T}) = (UNION S) \union T
  OBVIOUS
<1> DEFINE A == UNION (S \union {T})
           B == (UNION S) \union T
<1>1. \A x : x \in A <=> x \in B
  OBVIOUS
<1> HIDE DEF A, B
<1>2. A = B
  BY <1>1
<1> QED
  BY <1>2 DEF A, B

\* Closing a file moves its outputs from the open to the closed ones.
LEMMA ClosingKeepsWriters ==
  ASSUME NEW rep \in Report, NEW fr, NEW p, NEW f
  PROVE  WritersWith(Counted(rep, fr).files, NewFileReport(f), p)
           = WritersWith(rep.files, fr, p)
<1> DEFINE n    == Len(rep.files)
           more == Append(rep.files, fr)
<1>1. rep.files \in Seq(FileReport) /\ n \in Nat /\ DOMAIN rep.files = 1..n
  BY DEF Report
<1>2. Counted(rep, fr).files = more
  BY DEF Counted, Report
<1>3. /\ DOMAIN more = 1..(n + 1) /\ more[n + 1] = fr
      /\ \A i \in 1..n : more[i] = rep.files[i]
  BY <1>1
<1>4. Claims(NewFileReport(f), p) = {}
  BY DEF Claims, NewFileReport
<1> HIDE DEF more
<1>5. UNION {{i} \X Claims(more[i], p) : i \in DOMAIN more}
        = (UNION {{i} \X Claims(rep.files[i], p) : i \in 1..n})
            \union ({n + 1} \X Claims(fr, p))
  <2>1. 1..(n + 1) = 1..n \union {n + 1}
    BY <1>1
  <2>2. {{i} \X Claims(more[i], p) : i \in 1..(n + 1)}
          = {{i} \X Claims(rep.files[i], p) : i \in 1..n}
              \union {{n + 1} \X Claims(fr, p)}
    BY <1>3, <2>1
  <2> DEFINE old  == {{i} \X Claims(rep.files[i], p) : i \in 1..n}
             last == {n + 1} \X Claims(fr, p)
  <2>3. UNION (old \union {last}) = (UNION old) \union last
    BY UnionAdd, Zenon
  <2> QED
    BY <1>3, <2>2, <2>3
<1>6. \A k, S : S \union ({k} \X {}) = S
  OBVIOUS
<1>7. WritersWith(more, NewFileReport(f), p)
        = UNION {{i} \X Claims(more[i], p) : i \in DOMAIN more}
  BY <1>4, <1>6, Zenon DEF WritersWith
<1>8. WritersWith(rep.files, fr, p)
        = (UNION {{i} \X Claims(rep.files[i], p) : i \in 1..n})
            \union ({n + 1} \X Claims(fr, p))
  BY <1>1, Zenon DEF WritersWith
<1> QED
  BY <1>2, <1>5, <1>7, <1>8, Zenon

\* Claims depend on the recorded paths only.
LEMMA SameClaims ==
  ASSUME NEW fr, NEW gr, fr.apply = gr.apply, fr.manual = gr.manual
  PROVE  /\ \A p : Claims(fr, p) = Claims(gr, p)
         /\ \A fs, p : WritersWith(fs, fr, p) = WritersWith(fs, gr, p)
BY DEF Claims, WritersWith

-----------------------------------------------------------------------------
(***************************************************************************)
(* What a document owes to the manual tree.                                *)
(***************************************************************************)

\* The original of a special document is queued, alone; a rejected one
\* queues something manual (the outcome switch of processFile).
LEMMA EmittedOwes ==
  ASSUME NEW d \in Doc, report \in Report
  PROVE  LET o == Transform(d, report.target)
             c == ChangeOf(d, o)
             items == Emitted(d, o)
         IN  /\ c.doc = d /\ c.manual = <<>>
             /\ Special(c) => /\ DOMAIN items = {1}
                              /\ items[1].manual /\ items[1].raw = d
             /\ c.rejected => \E k \in DOMAIN items : items[k].manual
<1> DEFINE o == Transform(d, report.target)
           c == ChangeOf(d, o)
           items == Emitted(d, o)
           gateway == V3 /\ IsDefaultGatewayTimeout(d)
<1>1. report.target \in {"v2", "v3"}
  BY DEF Report
<1>2. o \in Outcome
  BY <1>1, TransformAssumption
<1>3. o.err = "rejected" => o.refused \subseteq DOMAIN o.results
  BY <1>1, RejectionAssumption
<1> HIDE DEF o
<1>4. o.results \in Seq(Doc) /\ o.err \in {"none", "error", "rejected"}
  BY <1>2 DEF Outcome
<1>5. /\ c.doc = d /\ c.manual = <<>>
      /\ c.errMsg = (~gateway /\ o.err # "none")
      /\ c.rejected = (~gateway /\ o.err = "rejected")
      /\ c.deleteBeforeV3 = gateway
  BY DEF ChangeOf
<1> HIDE DEF c
<1> DEFINE original == <<[raw |-> d, manual |-> TRUE]>>
<1>6. DOMAIN original = {1} /\ original[1].manual /\ original[1].raw = d
  OBVIOUS
<1>7. CASE gateway
  <2>1. items = original
    BY <1>7, Zenon DEF Emitted
  <2> HIDE DEF original, items, gateway
  <2>2. ~c.rejected
    BY <1>5, <1>7
  <2> QED
    BY <1>5, <1>6, <2>1, <2>2 DEF o, c, items
<1>8. CASE ~gateway /\ o.err = "error"
  <2>1. items = original
    BY <1>8 DEF Emitted
  <2> HIDE DEF original, items, gateway
  <2>2. ~c.rejected
    BY <1>5, <1>8
  <2> QED
    BY <1>5, <1>6, <2>1, <2>2 DEF o, c, items
<1>9. CASE ~gateway /\ o.err = "none"
  <2>1. ~Special(c) /\ ~c.rejected
    BY <1>5, <1>9 DEF Special
  <2> QED
    BY <1>5, <2>1 DEF o, c
<1>10. CASE ~gateway /\ o.err = "rejected"
  <2>1. ~Special(c) /\ c.rejected
    BY <1>5, <1>10 DEF Special
  <2>2. \E k \in DOMAIN items : items[k].manual
    <3>1. CASE o.results = <<>>
      <4> DEFINE m    == o.refused = {} \/ 1 \in o.refused
                 sole == <<[raw |-> d, manual |-> m]>>
      <4>1. items = sole
        BY <1>10, <3>1, Zenon DEF Emitted
      <4>2. m = TRUE
        BY <1>3, <1>10, <3>1
      <4> HIDE DEF m, items
      <4>3. DOMAIN sole = {1} /\ sole[1].manual
        BY <4>2
      <4> QED
        BY <4>1, <4>3
    <3>2. CASE o.results # <<>>
      <4> DEFINE m == [k \in DOMAIN o.results |->
                         o.refused = {} \/ k \in o.refused]
      <4>1. items = [k \in DOMAIN o.results |->
                       [raw |-> o.results[k], manual |-> m[k]]]
        BY <1>10, <3>2 DEF Emitted
      <4>2. \E k \in DOMAIN o.results : m[k]
        <5>1. 1 \in DOMAIN o.results
          BY <1>4, <3>2
        <5> QED
          BY <1>3, <1>10, <5>1
      <4> HIDE DEF m, items
      <4> QED
        BY <4>1, <4>2
    <3> QED
      BY <3>1, <3>2
  <2> QED
    BY <1>5, <2>1, <2>2 DEF o, c, items
<1> QED
  BY <1>4, <1>7, <1>8, <1>9, <1>10

(***************************************************************************)
(* The debts of a file.  Each special document has exactly one output in   *)
(* the queue, its original for the manual tree, and each rejected one has  *)
(* one for the manual tree; what stands before position done is recorded.  *)
(***************************************************************************)
Debt(c, j, queue, done) ==
  /\ Special(c) =>
       \E i \in DOMAIN queue :
         /\ queue[i].change = j /\ queue[i].manual /\ queue[i].raw = c.doc
         /\ \A x \in DOMAIN queue : queue[x].change = j => x = i
         /\ Len(c.manual) = IF i < done THEN 1 ELSE 0
  /\ c.rejected =>
       \E i \in DOMAIN queue :
         /\ queue[i].change = j /\ queue[i].manual
         /\ i < done => c.manual # <<>>

Debts(fr, queue, done) ==
  \A j \in DOMAIN fr.changes : Debt(fr.changes[j], j, queue, done)

\* Where the output loop stands.
Done == IF phase = "write" THEN next ELSE 1

\* A closed file without a failed write has paid.
Paid(fr) ==
  \A j \in DOMAIN fr.changes :
    LET c == fr.changes[j]
    IN  /\ c.rejected => c.manual # <<>>
        /\ Special(c) => Len(c.manual) = 1

\* Converting a document adds its debt.
LEMMA ConvertOwes ==
  ASSUME ProcessOK, Debts(cur, outs, 1), ConvertDocument
  PROVE  Debts(cur', outs', 1)
<1> DEFINE o     == Transform(ThisDoc, report.target)
           items == Emitted(ThisDoc, o)
           c     == ChangeOf(ThisDoc, o)
           n     == Len(cur.changes) + 1
<1>1. /\ phase = "docs"
      /\ cur' = [cur EXCEPT !.changes  = Append(@, c),
                            !.hasError = @ \/ c.errMsg,
                            !.found    = @ \union ScenarioVerdict(c)
                                           \union ManualVerdict(c, items)]
  BY DEF ConvertDocument
<1>2. /\ ThisDoc \in Doc /\ o \in Outcome /\ report \in Report
      /\ cur \in FileReport /\ cur.changes \in Seq(Change)
      /\ outs \in Seq(OutputDoc)
      /\ \A i \in DOMAIN outs : outs[i].change \in DOMAIN cur.changes
  BY <1>1, ThisDocType DEF ProcessOK
<1>3. /\ c.doc = ThisDoc /\ c.manual = <<>>
      /\ Special(c) => DOMAIN items = {1} /\ items[1].manual
                       /\ items[1].raw = ThisDoc
      /\ c.rejected => \E k \in DOMAIN items : items[k].manual
  BY <1>2, EmittedOwes
<1>4. items \in Seq(Item)
  BY <1>2, EmittedType
<1>5. items = Emitted(ThisDoc, Transform(ThisDoc, report.target))
  OBVIOUS
<1> HIDE DEF o, items, c
<1>6. /\ DOMAIN outs \subseteq DOMAIN outs'
      /\ \A i \in DOMAIN outs : outs'[i] = outs[i]
      /\ \A i \in DOMAIN outs' :
           i \in DOMAIN outs \/ \E k \in DOMAIN items : i = Len(outs) + k
  BY <1>5, QueueShape
<1>7. \A k \in DOMAIN items :
        /\ Len(outs) + k \in DOMAIN outs'
        /\ outs'[Len(outs) + k].raw = items[k].raw
        /\ outs'[Len(outs) + k].manual = items[k].manual
        /\ outs'[Len(outs) + k].change = n
  BY <1>5, QueueShape
<1>8. cur'.changes = Append(cur.changes, c)
  BY <1>1, <1>2 DEF FileReport
<1>9. /\ n \notin DOMAIN cur.changes /\ n \in Nat
      /\ DOMAIN cur'.changes = DOMAIN cur.changes \union {n}
      /\ \A j \in DOMAIN cur.changes : cur'.changes[j] = cur.changes[j]
      /\ cur'.changes[n] = c
  BY <1>2, <1>8
<1>10. Len(outs) \in Nat /\ \A k \in DOMAIN items : k \in Nat \ {0}
  BY <1>2, <1>4
<1> HIDE DEF n
<1>11. ASSUME NEW j \in DOMAIN cur.changes
       PROVE  Debt(cur'.changes[j], j, outs', 1)
  <2>1. Debt(cur.changes[j], j, outs, 1) /\ cur'.changes[j] = cur.changes[j]
        /\ j # n
    BY <1>9 DEF Debts
  <2>2. \A x \in DOMAIN outs' : outs'[x].change = j => x \in DOMAIN outs
    BY <1>6, <1>7, <2>1
  <2> QED
    BY <1>6, <2>1, <2>2 DEF Debt
<1>12. Debt(c, n, outs', 1)
  <2>1. ASSUME Special(c)
        PROVE  \E i \in DOMAIN outs' :
                 /\ outs'[i].change = n /\ outs'[i].manual
                 /\ outs'[i].raw = c.doc
                 /\ \A x \in DOMAIN outs' : outs'[x].change = n => x = i
                 /\ Len(c.manual) = IF i < 1 THEN 1 ELSE 0
    <3> DEFINE i == Len(outs) + 1
    <3>1. DOMAIN items = {1} /\ items[1].manual /\ items[1].raw = ThisDoc
      BY <1>3, <2>1
    <3>2. i \in DOMAIN outs' /\ outs'[i].change = n /\ outs'[i].manual
          /\ outs'[i].raw = c.doc
      BY <1>3, <1>7, <3>1
    <3>3. \A x \in DOMAIN outs' : outs'[x].change = n => x = i
      <4> SUFFICES ASSUME NEW x \in DOMAIN outs', outs'[x].change = n
                   PROVE  x = i
        OBVIOUS
      <4>1. x \notin DOMAIN outs
        BY <1>2, <1>6, <1>9
      <4> QED
        BY <1>6, <3>1, <4>1
    <3>4. ~(i < 1)
      BY <1>10
    <3>5. Len(c.manual) = 0
      BY <1>3
    <3> QED
      BY <3>2, <3>3, <3>4, <3>5
  <2>2. ASSUME c.rejected
        PROVE  \E i \in DOMAIN outs' :
                 /\ outs'[i].change = n /\ outs'[i].manual
                 /\ i < 1 => c.manual # <<>>
    <3>1. PICK k \in DOMAIN items : items[k].manual
      BY <1>3, <2>2
    <3>2. ~(Len(outs) + k < 1)
      BY <1>10
    <3> QED
      BY <1>7, <3>1, <3>2
  <2> QED
    BY <2>1, <2>2 DEF Debt
<1> QED
  BY <1>9, <1>11, <1>12 DEF Debts

\* A skipped document owes nothing.
LEMMA SkipOwes ==
  ASSUME ProcessOK, Debts(cur, outs, 1), SkipDocument
  PROVE  /\ Debts(cur', outs', 1)
         /\ \E c : /\ cur'.changes = Append(cur.changes, c)
                  /\ c.manual = <<>>
<1> DEFINE c == [doc |-> ThisDoc, scenario |-> "skipped",
                 errMsg |-> FALSE, rejected |-> FALSE,
                 deleteBeforeV3 |-> FALSE, rewritten |-> FALSE,
                 warned |-> FALSE, manual |-> <<>>]
<1>1. /\ cur' = [cur EXCEPT !.changes = Append(@, c),
                           !.found = @ \union {"skipped"}]
      /\ phase = "docs" /\ outs' = outs
  BY DEF SkipDocument
<1>2. cur \in FileReport /\ cur.changes \in Seq(Change)
  BY <1>1, ThisDocType
<1>3. ~Special(c) /\ ~c.rejected /\ c.manual = <<>>
  BY DEF Special
<1> HIDE DEF c
<1>4. cur'.changes = Append(cur.changes, c)
  BY <1>1, <1>2 DEF FileReport
<1>5. \A j \in DOMAIN cur'.changes :
        \/ j \in DOMAIN cur.changes /\ cur'.changes[j] = cur.changes[j]
        \/ cur'.changes[j] = c
  BY <1>2, <1>4
<1>6. ASSUME NEW j \in DOMAIN cur'.changes
      PROVE  Debt(cur'.changes[j], j, outs', 1)
  <2>1. CASE j \in DOMAIN cur.changes /\ cur'.changes[j] = cur.changes[j]
    BY <1>1, <2>1 DEF Debts
  <2>2. CASE cur'.changes[j] = c
    BY <1>3, <2>2 DEF Debt
  <2> QED
    BY <1>5, <2>1, <2>2
<1> QED
  BY <1>3, <1>4, <1>6 DEF Debts

\* What recording an output does to the file report.
LEMMA RecordedShape ==
  ASSUME ProcessOK, Writing
  PROVE  /\ outs[next].manual =>
              /\ Recorded.apply = cur.apply
              /\ Recorded.manual = Append(cur.manual, Here)
         /\ ~outs[next].manual =>
              /\ Recorded.apply = Append(cur.apply, [path |-> Here, raw |-> Raw])
              /\ Recorded.manual = cur.manual
         /\ DOMAIN Recorded.changes = DOMAIN cur.changes
         /\ \A j \in DOMAIN cur.changes :
              LET c == cur.changes[j]
                  r == Recorded.changes[j]
              IN  /\ c.manual \in Seq(Path)
                  /\ r.doc = c.doc /\ r.rejected = c.rejected
                  /\ Special(r) <=> Special(c)
                  /\ r.manual = IF outs[next].manual /\ outs[next].change = j
                                THEN Append(c.manual, Here) ELSE c.manual
<1> DEFINE n == outs[next].change
<1>1. /\ cur \in FileReport /\ cur.changes \in Seq(Change)
      /\ n \in DOMAIN cur.changes
  BY HereType DEF ProcessOK, FileReport
<1>2. \A j \in DOMAIN cur.changes : cur.changes[j] \in Change
  BY <1>1, ElementType
<1>3. CASE ~outs[next].manual
  BY <1>1, <1>2, <1>3 DEF Recorded, FileReport, Change
<1>4. CASE outs[next].manual
  <2> DEFINE cs == [cur.changes EXCEPT ![n].manual = Append(@, Here)]
  <2>1. /\ Recorded.changes = cs /\ Recorded.apply = cur.apply
        /\ Recorded.manual = Append(cur.manual, Here)
    BY <1>1, <1>4 DEF Recorded, FileReport
  <2>2. DOMAIN cs = DOMAIN cur.changes
    OBVIOUS
  <2>3. \A j \in DOMAIN cur.changes :
          /\ cur.changes[j].manual \in Seq(Path)
          /\ cs[j].doc = cur.changes[j].doc
          /\ cs[j].rejected = cur.changes[j].rejected
          /\ cs[j].errMsg = cur.changes[j].errMsg
          /\ cs[j].deleteBeforeV3 = cur.changes[j].deleteBeforeV3
          /\ cs[j].manual = IF n = j THEN Append(cur.changes[j].manual, Here)
                            ELSE cur.changes[j].manual
    BY <1>2 DEF Change
  <2> HIDE DEF cs
  <2> QED
    BY <1>4, <2>1, <2>2, <2>3 DEF Special
<1> QED
  BY <1>3, <1>4

\* Recording an output pays its debt.
LEMMA RecordedOwes ==
  ASSUME ProcessOK, Writing, Debts(cur, outs, next)
  PROVE  Debts(Recorded, outs, next + 1)
<1>1. next \in Nat \ {0} /\ next \in DOMAIN outs /\ DOMAIN outs \subseteq Nat
  BY DEF ProcessOK, Writing
<1>2. SUFFICES ASSUME NEW j \in DOMAIN cur.changes
               PROVE  Debt(Recorded.changes[j], j, outs, next + 1)
  BY RecordedShape DEF Debts
<1> DEFINE c == cur.changes[j]
           r == Recorded.changes[j]
<1>3. /\ c.manual \in Seq(Path)
      /\ r.doc = c.doc /\ r.rejected = c.rejected /\ (Special(r) <=> Special(c))
      /\ outs[next].manual /\ outs[next].change = j =>
           r.manual = Append(c.manual, Here)
      /\ ~(outs[next].manual /\ outs[next].change = j) => r.manual = c.manual
  BY RecordedShape
<1>4. Debt(c, j, outs, next)
  BY DEF Debts
<1>5. /\ Len(c.manual) = 0 => Len(Append(c.manual, Here)) = 1
      /\ Append(c.manual, Here) # <<>>
  BY <1>3
<1> HIDE DEF c, r
<1>6. ASSUME Special(r)
      PROVE  \E i \in DOMAIN outs :
               /\ outs[i].change = j /\ outs[i].manual /\ outs[i].raw = r.doc
               /\ \A x \in DOMAIN outs : outs[x].change = j => x = i
               /\ Len(r.manual) = IF i < next + 1 THEN 1 ELSE 0
  <2>1. PICK i \in DOMAIN outs :
          /\ outs[i].change = j /\ outs[i].manual /\ outs[i].raw = c.doc
          /\ \A x \in DOMAIN outs : outs[x].change = j => x = i
          /\ Len(c.manual) = IF i < next THEN 1 ELSE 0
    BY <1>3, <1>4, <1>6 DEF Debt
  <2>2. CASE i = next
    <3>1. Len(r.manual) = 1
      <4>1. r.manual = Append(c.manual, Here)
        BY <1>3, <2>1, <2>2
      <4>2. Len(c.manual) = 0
        BY <1>1, <2>1, <2>2
      <4> QED
        BY <1>5, <4>1, <4>2
    <3>2. i < next + 1
      BY <1>1, <2>2
    <3> QED
      BY <1>3, <2>1, <3>1, <3>2
  <2>3. CASE i # next
    <3>1. r.manual = c.manual
      BY <1>1, <1>3, <2>1, <2>3
    <3>2. i < next <=> i < next + 1
      BY <1>1, <2>3
    <3> QED
      BY <1>3, <2>1, <3>1, <3>2
  <2> QED
    BY <2>2, <2>3
<1>7. ASSUME r.rejected
      PROVE  \E i \in DOMAIN outs :
               /\ outs[i].change = j /\ outs[i].manual
               /\ i < next + 1 => r.manual # <<>>
  <2>1. PICK i \in DOMAIN outs :
          /\ outs[i].change = j /\ outs[i].manual
          /\ i < next => c.manual # <<>>
    BY <1>3, <1>4, <1>7 DEF Debt
  <2>2. i = next => r.manual # <<>>
    BY <1>3, <1>5, <2>1
  <2>3. i < next => r.manual # <<>>
    BY <1>3, <1>5, <2>1
  <2>4. i < next + 1 => i = next \/ i < next
    BY <1>1
  <2> QED
    BY <2>1, <2>2, <2>3, <2>4
<1> QED
  BY <1>6, <1>7 DEF Debt, r

\* At the end of the output loop nothing is owed.
LEMMA DebtsPaid ==
  ASSUME ProcessOK, next \notin DOMAIN outs, Debts(cur, outs, next)
  PROVE  Paid(cur)
<1>1. \A i \in DOMAIN outs : i < next
  BY DEF ProcessOK
<1> QED
  BY <1>1 DEF Debts, Debt, Paid

-----------------------------------------------------------------------------
(***************************************************************************)
(* What a step records stays kept.                                         *)
(***************************************************************************)

\* The records once the output being written is recorded.
WritersThen == [p \in Path |-> WritersWith(report.files, Recorded, p)]

\* A new claim of the open file is a new record.
LEMMA NewClaim ==
  ASSUME report \in Report, NEW p \in Path, NEW c, c \notin Claims(cur, p),
         c \in Claims(Recorded, p)
  PROVE  ~(WritersThen[p] \subseteq Writers[p])
<1> DEFINE n == Len(report.files)
<1>1. n \in Nat /\ DOMAIN report.files = 1..n
  BY DEF Report
<1>2. <<n + 1, c>> \in WritersThen[p]
  <2> DEFINE S == UNION {{i} \X Claims(report.files[i], p) :
                           i \in DOMAIN report.files}
  <2>1. WritersThen[p] = S \union ({n + 1} \X Claims(Recorded, p))
    BY Zenon DEF WritersThen, WritersWith
  <2> HIDE DEF S
  <2>2. \A m : <<m, c>> \in {m} \X Claims(Recorded, p)
    OBVIOUS
  <2> QED
    BY <2>1, <2>2
<1>3. <<n + 1, c>> \notin Writers[p]
  <2> DEFINE S == UNION {{i} \X Claims(report.files[i], p) :
                           i \in DOMAIN report.files}
  <2>1. Writers[p] = S \union ({n + 1} \X Claims(cur, p))
    BY OnRecord, Zenon DEF WritersWith
  <2>2. <<n + 1, c>> \notin S
    <3> SUFFICES ASSUME NEW i \in DOMAIN report.files,
                        <<n + 1, c>> \in {i} \X Claims(report.files[i], p)
                 PROVE  FALSE
      OBVIOUS
    <3>1. n + 1 = i
      OBVIOUS
    <3> QED
      BY <1>1, <3>1
  <2> HIDE DEF S
  <2>3. \A m : <<m, c>> \notin {m} \X Claims(cur, p)
    OBVIOUS
  <2> QED
    BY <2>1, <2>2, <2>3
<1> QED
  BY <1>2, <1>3

\* More claims of the open file leave the records of closed files alone.
LEMMA MoreRecords ==
  ASSUME NEW p \in Path, Claims(cur, p) \subseteq Claims(Recorded, p)
  PROVE  Writers[p] \subseteq WritersThen[p]
<1> DEFINE S == UNION {{i} \X Claims(report.files[i], p) :
                         i \in DOMAIN report.files}
           n == Len(report.files) + 1
<1>1. Writers[p] = S \union ({n} \X Claims(cur, p))
  BY OnRecord, Zenon DEF WritersWith
<1>2. WritersThen[p] = S \union ({n} \X Claims(Recorded, p))
  BY Zenon DEF WritersThen, WritersWith
<1> HIDE DEF S, n
<1>3. \A A, B : A \subseteq B => S \union ({n} \X A) \subseteq S \union ({n} \X B)
  OBVIOUS
<1> QED
  BY <1>1, <1>2, <1>3

\* Recording an output adds one claim, at its path.
LEMMA RecordedClaims ==
  ASSUME ProcessOK, Writing
  PROVE  /\ \A p : Claims(cur, p) \subseteq Claims(Recorded, p)
         /\ \E c : c \in Claims(Recorded, Here) /\ c \notin Claims(cur, Here)
<1>1. /\ cur.apply \in Seq(Output) /\ cur.manual \in Seq(Path)
      /\ Here \in Path /\ Raw \in Doc
  BY HereType DEF ProcessOK, FileReport
<1>2. CASE outs[next].manual
  <2> DEFINE k == Len(cur.manual) + 1
  <2>1. /\ Recorded.apply = cur.apply
        /\ Recorded.manual = Append(cur.manual, Here)
    BY <1>2, RecordedShape
  <2>2. /\ k \notin DOMAIN cur.manual /\ k \in DOMAIN Recorded.manual
        /\ Recorded.manual[k] = Here
        /\ DOMAIN cur.manual \subseteq DOMAIN Recorded.manual
        /\ \A x \in DOMAIN cur.manual : Recorded.manual[x] = cur.manual[x]
    BY <1>1, <2>1
  <2> HIDE DEF k
  <2>3. \A p : Claims(cur, p) \subseteq Claims(Recorded, p)
    BY <2>1, <2>2 DEF Claims
  <2>4. <<"manual", k>> \in Claims(Recorded, Here)
    BY <2>2 DEF Claims
  <2>5. <<"manual", k>> \notin Claims(cur, Here)
    BY <2>2 DEF Claims
  <2> QED
    BY <2>3, <2>4, <2>5
<1>3. CASE ~outs[next].manual
  <2> DEFINE k   == Len(cur.apply) + 1
             out == [path |-> Here, raw |-> Raw]
  <2>1. /\ Recorded.apply = Append(cur.apply, out)
        /\ Recorded.manual = cur.manual
    BY <1>3, RecordedShape
  <2>2. out.path = Here
    OBVIOUS
  <2> HIDE DEF out
  <2>3. /\ k \notin DOMAIN cur.apply /\ k \in DOMAIN Recorded.apply
        /\ Recorded.apply[k] = out
        /\ DOMAIN cur.apply \subseteq DOMAIN Recorded.apply
        /\ \A x \in DOMAIN cur.apply : Recorded.apply[x] = cur.apply[x]
    BY <1>1, <2>1
  <2> HIDE DEF k
  <2>4. \A p : Claims(cur, p) \subseteq Claims(Recorded, p)
    BY <2>1, <2>3 DEF Claims
  <2>5. <<"apply", k>> \in Claims(Recorded, Here)
    BY <2>2, <2>3 DEF Claims
  <2>6. <<"apply", k>> \notin Claims(cur, Here)
    BY <2>3 DEF Claims
  <2> QED
    BY <2>4, <2>5, <2>6
<1> QED
  BY <1>2, <1>3

\* A write that succeeds, or fails and leaves anything at its path.
LEMMA WriteLater ==
  ASSUME ProcessOK, Writing
  PROVE  /\ Later(disk, Writers, disk, WritersThen)
         /\ \A raw : Later(disk, Writers, Put(Here, raw), WritersThen)
<1>1. \A p \in Path : Writers[p] \subseteq WritersThen[p]
  BY RecordedClaims, MoreRecords
<1>2. ~(WritersThen[Here] \subseteq Writers[Here])
  <2>1. report \in Report /\ Here \in Path
    BY HereType DEF ProcessOK
  <2> QED
    BY <2>1, RecordedClaims, NewClaim
<1>3. \A raw, p : p \in DOMAIN disk =>
        /\ p \in DOMAIN Put(Here, raw)
        /\ p # Here => Put(Here, raw)[p] = disk[p]
  BY DEF Put
<1> QED
  BY <1>1, <1>2, <1>3 DEF Later

\* The output just written is kept.
LEMMA RecordedKept ==
  ASSUME ProcessOK, Writing, Debts(cur, outs, next), NEW E, NEW V,
         Kept(cur, E, V), Here \in DOMAIN E, E[Here] = Raw
  PROVE  Kept(Recorded, E, V)
<1>1. /\ cur.apply \in Seq(Output) /\ cur.manual \in Seq(Path)
      /\ cur.changes \in Seq(Change) /\ next \in DOMAIN outs
  BY DEF ProcessOK, FileReport, Writing
<1>2. Holds(E, V, Here, Raw)
  BY DEF Holds
<1>3. \A k \in DOMAIN Recorded.apply :
        Holds(E, V, Recorded.apply[k].path, Recorded.apply[k].raw)
  <2>1. CASE outs[next].manual
    BY <2>1, RecordedShape DEF Kept
  <2>2. CASE ~outs[next].manual
    <3> DEFINE out == [path |-> Here, raw |-> Raw]
    <3>1. Recorded.apply = Append(cur.apply, out)
      BY <2>2, RecordedShape
    <3>2. Holds(E, V, out.path, out.raw)
      BY <1>2
    <3> HIDE DEF out
    <3>3. \A k \in DOMAIN Append(cur.apply, out) :
            \/ k \in DOMAIN cur.apply
               /\ Append(cur.apply, out)[k] = cur.apply[k]
            \/ Append(cur.apply, out)[k] = out
      BY <1>1
    <3> QED
      BY <3>1, <3>2, <3>3 DEF Kept
  <2> QED
    BY <2>1, <2>2
<1>4. /\ ManualPaths(cur) \subseteq ManualPaths(Recorded)
      /\ outs[next].manual => Here \in ManualPaths(Recorded)
  <2>1. CASE outs[next].manual
    <3>1. Recorded.manual = Append(cur.manual, Here)
      BY <2>1, RecordedShape
    <3>2. /\ DOMAIN cur.manual \subseteq DOMAIN Recorded.manual
          /\ \A x \in DOMAIN cur.manual : Recorded.manual[x] = cur.manual[x]
          /\ \E k \in DOMAIN Recorded.manual : Recorded.manual[k] = Here
      BY <1>1, <3>1
    <3> QED
      BY <3>2 DEF ManualPaths
  <2>2. CASE ~outs[next].manual
    BY <2>2, RecordedShape DEF ManualPaths
  <2> QED
    BY <2>1, <2>2
<1>5. ASSUME NEW j \in DOMAIN cur.changes
      PROVE  ChangeKept(Recorded.changes[j], ManualPaths(Recorded), E, V)
  <2> DEFINE c == cur.changes[j]
             r == Recorded.changes[j]
             adds == outs[next].manual /\ outs[next].change = j
  <2>1. /\ c.manual \in Seq(Path) /\ r.doc = c.doc
        /\ Special(r) <=> Special(c)
        /\ adds => r.manual = Append(c.manual, Here)
        /\ ~adds => r.manual = c.manual
    BY RecordedShape
  <2>2. ChangeKept(c, ManualPaths(cur), E, V)
    BY DEF Kept
  <2>3. adds /\ Special(c) => Raw = Strip(c.doc)
    BY <1>1 DEF Debts, Debt, Raw
  <2>4. \A x \in DOMAIN Append(c.manual, Here) :
          \/ x \in DOMAIN c.manual /\ Append(c.manual, Here)[x] = c.manual[x]
          \/ Append(c.manual, Here)[x] = Here
    BY <2>1
  <2> HIDE DEF c, r
  <2>5. CASE adds
    <3> SUFFICES ASSUME NEW x \in DOMAIN r.manual
                 PROVE  /\ r.manual[x] \in ManualPaths(Recorded)
                        /\ Special(r) =>
                             Holds(E, V, r.manual[x], Strip(r.doc))
      BY DEF ChangeKept, r
    <3>1. CASE x \in DOMAIN c.manual /\ r.manual[x] = c.manual[x]
      BY <1>4, <2>1, <2>2, <3>1 DEF ChangeKept
    <3>2. CASE r.manual[x] = Here
      BY <1>2, <1>4, <2>1, <2>3, <2>5, <3>2
    <3> QED
      BY <2>1, <2>4, <2>5, <3>1, <3>2
  <2>6. CASE ~adds
    BY <1>4, <2>1, <2>2, <2>6 DEF ChangeKept, r
  <2> QED
    BY <2>5, <2>6
<1> QED
  BY <1>3, <1>5, RecordedShape DEF Kept

\* A change that has recorded nothing yet is kept.
LEMMA MoreChangesKept ==
  ASSUME NEW fr \in FileReport, NEW gr, NEW c, NEW D, NEW W, Kept(fr, D, W),
         gr.apply = fr.apply, gr.manual = fr.manual,
         gr.changes = Append(fr.changes, c), c.manual = <<>>
  PROVE  Kept(gr, D, W)
<1>1. fr.changes \in Seq(Change)
  BY DEF FileReport
<1>2. \A j \in DOMAIN gr.changes :
        \/ j \in DOMAIN fr.changes /\ gr.changes[j] = fr.changes[j]
        \/ gr.changes[j] = c
  BY <1>1
<1>3. \A paths : ChangeKept(c, paths, D, W)
  BY DEF ChangeKept
<1>4. ManualPaths(gr) = ManualPaths(fr)
  BY DEF ManualPaths
<1> QED
  BY <1>2, <1>3, <1>4 DEF Kept

\* A new file report keeps nothing and owes nothing.
LEMMA NewKept ==
  ASSUME NEW f
  PROVE  /\ \A D, W : Kept(NewFileReport(f), D, W)
         /\ \A queue, done : Debts(NewFileReport(f), queue, done)
         /\ Paid(NewFileReport(f))
         /\ NewFileReport(f).apply = <<>> /\ NewFileReport(f).manual = <<>>
BY DEF NewFileReport, Kept, Debts, Paid

\* The records of other outputs do not matter to the same file report.
LEMMA SameKept ==
  ASSUME NEW fr, NEW gr, fr.apply = gr.apply, fr.manual = gr.manual,
         fr.changes = gr.changes
  PROVE  /\ \A D, W : Kept(fr, D, W) => Kept(gr, D, W)
         /\ Paid(fr) => Paid(gr)
BY DEF Kept, Paid, ManualPaths

-----------------------------------------------------------------------------
(***************************************************************************)
(* The inductive invariant.  It adds to NothingLost the open file: what it *)
(* has recorded is kept, and what it has not is still owed by its queue.   *)
(* Between two files there is no open one.                                 *)
(***************************************************************************)
Good(fr, dry, D, W) ==
  fr.label # "ERROR" => Paid(fr) /\ (~dry => Kept(fr, D, W))

LossInv ==
  /\ \A i \in DOMAIN report.files :
       Good(report.files[i], report.dry, disk, Writers)
  /\ ~report.dry => Kept(cur, disk, Writers)
  /\ Debts(cur, outs, Done)
  /\ phase = "walk" => cur.apply = <<>> /\ cur.manual = <<>>

\* The closed files after a step that only adds records.
LEMMA ClosedLater ==
  ASSUME report \in Report, LossInv, NEW E, NEW V,
         ~report.dry => Later(disk, Writers, E, V)
  PROVE  \A i \in DOMAIN report.files :
           Good(report.files[i], report.dry, E, V)
<1> SUFFICES ASSUME NEW i \in DOMAIN report.files
             PROVE  Good(report.files[i], report.dry, E, V)
  OBVIOUS
<1>1. report.files[i] \in FileReport
  BY ElementType DEF Report
<1>2. Good(report.files[i], report.dry, disk, Writers)
  BY DEF LossInv
<1>3. \A p \in Path : Claims(report.files[i], p) # {} => Writers[p] # {}
  BY OnRecord
<1> QED
  BY <1>1, <1>2, <1>3, KeptLater DEF Good

\* No change of the records, nor of the output directory.
LEMMA SameLater == Later(disk, Writers, disk, Writers)
BY DEF Later

\* The records of the next state.
LEMMA NextWriters ==
  Writers' = [p \in Path |-> WritersWith(report'.files, cur', p)]
BY DEF Writers, WritersOf, WritersWith

\* Returning a file report that is good keeps the invariant.
LEMMA ReturnKeeps ==
  ASSUME LossInv, report \in Report, NEW rep \in Report, NEW fr,
         rep.files = report.files, rep.dry = report.dry, Return(rep, fr),
         NEW V, V = [p \in Path |-> WritersWith(report.files, fr, p)],
         ~report.dry => Later(disk, Writers, disk', V),
         Good(fr, report.dry, disk', V)
  PROVE  LossInv'
<1>1. /\ report' = Counted(rep, fr) /\ cur' = NewFileReport(NoFile)
      /\ phase' = "walk"
  BY DEF Return
<1>2. Writers' = V
  BY <1>1, NextWriters, ClosingKeepsWriters
<1>3. /\ report'.files = Append(report.files, fr)
      /\ report'.dry = report.dry
  BY <1>1 DEF Counted, Report
<1>4. \A i \in DOMAIN report'.files :
        \/ i \in DOMAIN report.files /\ report'.files[i] = report.files[i]
        \/ report'.files[i] = fr
  BY <1>3 DEF Report
<1>5. \A i \in DOMAIN report.files :
        Good(report.files[i], report.dry, disk', V)
  BY ClosedLater
<1>6. \A i \in DOMAIN report'.files :
        Good(report'.files[i], report'.dry, disk', Writers')
  BY <1>2, <1>3, <1>4, <1>5
<1>7. /\ Kept(cur', disk', Writers') /\ cur'.apply = <<>> /\ cur'.manual = <<>>
      /\ Debts(cur', outs', Done')
  BY <1>1, NewKept
<1>8. LossInv' <=>
        /\ \A i \in DOMAIN report'.files :
             Good(report'.files[i], report'.dry, disk', Writers')
        /\ ~report'.dry => Kept(cur', disk', Writers')
        /\ Debts(cur', outs', Done')
        /\ phase' = "walk" => cur'.apply = <<>> /\ cur'.manual = <<>>
  BY DEF LossInv, Good, Kept, Debts, Debt, Paid, ChangeKept, Holds, Sole,
         ManualPaths, Special
<1> QED
  BY <1>6, <1>7, <1>8

\* What the invariant says in the next state.
LEMMA LossForm ==
  LossInv' <=>
    /\ \A i \in DOMAIN report'.files :
         Good(report'.files[i], report'.dry, disk', Writers')
    /\ ~report'.dry => Kept(cur', disk', Writers')
    /\ Debts(cur', outs', Done')
    /\ phase' = "walk" => cur'.apply = <<>> /\ cur'.manual = <<>>
BY DEF LossInv, Good, Kept, Debts, Debt, Paid, ChangeKept, Holds, Sole,
       ManualPaths, Special

\* A run that starts, or a process that is gone, has nothing to keep.
LEMMA FreshKeeps ==
  ASSUME cur' = NewFileReport(NoFile), NEW t, NEW d, report' = NewReport(t, d)
  PROVE  LossInv'
<1>1. DOMAIN report'.files = {}
  BY DEF NewReport
<1>2. /\ Kept(cur', disk', Writers') /\ Debts(cur', outs', Done')
      /\ cur'.apply = <<>> /\ cur'.manual = <<>>
  BY NewKept
<1> QED
  BY <1>1, <1>2, LossForm

\* A step that records nothing and leaves the output directory alone.
LEMMA QuietKeeps ==
  ASSUME LossInv, UNCHANGED disk, report'.files = report.files,
         report'.dry = report.dry, Kept(cur, disk, Writers) => Kept(cur', disk, Writers),
         cur'.apply = cur.apply, cur'.manual = cur.manual,
         Debts(cur', outs', Done'), phase' = "walk" => phase = "walk"
  PROVE  LossInv'
<1>1. Writers' = Writers
  <2>1. \A p \in Path : WritersWith(report.files, cur', p)
                         = WritersWith(report.files, cur, p)
    BY SameClaims
  <2>2. Writers' = [p \in Path |-> WritersWith(report.files, cur', p)]
    BY NextWriters
  <2>3. Writers = [p \in Path |-> WritersWith(report.files, cur, p)]
    BY DEF Writers, WritersOf, WritersWith
  <2> QED
    BY <2>1, <2>2, <2>3
<1>2. /\ \A i \in DOMAIN report.files :
           Good(report.files[i], report.dry, disk, Writers)
      /\ ~report.dry => Kept(cur, disk, Writers)
      /\ phase = "walk" => cur.apply = <<>> /\ cur.manual = <<>>
  BY DEF LossInv
<1> QED
  BY <1>1, <1>2, LossForm

\* Every step of the engine keeps the invariant.
LEMMA LossStep ==
  ASSUME TypeOK, LossInv, [Next]_vars
  PROVE  LossInv'
<1>1. /\ ProcessOK /\ report \in Report /\ cur \in FileReport
      /\ next \in Nat \ {0}
  BY DEF TypeOK, ProcessOK
<1>2. /\ ~report.dry => Kept(cur, disk, Writers)
      /\ Debts(cur, outs, Done)
      /\ phase = "walk" => cur.apply = <<>> /\ cur.manual = <<>>
  BY DEF LossInv
<1>3. Writers = [p \in Path |-> WritersWith(report.files, cur, p)]
  BY DEF Writers, WritersOf, WritersWith
<1>4. ASSUME Walking
      PROVE  /\ Visited \in Report /\ Visited.files = report.files
             /\ Visited.dry = report.dry /\ phase = "walk"
             /\ NewFileReport(tree[at]) \in FileReport
  BY <1>1, <1>4, VisitedType, FreshTypes DEF Visited, Report, TypeOK, Walking
\* A file report without outputs, returned in the walk.
<1>5. ASSUME Walking, NEW fr, Return(Visited, fr), UNCHANGED disk,
             fr.apply = <<>>, fr.manual = <<>>,
             Good(fr, report.dry, disk, Writers)
      PROVE  LossInv'
  <2>1. \A p \in Path : WritersWith(report.files, fr, p)
                         = WritersWith(report.files, cur, p)
    BY <1>2, <1>4, <1>5, SameClaims
  <2>2. Writers = [p \in Path |-> WritersWith(report.files, fr, p)]
    BY <1>3, <2>1
  <2> QED
    BY <1>1, <1>4, <1>5, <2>2, SameLater, ReturnKeeps
<1>6. ASSUME ProcessGone PROVE LossInv'
  <2>1. cur' = NewFileReport(NoFile) /\ report' = NewReport("v2", FALSE)
    BY <1>6, Zenon DEF ProcessGone
  <2> QED
    BY <2>1, FreshKeeps, Zenon
<1>7. ASSUME NEW t \in Targets, NEW d \in Modes, NEW m \in MeshFilters,
             Start(t, d, m)
      PROVE  LossInv'
  BY <1>7, FreshKeeps DEF Start
<1>8. CASE PassOver
  <2>1. UNCHANGED <<disk, phase, cur, next, outs, report>>
    BY <1>8 DEF PassOver
  <2>2. Done' = Done
    BY <2>1 DEF Done
  <2> QED
    BY <1>2, <2>1, <2>2, QuietKeeps
<1>9. CASE CannotRead
  <2> DEFINE fr == [NewFileReport(tree[at]) EXCEPT
                      !.hasError = TRUE, !.unread = TRUE, !.label = "ERROR"]
  <2>1. Walking /\ Return(Visited, fr) /\ UNCHANGED disk
    BY <1>9, Zenon DEF CannotRead
  <2>2. fr.label = "ERROR" /\ fr.apply = <<>> /\ fr.manual = <<>>
    BY DEF NewFileReport
  <2> HIDE DEF fr
  <2> QED
    BY <1>5, <2>1, <2>2 DEF Good
<1>10. CASE OpenEmpty
  <2>1. Walking /\ Return(Visited, NewFileReport(tree[at])) /\ UNCHANGED disk
    BY <1>10, Zenon DEF OpenEmpty
  <2> QED
    BY <1>5, <2>1, NewKept DEF Good
<1>11. CASE Open
  <2>1. Walking /\ report' = Visited /\ cur' = NewFileReport(tree[at])
        /\ phase' = "docs" /\ UNCHANGED disk
    BY <1>11 DEF Open
  <2>2. /\ cur'.apply = cur.apply /\ cur'.manual = cur.manual
        /\ Kept(cur', disk, Writers) /\ Debts(cur', outs', Done')
    BY <1>2, <1>4, <2>1, NewKept
  <2> QED
    BY <1>4, <2>1, <2>2, QuietKeeps
<1>12. CASE SkipDocument \/ ConvertDocument
  <2>1. NextDocument /\ phase = "docs"
    BY <1>12, Zenon DEF SkipDocument, ConvertDocument
  <2>2. /\ UNCHANGED <<disk, report>> /\ phase' \in {"docs", "write"}
        /\ phase' = "write" => next' = 1
    BY <1>1, <2>1 DEF NextDocument
  <2>3. Done = 1 /\ Done' = 1
    BY <2>1, <2>2 DEF Done
  <2>4. Debts(cur', outs', 1)
    BY <1>1, <1>2, <1>12, <2>3, SkipOwes, ConvertOwes
  <2>5. cur'.apply = cur.apply /\ cur'.manual = cur.manual
    BY <1>1, <1>12 DEF SkipDocument, ConvertDocument, FileReport
  <2>6. \E c : cur'.changes = Append(cur.changes, c) /\ c.manual = <<>>
    <3>1. CASE SkipDocument
      BY <1>1, <1>2, <2>3, <3>1, SkipOwes
    <3>2. CASE ConvertDocument
      <4> DEFINE c == ChangeOf(ThisDoc, Transform(ThisDoc, report.target))
      <4>1. c.manual = <<>>
        BY DEF ChangeOf
      <4> HIDE DEF c
      <4>2. cur'.changes = Append(cur.changes, c)
        BY <1>1, <3>2 DEF ConvertDocument, FileReport, c
      <4> QED
        BY <4>1, <4>2
    <3> QED
      BY <1>12, <3>1, <3>2
  <2>7. Kept(cur, disk, Writers) => Kept(cur', disk, Writers)
    BY <1>1, <2>5, <2>6, MoreChangesKept
  <2> QED
    BY <2>2, <2>3, <2>4, <2>5, <2>7, QuietKeeps
<1>13. ASSUME Writing
       PROVE  /\ Debts(cur, outs, next) /\ Recorded \in FileReport
              /\ Here \in Path /\ Raw \in Doc
  BY <1>1, <1>2, <1>13, HereType DEF Done, Writing
<1>14. CASE WriteOutput
  <2>1. /\ Writing /\ cur' = Recorded /\ next' = next + 1
        /\ disk' = IF report.dry THEN disk ELSE Put(Here, Raw)
        /\ UNCHANGED <<outs, report, phase>>
    BY <1>14 DEF WriteOutput
  <2>2. Writers' = WritersThen
    BY <2>1, NextWriters DEF WritersThen
  <2>3. Later(disk, Writers, disk', WritersThen)
    BY <1>1, <2>1, WriteLater
  <2>4. \A i \in DOMAIN report.files :
          Good(report.files[i], report.dry, disk', WritersThen)
    BY <1>1, <2>3, ClosedLater
  <2>5. ~report.dry => Kept(Recorded, disk', WritersThen)
    <3> SUFFICES ASSUME ~report.dry PROVE Kept(Recorded, disk', WritersThen)
      OBVIOUS
    <3>1. \A p \in Path : Claims(cur, p) # {} => Writers[p] # {}
      BY OnRecord
    <3>2. Kept(cur, disk', WritersThen)
      BY <1>1, <1>2, <2>3, <3>1, KeptLater
    <3>3. Here \in DOMAIN disk' /\ disk'[Here] = Raw
      BY <2>1 DEF Put
    <3> QED
      BY <1>1, <1>13, <2>1, <3>2, <3>3, RecordedKept
  <2>6. Debts(Recorded, outs, next + 1)
    BY <1>1, <1>13, <2>1, RecordedOwes
  <2>7. Done' = next + 1 /\ phase' # "walk"
    BY <2>1 DEF Done, Writing
  <2> QED
    BY <2>1, <2>2, <2>4, <2>5, <2>6, <2>7, LossForm
<1>15. CASE WriteFails
  <2> DEFINE fr == [Recorded EXCEPT !.hasError = TRUE, !.label = "ERROR"]
  <2>1. Writing /\ Return(report, fr) /\ disk' \in {disk, Put(Here, Torn)}
    BY <1>15, Zenon DEF WriteFails
  <2>2. /\ fr.label = "ERROR" /\ fr.apply = Recorded.apply
        /\ fr.manual = Recorded.manual
    BY <1>13, <2>1 DEF FileReport
  <2> HIDE DEF fr
  <2>3. Later(disk, Writers, disk', WritersThen)
    BY <1>1, <2>1, WriteLater
  <2>4. \A p \in Path : WritersWith(report.files, fr, p)
                         = WritersWith(report.files, Recorded, p)
    BY <2>2, SameClaims
  <2>5. WritersThen = [p \in Path |-> WritersWith(report.files, fr, p)]
    BY <2>4 DEF WritersThen
  <2>6. Good(fr, report.dry, disk', WritersThen)
    BY <2>2 DEF Good
  <2> QED
    BY <1>1, <2>1, <2>3, <2>5, <2>6, ReturnKeeps
<1>16. CASE CloseFile
  <2> DEFINE fr == [cur EXCEPT !.label = FinalLabel(cur)]
  <2>1. phase = "write" /\ next \notin DOMAIN outs /\ Return(report, fr)
        /\ UNCHANGED disk
    BY <1>16, Zenon DEF CloseFile
  <2>2. /\ fr.apply = cur.apply /\ fr.manual = cur.manual
        /\ fr.changes = cur.changes
    BY <1>1 DEF FileReport
  <2> HIDE DEF fr
  <2>3. Paid(cur)
    BY <1>1, <1>2, <2>1, DebtsPaid DEF Done
  <2>4. Good(fr, report.dry, disk, Writers)
    BY <1>2, <2>2, <2>3, SameKept DEF Good
  <2>5. \A p \in Path : WritersWith(report.files, fr, p)
                         = WritersWith(report.files, cur, p)
    BY <2>2, SameClaims
  <2>6. Writers = [p \in Path |-> WritersWith(report.files, fr, p)]
    BY <1>3, <2>5
  <2> QED
    BY <1>1, <2>1, <2>4, <2>6, SameLater, ReturnKeeps
<1>17. CASE Publish \/ PublishFails \/ WalkAborts \/ Killed
  <2>1. ProcessGone
    BY <1>17, Zenon DEF Publish, PublishFails, WalkAborts, Killed
  <2> QED
    BY <1>6, <2>1
<1>18. CASE UNCHANGED vars
  <2>1. UNCHANGED <<disk, phase, cur, next, outs, report>>
    BY <1>18 DEF vars
  <2>2. Done' = Done
    BY <2>1 DEF Done
  <2> QED
    BY <1>2, <2>1, <2>2, QuietKeeps
<1> QED
  BY <1>7, <1>8, <1>9, <1>10, <1>11, <1>12, <1>14, <1>15, <1>16, <1>17,
     <1>18, Zenon DEF Next, Step, Progress, Failure

\* Nothing is recorded at the start.
LEMMA LossInit == Init => LossInv
<1> SUFFICES ASSUME Init PROVE LossInv
  OBVIOUS
<1>1. report = NewReport("v2", FALSE) /\ cur = NewFileReport(NoFile)
  BY Zenon DEF Init
<1>2. DOMAIN report.files = {}
  BY <1>1 DEF NewReport
<1> QED
  BY <1>1, <1>2, NewKept DEF LossInv

\* The invariant is about the outputs of closed files.
LEMMA LossMeans == TypeOK /\ LossInv => NothingLost
<1> SUFFICES ASSUME TypeOK, LossInv, ~report.dry,
                    NEW i \in DOMAIN report.files,
                    report.files[i].label # "ERROR"
             PROVE  LET fr == report.files[i] IN
                    /\ \A k \in DOMAIN fr.apply :
                         OnlyWriter(fr.apply[k].path) =>
                           disk[fr.apply[k].path] = fr.apply[k].raw
                    /\ \A j \in DOMAIN fr.changes :
                         LET c == fr.changes[j] IN
                         /\ c.rejected => c.manual # <<>>
                         /\ (c.errMsg /\ ~c.rejected) \/ c.deleteBeforeV3 =>
                              /\ Len(c.manual) = 1
                              /\ OnlyWriter(c.manual[1]) =>
                                   disk[c.manual[1]] = Strip(c.doc)
  BY DEF NothingLost
<1> DEFINE fr == report.files[i]
<1>1. fr \in FileReport
  BY ElementType DEF TypeOK, ProcessOK, Report
<1>2. Paid(fr) /\ Kept(fr, disk, Writers)
  BY DEF LossInv, Good
<1>3. \A p \in Path : Sole(Writers[p]) <=> OnlyWriter(p)
  BY DEF Writers, Sole, OnlyWriter
<1>4. \A k \in DOMAIN fr.apply : fr.apply[k].path \in Path
  BY <1>1, ReportPaths
<1>5. \A p \in ManualPaths(fr) : p \in Path
  BY <1>1, ReportPaths
<1> HIDE DEF fr
<1>6. \A k \in DOMAIN fr.apply :
        OnlyWriter(fr.apply[k].path) => disk[fr.apply[k].path] = fr.apply[k].raw
  BY <1>2, <1>3, <1>4 DEF Kept, Holds
<1>7. ASSUME NEW j \in DOMAIN fr.changes
      PROVE  LET c == fr.changes[j] IN
             /\ c.rejected => c.manual # <<>>
             /\ Special(c) =>
                  /\ Len(c.manual) = 1
                  /\ OnlyWriter(c.manual[1]) => disk[c.manual[1]] = Strip(c.doc)
  <2> DEFINE c == fr.changes[j]
  <2>1. /\ c.rejected => c.manual # <<>>
        /\ Special(c) => Len(c.manual) = 1
    BY <1>2 DEF Paid
  <2>2. c \in Change
    BY <1>1, ElementType DEF FileReport
  <2>3. ChangeKept(c, ManualPaths(fr), disk, Writers)
    BY <1>2 DEF Kept
  <2> HIDE DEF c
  <2>4. c.manual \in Seq(Path)
    BY <2>2 DEF Change
  <2>5. Special(c) => 1 \in DOMAIN c.manual
    BY <2>1, <2>4
  <2>6. Special(c) /\ OnlyWriter(c.manual[1]) => disk[c.manual[1]] = Strip(c.doc)
    BY <1>3, <1>5, <2>3, <2>5 DEF ChangeKept, Holds
  <2> QED
    BY <2>1, <2>6 DEF c
<1> QED
  BY <1>6, <1>7 DEF Special, fr

(***************************************************************************)
(* Nothing is silently lost: in every file whose outputs were all written, *)
(* each document that failed to convert and each default gateway timeout   *)
(* stands unconverted under _manual, each rejected one has something       *)
(* there, and what was recorded at one path only is what the path holds.   *)
(***************************************************************************)
THEOREM NothingIsLost == Spec => []NothingLost
BY TypeCorrect, LossInit, LossStep, LossMeans, PTL DEF Spec

-----------------------------------------------------------------------------
(***************************************************************************)
(* A re-run repairs.  The invariant is that of RecordedExists with the     *)
(* paths that hold a whole document in place of the paths that exist, and  *)
(* it lasts until the first file in ERROR: only a failed write tears a     *)
(* file of a run that goes on.                                             *)
(***************************************************************************)
Whole(D) == {p \in DOMAIN D : D[p] # Torn}

NoError(rep) == \A i \in DOMAIN rep.files : rep.files[i].label # "ERROR"

RepairInv ==
  ~report.dry /\ NoError(report) =>
    RecordedIn(report, Whole(disk)) /\ Within(cur, Whole(disk))

LEMMA RepairStep ==
  ASSUME TypeOK, RepairInv, [Next]_vars
  PROVE  RepairInv'
<1>1. report \in Report /\ cur \in FileReport
  BY DEF TypeOK, ProcessOK
<1> DEFINE Mended == RecordedIn(report, Whole(disk)) /\ Within(cur, Whole(disk))
           Mends  == ~report'.dry /\ NoError(report') =>
                       /\ RecordedIn(report', Whole(disk'))
                       /\ Within(cur', Whole(disk'))
<1> SUFFICES Mends
  BY DEF RepairInv, RecordedIn, Within, Whole, NoError
<1>2. ~report.dry /\ NoError(report) => Mended
  BY DEF RepairInv
<1>3. ASSUME NEW rep \in Report, NEW fr \in FileReport, Return(rep, fr),
             rep.dry = report.dry, rep.files = report.files,
             ~report.dry /\ fr.label # "ERROR" => UNCHANGED disk,
             Within(cur, Whole(disk)) => Within(fr, Whole(disk))
      PROVE  Mends
  <2>1. report' = Counted(rep, fr) /\ cur' = NewFileReport(NoFile)
    BY <1>3 DEF Return
  <2>2. /\ report'.dry = report.dry
        /\ report'.files = Append(report.files, fr)
    BY <1>3, <2>1 DEF Counted, Report
  <2>3. NoError(report') => NoError(report) /\ fr.label # "ERROR"
    <3> DEFINE more == Append(report.files, fr)
    <3>1. /\ \A i \in DOMAIN report.files :
               i \in DOMAIN more /\ more[i] = report.files[i]
          /\ Len(report.files) + 1 \in DOMAIN more
          /\ more[Len(report.files) + 1] = fr
      BY <1>1, <1>3 DEF Report
    <3> HIDE DEF more
    <3>2. report'.files = more
      BY <2>2 DEF more
    <3> QED
      BY <3>1, <3>2 DEF NoError
  <2>4. SUFFICES ASSUME ~report'.dry, NoError(report') PROVE Mends
    OBVIOUS
  <2>5. /\ RecordedIn(rep, Whole(disk')) /\ Within(fr, Whole(disk'))
    BY <1>2, <1>3, <2>2, <2>3, <2>4 DEF RecordedIn
  <2> QED
    BY <1>3, <2>1, <2>5, CountedWithin, NewWithin
<1>4. ASSUME cur' = NewFileReport(NoFile), NEW t, NEW d, report' = NewReport(t, d)
      PROVE  Mends
  BY <1>4, NewWithin
<1>5. ASSUME Walking
      PROVE  /\ Visited \in Report /\ Visited.dry = report.dry
             /\ Visited.files = report.files
             /\ NewFileReport(tree[at]) \in FileReport
  BY <1>1, <1>5, VisitedType, FreshTypes DEF Visited, Report, TypeOK
<1>6. ASSUME NEW t \in Targets, NEW d \in Modes, NEW m \in MeshFilters,
             Start(t, d, m)
      PROVE  Mends
  BY <1>4, <1>6 DEF Start
<1>7. CASE PassOver
  BY <1>2, <1>7 DEF PassOver
<1>8. CASE CannotRead
  <2> DEFINE fr == [NewFileReport(tree[at]) EXCEPT
                      !.hasError = TRUE, !.unread = TRUE, !.label = "ERROR"]
  <2>1. Walking /\ Return(Visited, fr)
    BY <1>8, Zenon DEF CannotRead
  <2>2. /\ fr \in FileReport /\ fr.label = "ERROR"
        /\ fr.apply = <<>> /\ fr.manual = <<>>
    BY <1>5, <2>1 DEF FileReport, Label, NewFileReport
  <2> HIDE DEF fr
  <2>3. Within(fr, Whole(disk))
    BY <2>2 DEF Within
  <2> QED
    BY <1>3, <1>5, <2>1, <2>2, <2>3
<1>9. CASE OpenEmpty
  BY <1>3, <1>5, <1>9, NewWithin DEF OpenEmpty
<1>10. CASE Open
  <2>1. Walking /\ report' = Visited /\ cur' = NewFileReport(tree[at])
        /\ UNCHANGED disk
    BY <1>10 DEF Open
  <2> QED
    BY <1>2, <1>5, <2>1, NewWithin DEF RecordedIn, NoError
<1>11. CASE SkipDocument \/ ConvertDocument
  <2>1. NextDocument
    BY <1>11, Zenon DEF SkipDocument, ConvertDocument
  <2>2. cur'.apply = cur.apply /\ cur'.manual = cur.manual
    BY <1>1, <1>11 DEF SkipDocument, ConvertDocument, FileReport
  <2> QED
    BY <1>2, <2>1, <2>2 DEF NextDocument, Within
<1>12. CASE WriteOutput
  <2>1. Writing /\ cur' = Recorded /\ UNCHANGED report
        /\ (~report.dry => disk' = Put(Here, Raw))
    BY <1>12 DEF WriteOutput
  <2>2. Raw # Torn
    BY <2>1, HereType, DocAssumption DEF TypeOK
  <2>3. ~report.dry => Here \in Whole(disk') /\ Whole(disk) \subseteq Whole(disk')
    BY <2>1, <2>2 DEF Put, Whole
  <2>4. SUFFICES ASSUME ~report.dry, NoError(report)
                 PROVE  /\ RecordedIn(report, Whole(disk'))
                        /\ Within(Recorded, Whole(disk'))
    BY <2>1
  <2>5. RecordedIn(report, Whole(disk')) /\ Within(cur, Whole(disk'))
    BY <1>2, <2>3, <2>4, WithinGrows
  <2> QED
    BY <2>1, <2>3, <2>4, <2>5, RecordedWithin
<1>13. CASE WriteFails
  <2> DEFINE fr == [Recorded EXCEPT !.hasError = TRUE, !.label = "ERROR"]
  <2>1. Writing /\ Return(report, fr)
    BY <1>13, Zenon DEF WriteFails
  <2>2. Recorded \in FileReport
    BY <2>1, HereType DEF TypeOK
  <2>3. fr.label = "ERROR"
    BY <2>2 DEF FileReport
  <2> HIDE DEF fr
  <2>4. report'.files = Append(report.files, fr)
    BY <1>1, <2>1 DEF Return, Counted, Report
  <2>5. ~NoError(report')
    BY <1>1, <2>3, <2>4 DEF NoError, Report
  <2> QED
    BY <2>5
<1>14. CASE CloseFile
  <2> DEFINE fr == [cur EXCEPT !.label = FinalLabel(cur)]
  <2>1. Return(report, fr) /\ UNCHANGED disk
    BY <1>14, Zenon DEF CloseFile
  <2>2. fr \in FileReport /\ fr.apply = cur.apply /\ fr.manual = cur.manual
    BY <1>1, FinalLabelType DEF FileReport
  <2> HIDE DEF fr
  <2>3. Within(cur, Whole(disk)) => Within(fr, Whole(disk))
    BY <2>2 DEF Within
  <2> QED
    BY <1>1, <1>3, <2>1, <2>2, <2>3
<1>15. CASE Publish \/ PublishFails \/ WalkAborts \/ Killed
  <2>1. ProcessGone
    BY <1>15, Zenon DEF Publish, PublishFails, WalkAborts, Killed
  <2>2. cur' = NewFileReport(NoFile) /\ report' = NewReport("v2", FALSE)
    BY <2>1, Zenon DEF ProcessGone
  <2> QED
    BY <1>4, <2>2
<1>16. CASE UNCHANGED vars
  BY <1>2, <1>16 DEF vars
<1> QED
  BY <1>6, <1>7, <1>8, <1>9, <1>10, <1>11, <1>12, <1>13, <1>14, <1>15,
     <1>16, Zenon DEF Next, Step, Progress, Failure

LEMMA RepairInit == Init => RepairInv
<1> SUFFICES ASSUME Init PROVE RepairInv
  OBVIOUS
<1>1. report = NewReport("v2", FALSE) /\ cur = NewFileReport(NoFile)
  BY Zenon DEF Init
<1> QED
  BY <1>1, NewWithin DEF RepairInv

LEMMA RepairMeans == RepairInv => RerunRepairs
BY DEF RepairInv, RerunRepairs, RecordedIn, Within, Whole, NoError

(***************************************************************************)
(* A run that reaches the end of its walk without a file in ERROR leaves   *)
(* no torn file at a path it lists, whatever earlier runs left there.      *)
(***************************************************************************)
THEOREM RerunsRepair == Spec => []RerunRepairs
BY TypeCorrect, RepairInit, RepairStep, RepairMeans, PTL DEF Spec

=============================================================================
