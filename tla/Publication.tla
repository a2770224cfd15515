------------------------------ MODULE Publication -------------------------------
(***************************************************************************)
(* `cargo xtask optimization-ledger' and its verification: the ledger's     *)
(* Markdown, HTML and chart are written first, then the HTML universe, in   *)
(* which every Markdown source of the repository has a page and every       *)
(* diagram a drawing, is cleared and written file by file, in the order of  *)
(* the paths.  The command may be killed anywhere; the drawings come from a *)
(* program that may fail and need not draw the same twice.  In the ledger,  *)
(* times are positive numbers in place of finite floats, and a speedup is   *)
(* an exact fraction.                                                       *)
(***************************************************************************)
EXTENDS Integers, Sequences, FiniteSets, FiniteSetsExt, SequencesExt

CONSTANTS
    Revision,      \* the revisions of forty hexadecimal digits
    Repositories,  \* what the repository may hold: a tree, as below, with no output
    Ledgers,       \* the contents docs/optimization-attempts.json may have
    Edits,         \* a document's new text, links and diagrams, and its name
    Drawings,      \* what the renderer of diagrams may make of one
    MaxEdits, MaxCrashes

VARIABLES
    ledger,        \* the source ledger
    tree,          \* the repository's files: a function from paths to contents
    task,          \* the phase of the command under way
    queue,         \* the files it has generated and not yet written
    published,     \* how the last command ended
    renders,       \* renders completed since the last edit or crash, counted up to two
    edits, crashes

publicationVars == << ledger, tree, task, queue, published, renders, edits, crashes >>

-----------------------------------------------------------------------------
(* Which ledgers are accepted, and the progress series drawn from one. *)

Statuses == { "merged", "investigate", "rejected", "inconclusive" }

\* Of an attempt's progress there are two times, before and after, or none.
Attempts ==
    [id : STRING, status : STRING, baseline : STRING, candidate : STRING,
     exception : BOOLEAN, progress : { <<>> } \cup (Nat \X Nat)]
Snapshots ==
    [current : BOOLEAN, revision : STRING, review : STRING, scoped : BOOLEAN, metrics : BOOLEAN]

AcceptedAttempt(a) ==
    /\ a.status \in Statuses
    /\ { a.baseline, a.candidate } \subseteq Revision
    /\ IF a.status = "merged"
       THEN a.progress # <<>> /\ 0 < a.progress[2] /\ a.progress[2] < a.progress[1]
       ELSE ~ a.exception /\ a.progress = <<>>

Merged(given) == { i \in DOMAIN given.attempts : given.attempts[i].status = "merged" }
LatestMerged(given) == given.attempts[Max(Merged(given))]

AcceptedSnapshot(s) ==
    s.scoped /\ { s.revision, s.review } \subseteq Revision /\ s.metrics

Accepted(given) ==
    /\ given.schema = 3 /\ given.attempts # <<>> /\ given.policy
    /\ \A i, j \in DOMAIN given.attempts :
          given.attempts[i].id = given.attempts[j].id => i = j
    /\ \A i \in DOMAIN given.attempts : AcceptedAttempt(given.attempts[i])
    /\ ToSet(given.priorities) = 1..Len(given.priorities)
    /\ Cardinality({ i \in DOMAIN given.snapshots : given.snapshots[i].current }) = 1
    /\ given.snapshots[1].current
    /\ Merged(given) # {}
    /\ given.snapshots[1].revision = LatestMerged(given).candidate
    /\ \A i \in DOMAIN given.snapshots : AcceptedSnapshot(given.snapshots[i])

\* An attempt with a measured progress adds a point: its own speedup, and the product of
\* all so far, as << numerator, denominator >>.
Extended(series, attempt) ==
    IF attempt.progress = <<>> THEN series
    ELSE LET product == << series.product[1] * attempt.progress[1],
                           series.product[2] * attempt.progress[2] >>
         IN  [product |-> product,
              points |-> Append(series.points,
                 [id |-> attempt.id, starred |-> attempt.exception,
                  incremental |-> attempt.progress, cumulative |-> product])]

ProgressPoints(given) ==
    LET series[i \in 0..Len(given.attempts)] ==
          IF i = 0 THEN [product |-> << 1, 1 >>, points |-> <<>>]
          ELSE Extended(series[i - 1], given.attempts[i])
    IN  series[Len(given.attempts)].points

\* The chart is refused when it has no point.
Drawable(given) == ProgressPoints(given) # <<>>

-----------------------------------------------------------------------------
(* Paths.  A document is [text, links, diagrams]; the ledger's own Markdown *)
(* is a document like any other, found by the same walk.                    *)

Source(name) == << "source", name >>
Mirror(source) == << "universe page", source[2] >>
Asset(diagram) == << "universe drawing", diagram >>
Index == << "universe", "index.html" >>
Markdown == Source("optimization-attempt-ledger.md")
Html == << "docs", "optimization-attempt-ledger.html" >>
Svg == << "docs", "optimization-progress.svg" >>
AuditScale == Source("optimization-and-scale.md")

InUniverse(path) == path[1] \in { "universe", "universe page", "universe drawing" }
ShouldMirror(path) == path # AuditScale

\* What a killed write leaves of a file: too little to be read as anything, or, of a drawing,
\* its beginning with the mark of the diagram it was made from.
Torn == [text |-> "torn", links |-> {}, diagrams |-> {}]
CutOff == "cut off"

CutShort(contents) == "drawing" \in DOMAIN contents /\ contents.drawing = CutOff
WholeDrawings(files) ==
    \A p \in DOMAIN files : p[1] = "universe drawing" => ~ CutShort(files[p])

\* The diagram a document is read as having when one of its diagrams has no end.
Unterminated == "unterminated"

\* A path has two parts, a document finitely many diagrams, and only what a killed command
\* was writing is torn.
IsTree(files) ==
    /\ IsFiniteSet(DOMAIN files)
    /\ \A p \in DOMAIN files :
          /\ p = << p[1], p[2] >>
          /\ p[1] = "source" => IsFiniteSet(files[p].diagrams)
          /\ ~ InUniverse(p) /\ p \notin { Markdown, Html, Svg } => files[p] # Torn

\* No drawing was cut off where the index is there.
Sealed(files) == Index \in DOMAIN files => WholeDrawings(files)

ASSUME PublicationAssumption ==
    /\ CutOff \notin Drawings
    /\ \A files \in Repositories : IsTree(files) /\ Sealed(files)
    /\ \A e \in Edits :
          /\ e.path = Source(e.path[2])
          /\ e.document # <<>> => e.document # Torn /\ IsFiniteSet(e.document.diagrams)
    /\ \A given \in Ledgers :
          given.attempts \in Seq(Attempts) /\ given.snapshots \in Seq(Snapshots)

MarkdownSources(files) ==
    { p \in DOMAIN files : p[1] = "source" /\ ShouldMirror(p) }

MermaidDiagrams(files) == UNION { files[p].diagrams : p \in MarkdownSources(files) }
Terminated(files) == Unterminated \notin MermaidDiagrams(files)

\* A link leads to the page of a mirrored source, else to a file that exists, else it stays.
RewriteUrl(link, files) ==
    IF link \in MarkdownSources(files) THEN Mirror(link)
    ELSE IF link \in DOMAIN files THEN link ELSE << "as written" >>

RenderDocument(source, files) ==
    [document |-> files[source],
     targets |-> [link \in files[source].links |-> RewriteUrl(link, files)]]

RenderIndex(files) == [titles |-> [p \in MarkdownSources(files) |-> files[p].text]]

-----------------------------------------------------------------------------
(* What is generated from a ledger and a tree. *)

\* The evidence an attempt links to, as written; the chart beside it.
LedgerMarkdown(given) ==
    [text |-> given.title, links |-> given.evidence \cup { Svg }, diagrams |-> {}]

LedgerHtml(given, files) ==
    [ledger |-> given.title,
     evidence |-> [link \in given.evidence |->
                      IF link \in MarkdownSources(files) THEN Mirror(link) ELSE << "as written" >>]]

Outputs(given, files) ==
    << << Markdown, LedgerMarkdown(given) >>, << Html, LedgerHtml(given, files) >>,
       << Svg, [points |-> ProgressPoints(given)] >> >>

Assets(files) == { Asset(d) : d \in MermaidDiagrams(files) }

\* A drawing carries the hash of the diagram it was made from, right behind its first tag.
Drawn(files, drawing) == [p \in Assets(files) |-> [source |-> p[2], drawing |-> drawing[p]]]
BoundTo(contents, diagram) == "source" \in DOMAIN contents /\ contents.source = diagram

Pages(files) == { Mirror(s) : s \in MarkdownSources(files) }

\* The pages of the universe, and a drawing of each diagram.
Universe(files, drawings) ==
    [p \in Pages(files) \cup { Index } \cup DOMAIN drawings |->
        IF p = Index THEN RenderIndex(files)
        ELSE IF p \in DOMAIN drawings THEN drawings[p]
        ELSE RenderDocument(Source(p[2]), files)]

\* Mutant of WritingOrder: the drawings last, in the order they are referred to.
DrawingsLast(files) == SetToSeq(Pages(files)) \o << Index >> \o SetToSeq(Assets(files))

\* assets/mermaid/, index.html, repository/: the paths are sorted.
WritingOrder(files) == SetToSeq(Assets(files)) \o << Index >> \o SetToSeq(Pages(files))

-----------------------------------------------------------------------------
PublicationInit ==
    /\ tree \in Repositories /\ ledger \in Ledgers
    /\ task = "idle" /\ queue = <<>> /\ published = "none"
    /\ renders = 0 /\ edits = 0 /\ crashes = 0

Written(files, path, contents) ==
    [p \in DOMAIN files \cup { path } |-> IF p = path THEN contents ELSE files[p]]

Conclude(how) == task' = "idle" /\ queue' = <<>> /\ published' = how

\* Between commands a document is written or removed, or the ledger replaced.
Edit ==
    /\ task = "idle" /\ edits < MaxEdits
    /\ \/ \E e \in Edits :
            /\ tree' = IF e.document = <<>> THEN [p \in DOMAIN tree \ { e.path } |-> tree[p]]
                       ELSE Written(tree, e.path, e.document)
            /\ ledger' = ledger
       \/ ledger' \in Ledgers \ { ledger } /\ tree' = tree
    /\ edits' = edits + 1 /\ renders' = 0 /\ published' = "none"
    /\ UNCHANGED << task, queue, crashes >>

Render ==
    /\ task = "idle"
    /\ IF Accepted(ledger) /\ Drawable(ledger)
       THEN task' = "outputs" /\ queue' = Outputs(ledger, tree) /\ published' = "none"
       ELSE Conclude("rejected")
    /\ UNCHANGED << ledger, tree, renders, edits, crashes >>

Write ==
    /\ tree' = Written(tree, Head(queue)[1], Head(queue)[2])
    /\ queue' = Tail(queue)

WriteOutput ==
    /\ task = "outputs" /\ queue # <<>> /\ Write
    /\ UNCHANGED << ledger, task, published, renders, edits, crashes >>

\* Everything is generated before the old universe is cleared.  No diagram is drawn if one has
\* no end.
GenerateUniverse ==
    /\ task = "outputs" /\ queue = <<>>
    /\ \/ /\ Terminated(tree)
          /\ \E drawing \in [Assets(tree) -> Drawings] :
                LET universe == Universe(tree, Drawn(tree, drawing))
                    paths == WritingOrder(tree)
                IN  queue' = [i \in DOMAIN paths |-> << paths[i], universe[paths[i]] >>]
          /\ task' = "clear" /\ published' = published
       \/ Assets(tree) # {} /\ Conclude("undrawn")
    /\ UNCHANGED << ledger, tree, renders, edits, crashes >>

Without(files, paths) == [p \in DOMAIN files \ paths |-> files[p]]

Clear ==
    /\ task = "clear"
    /\ tree' = Without(tree, { p \in DOMAIN tree : InUniverse(p) })
    /\ task' = "universe"
    /\ UNCHANGED << ledger, queue, published, renders, edits, crashes >>

WriteFile ==
    /\ task = "universe" /\ queue # <<>> /\ Write
    /\ UNCHANGED << ledger, task, published, renders, edits, crashes >>

Rendered ==
    /\ task = "universe" /\ queue = <<>>
    /\ Conclude("rendered") /\ renders' = IF renders < 2 THEN renders + 1 ELSE 2
    /\ UNCHANGED << ledger, tree, edits, crashes >>

\* What may be left of a file whose writing did not end.
Remains(path, contents) ==
    { Torn } \cup (IF path[1] = "universe drawing" THEN { [contents EXCEPT !.drawing = CutOff] }
                   ELSE {})

\* Killed between two steps, in the middle of a write, or while the old pages go.
Crash ==
    /\ task \in { "outputs", "clear", "universe" } /\ crashes < MaxCrashes
    /\ \/ tree' = tree
       \/ /\ task \in { "outputs", "universe" } /\ queue # <<>>
          /\ \E left \in Remains(Head(queue)[1], Head(queue)[2]) :
                tree' = Written(tree, Head(queue)[1], left)
       \/ /\ task = "clear"
          /\ \E gone \in SUBSET { p \in DOMAIN tree : InUniverse(p) } : tree' = Without(tree, gone)
    /\ Conclude("crashed") /\ crashes' = crashes + 1 /\ renders' = 0
    /\ UNCHANGED << ledger, edits >>

\* The drawings are not made again: each must be there with the mark of its diagram, and is
\* then compared with itself.
Verifies(given, files) ==
    /\ Accepted(given) /\ Drawable(given)
    /\ \A i \in 1..3 :
          LET output == Outputs(given, files)[i]
          IN  output[1] \in DOMAIN files /\ files[output[1]] = output[2]
    /\ Terminated(files)
    /\ \A p \in Assets(files) : p \in DOMAIN files /\ BoundTo(files[p], p[2])
    /\ LET universe == Universe(files, [p \in Assets(files) |-> files[p]])
       IN  /\ { p \in DOMAIN files : InUniverse(p) } = DOMAIN universe
           /\ \A p \in DOMAIN universe : files[p] = universe[p]

Verify ==
    /\ task = "idle"
    /\ published' = IF Verifies(ledger, tree) THEN "current" ELSE "stale"
    /\ UNCHANGED << ledger, tree, task, queue, renders, edits, crashes >>

PublicationStep ==
    \/ Edit \/ Render \/ WriteOutput \/ GenerateUniverse \/ Clear \/ WriteFile \/ Rendered
    \/ Crash \/ Verify

-----------------------------------------------------------------------------
Faster(x, y) == x[1] * y[2] > y[1] * x[2]

(***************************************************************************)
(* The series drawn from an accepted ledger is that of its merged attempts, *)
(* in order, and never falls; what the comparison shown first measured is   *)
(* the last point's candidate; only a merged attempt is starred.            *)
(***************************************************************************)
ProgressIsTrue(given) ==
    LET points == ProgressPoints(given)
        merged == Merged(given)
        Rank(i) == Cardinality({ j \in merged : j <= i })
    IN  Accepted(given) =>
        /\ Len(points) = Cardinality(merged)
        /\ \A i \in merged : /\ points[Rank(i)].id = given.attempts[i].id
                             /\ points[Rank(i)].starred = given.attempts[i].exception
        /\ \A k, l \in DOMAIN points : points[k].id = points[l].id => k = l
        /\ \A k \in DOMAIN points :
              Faster(points[k].cumulative, IF k = 1 THEN << 1, 1 >> ELSE points[k - 1].cumulative)
        /\ Drawable(given)
        /\ Last(points).id = LatestMerged(given).id
        /\ \E s \in ToSet(given.snapshots) :
              s.current /\ s.revision = LatestMerged(given).candidate

\* The documents whose links say where the universe's own files are.
LooksIntoUniverse(given, files) ==
    \/ \E p \in MarkdownSources(files) : \E link \in files[p].links : InUniverse(link)
    \/ Markdown \in given.evidence

\* One render brings everything up to date, whatever an earlier one left behind; where a
\* link depends on what the render itself replaces, a second one does.
RenderRepairs ==
    task = "idle" /\ published = "rendered" =>
        /\ renders >= 2 => Verifies(ledger, tree)
        /\ ~ LooksIntoUniverse(ledger, tree) => Verifies(ledger, tree)

\* Whoever opens a page of a verified universe reads the present text of its source, each
\* link written to a mirrored document leads to a page that is there, and every drawing is
\* whole, though nobody looked behind its mark.
VerifiedIsTrue ==
    published = "current" =>
        /\ \A p \in DOMAIN tree : tree[p] # Torn
        /\ WholeDrawings(tree)
        /\ \A p \in MarkdownSources(tree) :
              /\ tree[Mirror(p)].document = tree[p]
              /\ \A link \in tree[p].links :
                    LET target == tree[Mirror(p)].targets[link]
                    IN  target # << "as written" >> => target \in DOMAIN tree
              /\ \A d \in tree[p].diagrams : tree[Asset(d)].source = d
        /\ ProgressIsTrue(ledger)

(***************************************************************************)
(* A completed render repairs whatever edits and killed renders left, a     *)
(* verified publication shows what the sources say, and the series drawn    *)
(* from an accepted ledger is that of its merged attempts.                  *)
(***************************************************************************)
PublicationIsSound == RenderRepairs /\ VerifiedIsTrue /\ ProgressIsTrue(ledger)
=============================================================================
