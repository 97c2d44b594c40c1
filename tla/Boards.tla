------------------------------- MODULE Boards -------------------------------
(***************************************************************************)
(* What the facilitator reads of a question: its comparison board          *)
(* (app/admin/question/[qid]), the projection sheet, the analysis panel    *)
(* beside the board, and the contamination audit on the dashboard.  One    *)
(* facilitator in one tab; the question is a closed one with a slider      *)
(* (q3, q8, q10), for only those are ever called a split.        *)
(*                                                                         *)
(* A page is read once and then stays; names are fetched afresh when they  *)
(* are asked for; an analysis goes on at the server when its panel is gone.*)
(* The order of the anonymised cards is drawn afresh at every load and at  *)
(* every return to them: nothing below tells two orders apart, the cards   *)
(* are kept in the order of the query.  How a model call ends, and the     *)
(* queue behind level L1, are the matter of AiGateway; the lines that tell *)
(* of a failure are left out.                                              *)
(***************************************************************************)
EXTENDS Naturals, Sequences, FiniteSetsExt

CONSTANTS Members,     \* the cohort: 1..N, in the order of their names
          Lead,        \* the member who facilitates
          Values,      \* answers: [sig, conf], what is compared and how sure
          Levels,      \* the levels an analysis may be served at
          Posts,       \* slots: analyses that run at a time
          MaxEdits,    \* bound: saves, submits and unlocks after the start
          MaxPosts,    \* bound: analyses asked for
          MaxLoads     \* bound: pages opened

ASSUME BoardsAssumption ==
  /\ IsFiniteSet(Members) /\ Members = 1..Cardinality(Members)
  /\ Lead \in Members
  /\ \A v \in Values : v.conf \in 0..5      \* 0: the slider was not set
  /\ Levels \subseteq {"L0", "L1", "L2", "L3"}
  /\ IsFiniteSet(Posts)
  /\ MaxEdits \in Nat /\ MaxPosts \in Nat /\ MaxLoads \in Nat

VARIABLES
  answers,   \* each member's public row of the question, or Absent
  submitted, \* respondents.submitted_at is not null
  page,      \* the page in the tab
  load,      \* the fetch of the names that is under way
  panel,     \* the analysis panel
  posts,     \* POST /api/admin/analyse, each slot at its step
  store,     \* analysis_outputs of the question
  consent,   \* history: "Show names" stands, see NamesNeedConsent
  count      \* history: what the bounds count

boardsVars == <<answers, submitted, page, load, panel, posts, store, consent, count>>

Absent == [sig |-> "absent", conf |-> 0]

Signatures == {v.sig : v \in Values}

-----------------------------------------------------------------------------
(* Divergence (lib/divergence): the first of the most common signatures,   *)
(* the share of the answers that have it, and the verdict.                 *)

\* listPublicAnswersForQuestion: whoever has a row, submitted or not, by name.
PublicRows(a) ==
  LET rows[n \in 0..Cardinality(Members)] ==
        IF n = 0 THEN <<>>
        ELSE IF a[n] = Absent THEN rows[n - 1] ELSE Append(rows[n - 1], a[n])
  IN  rows[Cardinality(Members)]

NoTally == [counts |-> [s \in Signatures |-> 0], modal |-> "none", most |-> 0]

Tallied(tally, row) ==
  LET c == tally.counts[row.sig] + 1
  IN  [counts |-> [tally.counts EXCEPT ![row.sig] = c],
       modal  |-> IF c > tally.most THEN row.sig ELSE tally.modal,
       most   |-> IF c > tally.most THEN c ELSE tally.most]

ComputeAgreement(rows) ==
  LET tally[n \in 0..Len(rows)] ==
        IF n = 0 THEN NoTally ELSE Tallied(tally[n - 1], rows[n])
  IN  tally[Len(rows)]

\* Answers without a set slider do not count for the mean.
Averaged(mean, row) ==
  IF row.conf = 0 THEN mean
  ELSE [set |-> mean.set + 1, sum |-> mean.sum + row.conf]

MeanConfidence(rows) ==
  LET mean[n \in 0..Len(rows)] ==
        IF n = 0 THEN [set |-> 0, sum |-> 0] ELSE Averaged(mean[n - 1], rows[n])
  IN  mean[Len(rows)]

\* Mutant of Sure: a mean of exactly 4 is not sure enough.
MutSure(rows) ==
  MeanConfidence(rows).set > 0 /\ MeanConfidence(rows).sum > 4 * MeanConfidence(rows).set

Sure(rows) ==
  MeanConfidence(rows).set > 0 /\ MeanConfidence(rows).sum >= 4 * MeanConfidence(rows).set

ClassifyDivergence(rows) ==
  IF rows = <<>> THEN "none"
  ELSE IF ComputeAgreement(rows).most = Len(rows) THEN "aligned"
  ELSE IF Sure(rows) THEN "hard split" ELSE "soft split"

-----------------------------------------------------------------------------
(* The audit (lib/contamination): the answers by what the coach had shown  *)
(* their authors, each group scored as if it were a board of its own.      *)
Groups == {"example-shown", "hint-only", "uncoached"}

\* Mutant of GroupRows: without the fallback whoever was never coached is lost.
MutGroupRows(a, groupOf, g) ==
  PublicRows([m \in Members |->
    IF groupOf[m] = g /\ g # "uncoached" THEN a[m] ELSE Absent])

\* groupOf is a lookup that falls back on uncoached.
GroupRows(a, groupOf, g) ==
  PublicRows([m \in Members |-> IF groupOf[m] = g THEN a[m] ELSE Absent])

Audit(a, groupOf) ==
  [g \in Groups |-> [included |-> Len(GroupRows(a, groupOf, g)),
                     most |-> ComputeAgreement(GroupRows(a, groupOf, g)).most]]

-----------------------------------------------------------------------------
(* Pages *)

Closed == [kind |-> "dashboard", cards |-> <<>>, badge |-> "none",
           mode |-> "anonymised", asking |-> FALSE, loading |-> FALSE,
           named |-> <<>>]

\* fetchQuestionComparison: the answers and their verdict, of one read.
Comparison(a, kind) ==
  [Closed EXCEPT !.kind = kind, !.cards = PublicRows(a),
     !.badge = ClassifyDivergence(PublicRows(a))]

NoLoad   == [pc |-> "none", reply |-> <<>>, names |-> FALSE]
NoPanel  == [open |-> FALSE, runs |-> {}, loading |-> FALSE]
NoOutput == [at |-> 0, level |-> "none"]
NoPost   == [pc |-> "idle", out |-> NoOutput, history |-> {}, mine |-> FALSE]

\* Mutant of Cancelled: the effect has no cleanup.
MutCancelled(ps) == ps

\* The effect's cleanup: whatever is still to come is ignored.
Cancelled(ps) == [p \in Posts |-> [ps[p] EXCEPT !.mine = FALSE]]

\* The facilitator has answered and submitted, the others write on.
BoardsInit ==
  /\ answers \in {a \in [Members -> Values \cup {Absent}] : a[Lead] # Absent}
  /\ submitted = [m \in Members |-> m = Lead]
  /\ page = Closed /\ load = NoLoad
  /\ panel = NoPanel /\ posts = [p \in Posts |-> NoPost]
  /\ store = {}
  /\ consent = FALSE
  /\ count = [edits |-> 0, posts |-> 0, loads |-> 0]

\* admitsAdmin, read live from the respondents row by every page and route.
Admitted == submitted[Lead]

OnBoard == page.kind = "board"

\* A page is opened, reloaded or left for another.
OpenPage(kind) ==
  /\ Admitted
  /\ count.loads < MaxLoads
  /\ count' = [count EXCEPT !.loads = @ + 1]
  /\ page' = IF kind = "dashboard" THEN Closed ELSE Comparison(answers, kind)
  /\ load' = NoLoad
  /\ panel' = NoPanel
  /\ posts' = Cancelled(posts)
  /\ consent' = FALSE
  /\ UNCHANGED <<answers, submitted, store>>

-----------------------------------------------------------------------------
(* The comparison board: anonymised until names are asked for *)

RequestAttributed ==
  /\ OnBoard
  /\ ~page.asking
  /\ page' = [page EXCEPT !.asking = TRUE]
  /\ UNCHANGED <<answers, submitted, load, panel, posts, store, consent, count>>

KeepAnonymised ==
  /\ page.asking
  /\ ~page.loading
  /\ page' = [page EXCEPT !.asking = FALSE]
  /\ UNCHANGED <<answers, submitted, load, panel, posts, store, consent, count>>

ConfirmAttributed ==
  /\ page.asking
  /\ ~page.loading
  /\ page' = [page EXCEPT !.asking = FALSE, !.loading = TRUE]
  /\ load' = [NoLoad EXCEPT !.pc = "mint"]
  /\ consent' = TRUE
  /\ UNCHANGED <<answers, submitted, panel, posts, store, count>>

\* POST attribute-grant.
Mint ==
  /\ load.pc = "mint"
  /\ Admitted
  /\ load' = [load EXCEPT !.pc = "get"]
  /\ UNCHANGED <<answers, submitted, page, panel, posts, store, consent, count>>

\* GET ?mode=attributed: anonymised rows when the grant has expired by then.
Serve ==
  /\ load.pc = "get"
  /\ Admitted
  /\ \E fresh \in BOOLEAN :
       load' = [pc |-> "reply", names |-> fresh, reply |-> PublicRows(answers)]
  /\ UNCHANGED <<answers, submitted, page, panel, posts, store, consent, count>>

ShowNames ==
  /\ load.pc = "reply"
  /\ load.reply # <<>>
  /\ load' = NoLoad
  /\ page' = [page EXCEPT !.mode = "attributed", !.loading = FALSE,
                !.named = [rows |-> load.reply, names |-> load.names]]
  /\ UNCHANGED <<answers, submitted, panel, posts, store, consent, count>>

\* A refused, lost or empty reply.
NamesFail ==
  /\ load.pc # "none"
  /\ load' = NoLoad
  /\ page' = [page EXCEPT !.mode = "anonymised", !.loading = FALSE]
  /\ UNCHANGED <<answers, submitted, panel, posts, store, consent, count>>

\* Mutant of SwitchToAnonymised: the names are fetched anew, not put away.
MutSwitchToAnonymised ==
  /\ OnBoard
  /\ page' = page
  /\ consent' = page.loading
  /\ UNCHANGED <<answers, submitted, load, panel, posts, store, count>>

\* The button is there in both modes, and while a fetch is under way.
SwitchToAnonymised ==
  /\ OnBoard
  /\ page' = [page EXCEPT !.mode = "anonymised", !.named = <<>>]
  /\ consent' = page.loading
  /\ UNCHANGED <<answers, submitted, load, panel, posts, store, count>>

-----------------------------------------------------------------------------
(* The analysis panel, and POST /api/admin/analyse *)

Ask(p) ==
  /\ count.posts < MaxPosts
  /\ posts[p].pc = "idle"
  /\ count' = [count EXCEPT !.posts = @ + 1]
  /\ posts' = [posts EXCEPT ![p] = [NoPost EXCEPT !.pc = "sent", !.mine = TRUE]]

OpenPanel(p) ==
  /\ OnBoard
  /\ ~panel.open
  /\ Ask(p)
  /\ panel' = [NoPanel EXCEPT !.open = TRUE, !.loading = TRUE]
  /\ UNCHANGED <<answers, submitted, page, load, store, consent>>

ClosePanel ==
  /\ panel.open
  /\ panel' = NoPanel
  /\ posts' = Cancelled(posts)
  /\ UNCHANGED <<answers, submitted, page, load, store, consent, count>>

\* The list ends with the output generated last.
Latest(runs) == CHOOSE r \in runs : \A other \in runs : other.at <= r.at

Rerun(p) ==
  /\ panel.runs # {}
  /\ Latest(panel.runs).level = "L0"
  /\ ~panel.loading
  /\ Ask(p)
  /\ panel' = [panel EXCEPT !.loading = TRUE]
  /\ UNCHANGED <<answers, submitted, page, load, store, consent>>

\* Later than every output there is: only the order of the dates matters.
Now == 1 + Max({0} \cup {o.at : o \in store} \cup {posts[p].out.at : p \in Posts})

\* requireAdminSession, once, before the payload is read and the model asked.
Gate(p) ==
  /\ posts[p].pc = "sent"
  /\ Admitted
  /\ posts' = [posts EXCEPT ![p].pc = "asked"]
  /\ UNCHANGED <<answers, submitted, page, load, panel, store, consent, count>>

\* The end of the model call, when the output is dated; below L0 it is the
\* verdict of that moment, which is not kept here.
Generate(p) ==
  /\ posts[p].pc = "asked"
  /\ \E level \in Levels :
       posts' = [posts EXCEPT ![p].pc = "record",
                   ![p].out = [at |-> Now, level |-> level]]
  /\ UNCHANGED <<answers, submitted, page, load, panel, store, consent, count>>

Record(p) ==
  /\ posts[p].pc = "record"
  /\ store' = store \cup {posts[p].out}
  /\ posts' = [posts EXCEPT ![p].pc = "list"]
  /\ UNCHANGED <<answers, submitted, page, load, panel, consent, count>>

List(p) ==
  /\ posts[p].pc = "list"
  /\ posts' = [posts EXCEPT ![p].pc = "reply", ![p].history = store]
  /\ UNCHANGED <<answers, submitted, page, load, panel, store, consent, count>>

Reply(p) ==
  /\ posts[p].pc = "reply"
  /\ posts' = [posts EXCEPT ![p] = NoPost]
  /\ panel' = IF posts[p].mine
                THEN [panel EXCEPT !.runs = posts[p].history, !.loading = FALSE]
                ELSE panel
  /\ UNCHANGED <<answers, submitted, page, load, store, consent, count>>

\* The request is refused or dies, at any step of it: the earlier runs stay.
AnalysisFails(p) ==
  /\ posts[p].pc # "idle"
  /\ posts' = [posts EXCEPT ![p] = NoPost]
  /\ panel' = IF posts[p].mine
                THEN [panel EXCEPT !.loading = FALSE] ELSE panel
  /\ UNCHANGED <<answers, submitted, page, load, store, consent, count>>

-----------------------------------------------------------------------------
(* The cohort meanwhile *)

Counted == count.edits < MaxEdits /\ count' = [count EXCEPT !.edits = @ + 1]

SaveAnswer(m) ==
  /\ Counted
  /\ ~submitted[m]
  /\ \E v \in Values : answers' = [answers EXCEPT ![m] = v]
  /\ UNCHANGED <<submitted, page, load, panel, posts, store, consent>>

SubmitSheet(m) ==
  /\ Counted
  /\ ~submitted[m]
  /\ submitted' = [submitted EXCEPT ![m] = TRUE]
  /\ UNCHANGED <<answers, page, load, panel, posts, store, consent>>

\* The facilitator unlocks a member, herself included.
UnlockMember(m) ==
  /\ Counted
  /\ Admitted
  /\ submitted[m]
  /\ submitted' = [submitted EXCEPT ![m] = FALSE]
  /\ UNCHANGED <<answers, page, load, panel, posts, store, consent>>

BoardsNext ==
  \/ \E kind \in {"dashboard", "board", "sheet"} : OpenPage(kind)
  \/ RequestAttributed \/ KeepAnonymised \/ ConfirmAttributed
  \/ Mint \/ Serve \/ ShowNames \/ NamesFail \/ SwitchToAnonymised
  \/ ClosePanel
  \/ \E p \in Posts :
       OpenPanel(p) \/ Rerun(p) \/ Gate(p) \/ Generate(p) \/ Record(p)
         \/ List(p) \/ Reply(p) \/ AnalysisFails(p)
  \/ \E m \in Members : SaveAnswer(m) \/ SubmitSheet(m) \/ UnlockMember(m)

BoardsSpec == BoardsInit /\ [][BoardsNext]_boardsVars

-----------------------------------------------------------------------------
(* Properties *)

SigsOf(rows) == {rows[i].sig : i \in DOMAIN rows}

\* FR-31 in so many words: aligned when all say the same; else a split, hard
\* when those who set the slider average 4 or more.
SetTo(rows, c)     == Cardinality({i \in DOMAIN rows : rows[i].conf = c})
HowMany(rows)      == Cardinality({i \in DOMAIN rows : rows[i].conf > 0})
AltogetherOf(rows) == SetTo(rows, 1) + 2 * SetTo(rows, 2) + 3 * SetTo(rows, 3)
                        + 4 * SetTo(rows, 4) + 5 * SetTo(rows, 5)

Verdict(rows) ==
  CASE rows = <<>> -> "none"
    [] Cardinality(SigsOf(rows)) = 1 -> "aligned"
    [] Cardinality(SigsOf(rows)) > 1 ->
         IF HowMany(rows) > 0 /\ AltogetherOf(rows) >= 4 * HowMany(rows)
           THEN "hard split" ELSE "soft split"

\* The badge is the verdict on the cards beside it, whatever is saved meanwhile
\* and however often the names come and go (of the named cards it need not be:
\* they are read later than the badge).
BadgeMatchesCards ==
  page.kind # "dashboard" /\ page.mode = "anonymised" =>
    page.badge = Verdict(page.cards)

NamesShown == page.mode = "attributed" /\ page.named.names

\* Names are on the wall only after "Show names" was pressed on this very page,
\* and once "Anonymised" is pressed only if it was pressed while a fetch of them
\* was under way: that fetch still brings them back.
NamesNeedConsent == NamesShown => consent

\* What an open panel shows stays: a re-run adds to it, a failed or late one
\* takes nothing away (FR-35).
PanelKeepsRuns ==
  [][panel.open /\ panel'.open => panel.runs \subseteq panel'.runs]_boardsVars

OverGroups(f) == f["example-shown"] + f["hint-only"] + f["uncoached"]

\* The audit on the dashboard leaves no answer out, and splitting a board never
\* makes it look less agreed: the groups' agreement, weighted by their size, is
\* at least that of the whole board, whoever was coached.
AuditNeverLowersAgreement ==
  page.kind = "dashboard" =>
    \A groupOf \in [Members -> Groups] :
      LET audit == Audit(answers, groupOf)
      IN  /\ OverGroups([g \in Groups |-> audit[g].included])
               = Cardinality({m \in Members : answers[m] # Absent})
          /\ OverGroups([g \in Groups |-> audit[g].most])
               >= ComputeAgreement(PublicRows(answers)).most
=============================================================================
