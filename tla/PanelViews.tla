------------------------------ MODULE PanelViews ------------------------------
(***************************************************************************)
(* The views of the admin panel that act on what an earlier answer left in *)
(* the page (api/routers/admin_panel.py): the conversation with its        *)
(* control button, the CSV generator, the knowledge sources and the audit  *)
(* log.  A handler runs up to its next await in one step; the answers of   *)
(* the calls it made come in any order.  The views share nothing but       *)
(* apiFetch, so a behaviour is one of one view, chosen at the start.       *)
(*                                                                         *)
(* What the server says is any answer it may give: others work with the    *)
(* same leads and tables.                                                  *)
(***************************************************************************)
EXTENDS Naturals, FiniteSets

CONSTANTS
    Leads,      \* lead ids an operator may search for
    Files,      \* CSV files
    Pages,      \* bound: pages of the audit log
    Slots,      \* bound: calls in flight at once
    None        \* null

ASSUME ViewConstants == None \notin Leads \cup Files \cup Slots /\ Pages \in Nat \ {0}

VARIABLES
    view,     \* the view of this behaviour
    page,     \* the variables and elements of the view
    sent,     \* the calls it awaits
    mixed     \* history: calls have overlapped since the view was last loaded

viewVars == <<view, page, sent, mixed>>

-----------------------------------------------------------------------------
Views == {"conversation", "csv", "knowledge", "audit"}
Free == [op |-> "free"]

Conversation == [lead : Leads \cup {None}, human : BOOLEAN, card : BOOLEAN, take : BOOLEAN,
                 button : BOOLEAN, search : BOOLEAN, asked : Leads \cup {None}]
Csv == [file : Files \cup {None}, shown : Files \cup {None}, blob : Files \cup {None},
        preview : Files \cup {None}, generate : BOOLEAN]
Sources == [loading : BOOLEAN]
Audit == [offset : 0..Pages, entries : (0..Pages) \cup {None}, label : (0..Pages) \cup {None},
          prev : BOOLEAN, next : BOOLEAN]

ViewCalls == {Free}
    \cup [op : {"trace"}, lead : Leads \cup {None}]
    \cup [op : {"control"}, take : BOOLEAN]
    \cup [op : {"read", "generate", "text"}, file : Files]
    \cup [op : {"load", "write"}]
    \cup [op : {"audit"}, offset : 0..Pages]

StartPage ==
    CASE view = "conversation" ->
            [lead |-> None, human |-> FALSE, card |-> FALSE, take |-> TRUE, button |-> TRUE,
             search |-> TRUE, asked |-> None]
      [] view = "csv" ->
            [file |-> None, shown |-> None, blob |-> None, preview |-> None, generate |-> TRUE]
      [] view = "knowledge" -> [loading |-> FALSE]
      [] view = "audit" ->
            [offset |-> 0, entries |-> None, label |-> None, prev |-> FALSE, next |-> FALSE]

ViewInit ==
    /\ view \in Views
    /\ page = StartPage
    /\ sent = [s \in Slots |-> Free]
    /\ mixed = FALSE

Open == {s \in Slots : sent[s] # Free}
Awaiting(op) == {s \in Slots : sent[s].op = op}

\* A handler calls apiFetch and awaits the answer; crossing says whether
\* that overlaps what the view already waits for.  A view that waits for
\* nothing and is loaded anew starts afresh.
Ask(s, what, crossing) ==
    /\ sent[s] = Free
    /\ sent' = [sent EXCEPT ![s] = what]
    /\ mixed' = (crossing \/ (mixed /\ ~(Open = {} /\ what.op \in {"trace", "read", "load", "audit"})))
    /\ UNCHANGED view

\* The handler of an answer runs to its end.
Answered(s) ==
    /\ sent' = [sent EXCEPT ![s] = Free]
    /\ UNCHANGED <<view, mixed>>

-----------------------------------------------------------------------------
(* The conversation of a lead.                                             *)

\* convSearchBtn, while it is enabled: the first half of loadLeadTrace.
SearchLead(s, l) ==
    /\ view = "conversation" /\ page.search
    /\ Ask(s, [op |-> "trace", lead |-> l], Open # {})
    /\ page' = [page EXCEPT !.search = FALSE, !.asked = l]

\* Mutant: the button keeps its label.
ShownKeepsLabel(l, human) ==
    [page EXCEPT !.lead = l, !.human = human, !.card = TRUE,
                 !.button = TRUE, !.search = TRUE]

\* renderTraceSummary: the button takes control from the bot or releases it.
Shown(l, human) ==
    [page EXCEPT !.lead = l, !.human = human, !.card = TRUE, !.take = ~human,
                 !.button = TRUE, !.search = TRUE]

\* Found; 404, which forgets the lead on the page; or any other failure,
\* which hides the card and keeps it.
TraceAnswer(s) ==
    /\ sent[s].op = "trace"
    /\ \/ \E human \in BOOLEAN : sent[s].lead # None /\ page' = Shown(sent[s].lead, human)
       \/ sent[s].lead # None /\ page' = [page EXCEPT !.lead = None, !.card = FALSE, !.search = TRUE]
       \/ page' = [page EXCEPT !.card = FALSE, !.search = TRUE]
    /\ Answered(s)

\* executeControlAction goes by the data on the page, not by its label.
PressControl(s) ==
    /\ view = "conversation" /\ page.card /\ page.button
    /\ Ask(s, [op |-> "control", take |-> ~page.human], Open # {})
    /\ page' = [page EXCEPT !.button = FALSE]

\* Done: the lead that is on the page by now is loaded again.  Failed: the
\* button is given back with the label it had at the click.
ControlAnswer(s) ==
    /\ sent[s].op = "control"
    /\ \/ /\ page' = [page EXCEPT !.search = FALSE]
          /\ sent' = [sent EXCEPT ![s] = [op |-> "trace", lead |-> page.lead]]
          /\ UNCHANGED <<view, mixed>>
       \/ page' = [page EXCEPT !.button = TRUE, !.take = sent[s].take] /\ Answered(s)

-----------------------------------------------------------------------------
(* The CSV generator.                                                      *)

\* csvgenHandleFile up to the text of the file, which it awaits; a file of
\* another kind only takes away what was generated.
PickFile(s, f) ==
    /\ view = "csv"
    /\ \/ /\ Ask(s, [op |-> "read", file |-> f], Open # {})
          /\ page' = [page EXCEPT !.file = f, !.blob = None, !.preview = None]
       \/ page' = [page EXCEPT !.blob = None, !.preview = None] /\ UNCHANGED <<view, sent>>
          /\ mixed' = (mixed \/ Open # {})

\* The columns, the table and the card of the file.
FileRead(s) ==
    /\ sent[s].op = "read"
    /\ page' = [page EXCEPT !.shown = sent[s].file]
    /\ Answered(s)

\* csvgenGenerateTemplates sends the file that is selected.
GenerateTemplates(s) ==
    /\ view = "csv" /\ page.generate /\ page.file # None
    /\ Ask(s, [op |-> "generate", file |-> page.file], FALSE)
    /\ page' = [page EXCEPT !.generate = FALSE]

\* The blob is kept before its text is awaited and the preview shown.
GenerateAnswer(s) ==
    /\ sent[s].op = "generate"
    /\ \/ /\ page' = [page EXCEPT !.blob = sent[s].file]
          /\ sent' = [sent EXCEPT ![s].op = "text"]
          /\ UNCHANGED <<view, mixed>>
       \/ page' = [page EXCEPT !.generate = TRUE] /\ Answered(s)

PreviewShown(s) ==
    /\ sent[s].op = "text"
    /\ page' = [page EXCEPT !.preview = sent[s].file, !.generate = TRUE]
    /\ Answered(s)

\* csvgenReset, on a button shown with the preview.
ResetCsv ==
    /\ view = "csv" /\ page.preview # None
    /\ page' = [page EXCEPT !.file = None, !.shown = None, !.blob = None, !.preview = None]
    /\ mixed' = (mixed \/ Open # {})
    /\ UNCHANGED <<view, sent>>

-----------------------------------------------------------------------------
(* The knowledge sources.                                                  *)

\* setActiveTab("knowledge"): loadKnowledgeSources looks at no flag.
LoadSources(s) ==
    /\ view = "knowledge"
    /\ Ask(s, [op |-> "load"], Awaiting("write") # {})
    /\ page' = [loading |-> TRUE]

\* uploadKnowledgeFile and deleteKnowledgeSource return while knowledgeLoading.
WriteSource(s) ==
    /\ view = "knowledge" /\ ~page.loading
    /\ Ask(s, [op |-> "write"], Awaiting("load") # {})
    /\ page' = [loading |-> TRUE]

\* Written, and the list is loaded; or refused.
WriteAnswer(s) ==
    /\ sent[s].op = "write"
    /\ \/ /\ page' = [loading |-> TRUE]
          /\ sent' = [sent EXCEPT ![s].op = "load"]
          /\ mixed' = (mixed \/ Awaiting("write") # {s})
          /\ UNCHANGED view
       \/ page' = [loading |-> FALSE] /\ Answered(s)

LoadAnswer(s) ==
    /\ sent[s].op = "load"
    /\ page' = [loading |-> FALSE]
    /\ Answered(s)

-----------------------------------------------------------------------------
(* The audit log.                                                          *)

\* The filter and clear buttons and the tab go to the first page, the other
\* two move auditOffset; loadAuditLog asks for the page at once.
TurnPage(s, offset) ==
    /\ view = "audit"
    /\ \/ offset = 0
       \/ page.next /\ offset = page.offset + 1
       \/ page.prev /\ page.offset > 0 /\ offset = page.offset - 1
    /\ offset <= Pages
    /\ Ask(s, [op |-> "audit", offset |-> offset], Open # {})
    /\ page' = [page EXCEPT !.offset = offset]

\* The page number is that of auditOffset by now; a failure empties the table.
AuditAnswer(s) ==
    /\ sent[s].op = "audit"
    /\ \/ \E full \in BOOLEAN :
             page' = [page EXCEPT !.entries = sent[s].offset, !.label = page.offset,
                                  !.prev = page.offset # 0, !.next = full]
       \/ page' = [page EXCEPT !.entries = None, !.label = None]
    /\ Answered(s)

-----------------------------------------------------------------------------
ViewNext ==
    \/ \E s \in Slots :
        \/ \E l \in Leads : SearchLead(s, l)
        \/ TraceAnswer(s) \/ PressControl(s) \/ ControlAnswer(s)
        \/ \E f \in Files : PickFile(s, f)
        \/ FileRead(s) \/ GenerateTemplates(s) \/ GenerateAnswer(s) \/ PreviewShown(s)
        \/ LoadSources(s) \/ WriteSource(s) \/ WriteAnswer(s) \/ LoadAnswer(s)
        \/ \E offset \in 0..Pages : TurnPage(s, offset)
        \/ AuditAnswer(s)
    \/ ResetCsv

ViewSpec == ViewInit /\ [][ViewNext]_viewVars

-----------------------------------------------------------------------------
(* Properties.                                                             *)

ViewTypeOK ==
    /\ view \in Views
    /\ page \in CASE view = "conversation" -> Conversation [] view = "csv" -> Csv
                  [] view = "knowledge" -> Sources [] view = "audit" -> Audit
    /\ sent \in [Slots -> ViewCalls]
    /\ mixed \in BOOLEAN

\* The control button takes control when it says so and releases it when it
\* says so, and the conversation shown is the one searched for last.
ControlIsTrue ==
    view = "conversation" /\ page.card /\ ~mixed /\ Awaiting("trace") = {} =>
        /\ page.button => page.take = ~page.human
        /\ page.search => page.lead = page.asked

\* What the download button saves and the preview shows was generated from
\* the file that is selected, and so is the table of its rows.
DownloadIsOfTheFile ==
    view = "csv" /\ ~mixed =>
        /\ page.blob # None => page.blob = page.file
        /\ page.preview # None => page.preview = page.blob
        /\ Awaiting("read") = {} => page.shown = page.file

\* The page number over the audit entries is theirs.
PageLabelIsTrue ==
    view = "audit" /\ ~mixed /\ Awaiting("audit") = {} => page.label = page.entries

\* One upload or delete at a time: knowledgeLoading keeps the buttons from a
\* second one until the tab is loaded anew, which resets it.
OneWriteAtATime == view = "knowledge" /\ ~mixed => Cardinality(Awaiting("write")) <= 1

\* What a view shows and does is about what it shows: the handlers write the
\* page from the variables of the moment, so each may fail once two of the
\* view's calls overlapped, until the view is loaded anew with nothing else
\* under way (executeControlAction, csvgenGenerateTemplates, loadAuditLog).
ViewsAreTrue == ControlIsTrue /\ DownloadIsOfTheFile /\ PageLabelIsTrue /\ OneWriteAtATime
=============================================================================
