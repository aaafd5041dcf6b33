------------------------------ MODULE MCToolCalls ------------------------------
(* Either one call of a tool that changes a store (MultiStepTools), or one     *)
(* call of shopify_report (Reports): a call is of one tool and shares no state *)
(* with another.  The part that is not called rests where a call has ended.    *)
EXTENDS MultiStepTools

CONSTANTS Stores, Records, PerKey, Values, Threshold, PageSize, SkuLimit, Contents,
          MaxChanges, Strays, None

VARIABLES report, content, round, phase, after, seen, nodes, more, erred, cut, first,
          changes, held, moved, strayed, blank

reports == <<report, content, round, phase, after, seen, nodes, more, erred, cut, first,
             changes, held, moved, strayed, blank>>

R == INSTANCE Reports

ASSUME ReportsAssumption == R!ReportsConstants

\* An empty store, one with a record of the last SKU only, and stores of two
\* SKUs, in stock or out of it, complete or not.
MCContents ==
    {<<None, None, None>>, <<None, None, 1>>, <<0, 1, None>>, <<1, 0, None>>,
     <<0, 1, 0>>}

\* A dry run in a store that is not configured has ended.
NoTool ==
    /\ args = [tool |-> "tags", dryRun |-> TRUE, given |-> {"add"}, from |-> 0, to |-> 0]
    /\ at = 1 /\ completed = <<>> /\ items = [i \in Items |-> "none"]
    /\ reply = [NoReply EXCEPT !.kind = "error", !.listed = TRUE]
    /\ quantity = 0 /\ late = {} /\ ran = <<>> /\ keys = {} /\ clobbered = FALSE
    /\ calls = 1 /\ shown = {} /\ doubtful = {}
    /\ found = {} /\ lookedUp = {} /\ previewed = {} /\ sent = {} /\ present = {{}}
    /\ changed = FALSE

\* A comparison of stores that all failed has ended.
NoReport ==
    /\ report = "compare" /\ round = 0
    /\ content = [s \in Stores |-> [r \in Records |-> None]]
    /\ phase = [s \in Stores |-> "failed"] /\ after = [s \in Stores |-> 0]
    /\ seen = R!Nothing /\ nodes = R!Nothing /\ more = R!Nothing
    /\ erred = {} /\ cut = {} /\ first = R!NoRound
    /\ changes = 0 /\ held = R!Nothing /\ moved = R!Nothing /\ strayed = {} /\ blank = {}

ToolInit == (Init /\ NoReport) \/ (NoTool /\ R!Init)

ToolNext == (Next /\ UNCHANGED reports) \/ (R!Next /\ UNCHANGED vars)

ToolSpec == ToolInit /\ [][ToolNext]_<<vars, reports>> /\ R!Fairness

\* The type invariants of both.
ToolTypes == TypeOK /\ LookupTypeOK /\ R!TypeOK

\* PagesComplete of Reports: what a store that is ok returns is complete.
PagesComplete == R!PagesComplete

\* ClaimsTrue of Reports: the conclusions of a report are true.
ClaimsTrue == R!ClaimsTrue

\* EveryReportEnds of Reports: every report ends, in whatever order it is given cursors.
EveryReportEnds == R!EveryReportEnds
===============================================================================
