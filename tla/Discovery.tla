----------------------------- MODULE Discovery ------------------------------
(***************************************************************************)
(* The discovery handler: a job that pages through a source, newest item   *)
(* first, and spawns a child for every item whose child is not yet among   *)
(* the successes and failures.  It has no cursor: what was seen is what    *)
(* has been settled, as it stood when the job was dispatched.  Meanwhile   *)
(* items are published and deleted, pages drift, children are settled, and *)
(* the worker may die between two pages.                                   *)
(***************************************************************************)
EXTENDS Naturals, FiniteSets

CONSTANTS
    LastItem,       \* bound: items are numbered in the order they are published
    Bad,            \* those whose id_func raises
    OtherGroup,     \* settled items of other groups of the same process_task_type
    Alike,          \* those of them that pass for this group's: ids cut within a head the
                    \* two groups share, and without a group prefix all of them
    PageSize,
    Limits,         \* the values of max_pages jobs are started with
    MaxScans,       \* bound: discovery jobs that are started
    MaxSlips        \* bound: process_item_func raising, deaths of the worker

ASSUME DiscoveryAssumption ==
    /\ LastItem \in Nat /\ IsFiniteSet(OtherGroup)
    /\ Bad \subseteq 1 .. LastItem /\ OtherGroup \cap (1 .. LastItem) = {}
    /\ Alike \subseteq OtherGroup
    /\ PageSize \in Nat \ {0} /\ Limits \subseteq Nat \ {0}
    /\ {MaxScans, MaxSlips} \subseteq Nat

Items == 1 .. LastItem
Modes == {"incremental", "full"}

VARIABLES
    published,  \* the number of the newest item
    source,     \* the items on the source, which lists the newest first
    queue,      \* children in the queue
    settled,    \* children among successes and failures
    phase,      \* of the discovery job: "idle", "scanning", "returned"
    mode,       \* its scan_mode
    limit,      \* its max_pages
    page,       \* the page it fetches next
    seen,       \* the settled children when it was dispatched
    spawned,    \* the children it has spawned, not committed yet
    scanned,    \* seen_this_run
    complete,   \* completed_full
    reported,   \* what on_missing is called with
    scans, slips,
    start,      \* history: the source when the scan began
    clean,      \* history: this scan left nothing out: it was not cut short, no item
                \* was skipped and none was deleted under it
    stable,     \* history: no item was deleted under the scan under way
    healed      \* history: no scan was unclean since the last clean full one

scan == <<mode, limit, page, seen, spawned, scanned, complete>>
history == <<start, clean, stable, healed>>
vars == <<published, source, queue, settled, phase, scan, reported, scans, slips, history>>

Known == queue \cup settled

\* The page is cut from the source as it stands when it is fetched.
Newer(i) == {j \in source : j > i}
Page(k) == {i \in source : Cardinality(Newer(i)) \div PageSize = k - 1}

\* _collect_page_entries: items whose id cannot be had are left out.
Entries(k) == Page(k) \ Bad
PageIntact(k) == Page(k) \cap Bad = {}

-----------------------------------------------------------------------------
(* The source and the children.                                             *)

Publish ==
    /\ published < LastItem /\ published' = published + 1
    /\ source' = source \cup {published'}
    /\ UNCHANGED <<queue, settled, phase, scan, reported, scans, slips, history>>

Delete(i) ==
    /\ i \in source /\ source' = source \ {i}
    /\ clean' = (clean /\ phase # "scanning")
    /\ stable' = (stable /\ phase # "scanning")
    /\ UNCHANGED <<published, queue, settled, phase, scan, reported, scans, slips, start, healed>>

\* A child is run and recorded, or has been recorded already and is not run.
SettleChild(i) ==
    /\ i \in queue
    /\ queue' = queue \ {i}
    /\ settled' = settled \cup {i}
    /\ UNCHANGED <<published, source, phase, scan, reported, scans, slips, history>>

-----------------------------------------------------------------------------
(* The scan.                                                                *)

\* The job is dispatched with a snapshot of the records; page 1 is next.
Begin(m, l) ==
    /\ phase = "idle" /\ scans < MaxScans
    /\ phase' = "scanning" /\ scans' = scans + 1
    /\ mode' = m /\ limit' = l /\ page' = 1 /\ seen' = settled
    /\ spawned' = {} /\ scanned' = {} /\ complete' = TRUE
    /\ start' = source /\ clean' = TRUE
    /\ UNCHANGED <<published, source, queue, settled, reported, slips, stable, healed>>

\* Faulty variant: one item that was seen before ends the scan.
StopsHereAtAnyHit(k) ==
    k > limit \/ Entries(k) = {} \/ (mode # "full" /\ Entries(k) \cap seen # {})

\* The ways the loop of _scan_pages ends before page k is processed: the page limit,
\* an empty page, a page no item of which could be read, a page that was all seen.
StopsHere(k) ==
    k > limit \/ Entries(k) = {} \/ (mode # "full" /\ Entries(k) \subseteq seen)

\* Faulty variant: a page with an unreadable item is fetched again.
NextPageWhenIntact(k) == IF PageIntact(k) THEN k + 1 ELSE k

NextPage(k) == k + 1

\* One page: fetched, its entries noted, the new ones handed to process_item_func,
\* which may raise for one of them.
ScanPage ==
    /\ phase = "scanning" /\ ~ StopsHere(page)
    /\ \E failing \in {{}} \cup {{i} : i \in Entries(page) \ seen} :
          /\ slips + Cardinality(failing) <= MaxSlips
          /\ slips' = slips + Cardinality(failing)
          /\ spawned' = spawned \cup (Entries(page) \ (seen \cup failing))
          /\ clean' = (clean /\ failing = {})
    /\ scanned' = IF mode = "full" THEN scanned \cup Entries(page) ELSE scanned
    /\ complete' = (complete /\ PageIntact(page))
    /\ page' = NextPage(page)
    /\ UNCHANGED <<published, source, queue, settled, phase, mode, limit, seen, reported, scans,
                   start, stable, healed>>

\* Faulty variant: running into max_pages counts as the end of the source.
CompleteAtLimit(k) == complete /\ (k > limit \/ PageIntact(k))

\* completed_full when the loop ends: not at the page limit, and not on a page that
\* could not be read.
CompleteAt(k) == complete /\ k <= limit /\ PageIntact(k)

\* _in_discovery_group, which is as good as what the ids and the prefix tell.
InDiscoveryGroup(i) == i \notin OtherGroup \ Alike

\* _report_missing: the settled children that pass for this group's and were not on
\* any page.
Missing == {i \in seen : InDiscoveryGroup(i)} \ scanned

\* The loop ends, on_missing is called and the handler returns True.
EndScan ==
    /\ phase = "scanning" /\ StopsHere(page)
    /\ phase' = "returned"
    /\ reported' = IF mode = "full" /\ CompleteAt(page) THEN Missing ELSE {}
    /\ clean' = (clean /\ page <= limit /\ (Entries(page) = {} => Page(page) = {}))
    /\ stable' = TRUE
    /\ UNCHANGED <<published, source, queue, settled, scan, scans, slips, start, healed>>

\* The locals of the handler are gone with the worker.
Over ==
    /\ limit' = 1 /\ page' = 1 /\ complete' = TRUE
    /\ seen' = {} /\ spawned' = {} /\ scanned' = {} /\ reported' = {}

\* The main process commits the success with all spawned children in one
\* transaction; those that are queued or in flight already are not queued again.
Commit ==
    /\ phase = "returned" /\ phase' = "idle"
    /\ queue' = queue \cup spawned
    /\ healed' = (clean /\ (mode = "full" \/ healed))
    /\ Over
    /\ UNCHANGED <<published, source, settled, mode, scans, slips, start, clean, stable>>

\* The worker dies, or fetch_func raises: nothing was committed.
ScanDies ==
    /\ phase # "idle" /\ slips < MaxSlips
    /\ phase' = "idle" /\ slips' = slips + 1 /\ clean' = FALSE /\ stable' = TRUE
    /\ Over
    /\ UNCHANGED <<published, source, queue, settled, mode, scans, start, healed>>

-----------------------------------------------------------------------------
Init ==
    /\ published = 0 /\ source = {} /\ queue = {} /\ settled = OtherGroup
    /\ phase = "idle" /\ mode = "incremental" /\ limit = 1 /\ page = 1
    /\ seen = {} /\ spawned = {} /\ scanned = {} /\ complete = TRUE
    /\ reported = {} /\ scans = 0 /\ slips = 0
    /\ start = {} /\ clean = FALSE /\ stable = TRUE /\ healed = TRUE

Next ==
    \/ Publish
    \/ \E i \in Items : Delete(i) \/ SettleChild(i)
    \/ \E m \in Modes, l \in Limits : Begin(m, l)
    \/ ScanPage \/ EndScan \/ Commit \/ ScanDies

Spec == Init /\ [][Next]_vars

\* A worker that lives scans on, and its result is applied.
FairSpec ==
    /\ Spec
    /\ WF_vars(ScanPage \/ EndScan \/ Commit)

-----------------------------------------------------------------------------
TypeOK ==
    /\ published \in 0 .. LastItem /\ source \subseteq 1 .. published
    /\ queue \subseteq Items \ Bad /\ settled \subseteq (Items \ Bad) \cup OtherGroup
    /\ phase \in {"idle", "scanning", "returned"} /\ mode \in Modes
    /\ limit \in Limits \cup {1} /\ page \in 1 .. limit + 1
    /\ spawned \cup scanned \subseteq Items \ Bad /\ reported \subseteq Items \cup OtherGroup
    /\ {complete, clean, stable, healed} \subseteq BOOLEAN /\ scans <= MaxScans /\ slips <= MaxSlips

Collected == (start \cap source) \ Bad \subseteq Known

\* Clean scans miss nothing.  When a scan left nothing out, and neither did any scan
\* since the last clean full one, every readable item that was on the source when it
\* began and still is has its child queued or settled: for an incremental scan, which
\* stops at the first page it knows, however pages drifted and in whatever order
\* children were settled (T2 of the contract at the top of discovery.py), and for a
\* full scan whatever happened before, so that it heals the gaps that truncated,
\* shrunk or skipping scans left.
CleanScansFind == phase = "idle" /\ clean /\ (healed \/ mode = "full") => Collected

\* on_missing is told only of items that are no longer on the source, unless one was
\* deleted under the scan: a truncated or partly unreadable scan reports nothing
\* (_scan_pages: better no report than a wrong one).  What belongs to another group
\* is reported only if its id passes for one of this group.
MissingIsGone ==
    [][\A i \in reported' \ reported :
          i \in Items \cup Alike /\ (i \in source => ~ stable)]_vars

\* Every scan ends, whatever is published meanwhile and whatever cannot be read.
ScanEnds == phase # "idle" ~> phase = "idle"
=============================================================================
