------------------------------ MODULE Dashboard ------------------------------
(***************************************************************************)
(* The traffic inspector: internal/client/dashboard.go and the script of   *)
(* its page in dashboard_html.go.                                          *)
(*                                                                         *)
(* Every request's goroutine records its exchange: it puts an entry into   *)
(* the bounded list under mu and then, under subsMu, offers it to every    *)
(* stream without waiting.  A page asks for the list and opens a stream,   *)
(* neither waiting for the other; it replaces its rows by the list when    *)
(* that comes, and puts an event's entry on top when one comes.  A stream  *)
(* that breaks is opened again by the browser, the list is not.            *)
(*                                                                         *)
(* A subscription that its page has left only receives what nobody reads,  *)
(* until its handler notices: it is left out.                              *)
(***************************************************************************)
EXTENDS Integers, SequencesExt

CONSTANTS
    Recorder,    \* goroutines that record
    Page,        \* browser pages
    MaxEntries,  \* maxEntries
    ChanCap,     \* capacity of a subscription's channel (16)
    WireCap,     \* bound: events between a stream's handler and its page
    MaxRecords   \* bound: entries recorded in all

ASSUME DashboardAssumption ==
    /\ MaxEntries \in Nat \ {0} /\ ChanCap \in Nat \ {0}
    /\ WireCap \in Nat \ {0} /\ MaxRecords \in Nat

VARIABLES
    entries,   \* d.entries, oldest first
    nextID,    \* d.nextID
    rec,       \* where each recorder is, and the entry it has
    page,      \* each page: its rows, its list, its stream
    serving,   \* the HTTP server runs
    notified,  \* highest entry offered to the streams so far
    why        \* each page: what has made its rows differ from the list

vars == <<entries, nextID, rec, page, serving, notified, why>>

Entry(id, streamed) == [id |-> id, streamed |-> streamed]
NoEntry == Entry(0, FALSE)

Idle == [at |-> "idle", entry |-> NoEntry]

\* list is "none" before load() has asked, "asked", "sent" with the rows in
\* got, "shown", or "failed"; listed is the highest entry when it was made.
ClosedPage == [open |-> FALSE, rows |-> <<>>, list |-> "none", got |-> <<>>, listed |-> 0,
               stream |-> FALSE, chan |-> <<>>, wire |-> <<>>]

Init ==
    /\ entries = <<>> /\ nextID = 0
    /\ rec = [r \in Recorder |-> Idle]
    /\ page = [p \in Page |-> ClosedPage]
    /\ serving = TRUE
    /\ notified = 0
    /\ why = [p \in Page |-> {}]

-----------------------------------------------------------------------------
(***************************************************************************)
(* record, in its two critical sections.                                   *)
(***************************************************************************)
Appended(e) ==
    LET all == Append(entries, e)
    IN  IF Len(all) > MaxEntries THEN SubSeq(all, Len(all) - MaxEntries + 1, Len(all)) ELSE all

Records(r, streamed) ==
    LET e == Entry(nextID + 1, streamed)
    IN  /\ nextID' = nextID + 1
        /\ entries' = Appended(e)
        /\ rec' = [rec EXCEPT ![r] = [at |-> "notify", entry |-> e]]

\* handleHTTPReq ends with recordHTTP.
Exchange(r) ==
    /\ rec[r].at = "idle" /\ nextID < MaxRecords
    /\ \E streamed \in BOOLEAN : Records(r, streamed)
    /\ UNCHANGED <<page, serving, notified, why>>

Offered(q, e) == IF q.stream /\ Len(q.chan) < ChanCap THEN [q EXCEPT !.chan = Append(@, e)] ELSE q

\* What goes wrong for a page when e is offered now.
Spoils(q, e) ==
    {c \in {"full", "gap", "twice", "order"} :
        CASE c = "full"  -> q.stream /\ Len(q.chan) >= ChanCap
          [] c = "gap"   -> ~q.stream /\ q.list \in {"sent", "shown"} /\ e.id > q.listed
          [] c = "twice" -> q.stream /\ q.list \in {"sent", "shown"} /\ e.id <= q.listed
          [] c = "order" -> q.stream /\ e.id < notified}

Notified(r) ==
    LET e == rec[r].entry
    IN  /\ rec' = [rec EXCEPT ![r] = Idle]
        /\ page' = [p \in Page |-> Offered(page[p], e)]
        /\ why' = [p \in Page |-> IF page[p].open THEN why[p] \cup Spoils(page[p], e) ELSE why[p]]
        /\ notified' = IF e.id > notified THEN e.id ELSE notified
        /\ UNCHANGED <<entries, nextID, serving>>

\* Mutant of Notify: the send waits for room.
NotifyWaits(r) ==
    /\ rec[r].at = "notify"
    /\ \A p \in Page : page[p].stream => Len(page[p].chan) < ChanCap
    /\ Notified(r)

Notify(r) ==
    /\ rec[r].at = "notify"
    /\ Notified(r)

\* handleReplay finds the entry and sends its request to the local port ...
Replay(r) ==
    /\ serving /\ rec[r].at = "idle"
    /\ \E i \in 1..Len(entries) :
          /\ ~entries[i].streamed
          /\ rec' = [rec EXCEPT ![r] = [at |-> "replay", entry |-> entries[i]]]
    /\ UNCHANGED <<entries, nextID, page, serving, notified, why>>

\* ... and records the answer, whether or not the entry is still in the list ...
ReplayAnswered(r) ==
    /\ rec[r].at = "replay" /\ nextID < MaxRecords
    /\ Records(r, FALSE)
    /\ UNCHANGED <<page, serving, notified, why>>

\* ... or gives up.
ReplayFails(r) ==
    /\ rec[r].at = "replay"
    /\ rec' = [rec EXCEPT ![r] = Idle]
    /\ UNCHANGED <<entries, nextID, page, serving, notified, why>>

-----------------------------------------------------------------------------
(***************************************************************************)
(* The page's list.                                                        *)
(***************************************************************************)
PageOpens(p) ==
    /\ serving /\ ~page[p].open
    /\ page' = [page EXCEPT ![p] = [ClosedPage EXCEPT !.open = TRUE, !.list = "asked"]]
    /\ why' = [why EXCEPT ![p] = {}]
    /\ UNCHANGED <<entries, nextID, rec, serving, notified>>

PageCloses(p) ==
    /\ page[p].open
    /\ page' = [page EXCEPT ![p] = ClosedPage]
    /\ why' = [why EXCEPT ![p] = {}]
    /\ UNCHANGED <<entries, nextID, rec, serving, notified>>

\* handleList: newest first.  Events that wait in the channel, and are in the
\* list, will be shown once more.
ListAnswered(p) ==
    /\ serving /\ page[p].list = "asked"
    /\ page' = [page EXCEPT ![p].list = "sent", ![p].got = Reverse(entries), ![p].listed = nextID]
    /\ why' = [why EXCEPT ![p] =
                  IF page[p].chan \o page[p].wire = <<>> THEN @ ELSE @ \cup {"twice"}]
    /\ UNCHANGED <<entries, nextID, rec, serving, notified>>

ListFails(p) ==
    /\ ~serving /\ page[p].list \in {"asked", "sent"}
    /\ page' = [page EXCEPT ![p].list = "failed", ![p].got = <<>>]
    /\ UNCHANGED <<entries, nextID, rec, serving, notified, why>>

\* load() replaces the rows, those that events have brought in the meantime too.
ListShown(p) ==
    /\ page[p].list = "sent"
    /\ page' = [page EXCEPT ![p].list = "shown", ![p].rows = page[p].got, ![p].got = <<>>]
    /\ why' = [why EXCEPT ![p] =
                  IF \E i \in 1..Len(page[p].rows) : page[p].rows[i].id > page[p].listed
                  THEN @ \cup {"overwritten"} ELSE @]
    /\ UNCHANGED <<entries, nextID, rec, serving, notified>>

-----------------------------------------------------------------------------
(***************************************************************************)
(* The page's stream.                                                      *)
(***************************************************************************)
StreamOpens(p) ==
    /\ serving /\ page[p].open /\ ~page[p].stream
    /\ page' = [page EXCEPT ![p].stream = TRUE]
    /\ UNCHANGED <<entries, nextID, rec, serving, notified, why>>

\* handleStream takes an entry from its channel and writes it to the page, which
\* may take its time.
StreamSends(p) ==
    /\ page[p].chan # <<>> /\ Len(page[p].wire) < WireCap
    /\ page' = [page EXCEPT ![p].chan = Tail(@), ![p].wire = Append(@, Head(page[p].chan))]
    /\ UNCHANGED <<entries, nextID, rec, serving, notified, why>>

\* Mutant of OnTop: the oldest row goes one event too late.
OnTopLate(e, rows) ==
    LET all == <<e>> \o rows
    IN  IF Len(all) > MaxEntries + 1 THEN Front(all) ELSE all

\* items.unshift and pop.
OnTop(e, rows) ==
    LET all == <<e>> \o rows
    IN  IF Len(all) > MaxEntries THEN Front(all) ELSE all

EventShown(p) ==
    /\ page[p].wire # <<>>
    /\ page' = [page EXCEPT ![p].wire = Tail(@), ![p].rows = OnTop(Head(page[p].wire), @)]
    /\ UNCHANGED <<entries, nextID, rec, serving, notified, why>>

\* The connection of the stream breaks; what was under way is lost.
Broken(q) == [q EXCEPT !.stream = FALSE, !.chan = <<>>, !.wire = <<>>]
BreakSpoils(q) == IF q.chan \o q.wire = <<>> THEN {} ELSE {"gap"}

StreamBreaks(p) ==
    /\ page[p].stream
    /\ page' = [page EXCEPT ![p] = Broken(@)]
    /\ why' = [why EXCEPT ![p] = @ \cup BreakSpoils(page[p])]
    /\ UNCHANGED <<entries, nextID, rec, serving, notified>>

\* Stop closes the listener and every connection.
Stop ==
    /\ serving
    /\ serving' = FALSE
    /\ page' = [p \in Page |-> Broken(page[p])]
    /\ why' = [p \in Page |-> why[p] \cup BreakSpoils(page[p])]
    /\ UNCHANGED <<entries, nextID, rec, notified>>

-----------------------------------------------------------------------------
RecordStep(r) == Exchange(r) \/ Notify(r) \/ Replay(r) \/ ReplayAnswered(r) \/ ReplayFails(r)

PageStep(p) ==
    \/ PageOpens(p) \/ PageCloses(p)
    \/ ListAnswered(p) \/ ListFails(p) \/ ListShown(p)
    \/ StreamOpens(p) \/ StreamSends(p) \/ EventShown(p) \/ StreamBreaks(p)

Next ==
    \/ \E r \in Recorder : RecordStep(r)
    \/ \E p \in Page : PageStep(p)
    \/ Stop

\* Goroutines go on, and replayClient has a timeout.  Pages need not.
Fairness ==
    \A r \in Recorder : WF_vars(Notify(r)) /\ WF_vars(ReplayAnswered(r) \/ ReplayFails(r))

Spec == Init /\ [][Next]_vars /\ Fairness

-----------------------------------------------------------------------------
\* Nothing is under way to page p.
Quiet(p) ==
    /\ page[p].open /\ page[p].list = "shown"
    /\ page[p].chan = <<>> /\ page[p].wire = <<>>
    /\ \A r \in Recorder : rec[r].at # "notify"

\* A page to which nothing is under way shows the list as it is, newest on top
\* and oldest gone, unless one of five things has happened to it: its channel
\* was full, an entry was offered while it had no stream, an entry was in the
\* list and came as an event too, the list replaced what events had shown, or
\* two recorders were overtaken between their two critical sections (record,
\* handleList, handleStream, and load and onmessage of the page).
QuietPageIsExact ==
    \A p \in Page : Quiet(p) /\ why[p] = {} => page[p].rows = Reverse(entries)

\* No page, however slow, keeps a request's goroutine in record, nor a replay
\* in handleReplay ("drop rather than block the relay").
RecordersNeverBlock ==
    \A r \in Recorder : rec[r].at # "idle" ~> rec[r].at = "idle"
=============================================================================
