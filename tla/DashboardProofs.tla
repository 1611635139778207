-------------------------- MODULE DashboardProofs --------------------------
(***************************************************************************)
(* The traffic inspector, for every number of recorders, pages, entries    *)
(* and channel slots: a page that nothing has gone wrong for shows the     *)
(* list as it is.                                                          *)
(***************************************************************************)
EXTENDS Dashboard, SequenceTheorems, WellFoundedInduction, TLAPS

-----------------------------------------------------------------------------
(***************************************************************************)
(* What is true of every page, whatever has happened to it: it is open     *)
(* once it has asked for the list or for the stream, and each entry it has *)
(* or is about to get is one that was recorded, the very one of the list   *)
(* if that still has it.                                                   *)
(***************************************************************************)
EntrySet == [id : Nat, streamed : BOOLEAN]

RecorderSet == [at : {"idle", "notify", "replay"}, entry : EntrySet]

PageSet ==
    [open : BOOLEAN, rows : Seq(EntrySet), list : {"none", "asked", "sent", "shown", "failed"},
     got : Seq(EntrySet), listed : Nat, stream : BOOLEAN,
     chan : Seq(EntrySet), wire : Seq(EntrySet)]

DashTypeOK ==
    /\ entries \in Seq(EntrySet) /\ nextID \in Nat /\ notified \in Nat
    /\ rec \in [Recorder -> RecorderSet]
    /\ page \in [Page -> PageSet]
    /\ why \in [Page -> SUBSET {"full", "gap", "twice", "order", "overwritten"}]

\* The highest entry that has left the list.
Base == nextID - Len(entries)

ListInOrder ==
    /\ Len(entries) <= MaxEntries
    /\ Base = 0 \/ (Base > 0 /\ Len(entries) = MaxEntries)
    /\ \A i \in 1..Len(entries) : entries[i].id = Base + i

\* An entry that was recorded.
Genuine(e) == e.id \in 1..nextID /\ (e.id > Base => e = entries[e.id - Base])

AllGenuine(s) == \A i \in 1..Len(s) : Genuine(s[i])

Pending(r) == rec[r].at = "notify"

RecordersApart ==
    /\ notified <= nextID
    /\ \A r \in Recorder : Pending(r) => Genuine(rec[r].entry) /\ rec[r].entry.id # notified
    /\ \A r, t \in Recorder :
          Pending(r) /\ Pending(t) /\ rec[r].entry.id = rec[t].entry.id => r = t

PageGenuine(q) ==
    /\ q.list # "none" \/ q.stream => q.open
    /\ AllGenuine(q.rows) /\ AllGenuine(q.got) /\ AllGenuine(q.chan) /\ AllGenuine(q.wire)
    /\ q.listed <= nextID

(***************************************************************************)
(* What a page that nothing has gone wrong for has shown, b, and what is   *)
(* under way to it, w, have in common with the entries recorded.           *)
(***************************************************************************)
Rising(s) == \A i, j \in 1..Len(s) : i < j => s[i].id < s[j].id
Falling(s) == \A i, j \in 1..Len(s) : i < j => s[i].id > s[j].id
Within(n, s) == \E i \in 1..Len(s) : s[i].id = n

\* The entries that the page has been told of: in its list, or notified.
Told(n, listed) == n <= listed \/ \A r \in Recorder : Pending(r) => rec[r].entry.id # n

\* Entry n has been pushed out of the rows by newer ones.
PushedOut(n, b) == Len(b) = MaxEntries /\ \A i \in 1..Len(b) : n < b[i].id

Underway(w, listed) ==
    /\ Rising(w)
    /\ \A i \in 1..Len(w) : listed < w[i].id /\ w[i].id <= notified

Displayed(b, listed) ==
    /\ Falling(b) /\ Len(b) <= MaxEntries
    /\ \A i \in 1..Len(b) : b[i].id <= listed \/ b[i].id <= notified

Before(b, w) == \A i \in 1..Len(b), j \in 1..Len(w) : b[i].id < w[j].id

Complete(b, w, listed) ==
    \A n \in 1..nextID : Told(n, listed) => Within(n, w) \/ Within(n, b) \/ PushedOut(n, b)

Faithful(b, w, listed) ==
    /\ Underway(w, listed) /\ Displayed(b, listed) /\ Before(b, w) /\ Complete(b, w, listed)

\* An event has put an entry on top that the list on its way does not have.
Overtaken(q) == \E i \in 1..Len(q.rows) : q.rows[i].id > q.listed

Queue(q) == q.wire \o q.chan

PageRight(q) ==
    /\ q.list = "shown" => Faithful(q.rows, Queue(q), q.listed)
    /\ q.list = "sent" => Underway(Queue(q), q.listed)
    /\ q.list = "sent" /\ ~Overtaken(q) => Faithful(q.got, Queue(q), q.listed)

PagesGenuine == \A p \in Page : PageGenuine(page[p])
PagesRight == \A p \in Page : why[p] = {} => PageRight(page[p])

DashInv == ListInOrder /\ RecordersApart /\ PagesGenuine /\ PagesRight

-----------------------------------------------------------------------------
(***************************************************************************)
(* The sequences that the dashboard is made of.                            *)
(***************************************************************************)
LEMMA Appending ==
    ASSUME NEW S, NEW s \in Seq(S), NEW e \in S
    PROVE  /\ Append(s, e) \in Seq(S) /\ Len(s) \in Nat /\ Len(Append(s, e)) = Len(s) + 1
           /\ Append(s, e)[Len(s) + 1] = e
           /\ \A i \in 1..Len(s) : Append(s, e)[i] = s[i]
OBVIOUS

LEMMA Taking ==
    ASSUME NEW S, NEW s \in Seq(S), s # <<>>
    PROVE  /\ Len(s) \in Nat \ {0} /\ Head(s) = s[1] /\ Head(s) \in S
           /\ Tail(s) \in Seq(S) /\ Len(Tail(s)) = Len(s) - 1
           /\ \A i \in 1..Len(s) - 1 : Tail(s)[i] = s[i + 1]
OBVIOUS

LEMMA Joining ==
    ASSUME NEW S, NEW s \in Seq(S), NEW t \in Seq(S)
    PROVE  /\ s \o t \in Seq(S) /\ Len(s) \in Nat /\ Len(t) \in Nat
           /\ Len(s \o t) = Len(s) + Len(t)
           /\ \A i \in 1..Len(s) : (s \o t)[i] = s[i]
           /\ \A i \in 1..Len(t) : (s \o t)[Len(s) + i] = t[i]
           /\ s \o t = <<>> <=> s = <<>> /\ t = <<>>
<1>1. /\ s \o t \in Seq(S) /\ Len(s) \in Nat /\ Len(t) \in Nat
      /\ Len(s \o t) = Len(s) + Len(t)
      /\ \A i \in 1..Len(s) : (s \o t)[i] = s[i]
      /\ \A i \in 1..Len(t) : (s \o t)[Len(s) + i] = t[i]
    OBVIOUS
<1>2. s \o t = <<>> <=> s = <<>> /\ t = <<>>
    BY ConcatProperties, EmptySeq, <1>1
<1>3. QED
    BY <1>1, <1>2

LEMMA Reversing ==
    ASSUME NEW S, NEW s \in Seq(S)
    PROVE  /\ Reverse(s) \in Seq(S) /\ Len(s) \in Nat /\ Len(Reverse(s)) = Len(s)
           /\ \A i \in 1..Len(s) : Reverse(s)[i] = s[Len(s) - i + 1]
<1>1. Len(s) \in Nat /\ \A i \in 1..Len(s) : Len(s) - i + 1 \in 1..Len(s) /\ s[Len(s) - i + 1] \in S
    OBVIOUS
<1>2. Reverse(s) \in [1..Len(s) -> S]
    BY <1>1 DEF Reverse
<1>3. Reverse(s) \in Seq(S)
    BY <1>1, <1>2, SeqDef
<1>4. DOMAIN Reverse(s) = 1..Len(s) /\ DOMAIN Reverse(s) = 1..Len(Reverse(s))
    BY <1>2, <1>3, LenProperties
<1>5. Len(Reverse(s)) = Len(s)
    BY <1>1, <1>3, <1>4, LenProperties
<1>6. QED
    BY <1>1, <1>3, <1>5 DEF Reverse

\* An entry that goes from the second sequence to the first ...
LEMMA PassedOn ==
    ASSUME NEW S, NEW s \in Seq(S), NEW t \in Seq(S), t # <<>>
    PROVE  Append(s, Head(t)) \o Tail(t) = s \o t
<1>1. Len(t) \in Nat \ {0} /\ Len(s) \in Nat
    BY EmptySeq
<1>2. Append(s, Head(t)) \o Tail(t) \in Seq(S) /\ s \o t \in Seq(S)
    OBVIOUS
<1>3. Len(Append(s, Head(t)) \o Tail(t)) = Len(s \o t)
    OBVIOUS
<1>4. ASSUME NEW i \in 1..Len(s \o t) PROVE (Append(s, Head(t)) \o Tail(t))[i] = (s \o t)[i]
    BY <1>1
<1>5. QED
    BY <1>2, <1>3, <1>4, SeqEqual

\* ... the first one that leaves ...
LEMMA TakenFirst ==
    ASSUME NEW S, NEW s \in Seq(S), NEW t \in Seq(S), s # <<>>
    PROVE  Tail(s) \o t = Tail(s \o t) /\ s \o t # <<>> /\ Head(s \o t) = Head(s)
<1>1. Len(s) \in Nat \ {0} /\ Len(t) \in Nat
    BY EmptySeq
<1>2. s \o t # <<>>
    BY ConcatEqualIffEmpty
<1>3. Tail(s) \o t \in Seq(S) /\ Tail(s \o t) \in Seq(S) /\ Head(s \o t) = Head(s)
    BY <1>1, <1>2
<1>4. Len(Tail(s) \o t) = Len(Tail(s \o t))
    BY <1>1, <1>2
<1>5. ASSUME NEW i \in 1..Len(Tail(s) \o t) PROVE (Tail(s) \o t)[i] = Tail(s \o t)[i]
    BY <1>1, <1>2
<1>6. QED
    BY <1>2, <1>3, <1>4, <1>5, SeqEqual

\* ... and one more that comes.
LEMMA JoinedLast ==
    ASSUME NEW S, NEW s \in Seq(S), NEW t \in Seq(S), NEW e \in S
    PROVE  s \o Append(t, e) = Append(s \o t, e)
<1>1. /\ s \o Append(t, e) \in Seq(S) /\ Append(s \o t, e) \in Seq(S)
      /\ Len(s) \in Nat /\ Len(t) \in Nat
    OBVIOUS
<1>2. Len(s \o Append(t, e)) = Len(Append(s \o t, e))
    OBVIOUS
<1>3. ASSUME NEW i \in 1..Len(s \o Append(t, e)) PROVE (s \o Append(t, e))[i] = Append(s \o t, e)[i]
    BY <1>1
<1>4. QED
    BY <1>1, <1>2, <1>3, SeqEqual

LEMMA EntryIds ==
    ASSUME NEW s \in Seq(EntrySet)
    PROVE  Len(s) \in Nat /\ \A i \in 1..Len(s) : s[i] \in EntrySet /\ s[i].id \in Nat
<1>1. Len(s) \in Nat /\ \A i \in 1..Len(s) : s[i] \in EntrySet
    OBVIOUS
<1>2. \A e \in EntrySet : e.id \in Nat
    BY DEF EntrySet
<1>3. QED
    BY <1>1, <1>2

-----------------------------------------------------------------------------
(***************************************************************************)
(* The list: record appends an entry and may drop the oldest.              *)
(***************************************************************************)
LEMMA ListTypes ==
    ASSUME DashTypeOK, ListInOrder
    PROVE  /\ Len(entries) \in Nat /\ nextID \in Nat /\ MaxEntries \in Nat /\ MaxEntries > 0
           /\ Base \in Nat /\ nextID = Base + Len(entries) /\ Len(entries) <= MaxEntries
           /\ \A i \in 1..Len(entries) : entries[i] \in EntrySet /\ entries[i].id = Base + i
BY DashboardAssumption DEF DashTypeOK, ListInOrder, Base

LEMMA AppendedList ==
    ASSUME DashTypeOK, ListInOrder, NEW e \in EntrySet
    PROVE  LET k == IF Len(entries) = MaxEntries THEN 1 ELSE 0
               s == Appended(e)
           IN  /\ s \in Seq(EntrySet) /\ Len(s) = Len(entries) + 1 - k
               /\ s[Len(entries) + 1 - k] = e
               /\ \A i \in 1..Len(entries) - k : s[i] = entries[i + k]
<1> DEFINE all == Append(entries, e)
           s == Appended(e)
<1>1. /\ Len(entries) \in Nat /\ MaxEntries \in Nat /\ MaxEntries > 0 /\ Len(entries) <= MaxEntries
      /\ entries \in Seq(EntrySet)
    BY ListTypes DEF DashTypeOK
<1>2. /\ all \in Seq(EntrySet) /\ Len(all) = Len(entries) + 1
      /\ all[Len(entries) + 1] = e
      /\ \A i \in 1..Len(entries) : all[i] = entries[i]
    BY <1>1, Appending
<1>3. CASE Len(entries) = MaxEntries
    <2>1. s = SubSeq(all, 2, MaxEntries + 1)
        BY <1>1, <1>2, <1>3 DEF Appended
    <2>2. \A i \in 2..MaxEntries + 1 : all[i] \in EntrySet
        BY <1>1, <1>2, <1>3
    <2> HIDE DEF all, s
    <2>3. /\ s \in Seq(EntrySet) /\ Len(s) = MaxEntries
          /\ \A i \in 1..MaxEntries : s[i] = all[i + 1]
        <3>1. 2 \in Int /\ MaxEntries + 1 \in Int /\ 2 <= MaxEntries + 1
            BY <1>1
        <3>2. /\ s \in Seq(EntrySet) /\ Len(s) = (MaxEntries + 1) - 2 + 1
              /\ \A i \in 1..(MaxEntries + 1) - 2 + 1 : s[i] = all[2 + i - 1]
            BY <2>1, <2>2, <3>1, SubSeqProperties
        <3>3. QED
            BY <1>1, <3>2
    <2>4. s[MaxEntries] = e /\ \A i \in 1..MaxEntries - 1 : s[i] = entries[i + 1]
        BY <1>1, <1>2, <1>3, <2>3
    <2>5. QED
        BY <1>1, <1>3, <2>3, <2>4 DEF s
<1>4. CASE Len(entries) # MaxEntries
    <2>1. s = all
        BY <1>1, <1>2, <1>4 DEF Appended
    <2>2. QED
        BY <1>1, <1>2, <1>4, <2>1
<1>5. QED
    BY <1>3, <1>4

LEMMA RecordsList ==
    ASSUME DashTypeOK, ListInOrder, NEW r \in Recorder, NEW st \in BOOLEAN, Records(r, st),
           NEW e, e = Entry(nextID + 1, st)
    PROVE  /\ entries' \in Seq(EntrySet) /\ nextID' = nextID + 1
           /\ ListInOrder'
           /\ e \in EntrySet /\ Genuine(e)'
           /\ \A x \in EntrySet : Genuine(x) => Genuine(x)'
<1>1. /\ Len(entries) \in Nat /\ nextID \in Nat /\ MaxEntries \in Nat /\ MaxEntries > 0
      /\ Base \in Nat /\ nextID = Base + Len(entries) /\ Len(entries) <= MaxEntries
      /\ \A i \in 1..Len(entries) : entries[i] \in EntrySet /\ entries[i].id = Base + i
    BY ListTypes
<1>2. e \in EntrySet /\ e.id = nextID + 1
    BY <1>1 DEF Entry, EntrySet
<1>3. nextID' = nextID + 1 /\ entries' = Appended(e)
    BY DEF Records
<1>4. PICK k \in 0..1 :
         /\ k = 1 <=> Len(entries) = MaxEntries
         /\ entries' \in Seq(EntrySet) /\ Len(entries') = Len(entries) + 1 - k
         /\ entries'[Len(entries) + 1 - k] = e
         /\ \A i \in 1..Len(entries) - k : entries'[i] = entries[i + k]
    <2> DEFINE m == IF Len(entries) = MaxEntries THEN 1 ELSE 0
    <2>1. /\ entries' \in Seq(EntrySet) /\ Len(entries') = Len(entries) + 1 - m
          /\ entries'[Len(entries) + 1 - m] = e
          /\ \A i \in 1..Len(entries) - m : entries'[i] = entries[i + m]
        BY <1>2, <1>3, AppendedList
    <2>2. m \in 0..1 /\ (m = 1 <=> Len(entries) = MaxEntries)
        OBVIOUS
    <2> HIDE DEF m
    <2>3. QED
        BY <2>1, <2>2
<1>5. k \in Nat /\ (k = 1 \/ k = 0) /\ (k = 1 => Len(entries) >= 1)
    BY <1>1, <1>4
<1>6. Base' = Base + k
    <2>1. Base' = nextID' - Len(entries') /\ Base = nextID - Len(entries)
        BY DEF Base
    <2>2. Len(entries') = Len(entries) + 1 - k
        BY <1>4
    <2>3. nextID \in Int /\ Len(entries) \in Int /\ k \in Int
        BY <1>1, <1>5
    <2>4. QED
        BY <1>3, <2>1, <2>2, <2>3
<1>7. ListInOrder'
    <2>1. Len(entries') <= MaxEntries /\ (Base' = 0 \/ (Base' > 0 /\ Len(entries') = MaxEntries))
        <3>1. Base = 0 \/ Len(entries) = MaxEntries
            BY <1>1 DEF ListInOrder
        <3>2. QED
            BY <1>1, <1>4, <1>5, <1>6, <3>1
    <2>2. ASSUME NEW i \in 1..Len(entries') PROVE entries'[i].id = Base' + i
        <3>1. CASE i = Len(entries) + 1 - k
            BY <1>1, <1>2, <1>4, <1>5, <1>6, <3>1
        <3>2. CASE i # Len(entries) + 1 - k
            <4>1. i \in 1..Len(entries) - k /\ i + k \in 1..Len(entries)
                BY <1>1, <1>4, <1>5, <3>2, <2>2
            <4>2. QED
                <5>1. entries'[i] = entries[i + k] /\ entries[i + k].id = Base + (i + k)
                    BY <1>1, <1>4, <4>1
                <5>2. QED
                    BY <1>1, <1>5, <1>6, <5>1
        <3>3. QED
            BY <3>1, <3>2
    <2>3. QED
        BY <2>1, <2>2 DEF ListInOrder
<1>8. Genuine(e)'
    <2>1. e.id \in 1..nextID' /\ e.id - Base' = Len(entries) + 1 - k
        BY <1>1, <1>2, <1>3, <1>5, <1>6
    <2>2. QED
        BY <1>4, <2>1 DEF Genuine
<1>9. ASSUME NEW x \in EntrySet, Genuine(x) PROVE Genuine(x)'
    <2>1. x.id \in 1..nextID /\ x.id \in Nat /\ (x.id > Base => x = entries[x.id - Base])
        BY <1>9 DEF Genuine
    <2>2. ASSUME x.id > Base' PROVE x = entries'[x.id - Base']
        <3>1. x.id - Base' \in 1..Len(entries) - k
            <4>1. x.id \in Int /\ x.id <= Base + Len(entries) /\ x.id > Base + k
                BY <1>1, <1>6, <2>1, <2>2
            <4>2. Base \in Int /\ Len(entries) \in Int /\ k \in Int
                BY <1>1, <1>5
            <4>3. QED
                BY <1>6, <4>1, <4>2
        <3>2. entries'[x.id - Base'] = entries[x.id - Base' + k] /\ x.id - Base' + k = x.id - Base
            <4>1. entries'[x.id - Base'] = entries[x.id - Base' + k]
                BY <1>4, <3>1
            <4>2. x.id - Base' + k = x.id - Base
                BY <1>1, <1>5, <1>6, <2>1
            <4>3. QED
                BY <4>1, <4>2
        <3>3. QED
            BY <1>1, <1>5, <1>6, <2>1, <2>2, <3>2
    <2>3. QED
        BY <1>1, <1>3, <2>1, <2>2 DEF Genuine
<1>10. QED
    BY <1>2, <1>3, <1>4, <1>7, <1>8, <1>9

-----------------------------------------------------------------------------
LEMMA DashInitially == Init => DashTypeOK /\ DashInv
<1> SUFFICES ASSUME Init PROVE DashTypeOK /\ DashInv
    OBVIOUS
<1>1. <<>> \in Seq(EntrySet) /\ Len(<<>>) = 0 /\ NoEntry \in EntrySet
    BY EmptySeq DEF NoEntry, Entry, EntrySet
<1>2. ClosedPage \in PageSet /\ Idle \in RecorderSet /\ Idle.at = "idle"
    BY <1>1 DEF ClosedPage, PageSet, Idle, RecorderSet
<1>3. DashTypeOK
    BY <1>1, <1>2 DEF Init, DashTypeOK
<1>4. ListInOrder
    <2>1. Len(entries) = 0 /\ nextID = 0
        BY <1>1 DEF Init
    <2>2. Base = 0 /\ 0 <= MaxEntries
        BY <2>1, DashboardAssumption DEF Base
    <2>3. QED
        BY <2>1, <2>2 DEF ListInOrder
<1>5. RecordersApart
    BY <1>2 DEF Init, RecordersApart, Pending
<1>6. PagesGenuine /\ PagesRight
    BY <1>1 DEF Init, PagesGenuine, PagesRight, PageGenuine, PageRight, AllGenuine, ClosedPage
<1>7. QED
    BY <1>3, <1>4, <1>5, <1>6 DEF DashInv

(***************************************************************************)
(* What a page has stays right while another entry is recorded: the page   *)
(* has not been told of it yet.                                            *)
(***************************************************************************)
LEMMA RecordsKeeps ==
    ASSUME DashTypeOK, DashInv, NEW r \in Recorder, NEW st \in BOOLEAN, Records(r, st),
           ~Pending(r), UNCHANGED <<page, notified, why>>
    PROVE  DashTypeOK' /\ DashInv'
<1>1. PICK e : e = Entry(nextID + 1, st)
    OBVIOUS
<1>2. /\ entries' \in Seq(EntrySet) /\ nextID' = nextID + 1
      /\ ListInOrder' /\ e \in EntrySet /\ Genuine(e)'
      /\ \A x \in EntrySet : Genuine(x) => Genuine(x)'
    BY <1>1, RecordsList DEF DashInv
<1>3. nextID \in Nat /\ nextID' \in Nat /\ notified \in Nat /\ e.id = nextID + 1
    BY <1>1, <1>2 DEF DashTypeOK, Entry
<1>4. rec' = [rec EXCEPT ![r] = [at |-> "notify", entry |-> e]]
    BY <1>1 DEF Records
<1>5. /\ rec'[r].at = "notify" /\ rec'[r].entry = e
      /\ \A t \in Recorder \ {r} : rec'[t] = rec[t]
    BY <1>4 DEF DashTypeOK
<1>6. DashTypeOK'
    <2>1. rec' \in [Recorder -> RecorderSet]
        BY <1>2, <1>4 DEF DashTypeOK, RecorderSet
    <2>2. QED
        BY <1>2, <1>3, <2>1 DEF DashTypeOK
<1>7. RecordersApart'
    <2>1. \A t \in Recorder \ {r} : Pending(t)' <=> Pending(t)
        BY <1>5 DEF Pending
    <2>2. \A t \in Recorder : rec[t].entry \in EntrySet
        BY DEF DashTypeOK, RecorderSet
    <2>3. notified <= nextID
        BY DEF DashInv, RecordersApart
    <2>4. ASSUME NEW t \in Recorder, Pending(t)'
          PROVE  Genuine(rec[t].entry)' /\ rec'[t].entry.id # notified'
        <3>1. CASE t = r
            BY <1>2, <1>3, <1>5, <2>3, <3>1 DEF Genuine
        <3>2. CASE t # r
            <4>1. Genuine(rec[t].entry) /\ rec[t].entry.id # notified /\ rec'[t] = rec[t]
                BY <1>5, <2>1, <2>4, <3>2 DEF DashInv, RecordersApart
            <4>2. PICK x \in EntrySet : x = rec[t].entry
                BY <2>2
            <4>3. Genuine(x)'
                BY <1>2, <4>1, <4>2
            <4>4. QED
                BY <4>1, <4>2, <4>3 DEF Genuine
        <3>3. QED
            BY <3>1, <3>2
    <2>5. ASSUME NEW t \in Recorder \ {r}, Pending(t) PROVE rec[t].entry.id # e.id
        <3>1. rec[t].entry.id \in 1..nextID
            BY <2>5 DEF DashInv, RecordersApart, Genuine
        <3>2. QED
            BY <1>3, <3>1
    <2>6. ASSUME NEW t \in Recorder, NEW u \in Recorder, Pending(t)', Pending(u)',
                 rec'[t].entry.id = rec'[u].entry.id
          PROVE  t = u
        BY <1>5, <2>1, <2>5, <2>6 DEF DashInv, RecordersApart
    <2>7. notified' <= nextID'
        BY <1>2, <1>3, <2>3
    <2>8. QED
        BY <2>4, <2>6, <2>7 DEF RecordersApart
<1>8. PagesGenuine'
    <2>1. ASSUME NEW s \in Seq(EntrySet), AllGenuine(s) PROVE AllGenuine(s)'
        BY <1>2, <2>1 DEF AllGenuine
    <2>2. ASSUME NEW p \in Page PROVE PageGenuine(page[p])'
        <3>1. PICK q \in PageSet : q = page[p]
            BY DEF DashTypeOK
        <3>2. PageGenuine(q)
            BY <3>1 DEF DashInv, PagesGenuine
        <3>3. /\ q.rows \in Seq(EntrySet) /\ q.got \in Seq(EntrySet) /\ q.listed \in Nat
              /\ q.chan \in Seq(EntrySet) /\ q.wire \in Seq(EntrySet)
            BY DEF PageSet
        <3>4. PageGenuine(q)'
            BY <1>2, <1>3, <2>1, <3>2, <3>3 DEF PageGenuine
        <3>5. QED
            BY <3>1, <3>4
    <2>3. QED
        BY <2>2 DEF PagesGenuine
<1>9. PagesRight'
    <2>1. ASSUME NEW n \in 1..nextID', NEW l \in Nat, l <= nextID, Told(n, l)'
          PROVE  n \in 1..nextID /\ Told(n, l)
        <3>1. n \in Nat
            BY <1>3
        <3>2. n # e.id
            BY <1>3, <1>5, <2>1 DEF Told, Pending
        <3>3. \A t \in Recorder : Pending(t) => Pending(t)' /\ rec'[t] = rec[t]
            BY <1>5 DEF Pending
        <3>4. QED
            BY <1>2, <1>3, <2>1, <3>1, <3>2, <3>3 DEF Told
    <2>2. ASSUME NEW b \in Seq(EntrySet), NEW w \in Seq(EntrySet), NEW l \in Nat, l <= nextID,
                 Faithful(b, w, l)
          PROVE  Faithful(b, w, l)'
        <3>1. Complete(b, w, l)'
            BY <2>1, <2>2 DEF Faithful, Complete, Within, PushedOut
        <3>2. QED
            BY <2>2, <3>1 DEF Faithful, Underway, Displayed, Before, Rising, Falling
    <2>3. ASSUME NEW p \in Page, why'[p] = {} PROVE PageRight(page[p])'
        <3>1. PICK q \in PageSet : q = page[p]
            BY DEF DashTypeOK
        <3>2. PageRight(q) /\ q.listed <= nextID
            BY <2>3, <3>1 DEF DashInv, PagesRight, PagesGenuine, PageGenuine
        <3>3. /\ q.rows \in Seq(EntrySet) /\ q.got \in Seq(EntrySet) /\ q.listed \in Nat
              /\ Queue(q) \in Seq(EntrySet)
            BY Joining DEF PageSet, Queue
        <3>4. Underway(Queue(q), q.listed) => Underway(Queue(q), q.listed)'
            BY DEF Underway, Rising
        <3>5. PageRight(q)'
            BY <2>2, <3>2, <3>3, <3>4 DEF PageRight, Overtaken, Queue
        <3>6. QED
            BY <3>1, <3>5
    <2>4. QED
        BY <2>3 DEF PagesRight
<1>10. QED
    BY <1>2, <1>6, <1>7, <1>8, <1>9 DEF DashInv

-----------------------------------------------------------------------------
(***************************************************************************)
(* A step that records and notifies nothing is right if what it leaves in  *)
(* every page is.                                                          *)
(***************************************************************************)
LEMMA PagesKeep ==
    ASSUME DashTypeOK, DashInv, UNCHANGED <<entries, nextID, notified>>,
           rec' \in [Recorder -> RecorderSet],
           \A r \in Recorder : \/ rec'[r] = rec[r]
                               \/ ~Pending(r) /\ ~Pending(r)',
           page' \in [Page -> PageSet],
           why' \in [Page -> SUBSET {"full", "gap", "twice", "order", "overwritten"}],
           \A p \in Page : PageGenuine(page'[p]) /\ (why'[p] = {} => PageRight(page'[p]))
    PROVE  DashTypeOK' /\ DashInv'
<1>1. DashTypeOK'
    BY DEF DashTypeOK
<1>2. ListInOrder'
    BY DEF DashInv, ListInOrder, Base
<1>3. \A r \in Recorder : (Pending(r)' <=> Pending(r)) /\ (Pending(r) => rec'[r] = rec[r])
    BY DEF Pending
<1>4. \A e : Genuine(e)' <=> Genuine(e)
    BY DEF Genuine, Base
<1>5. RecordersApart'
    <2>1. ASSUME NEW r \in Recorder, Pending(r)'
          PROVE  Genuine(rec[r].entry)' /\ rec'[r].entry.id # notified'
        <3>1. PICK x : x = rec[r].entry
            OBVIOUS
        <3>2. Genuine(x) /\ x.id # notified /\ rec'[r].entry = x
            BY <1>3, <2>1, <3>1 DEF DashInv, RecordersApart
        <3>3. QED
            BY <1>4, <3>2 DEF Genuine
    <2>2. ASSUME NEW r \in Recorder, NEW t \in Recorder, Pending(r)', Pending(t)',
                 rec'[r].entry.id = rec'[t].entry.id
          PROVE  r = t
        BY <1>3, <2>2 DEF DashInv, RecordersApart
    <2>3. notified' <= nextID'
        BY DEF DashInv, RecordersApart
    <2>4. QED
        BY <2>1, <2>2, <2>3 DEF RecordersApart
<1>6. \A s : AllGenuine(s)' <=> AllGenuine(s)
    BY <1>4 DEF AllGenuine
<1>7. ASSUME NEW q \in PageSet PROVE PageGenuine(q)' <=> PageGenuine(q)
    BY <1>6 DEF PageGenuine
<1>8. ASSUME NEW n, NEW l PROVE Told(n, l)' <=> Told(n, l)
    BY <1>3 DEF Told
<1>9. ASSUME NEW b, NEW w, NEW l PROVE Faithful(b, w, l) => Faithful(b, w, l)'
    <2>1. Complete(b, w, l) => Complete(b, w, l)'
        BY <1>8 DEF Complete, Within, PushedOut
    <2>2. QED
        BY <2>1 DEF Faithful, Underway, Displayed, Before, Rising, Falling
<1>10. ASSUME NEW q \in PageSet, PageRight(q) PROVE PageRight(q)'
    <2>1. Underway(Queue(q), q.listed) => Underway(Queue(q), q.listed)'
        BY DEF Underway, Rising
    <2>2. QED
        BY <1>9, <1>10, <2>1 DEF PageRight, Overtaken, Queue
<1>11. PagesGenuine' /\ PagesRight'
    <2>1. ASSUME NEW p \in Page PROVE PageGenuine(page[p])' /\ (why'[p] = {} => PageRight(page[p])')
        <3>1. PICK q \in PageSet : q = page'[p]
            OBVIOUS
        <3>2. PageGenuine(q)' /\ (why'[p] = {} => PageRight(q)')
            BY <1>7, <1>10, <3>1
        <3>3. QED
            BY <3>1, <3>2
    <2>2. QED
        BY <2>1 DEF PagesGenuine, PagesRight
<1>12. QED
    BY <1>1, <1>2, <1>5, <1>11 DEF DashInv

(***************************************************************************)
(* The same for a step of one page.                                        *)
(***************************************************************************)
LEMMA OnePageKeeps ==
    ASSUME DashTypeOK, DashInv, UNCHANGED <<entries, nextID, rec, notified>>,
           NEW p \in Page, NEW q \in PageSet, page' = [page EXCEPT ![p] = q],
           NEW c \in SUBSET {"full", "gap", "twice", "order", "overwritten"},
           why' = [why EXCEPT ![p] = c],
           PageGenuine(q), c = {} => PageRight(q)
    PROVE  DashTypeOK' /\ DashInv'
<1>1. page \in [Page -> PageSet] /\ rec \in [Recorder -> RecorderSet]
      /\ why \in [Page -> SUBSET {"full", "gap", "twice", "order", "overwritten"}]
    BY DEF DashTypeOK
<1>2. /\ page' \in [Page -> PageSet] /\ rec' \in [Recorder -> RecorderSet]
      /\ why' \in [Page -> SUBSET {"full", "gap", "twice", "order", "overwritten"}]
      /\ \A r \in Recorder : rec'[r] = rec[r]
    BY <1>1
<1>3. page'[p] = q /\ why'[p] = c
    BY <1>1
<1>4. \A d \in Page \ {p} : page'[d] = page[d] /\ why'[d] = why[d]
    BY <1>1
<1>5. \A d \in Page : PageGenuine(page[d]) /\ (why[d] = {} => PageRight(page[d]))
    BY DEF DashInv, PagesGenuine, PagesRight
<1>6. ASSUME NEW d \in Page
      PROVE  PageGenuine(page'[d]) /\ (why'[d] = {} => PageRight(page'[d]))
    <2>1. CASE d = p
        BY <1>3, <2>1
    <2>2. CASE d # p
        BY <1>4, <1>5, <2>2
    <2>3. QED
        BY <2>1, <2>2
<1>7. QED
    BY <1>2, <1>6, PagesKeep

-----------------------------------------------------------------------------
(***************************************************************************)
(* The steps of a page.                                                    *)
(***************************************************************************)
LEMMA PageFacts ==
    ASSUME DashTypeOK, DashInv, NEW p \in Page
    PROVE  /\ page[p] \in PageSet /\ PageGenuine(page[p])
           /\ why[p] \in SUBSET {"full", "gap", "twice", "order", "overwritten"}
           /\ why[p] = {} => PageRight(page[p])
           /\ page[p].rows \in Seq(EntrySet) /\ page[p].got \in Seq(EntrySet)
           /\ page[p].chan \in Seq(EntrySet) /\ page[p].wire \in Seq(EntrySet)
           /\ page[p].listed \in Nat /\ nextID \in Nat /\ notified \in Nat
BY DEF DashTypeOK, DashInv, PagesGenuine, PagesRight, PageSet

LEMMA PageOpensKeeps ==
    ASSUME DashTypeOK, DashInv, NEW p \in Page, PageOpens(p) \/ PageCloses(p)
    PROVE  DashTypeOK' /\ DashInv'
<1>1. nextID \in Nat /\ <<>> \in Seq(EntrySet) /\ Len(<<>>) = 0
    BY EmptySeq DEF DashTypeOK
<1>2. PICK q \in PageSet :
         /\ page' = [page EXCEPT ![p] = q]
         /\ q.list \in {"none", "asked"} /\ (q.open \/ (q.list = "none" /\ ~q.stream))
         /\ q.rows = <<>> /\ q.got = <<>> /\ q.chan = <<>> /\ q.wire = <<>> /\ q.listed = 0
    <2>1. /\ ClosedPage \in PageSet
          /\ [ClosedPage EXCEPT !.open = TRUE, !.list = "asked"] \in PageSet
        BY <1>1 DEF ClosedPage, PageSet
    <2>2. QED
        BY <2>1 DEF PageOpens, PageCloses, ClosedPage
<1>3. PageGenuine(q) /\ PageRight(q)
    BY <1>1, <1>2 DEF PageGenuine, AllGenuine, PageRight
<1>4. why' = [why EXCEPT ![p] = {}] /\ UNCHANGED <<entries, nextID, rec, notified>>
    BY DEF PageOpens, PageCloses
<1>5. QED
    BY <1>2, <1>3, <1>4, OnePageKeeps

(***************************************************************************)
(* handleList's answer: it has every entry, or the newest MaxEntries.      *)
(***************************************************************************)
LEMMA WholeList ==
    ASSUME DashTypeOK, ListInOrder
    PROVE  /\ Reverse(entries) \in Seq(EntrySet) /\ AllGenuine(Reverse(entries))
           /\ Faithful(Reverse(entries), <<>>, nextID)
<1> DEFINE b == Reverse(entries)
           k == Len(entries)
<1>1. /\ k \in Nat /\ nextID \in Nat /\ MaxEntries \in Nat /\ MaxEntries > 0
      /\ Base \in Nat /\ nextID = Base + k /\ k <= MaxEntries
      /\ \A i \in 1..k : entries[i] \in EntrySet /\ entries[i].id = Base + i
    BY ListTypes
<1>2. /\ b \in Seq(EntrySet) /\ Len(b) = k
      /\ \A i \in 1..k : b[i] = entries[k - i + 1]
    BY Reversing DEF DashTypeOK
<1> HIDE DEF b, k
<1>3. \A i \in 1..k : /\ k - i + 1 \in 1..k
                      /\ b[i] = entries[k - i + 1] /\ b[i].id = Base + (k - i + 1)
    BY <1>1, <1>2
<1>4. AllGenuine(b)
    <2>1. ASSUME NEW i \in 1..k PROVE Genuine(b[i])
        <3>1. b[i].id \in 1..nextID /\ b[i].id - Base = k - i + 1
            BY <1>1, <1>3
        <3>2. QED
            BY <1>3, <3>1 DEF Genuine
    <2>2. QED
        BY <1>2, <2>1 DEF AllGenuine
<1>5. Underway(<<>>, nextID) /\ Before(b, <<>>)
    BY EmptySeq DEF Underway, Rising, Before
<1>6. Displayed(b, nextID)
    <2>1. \A i \in 1..k : b[i].id <= nextID
        BY <1>1, <1>3
    <2>2. \A i, j \in 1..k : i < j => b[i].id > b[j].id
        BY <1>1, <1>3
    <2>3. QED
        BY <1>1, <1>2, <2>1, <2>2 DEF Displayed, Falling
<1>7. Complete(b, <<>>, nextID)
    <2>1. ASSUME NEW n \in 1..nextID PROVE Within(n, b) \/ PushedOut(n, b)
        <3>1. CASE n > Base
            <4>1. k - (n - Base) + 1 \in 1..k /\ b[k - (n - Base) + 1].id = n
                <5>1. k - (n - Base) + 1 \in 1..k
                    BY <1>1, <3>1
                <5>2. b[k - (n - Base) + 1].id = Base + (k - (k - (n - Base) + 1) + 1)
                    BY <1>3, <5>1
                <5>3. QED
                    BY <1>1, <5>1, <5>2
            <4>2. QED
                BY <1>2, <4>1 DEF Within
        <3>2. CASE n <= Base
            <4>1. k = MaxEntries
                BY <1>1, <3>2 DEF ListInOrder, k
            <4>2. \A i \in 1..k : n < b[i].id
                BY <1>1, <1>3, <3>2
            <4>3. QED
                BY <1>2, <4>1, <4>2 DEF PushedOut
        <3>3. QED
            BY <1>1, <3>1, <3>2
    <2>2. QED
        BY <2>1 DEF Complete
<1>8. QED
    BY <1>2, <1>4, <1>5, <1>6, <1>7 DEF Faithful, b

LEMMA ListAnsweredKeeps ==
    ASSUME DashTypeOK, DashInv, NEW p \in Page, ListAnswered(p)
    PROVE  DashTypeOK' /\ DashInv'
<1>1. /\ page[p] \in PageSet /\ PageGenuine(page[p])
      /\ why[p] \in SUBSET {"full", "gap", "twice", "order", "overwritten"}
      /\ page[p].rows \in Seq(EntrySet) /\ page[p].chan \in Seq(EntrySet)
      /\ page[p].wire \in Seq(EntrySet) /\ nextID \in Nat
    BY PageFacts
<1>2. /\ Reverse(entries) \in Seq(EntrySet) /\ AllGenuine(Reverse(entries))
      /\ Faithful(Reverse(entries), <<>>, nextID)
    BY WholeList DEF DashInv
<1>3. PICK q \in PageSet :
         /\ page' = [page EXCEPT ![p] = q]
         /\ q.open = page[p].open /\ q.stream = page[p].stream /\ q.list = "sent"
         /\ q.rows = page[p].rows /\ q.got = Reverse(entries) /\ q.listed = nextID
         /\ q.chan = page[p].chan /\ q.wire = page[p].wire
    <2> DEFINE q == [page[p] EXCEPT !.list = "sent", !.got = Reverse(entries), !.listed = nextID]
    <2>1. q \in PageSet
        BY <1>1, <1>2 DEF PageSet
    <2>2. page' = [page EXCEPT ![p] = q]
        BY DEF ListAnswered
    <2>3. QED
        BY <1>1, <2>1, <2>2 DEF PageSet
<1>4. PICK c \in SUBSET {"full", "gap", "twice", "order", "overwritten"} :
         /\ why' = [why EXCEPT ![p] = c]
         /\ c = {} => page[p].chan \o page[p].wire = <<>>
    <2>1. CASE page[p].chan \o page[p].wire = <<>>
        BY <1>1, <2>1 DEF ListAnswered, DashTypeOK
    <2>2. CASE page[p].chan \o page[p].wire # <<>>
        <3>1. why' = [why EXCEPT ![p] = why[p] \cup {"twice"}]
            BY <2>2 DEF ListAnswered, DashTypeOK
        <3>2. QED
            BY <1>1, <3>1
    <2>3. QED
        BY <2>1, <2>2
<1>5. PageGenuine(q)
    BY <1>1, <1>2, <1>3 DEF PageGenuine, ListAnswered
<1>6. ASSUME c = {} PROVE PageRight(q)
    <2>1. q.chan = <<>> /\ q.wire = <<>>
        BY <1>1, <1>3, <1>4, <1>6, Joining
    <2>2. Queue(q) = <<>>
        BY <2>1 DEF Queue
    <2>3. QED
        BY <1>2, <1>3, <2>2 DEF PageRight, Faithful
<1>7. UNCHANGED <<entries, nextID, rec, notified>>
    BY DEF ListAnswered
<1>8. QED
    BY <1>3, <1>4, <1>5, <1>6, <1>7, OnePageKeeps

LEMMA ListEndsKeeps ==
    ASSUME DashTypeOK, DashInv, NEW p \in Page, ListFails(p) \/ StreamOpens(p)
    PROVE  DashTypeOK' /\ DashInv'
<1>1. /\ page[p] \in PageSet /\ PageGenuine(page[p])
      /\ why[p] \in SUBSET {"full", "gap", "twice", "order", "overwritten"}
      /\ why[p] = {} => PageRight(page[p])
    BY PageFacts
<1>2. why' = [why EXCEPT ![p] = why[p]] /\ UNCHANGED <<entries, nextID, rec, notified>>
    BY DEF ListFails, StreamOpens, DashTypeOK
<1>3. CASE ListFails(p)
    <2> DEFINE q == [page[p] EXCEPT !.list = "failed", !.got = <<>>]
    <2>1. q \in PageSet /\ page' = [page EXCEPT ![p] = q]
        BY <1>1, <1>3, EmptySeq DEF PageSet, ListFails
    <2>2. /\ q.list = "failed" /\ q.got = <<>> /\ q.open = page[p].open
          /\ q.rows = page[p].rows /\ q.listed = page[p].listed
          /\ q.chan = page[p].chan /\ q.wire = page[p].wire
        BY <1>1 DEF PageSet
    <2> HIDE DEF q
    <2>3. PageGenuine(q) /\ PageRight(q)
        BY <1>1, <1>3, <2>2, EmptySeq DEF PageGenuine, AllGenuine, PageRight, ListFails
    <2>4. QED
        BY <1>1, <1>2, <2>1, <2>3, OnePageKeeps
<1>4. CASE StreamOpens(p)
    <2> DEFINE q == [page[p] EXCEPT !.stream = TRUE]
    <2>1. q \in PageSet /\ page' = [page EXCEPT ![p] = q]
        BY <1>1, <1>4 DEF PageSet, StreamOpens
    <2>2. /\ q.list = page[p].list /\ q.got = page[p].got /\ q.open = page[p].open
          /\ q.rows = page[p].rows /\ q.listed = page[p].listed
          /\ q.chan = page[p].chan /\ q.wire = page[p].wire
        BY <1>1 DEF PageSet
    <2> HIDE DEF q
    <2>3. PageGenuine(q)
        BY <1>1, <1>4, <2>2 DEF PageGenuine, StreamOpens
    <2>4. PageRight(page[p]) => PageRight(q)
        BY <2>2 DEF PageRight, Overtaken, Queue
    <2>5. QED
        BY <1>1, <1>2, <2>1, <2>3, <2>4, OnePageKeeps
<1>5. QED
    BY <1>3, <1>4

(***************************************************************************)
(* The page shows the list it was sent, unless events overtook it.         *)
(***************************************************************************)
LEMMA ListShownKeeps ==
    ASSUME DashTypeOK, DashInv, NEW p \in Page, ListShown(p)
    PROVE  DashTypeOK' /\ DashInv'
<1>1. /\ page[p] \in PageSet /\ PageGenuine(page[p])
      /\ why[p] \in SUBSET {"full", "gap", "twice", "order", "overwritten"}
      /\ why[p] = {} => PageRight(page[p])
      /\ page[p].got \in Seq(EntrySet)
    BY PageFacts
<1> DEFINE q == [page[p] EXCEPT !.list = "shown", !.rows = page[p].got, !.got = <<>>]
<1>2. q \in PageSet /\ page' = [page EXCEPT ![p] = q]
    BY <1>1, EmptySeq DEF PageSet, ListShown
<1>3. /\ q.list = "shown" /\ q.got = <<>> /\ q.open = page[p].open
      /\ q.rows = page[p].got /\ q.listed = page[p].listed
      /\ q.chan = page[p].chan /\ q.wire = page[p].wire
    BY <1>1 DEF PageSet
<1> HIDE DEF q
<1>4. PICK c \in SUBSET {"full", "gap", "twice", "order", "overwritten"} :
         /\ why' = [why EXCEPT ![p] = c]
         /\ c = {} => why[p] = {} /\ ~Overtaken(page[p])
    <2>1. CASE Overtaken(page[p])
        <3>1. why' = [why EXCEPT ![p] = why[p] \cup {"overwritten"}]
            BY <2>1 DEF ListShown, DashTypeOK, Overtaken
        <3>2. QED
            BY <1>1, <3>1
    <2>2. CASE ~Overtaken(page[p])
        BY <1>1, <2>2 DEF ListShown, DashTypeOK, Overtaken
    <2>3. QED
        BY <2>1, <2>2
<1>5. PageGenuine(q)
    BY <1>1, <1>3, EmptySeq DEF PageGenuine, AllGenuine, ListShown
<1>6. ASSUME c = {} PROVE PageRight(q)
    BY <1>1, <1>3, <1>4, <1>6 DEF PageRight, Queue, ListShown
<1>7. UNCHANGED <<entries, nextID, rec, notified>>
    BY DEF ListShown
<1>8. QED
    BY <1>2, <1>4, <1>5, <1>6, <1>7, OnePageKeeps

-----------------------------------------------------------------------------
(***************************************************************************)
(* The channel and the wire are one queue, wherever an event is in it.     *)
(***************************************************************************)
LEMMA StreamSendsKeeps ==
    ASSUME DashTypeOK, DashInv, NEW p \in Page, StreamSends(p)
    PROVE  DashTypeOK' /\ DashInv'
<1>1. /\ page[p] \in PageSet /\ PageGenuine(page[p])
      /\ why[p] \in SUBSET {"full", "gap", "twice", "order", "overwritten"}
      /\ why[p] = {} => PageRight(page[p])
      /\ page[p].chan \in Seq(EntrySet) /\ page[p].wire \in Seq(EntrySet)
    BY PageFacts
<1> DEFINE c == page[p].chan
           w == page[p].wire
           e == Head(c)
<1>2. /\ Len(c) \in Nat \ {0} /\ e = c[1] /\ e \in EntrySet
      /\ Tail(c) \in Seq(EntrySet) /\ Len(Tail(c)) = Len(c) - 1
      /\ \A i \in 1..Len(c) - 1 : Tail(c)[i] = c[i + 1]
    BY <1>1, Taking DEF StreamSends
<1>3. /\ Append(w, e) \in Seq(EntrySet) /\ Len(w) \in Nat /\ Len(Append(w, e)) = Len(w) + 1
      /\ Append(w, e)[Len(w) + 1] = e
      /\ \A i \in 1..Len(w) : Append(w, e)[i] = w[i]
    BY <1>1, <1>2, Appending
<1> DEFINE q == [page[p] EXCEPT !.chan = Tail(@), !.wire = Append(@, e)]
<1>4. q \in PageSet
    BY <1>1, <1>2, <1>3 DEF PageSet
<1>5. page' = [page EXCEPT ![p] = q]
    BY <1>1 DEF PageSet, StreamSends, DashTypeOK
<1>6. /\ q.list = page[p].list /\ q.got = page[p].got /\ q.open = page[p].open
      /\ q.stream = page[p].stream /\ q.rows = page[p].rows /\ q.listed = page[p].listed
      /\ q.chan = Tail(c) /\ q.wire = Append(w, e)
    BY <1>1 DEF PageSet
<1>7. c # <<>> /\ UNCHANGED <<entries, nextID, rec, notified>> /\ why' = [why EXCEPT ![p] = why[p]]
    BY DEF StreamSends, DashTypeOK
<1> HIDE DEF q
<1>8. Queue(q) = Queue(page[p])
    <2>1. PICK s \in Seq(EntrySet), t \in Seq(EntrySet) : s = w /\ t = c /\ t # <<>>
        BY <1>1, <1>7
    <2>2. Append(s, Head(t)) \o Tail(t) = s \o t
        BY <2>1, PassedOn
    <2>3. QED
        BY <1>6, <2>1, <2>2 DEF Queue
<1>9. PageGenuine(q)
    <2>1. AllGenuine(c) /\ AllGenuine(w)
        BY <1>1 DEF PageGenuine
    <2> HIDE DEF c, w, e
    <2>2. AllGenuine(Tail(c))
        BY <1>2, <2>1 DEF AllGenuine
    <2>3. Genuine(e)
        BY <1>2, <2>1 DEF AllGenuine
    <2>4. AllGenuine(Append(w, e))
        BY <1>3, <2>1, <2>3 DEF AllGenuine
    <2>5. QED
        BY <1>1, <1>6, <2>2, <2>4 DEF PageGenuine
<1>10. PageRight(page[p]) => PageRight(q)
    BY <1>6, <1>8 DEF PageRight, Overtaken
<1>11. QED
    BY <1>1, <1>4, <1>5, <1>7, <1>9, <1>10, OnePageKeeps

(***************************************************************************)
(* onmessage puts the event on top and lets the oldest row go.             *)
(***************************************************************************)
LEMMA OnTopRows ==
    ASSUME NEW e \in EntrySet, NEW b \in Seq(EntrySet)
    PROVE  LET t == OnTop(e, b)
           IN  /\ t \in Seq(EntrySet) /\ Len(b) \in Nat
               /\ Len(t) = IF Len(b) >= MaxEntries THEN Len(b) ELSE Len(b) + 1
               /\ Len(t) >= 1 /\ t[1] = e
               /\ \A i \in 2..Len(t) : t[i] = b[i - 1]
<1> DEFINE all == <<e>> \o b
           t == OnTop(e, b)
<1>1. <<e>> \in Seq(EntrySet) /\ Len(<<e>>) = 1 /\ <<e>>[1] = e
    OBVIOUS
<1>2. /\ all \in Seq(EntrySet) /\ Len(b) \in Nat /\ Len(all) = Len(b) + 1
      /\ all[1] = e /\ \A i \in 1..Len(b) : all[1 + i] = b[i]
    BY <1>1, Joining
<1> HIDE DEF all
<1>3. \A i \in 2..Len(all) : all[i] = b[i - 1]
    <2> TAKE i \in 2..Len(all)
    <2>1. i - 1 \in 1..Len(b) /\ 1 + (i - 1) = i
        BY <1>2
    <2>2. QED
        BY <1>2, <2>1
<1>4. MaxEntries \in Nat /\ MaxEntries >= 1
    BY DashboardAssumption
<1>5. CASE Len(b) >= MaxEntries
    <2>1. t = SubSeq(all, 1, Len(b))
        BY <1>2, <1>4, <1>5 DEF OnTop, all, Front
    <2>2. /\ SubSeq(all, 1, Len(b)) \in Seq(EntrySet)
          /\ Len(SubSeq(all, 1, Len(b))) = Len(b)
          /\ \A i \in 1..Len(b) : SubSeq(all, 1, Len(b))[i] = all[i]
        BY <1>2
    <2> HIDE DEF t
    <2>3. QED
        BY <1>2, <1>3, <1>4, <1>5, <2>1, <2>2 DEF t
<1>6. CASE ~(Len(b) >= MaxEntries)
    <2>1. t = all
        BY <1>2, <1>4, <1>6 DEF OnTop, all
    <2>2. QED
        BY <1>2, <1>3, <1>4, <1>6, <2>1
<1>7. QED
    BY <1>5, <1>6

LEMMA EventRows ==
    ASSUME NEW b \in Seq(EntrySet), NEW w \in Seq(EntrySet), NEW l \in Nat, w # <<>>,
           nextID \in Nat, notified \in Nat, Faithful(b, w, l)
    PROVE  Faithful(OnTop(Head(w), b), Tail(w), l)
<1>1. PICK e \in EntrySet : e = Head(w)
    BY Taking
<1>2. /\ Len(w) \in Nat \ {0} /\ e = w[1]
      /\ Tail(w) \in Seq(EntrySet) /\ Len(Tail(w)) = Len(w) - 1
      /\ \A i \in 1..Len(w) - 1 : Tail(w)[i] = w[i + 1]
    BY <1>1, Taking
<1>3. PICK v \in Seq(EntrySet) : v = Tail(w)
    BY <1>2
<1>4. PICK t \in Seq(EntrySet) :
         /\ t = OnTop(e, b) /\ Len(b) \in Nat
         /\ Len(t) = IF Len(b) >= MaxEntries THEN Len(b) ELSE Len(b) + 1
         /\ Len(t) >= 1 /\ t[1] = e
         /\ \A i \in 2..Len(t) : t[i] = b[i - 1]
    BY OnTopRows
<1>5. /\ Rising(w) /\ \A i \in 1..Len(w) : l < w[i].id /\ w[i].id <= notified
      /\ Falling(b) /\ Len(b) <= MaxEntries
      /\ \A i \in 1..Len(b) : b[i].id <= l \/ b[i].id <= notified
      /\ Before(b, w) /\ Complete(b, w, l)
    BY DEF Faithful, Underway, Displayed
<1>6. /\ \A i \in 1..Len(v) : i + 1 \in 1..Len(w) /\ v[i] = w[i + 1]
      /\ MaxEntries \in Nat /\ Len(t) \in Nat /\ Len(t) <= MaxEntries
      /\ \A i \in 1..Len(w) : w[i].id \in Nat
      /\ \A i \in 1..Len(b) : b[i].id \in Nat
    <2>1. \A i \in 1..Len(v) : i + 1 \in 1..Len(w) /\ v[i] = w[i + 1]
        BY <1>2, <1>3
    <2>2. MaxEntries \in Nat /\ Len(t) \in Nat /\ Len(t) <= MaxEntries
        BY <1>4, <1>5, DashboardAssumption
    <2>3. /\ \A i \in 1..Len(w) : w[i] \in EntrySet
          /\ \A i \in 1..Len(b) : b[i] \in EntrySet
        OBVIOUS
    <2>4. QED
        BY <2>1, <2>2, <2>3 DEF EntrySet
<1>7. \A i \in 2..Len(t) : i - 1 \in 1..Len(b) /\ t[i] = b[i - 1]
    BY <1>4, <1>6
<1>8. Underway(v, l)
    BY <1>2, <1>3, <1>5, <1>6 DEF Underway, Rising
<1>9. \A i \in 1..Len(b) : b[i].id < e.id
    BY <1>2, <1>5 DEF Before
<1>10. \A j \in 1..Len(v) : e.id < v[j].id
    BY <1>2, <1>5, <1>6 DEF Rising
<1>11. \A i \in 1..Len(t) : i = 1 \/ i \in 2..Len(t)
    BY <1>6
<1>12. Displayed(t, l)
    <2>1. ASSUME NEW i \in 1..Len(t), NEW j \in 1..Len(t), i < j PROVE t[i].id > t[j].id
        <3>1. j \in 2..Len(t) /\ j - 1 \in 1..Len(b) /\ t[j] = b[j - 1]
            <4>1. j \in 2..Len(t)
                BY <1>6, <2>1
            <4>2. QED
                BY <1>7, <4>1
        <3>2. CASE i = 1
            BY <1>2, <1>4, <1>6, <1>9, <3>1, <3>2
        <3>3. CASE i \in 2..Len(t)
            <4>1. i - 1 \in 1..Len(b) /\ t[i] = b[i - 1] /\ i - 1 < j - 1
                BY <1>6, <1>7, <2>1, <3>3
            <4>2. QED
                BY <1>5, <3>1, <4>1 DEF Falling
        <3>4. QED
            BY <1>11, <3>2, <3>3
    <2>2. ASSUME NEW i \in 1..Len(t) PROVE t[i].id <= l \/ t[i].id <= notified
        BY <1>2, <1>4, <1>5, <1>7, <1>11
    <2>3. QED
        BY <1>6, <2>1, <2>2 DEF Displayed, Falling
<1>13. Before(t, v)
    <2>1. ASSUME NEW i \in 1..Len(t), NEW j \in 1..Len(v) PROVE t[i].id < v[j].id
        <3>1. CASE i = 1
            BY <1>4, <1>10, <3>1
        <3>2. CASE i \in 2..Len(t)
            BY <1>5, <1>6, <1>7, <3>2 DEF Before
        <3>3. QED
            BY <1>11, <3>1, <3>2
    <2>2. QED
        BY <2>1 DEF Before
<1>14. Complete(t, v, l)
    <2>1. ASSUME NEW n \in 1..nextID, Told(n, l)
          PROVE  Within(n, v) \/ Within(n, t) \/ PushedOut(n, t)
        <3>1. Within(n, w) \/ Within(n, b) \/ PushedOut(n, b)
            BY <1>5, <2>1 DEF Complete
        <3>2. CASE Within(n, w)
            <4>1. PICK i \in 1..Len(w) : w[i].id = n
                BY <3>2 DEF Within
            <4>2. CASE i = 1
                BY <1>2, <1>4, <1>6, <4>1, <4>2 DEF Within
            <4>3. CASE i # 1
                <5>1. i - 1 \in 1..Len(v) /\ v[i - 1] = w[i]
                    BY <1>2, <1>3, <4>3
                <5>2. QED
                    BY <4>1, <5>1 DEF Within
            <4>4. QED
                BY <4>2, <4>3
        <3>3. CASE Within(n, b)
            <4>1. PICK i \in 1..Len(b) : b[i].id = n
                BY <3>3 DEF Within
            <4>2. CASE i + 1 \in 1..Len(t)
                <5>1. i + 1 \in 2..Len(t) /\ (i + 1) - 1 = i
                    BY <1>4, <4>2
                <5>2. t[i + 1] = b[i]
                    BY <1>4, <5>1
                <5>3. QED
                    BY <4>1, <4>2, <5>2 DEF Within
            <4>3. CASE i + 1 \notin 1..Len(t)
                <5>1. Len(t) = Len(b) /\ i = Len(b) /\ Len(t) = MaxEntries
                    BY <1>4, <1>5, <1>6, <4>3
                <5>2. ASSUME NEW j \in 1..Len(t) PROVE n < t[j].id
                    <6>1. CASE j = 1
                        BY <1>4, <1>9, <4>1, <6>1
                    <6>2. CASE j \in 2..Len(t)
                        <7>1. j - 1 \in 1..Len(b) /\ j - 1 < i /\ t[j] = b[j - 1]
                            BY <1>4, <1>6, <1>7, <5>1, <6>2
                        <7>2. b[j - 1].id > b[i].id
                            BY <1>5, <7>1 DEF Falling
                        <7>3. QED
                            BY <1>6, <4>1, <7>1, <7>2
                    <6>3. QED
                        BY <1>11, <6>1, <6>2
                <5>3. QED
                    BY <5>1, <5>2 DEF PushedOut
            <4>4. QED
                BY <4>2, <4>3
        <3>4. CASE PushedOut(n, b)
            <4>1. Len(b) = MaxEntries /\ \A i \in 1..Len(b) : n < b[i].id
                BY <3>4 DEF PushedOut
            <4>2. Len(t) = MaxEntries /\ 1 \in 1..Len(b)
                BY <1>4, <1>6, <4>1
            <4>3. n < e.id
                <5>1. e.id \in Nat /\ b[1].id \in Nat /\ n \in Nat
                    BY <1>6, <4>2 DEF EntrySet
                <5>2. n < b[1].id /\ b[1].id < e.id
                    BY <1>9, <4>1, <4>2
                <5>3. QED
                    BY <5>1, <5>2
            <4>4. QED
                BY <1>4, <1>7, <1>11, <4>1, <4>2, <4>3 DEF PushedOut
        <3>5. QED
            BY <3>1, <3>2, <3>3, <3>4
    <2>2. QED
        BY <2>1 DEF Complete
<1>15. QED
    BY <1>1, <1>3, <1>4, <1>8, <1>12, <1>13, <1>14 DEF Faithful

LEMMA EventShownKeeps ==
    ASSUME DashTypeOK, DashInv, NEW p \in Page, EventShown(p)
    PROVE  DashTypeOK' /\ DashInv'
<1>1. /\ page[p] \in PageSet /\ PageGenuine(page[p])
      /\ why[p] \in SUBSET {"full", "gap", "twice", "order", "overwritten"}
      /\ why[p] = {} => PageRight(page[p])
      /\ page[p].rows \in Seq(EntrySet)
      /\ page[p].chan \in Seq(EntrySet) /\ page[p].wire \in Seq(EntrySet)
      /\ page[p].listed \in Nat /\ nextID \in Nat /\ notified \in Nat
    BY PageFacts
<1> DEFINE w == page[p].wire
           e == Head(w)
           t == OnTop(e, page[p].rows)
<1>2. w # <<>>
    BY DEF EventShown
<1>3. /\ Len(w) \in Nat \ {0} /\ e = w[1] /\ e \in EntrySet
      /\ Tail(w) \in Seq(EntrySet) /\ Len(Tail(w)) = Len(w) - 1
      /\ \A i \in 1..Len(w) - 1 : Tail(w)[i] = w[i + 1]
    BY <1>1, <1>2, Taking
<1>4. /\ t \in Seq(EntrySet) /\ Len(page[p].rows) \in Nat
      /\ Len(t) \in {Len(page[p].rows), Len(page[p].rows) + 1}
      /\ Len(t) >= 1 /\ t[1] = e
      /\ \A i \in 2..Len(t) : t[i] = page[p].rows[i - 1]
    <2> HIDE DEF e
    <2>1. /\ t \in Seq(EntrySet) /\ Len(page[p].rows) \in Nat
          /\ Len(t) = IF Len(page[p].rows) >= MaxEntries
                      THEN Len(page[p].rows) ELSE Len(page[p].rows) + 1
          /\ Len(t) >= 1 /\ t[1] = e
          /\ \A i \in 2..Len(t) : t[i] = page[p].rows[i - 1]
        <3>1. PICK x \in EntrySet, b \in Seq(EntrySet) : x = e /\ b = page[p].rows
            BY <1>1, <1>3
        <3>2. /\ OnTop(x, b) \in Seq(EntrySet) /\ Len(b) \in Nat
              /\ Len(OnTop(x, b)) = IF Len(b) >= MaxEntries THEN Len(b) ELSE Len(b) + 1
              /\ Len(OnTop(x, b)) >= 1 /\ OnTop(x, b)[1] = x
              /\ \A i \in 2..Len(OnTop(x, b)) : OnTop(x, b)[i] = b[i - 1]
            BY OnTopRows
        <3>3. QED
            BY <3>1, <3>2
    <2> HIDE DEF t
    <2>2. QED
        BY <2>1
<1> DEFINE q == [page[p] EXCEPT !.wire = Tail(@), !.rows = OnTop(e, @)]
<1>5. q \in PageSet
    BY <1>1, <1>3, <1>4 DEF PageSet
<1>6. page' = [page EXCEPT ![p] = q]
    BY <1>1 DEF PageSet, EventShown, DashTypeOK
<1>7. /\ q.list = page[p].list /\ q.got = page[p].got /\ q.open = page[p].open
      /\ q.stream = page[p].stream /\ q.rows = t /\ q.listed = page[p].listed
      /\ q.chan = page[p].chan /\ q.wire = Tail(w)
    BY <1>1 DEF PageSet
<1>8. UNCHANGED <<entries, nextID, rec, notified>> /\ why' = [why EXCEPT ![p] = why[p]]
    BY DEF EventShown, DashTypeOK
<1>9. /\ Queue(q) = Tail(Queue(page[p])) /\ Head(Queue(page[p])) = e
      /\ Queue(page[p]) # <<>> /\ Queue(page[p]) \in Seq(EntrySet)
    <2> DEFINE c == page[p].chan
    <2>1. w \in Seq(EntrySet) /\ c \in Seq(EntrySet)
        BY <1>1
    <2>2. Queue(q) = Tail(w) \o c /\ Queue(page[p]) = w \o c
        BY <1>7 DEF Queue
    <2> HIDE DEF q, w, c
    <2>3. /\ Tail(w) \o c = Tail(w \o c) /\ w \o c # <<>>
          /\ Head(w \o c) = Head(w) /\ w \o c \in Seq(EntrySet)
        BY <1>2, <2>1, TakenFirst, Joining
    <2>4. QED
        BY <2>2, <2>3
<1> HIDE DEF q, t, e, w
<1>10. PageGenuine(q)
    <2>1. AllGenuine(page[p].rows) /\ AllGenuine(w)
        BY <1>1 DEF PageGenuine, w
    <2>2. AllGenuine(Tail(w)) /\ Genuine(e)
        BY <1>3, <2>1 DEF AllGenuine
    <2>3. AllGenuine(t)
        <3>1. \A i \in 1..Len(t) : i = 1 \/ (i \in 2..Len(t) /\ i - 1 \in 1..Len(page[p].rows))
            BY <1>4
        <3>2. QED
            BY <1>4, <2>1, <2>2, <3>1 DEF AllGenuine
    <2>4. QED
        BY <1>1, <1>7, <2>2, <2>3 DEF PageGenuine
<1>11. ASSUME why[p] = {} PROVE PageRight(q)
    <2>1. PageRight(page[p])
        BY <1>1, <1>11
    <2>2. CASE q.list = "shown"
        <3>1. Faithful(page[p].rows, Queue(page[p]), page[p].listed)
            BY <1>7, <2>1, <2>2 DEF PageRight
        <3>2. Faithful(t, Queue(q), q.listed)
            BY <1>1, <1>7, <1>9, <3>1, EventRows DEF t
        <3>3. QED
            BY <1>7, <2>2, <3>2 DEF PageRight
    <2>3. CASE q.list = "sent"
        <3>1. Underway(Queue(page[p]), page[p].listed)
            BY <1>7, <2>1, <2>3 DEF PageRight
        <3>2. PICK v \in Seq(EntrySet) : v = Queue(page[p]) /\ v # <<>>
            BY <1>9
        <3>3. /\ Len(v) \in Nat \ {0} /\ Head(v) = v[1]
              /\ Tail(v) \in Seq(EntrySet) /\ Len(Tail(v)) = Len(v) - 1
              /\ \A i \in 1..Len(v) - 1 : Tail(v)[i] = v[i + 1]
            BY <3>2, Taking
        <3>4. Underway(Tail(v), q.listed)
            BY <1>7, <3>1, <3>2, <3>3 DEF Underway, Rising
        <3>5. e.id > q.listed
            <4>1. e = v[1] /\ 1 \in 1..Len(v)
                BY <1>9, <3>2, <3>3
            <4>2. page[p].listed < v[1].id
                BY <3>1, <3>2, <4>1 DEF Underway
            <4>3. e.id \in Nat
                BY <1>3 DEF EntrySet
            <4>4. QED
                BY <1>1, <1>7, <4>1, <4>2, <4>3
        <3>6. Overtaken(q)
            BY <1>4, <1>7, <3>5 DEF Overtaken
        <3>7. QED
            BY <1>9, <2>3, <3>2, <3>4, <3>6 DEF PageRight
    <2>4. CASE q.list \notin {"sent", "shown"}
        BY <2>4 DEF PageRight
    <2>5. QED
        BY <2>2, <2>3, <2>4
<1>12. QED
    BY <1>1, <1>5, <1>6, <1>8, <1>10, <1>11, OnePageKeeps

(***************************************************************************)
(* A stream that breaks costs nothing but what was under way.              *)
(***************************************************************************)
LEMMA BrokenPage ==
    ASSUME NEW q \in PageSet, PageGenuine(q)
    PROVE  /\ Broken(q) \in PageSet /\ PageGenuine(Broken(q))
           /\ BreakSpoils(q) \in SUBSET {"full", "gap", "twice", "order", "overwritten"}
           /\ BreakSpoils(q) = {} /\ PageRight(q) => PageRight(Broken(q))
<1>1. q.chan \in Seq(EntrySet) /\ q.wire \in Seq(EntrySet)
    BY DEF PageSet
<1>2. Broken(q) \in PageSet
    BY EmptySeq DEF Broken, PageSet
<1>3. /\ Broken(q).open = q.open /\ Broken(q).list = q.list /\ Broken(q).rows = q.rows
      /\ Broken(q).got = q.got /\ Broken(q).listed = q.listed /\ Broken(q).stream = FALSE
      /\ Broken(q).chan = <<>> /\ Broken(q).wire = <<>>
    BY DEF Broken, PageSet
<1>4. PageGenuine(Broken(q))
    BY <1>3, EmptySeq DEF PageGenuine, AllGenuine
<1>5. BreakSpoils(q) \in SUBSET {"full", "gap", "twice", "order", "overwritten"}
    BY DEF BreakSpoils
<1>6. ASSUME BreakSpoils(q) = {}, PageRight(q) PROVE PageRight(Broken(q))
    <2>1. q.chan = <<>> /\ q.wire = <<>>
        BY <1>1, <1>6, Joining DEF BreakSpoils
    <2>2. Queue(Broken(q)) = Queue(q)
        BY <1>3, <2>1 DEF Queue
    <2>3. QED
        BY <1>3, <1>6, <2>2 DEF PageRight, Overtaken
<1>7. QED
    BY <1>2, <1>4, <1>5, <1>6

LEMMA StreamBreaksKeeps ==
    ASSUME DashTypeOK, DashInv, NEW p \in Page, StreamBreaks(p)
    PROVE  DashTypeOK' /\ DashInv'
<1>1. /\ page[p] \in PageSet /\ PageGenuine(page[p])
      /\ why[p] \in SUBSET {"full", "gap", "twice", "order", "overwritten"}
      /\ why[p] = {} => PageRight(page[p])
    BY PageFacts
<1>2. /\ Broken(page[p]) \in PageSet /\ PageGenuine(Broken(page[p]))
      /\ BreakSpoils(page[p]) \in SUBSET {"full", "gap", "twice", "order", "overwritten"}
      /\ BreakSpoils(page[p]) = {} /\ PageRight(page[p]) => PageRight(Broken(page[p]))
    BY <1>1, BrokenPage
<1>3. /\ page' = [page EXCEPT ![p] = Broken(page[p])]
      /\ why' = [why EXCEPT ![p] = why[p] \cup BreakSpoils(page[p])]
      /\ UNCHANGED <<entries, nextID, rec, notified>>
    BY DEF StreamBreaks
<1>4. PICK c \in SUBSET {"full", "gap", "twice", "order", "overwritten"} :
         c = why[p] \cup BreakSpoils(page[p])
    BY <1>1, <1>2
<1>5. c = {} => PageRight(Broken(page[p]))
    BY <1>1, <1>2, <1>4
<1>6. QED
    BY <1>2, <1>3, <1>4, <1>5, OnePageKeeps

LEMMA StopKeeps ==
    ASSUME DashTypeOK, DashInv, Stop
    PROVE  DashTypeOK' /\ DashInv'
<1>1. \A p \in Page :
         /\ page[p] \in PageSet /\ PageGenuine(page[p])
         /\ why[p] \in SUBSET {"full", "gap", "twice", "order", "overwritten"}
         /\ why[p] = {} => PageRight(page[p])
    BY PageFacts
<1>2. \A p \in Page :
         /\ Broken(page[p]) \in PageSet /\ PageGenuine(Broken(page[p]))
         /\ BreakSpoils(page[p]) \in SUBSET {"full", "gap", "twice", "order", "overwritten"}
         /\ BreakSpoils(page[p]) = {} /\ PageRight(page[p]) => PageRight(Broken(page[p]))
    BY <1>1, BrokenPage
<1>3. /\ page' = [p \in Page |-> Broken(page[p])]
      /\ why' = [p \in Page |-> why[p] \cup BreakSpoils(page[p])]
      /\ UNCHANGED <<entries, nextID, rec, notified>>
    BY DEF Stop
<1>4. /\ page' \in [Page -> PageSet]
      /\ why' \in [Page -> SUBSET {"full", "gap", "twice", "order", "overwritten"}]
    BY <1>1, <1>2, <1>3
<1>5. \A p \in Page : page'[p] = Broken(page[p]) /\ why'[p] = why[p] \cup BreakSpoils(page[p])
    BY <1>3
<1>6. \A p \in Page : why'[p] = {} => why[p] = {} /\ BreakSpoils(page[p]) = {}
    BY <1>5
<1>7. \A p \in Page : PageGenuine(page'[p]) /\ (why'[p] = {} => PageRight(page'[p]))
    BY <1>1, <1>2, <1>5, <1>6
<1>8. rec' \in [Recorder -> RecorderSet] /\ \A r \in Recorder : rec'[r] = rec[r]
    BY <1>3 DEF DashTypeOK
<1>9. QED
    BY <1>3, <1>4, <1>7, <1>8, PagesKeep

-----------------------------------------------------------------------------
(***************************************************************************)
(* notify: the entry joins the queue of every stream that has room.        *)
(***************************************************************************)
LEMMA OfferedPage ==
    ASSUME NEW q \in PageSet, NEW e \in EntrySet
    PROVE  /\ Offered(q, e) \in PageSet
           /\ Offered(q, e).open = q.open /\ Offered(q, e).list = q.list
           /\ Offered(q, e).rows = q.rows /\ Offered(q, e).got = q.got
           /\ Offered(q, e).listed = q.listed /\ Offered(q, e).stream = q.stream
           /\ Offered(q, e).wire = q.wire
           /\ IF q.stream /\ Len(q.chan) < ChanCap
              THEN Offered(q, e).chan = Append(q.chan, e) ELSE Offered(q, e) = q
<1>1. q.chan \in Seq(EntrySet) /\ Append(q.chan, e) \in Seq(EntrySet)
    BY DEF PageSet
<1>2. CASE q.stream /\ Len(q.chan) < ChanCap
    <2>1. Offered(q, e) = [q EXCEPT !.chan = Append(q.chan, e)]
        BY <1>2 DEF Offered
    <2>2. QED
        BY <1>1, <1>2, <2>1 DEF PageSet
<1>3. CASE ~(q.stream /\ Len(q.chan) < ChanCap)
    BY <1>3 DEF Offered
<1>4. QED
    BY <1>2, <1>3

LEMMA NothingSpoilt ==
    ASSUME NEW q \in PageSet, NEW e \in EntrySet, notified \in Nat
    PROVE  /\ Spoils(q, e) \in SUBSET {"full", "gap", "twice", "order", "overwritten"}
           /\ Spoils(q, e) = {} /\ q.list \in {"sent", "shown"} =>
                IF q.stream
                THEN Len(q.chan) < ChanCap /\ q.listed < e.id /\ notified <= e.id
                ELSE e.id <= q.listed
<1>1. Spoils(q, e) \in SUBSET {"full", "gap", "twice", "order", "overwritten"}
    BY DEF Spoils
<1>2. ASSUME Spoils(q, e) = {}, q.list \in {"sent", "shown"}
      PROVE  IF q.stream
             THEN Len(q.chan) < ChanCap /\ q.listed < e.id /\ notified <= e.id
             ELSE e.id <= q.listed
    <2>1. "full" \notin Spoils(q, e) /\ "gap" \notin Spoils(q, e)
        BY <1>2
    <2>2. "twice" \notin Spoils(q, e) /\ "order" \notin Spoils(q, e)
        BY <1>2
    <2>3. ~(q.stream /\ Len(q.chan) >= ChanCap)
        BY <2>1 DEF Spoils
    <2>4. ~(~q.stream /\ e.id > q.listed)
        BY <1>2, <2>1 DEF Spoils
    <2>5. ~(q.stream /\ e.id <= q.listed)
        BY <1>2, <2>2 DEF Spoils
    <2>6. ~(q.stream /\ e.id < notified)
        BY <2>2 DEF Spoils
    <2>7. e.id \in Nat /\ q.listed \in Nat /\ Len(q.chan) \in Nat /\ ChanCap \in Nat
        BY DashboardAssumption DEF EntrySet, PageSet
    <2>8. QED
        BY <2>3, <2>4, <2>5, <2>6, <2>7
<1>3. QED
    BY <1>1, <1>2

\* The page is told of e by the queue ...
LEMMA OfferedFaithful ==
    ASSUME NEW w \in Seq(EntrySet), NEW l \in Nat, NEW e \in EntrySet,
           l < e.id, notified \in Nat, notified < e.id, notified' = e.id, nextID' = nextID,
           \A n : Told(n, l)' => Told(n, l) \/ n = e.id, Underway(w, l)
    PROVE  /\ Underway(Append(w, e), l)'
           /\ \A b \in Seq(EntrySet) : Faithful(b, w, l) => Faithful(b, Append(w, e), l)'
<1>1. PICK v \in Seq(EntrySet) : v = Append(w, e)
    BY Appending
<1>2. /\ Len(w) \in Nat /\ Len(v) = Len(w) + 1 /\ v[Len(w) + 1] = e
      /\ \A i \in 1..Len(w) : v[i] = w[i]
    BY <1>1, Appending
<1>3. \A i \in 1..Len(v) : (i \in 1..Len(w) /\ v[i] = w[i]) \/ (i = Len(w) + 1 /\ v[i] = e)
    BY <1>2
<1>4. e.id \in Nat /\ \A i \in 1..Len(w) : w[i].id \in Nat
    BY EntryIds DEF EntrySet
<1>5. Rising(w) /\ \A i \in 1..Len(w) : l < w[i].id /\ w[i].id <= notified
    BY DEF Underway
<1>6. Rising(v)
    <2>1. ASSUME NEW i \in 1..Len(v), NEW j \in 1..Len(v), i < j PROVE v[i].id < v[j].id
        <3>1. i \in 1..Len(w) /\ v[i] = w[i]
            BY <1>2, <1>3, <2>1
        <3>2. CASE j \in 1..Len(w)
            BY <1>2, <1>5, <2>1, <3>1, <3>2 DEF Rising
        <3>3. CASE j = Len(w) + 1
            BY <1>2, <1>4, <1>5, <3>1, <3>3
        <3>4. QED
            BY <1>3, <3>2, <3>3
    <2>2. QED
        BY <2>1 DEF Rising
<1>7. Underway(v, l)'
    <2>1. \A i \in 1..Len(v) : l < v[i].id /\ v[i].id <= e.id
        BY <1>3, <1>4, <1>5
    <2>2. Rising(v)'
        BY <1>6 DEF Rising
    <2>3. QED
        BY <2>1, <2>2 DEF Underway
<1>8. ASSUME NEW b \in Seq(EntrySet), Faithful(b, w, l) PROVE Faithful(b, v, l)'
    <2>1. /\ Falling(b) /\ Len(b) <= MaxEntries
          /\ \A i \in 1..Len(b) : b[i].id <= l \/ b[i].id <= notified
          /\ Before(b, w) /\ Complete(b, w, l)
        BY <1>8 DEF Faithful, Displayed
    <2>2. \A i \in 1..Len(b) : b[i].id \in Nat
        BY EntryIds
    <2>3. \A i \in 1..Len(b) : b[i].id < e.id
        BY <1>4, <2>1, <2>2
    <2>4. Displayed(b, l)'
        BY <1>4, <2>1, <2>2, <2>3 DEF Displayed, Falling
    <2>5. Before(b, v)'
        BY <1>3, <2>1, <2>3 DEF Before
    <2>6. Complete(b, v, l)'
        <3>1. ASSUME NEW n \in 1..nextID, Told(n, l)'
              PROVE  Within(n, v) \/ Within(n, b) \/ PushedOut(n, b)
            <4>1. CASE n = e.id
                BY <1>2, <4>1 DEF Within
            <4>2. CASE n # e.id
                <5>1. Within(n, w) \/ Within(n, b) \/ PushedOut(n, b)
                    BY <2>1, <3>1, <4>2 DEF Complete
                <5>2. Within(n, w) => Within(n, v)
                    BY <1>2 DEF Within
                <5>3. QED
                    BY <5>1, <5>2
            <4>3. QED
                BY <4>1, <4>2
        <3>2. QED
            BY <3>1 DEF Complete, Within, PushedOut
    <2>7. QED
        BY <1>7, <2>4, <2>5, <2>6 DEF Faithful
<1>9. QED
    BY <1>1, <1>7, <1>8

\* ... or has e in its list.
LEMMA ListedFaithful ==
    ASSUME NEW w \in Seq(EntrySet), NEW l \in Nat, NEW e \in EntrySet,
           e.id <= l, notified \in Nat, notified' \in Nat, notified <= notified', nextID' = nextID,
           \A n : Told(n, l)' => Told(n, l) \/ n = e.id, Underway(w, l)
    PROVE  /\ Underway(w, l)'
           /\ \A b \in Seq(EntrySet) : Faithful(b, w, l) => Faithful(b, w, l)'
<1>1. \A n : Told(n, l)' => Told(n, l)
    BY DEF Told
<1>2. \A i \in 1..Len(w) : w[i].id \in Nat
    BY EntryIds
<1>3. Underway(w, l)'
    <2>1. Rising(w)' /\ \A i \in 1..Len(w) : l < w[i].id /\ w[i].id <= notified
        BY DEF Underway, Rising
    <2>2. \A i \in 1..Len(w) : w[i].id <= notified'
        BY <1>2, <2>1
    <2>3. QED
        BY <2>1, <2>2 DEF Underway
<1>4. ASSUME NEW b \in Seq(EntrySet), Faithful(b, w, l) PROVE Faithful(b, w, l)'
    <2>1. \A i \in 1..Len(b) : b[i].id \in Nat
        BY EntryIds
    <2>2. Displayed(b, l)'
        BY <1>4, <2>1 DEF Faithful, Displayed, Falling
    <2>3. Before(b, w)' /\ Complete(b, w, l)'
        BY <1>1, <1>4 DEF Faithful, Before, Complete, Within, PushedOut
    <2>4. QED
        BY <1>3, <2>2, <2>3 DEF Faithful
<1>5. QED
    BY <1>3, <1>4

LEMMA NotifyKeeps ==
    ASSUME DashTypeOK, DashInv, NEW r \in Recorder, Notify(r)
    PROVE  DashTypeOK' /\ DashInv'
<1>1. PICK e \in EntrySet : e = rec[r].entry
    BY DEF DashTypeOK, RecorderSet
<1>2. /\ Pending(r) /\ rec' = [rec EXCEPT ![r] = Idle]
      /\ page' = [p \in Page |-> Offered(page[p], e)]
      /\ why' = [p \in Page |-> IF page[p].open THEN why[p] \cup Spoils(page[p], e) ELSE why[p]]
      /\ notified' = IF e.id > notified THEN e.id ELSE notified
      /\ UNCHANGED <<entries, nextID>>
    BY <1>1 DEF Notify, Notified, Pending
<1>3. /\ nextID \in Nat /\ notified \in Nat /\ e.id \in Nat /\ notified <= nextID
      /\ Genuine(e) /\ e.id # notified /\ e.id \in 1..nextID
    BY <1>1, <1>2 DEF DashTypeOK, DashInv, RecordersApart, Genuine, EntrySet
<1>4. /\ notified' \in Nat /\ notified <= notified' /\ notified' <= nextID
      /\ notified' = notified \/ notified' = e.id
    BY <1>2, <1>3
<1>5. ~Pending(r)' /\ \A t \in Recorder \ {r} : rec'[t] = rec[t]
    BY <1>2 DEF DashTypeOK, Pending, Idle
<1>6. \A t \in Recorder : Pending(t)' => t # r /\ Pending(t) /\ rec'[t] = rec[t]
    BY <1>5 DEF Pending
<1>7. ASSUME NEW p \in Page
      PROVE  /\ page[p] \in PageSet /\ PageGenuine(page[p])
             /\ why[p] \in SUBSET {"full", "gap", "twice", "order", "overwritten"}
             /\ why[p] = {} => PageRight(page[p])
             /\ page[p].chan \in Seq(EntrySet) /\ page[p].listed \in Nat
             /\ page'[p] = Offered(page[p], e)
             /\ why'[p] = IF page[p].open THEN why[p] \cup Spoils(page[p], e) ELSE why[p]
    BY <1>2, PageFacts
<1>8. DashTypeOK'
    <2>1. Idle \in RecorderSet
        BY DEF Idle, RecorderSet, NoEntry, Entry, EntrySet
    <2>2. rec' \in [Recorder -> RecorderSet]
        BY <1>2, <2>1 DEF DashTypeOK
    <2>3. page' \in [Page -> PageSet]
        BY <1>2, <1>7, OfferedPage
    <2>4. \A p \in Page : why'[p] \in SUBSET {"full", "gap", "twice", "order", "overwritten"}
        BY <1>3, <1>7, NothingSpoilt
    <2>5. why' \in [Page -> SUBSET {"full", "gap", "twice", "order", "overwritten"}]
        BY <1>2, <2>4
    <2>6. QED
        BY <1>2, <1>4, <2>2, <2>3, <2>5 DEF DashTypeOK
<1>9. ListInOrder'
    BY <1>2 DEF DashInv, ListInOrder, Base
<1>10. \A x : Genuine(x)' <=> Genuine(x)
    BY <1>2 DEF Genuine, Base
<1>11. RecordersApart'
    <2>1. ASSUME NEW t \in Recorder, Pending(t)'
          PROVE  Genuine(rec[t].entry)' /\ rec'[t].entry.id # notified'
        <3>1. PICK x : x = rec[t].entry
            OBVIOUS
        <3>2. rec'[t].entry = x /\ Genuine(x) /\ x.id # notified /\ t # r /\ Pending(t)
            BY <1>6, <2>1, <3>1 DEF DashInv, RecordersApart
        <3>3. x.id # e.id
            BY <1>1, <1>2, <3>1, <3>2 DEF DashInv, RecordersApart
        <3>4. Genuine(x)'
            BY <1>10, <3>2
        <3>5. QED
            BY <1>4, <3>2, <3>3, <3>4
    <2>2. ASSUME NEW t \in Recorder, NEW u \in Recorder, Pending(t)', Pending(u)',
                 rec'[t].entry.id = rec'[u].entry.id
          PROVE  t = u
        BY <1>6, <2>2 DEF DashInv, RecordersApart
    <2>3. notified' <= nextID'
        BY <1>2, <1>4
    <2>4. QED
        BY <2>1, <2>2, <2>3 DEF RecordersApart
<1>12. PagesGenuine'
    <2>1. \A s : AllGenuine(s)' <=> AllGenuine(s)
        BY <1>10 DEF AllGenuine
    <2>2. ASSUME NEW s \in Seq(EntrySet), AllGenuine(s) PROVE AllGenuine(Append(s, e))
        <3>1. /\ Len(s) \in Nat /\ Len(Append(s, e)) = Len(s) + 1
              /\ Append(s, e)[Len(s) + 1] = e
              /\ \A i \in 1..Len(s) : Append(s, e)[i] = s[i]
            BY Appending
        <3>2. QED
            BY <1>3, <2>2, <3>1 DEF AllGenuine
    <2>3. ASSUME NEW p \in Page PROVE PageGenuine(page[p])'
        <3>1. PICK q \in PageSet : q = Offered(page[p], e)
            BY <1>7, OfferedPage
        <3>2. /\ q.open = page[p].open /\ q.list = page[p].list /\ q.rows = page[p].rows
              /\ q.got = page[p].got /\ q.listed = page[p].listed /\ q.stream = page[p].stream
              /\ q.wire = page[p].wire
              /\ q.chan = page[p].chan \/ q.chan = Append(page[p].chan, e)
            BY <1>7, <3>1, OfferedPage
        <3>3. PageGenuine(q)
            BY <1>7, <2>2, <3>2 DEF PageGenuine
        <3>4. PageGenuine(q)'
            BY <1>2, <2>1, <3>3 DEF PageGenuine
        <3>5. page'[p] = q
            BY <1>7, <3>1
        <3>6. QED
            BY <3>4, <3>5
    <2>4. QED
        BY <2>3 DEF PagesGenuine
<1>13. \A n, l : Told(n, l)' => Told(n, l) \/ n = e.id
    <2>1. \A t \in Recorder : Pending(t) => t = r \/ (Pending(t)' /\ rec'[t] = rec[t])
        BY <1>5 DEF Pending
    <2>2. QED
        BY <1>1, <2>1 DEF Told
<1>14. ASSUME NEW p \in Page, why'[p] = {} PROVE PageRight(page[p])'
    <2>1. PICK q \in PageSet : q = page[p]
        BY <1>7
    <2>2. PICK o \in PageSet : o = Offered(q, e)
        BY OfferedPage
    <2>3. /\ o.list = q.list /\ o.rows = q.rows /\ o.got = q.got /\ o.listed = q.listed
          /\ o.wire = q.wire
          /\ IF q.stream /\ Len(q.chan) < ChanCap THEN o.chan = Append(q.chan, e) ELSE o = q
        BY <2>2, OfferedPage
    <2>4. page'[p] = o
        BY <1>7, <2>1, <2>2
    <2>5. CASE q.list \notin {"sent", "shown"}
        <3>1. PageRight(o)'
            BY <2>3, <2>5 DEF PageRight
        <3>2. QED
            BY <2>4, <3>1
    <2>6. CASE q.list \in {"sent", "shown"}
        <3>1. q.open /\ why[p] = {} /\ Spoils(q, e) = {}
            BY <1>7, <1>14, <2>1, <2>6 DEF PageGenuine
        <3>2. PageRight(q)
            BY <1>7, <2>1, <3>1
        <3>3. /\ q.chan \in Seq(EntrySet) /\ q.wire \in Seq(EntrySet) /\ q.listed \in Nat
              /\ q.rows \in Seq(EntrySet) /\ q.got \in Seq(EntrySet)
            BY DEF PageSet
        <3>4. Queue(q) \in Seq(EntrySet)
            BY <3>3, Joining DEF Queue
        <3>5. IF q.stream
              THEN Len(q.chan) < ChanCap /\ q.listed < e.id /\ notified <= e.id
              ELSE e.id <= q.listed
            BY <1>3, <2>6, <3>1, NothingSpoilt
        <3>6. Underway(Queue(q), q.listed)
            BY <2>6, <3>2 DEF PageRight, Faithful
        <3>7. /\ Underway(Queue(o), q.listed)'
              /\ \A b \in Seq(EntrySet) :
                    Faithful(b, Queue(q), q.listed) => Faithful(b, Queue(o), q.listed)'
            <4>1. PICK w \in Seq(EntrySet) : w = Queue(q)
                BY <3>4
            <4>2. CASE q.stream
                <5>1. q.listed < e.id /\ notified < e.id /\ notified' = e.id
                    BY <1>2, <1>3, <3>5, <4>2
                <5>2. Queue(o) = Append(w, e)
                    <6>1. o.chan = Append(q.chan, e) /\ o.wire = q.wire
                        BY <2>3, <3>5, <4>2
                    <6>2. q.wire \o Append(q.chan, e) = Append(q.wire \o q.chan, e)
                        <7>1. PICK s \in Seq(EntrySet), t \in Seq(EntrySet) :
                                 s = q.wire /\ t = q.chan
                            BY <3>3
                        <7>2. s \o Append(t, e) = Append(s \o t, e)
                            BY JoinedLast
                        <7>3. QED
                            BY <7>1, <7>2
                    <6>3. QED
                        BY <4>1, <6>1, <6>2 DEF Queue
                <5>3. /\ Underway(Append(w, e), q.listed)'
                      /\ \A b \in Seq(EntrySet) :
                            Faithful(b, w, q.listed) => Faithful(b, Append(w, e), q.listed)'
                    BY <1>2, <1>3, <1>13, <3>3, <3>6, <4>1, <5>1, OfferedFaithful
                <5>4. QED
                    BY <4>1, <5>2, <5>3
            <4>3. CASE ~q.stream
                <5>1. Queue(o) = w
                    BY <2>3, <4>1, <4>3
                <5>2. /\ Underway(w, q.listed)'
                      /\ \A b \in Seq(EntrySet) :
                            Faithful(b, w, q.listed) => Faithful(b, w, q.listed)'
                    BY <1>2, <1>3, <1>4, <1>13, <3>3, <3>5, <3>6, <4>1, <4>3, ListedFaithful
                <5>3. QED
                    BY <4>1, <5>1, <5>2
            <4>4. QED
                BY <4>2, <4>3
        <3>8. PageRight(o)'
            BY <2>3, <2>6, <3>2, <3>3, <3>7 DEF PageRight, Overtaken
        <3>9. QED
            BY <2>4, <3>8
    <2>7. QED
        BY <2>5, <2>6
<1>15. PagesRight'
    BY <1>14 DEF PagesRight
<1>16. QED
    BY <1>8, <1>9, <1>11, <1>12, <1>15 DEF DashInv

LEMMA ReplayKeeps ==
    ASSUME DashTypeOK, DashInv, NEW r \in Recorder, Replay(r) \/ ReplayFails(r)
    PROVE  DashTypeOK' /\ DashInv'
<1>1. /\ UNCHANGED <<entries, nextID, page, notified, why>>
      /\ ~Pending(r)
    BY DEF Replay, ReplayFails, Pending
<1>2. PICK s \in RecorderSet : rec' = [rec EXCEPT ![r] = s] /\ s.at # "notify"
    <2>1. Idle \in RecorderSet /\ Idle.at # "notify"
        BY DEF Idle, RecorderSet, NoEntry, Entry, EntrySet
    <2>2. CASE Replay(r)
        <3>1. PICK i \in 1..Len(entries) :
                 rec' = [rec EXCEPT ![r] = [at |-> "replay", entry |-> entries[i]]]
            BY <2>2 DEF Replay
        <3>2. entries[i] \in EntrySet
            BY EntryIds DEF DashTypeOK
        <3>3. PICK s \in RecorderSet : s = [at |-> "replay", entry |-> entries[i]]
            BY <3>2 DEF RecorderSet
        <3>4. s.at = "replay" /\ rec' = [rec EXCEPT ![r] = s]
            BY <3>1, <3>3
        <3>5. QED
            BY <3>4
    <2>3. QED
        BY <2>1, <2>2 DEF ReplayFails
<1>3. rec' \in [Recorder -> RecorderSet]
    BY <1>2 DEF DashTypeOK
<1>4. \A t \in Recorder : rec'[t] = rec[t] \/ (~Pending(t) /\ ~Pending(t)')
    BY <1>1, <1>2 DEF DashTypeOK, Pending
<1>5. /\ page' \in [Page -> PageSet]
      /\ why' \in [Page -> SUBSET {"full", "gap", "twice", "order", "overwritten"}]
    BY <1>1 DEF DashTypeOK
<1>6. \A p \in Page : PageGenuine(page'[p]) /\ (why'[p] = {} => PageRight(page'[p]))
    BY <1>1 DEF DashInv, PagesGenuine, PagesRight
<1>7. QED
    BY <1>1, <1>3, <1>4, <1>5, <1>6, PagesKeep

LEMMA DashStep == DashTypeOK /\ DashInv /\ [Next]_vars => DashTypeOK' /\ DashInv'
<1> SUFFICES ASSUME DashTypeOK, DashInv, [Next]_vars PROVE DashTypeOK' /\ DashInv'
    OBVIOUS
<1>1. CASE UNCHANGED vars
    <2>1. UNCHANGED <<entries, nextID, rec, page, notified, why>>
        BY <1>1 DEF vars
    <2>2. /\ rec' \in [Recorder -> RecorderSet] /\ \A r \in Recorder : rec'[r] = rec[r]
          /\ page' \in [Page -> PageSet]
          /\ why' \in [Page -> SUBSET {"full", "gap", "twice", "order", "overwritten"}]
        BY <2>1 DEF DashTypeOK
    <2>3. \A p \in Page : PageGenuine(page'[p]) /\ (why'[p] = {} => PageRight(page'[p]))
        BY <2>1 DEF DashInv, PagesGenuine, PagesRight
    <2>4. QED
        BY <2>1, <2>2, <2>3, PagesKeep
<1>2. ASSUME NEW r \in Recorder, RecordStep(r) PROVE DashTypeOK' /\ DashInv'
    <2>1. CASE Exchange(r)
        <3>1. PICK st \in BOOLEAN : Records(r, st)
            BY <2>1 DEF Exchange
        <3>2. ~Pending(r) /\ UNCHANGED <<page, notified, why>>
            BY <2>1 DEF Exchange, Pending
        <3>3. QED
            BY <3>1, <3>2, RecordsKeeps
    <2>2. CASE ReplayAnswered(r)
        <3>1. Records(r, FALSE) /\ ~Pending(r) /\ UNCHANGED <<page, notified, why>>
            BY <2>2 DEF ReplayAnswered, Pending
        <3>2. QED
            BY <3>1, RecordsKeeps
    <2>3. QED
        BY <1>2, <2>1, <2>2, NotifyKeeps, ReplayKeeps DEF RecordStep
<1>3. ASSUME NEW p \in Page, PageStep(p) PROVE DashTypeOK' /\ DashInv'
    BY <1>3, PageOpensKeeps, ListAnsweredKeeps, ListEndsKeeps, ListShownKeeps, StreamSendsKeeps,
       EventShownKeeps, StreamBreaksKeeps DEF PageStep
<1>4. QED
    BY <1>1, <1>2, <1>3, StopKeeps DEF Next

-----------------------------------------------------------------------------
(***************************************************************************)
(* The rows of a page that has been told everything: there is no gap, for  *)
(* the entry at the first gap would be neither shown nor pushed out.       *)
(***************************************************************************)
LEMMA LeastOfNats ==
    ASSUME NEW S \in SUBSET Nat, S # {}
    PROVE  \E x \in S : \A y \in S : x <= y
<1> DEFINE R == {ss \in Nat \X Nat : ss[1] < ss[2]}
<1>1. R = OpToRel(<, Nat)
    BY Zenon DEF OpToRel
<1>2. IsWellFoundedOn(R, Nat)
    BY <1>1, NatLessThanWellFounded, Zenon
<1>3. PICK x \in S : \A y \in S : ~(<<y, x>> \in R)
    BY <1>2, WFMin
<1>4. ASSUME NEW y \in S PROVE x <= y
    <2>1. <<y, x>> \in Nat \X Nat /\ <<y, x>>[1] = y /\ <<y, x>>[2] = x
        OBVIOUS
    <2>2. ~(y < x)
        BY <1>3, <2>1
    <2>3. QED
        BY <2>2
<1>5. QED
    BY <1>4

LEMMA NoGap ==
    ASSUME NEW b \in Seq(EntrySet), nextID \in Nat, Falling(b),
           \A i \in 1..Len(b) : b[i].id \in 1..nextID,
           \A n \in 1..nextID : Within(n, b) \/ PushedOut(n, b)
    PROVE  \A i \in 1..Len(b) : b[i].id = nextID - i + 1
<1>1. Len(b) \in Nat /\ \A i \in 1..Len(b) : b[i].id \in Nat
    BY EntryIds
<1> DEFINE S == {i \in 1..Len(b) : b[i].id # nextID - i + 1}
<1>2. SUFFICES ASSUME S # {} PROVE FALSE
    OBVIOUS
<1>3. S \in SUBSET Nat
    BY <1>1
<1>4. PICK i \in S : \A j \in S : i <= j
    BY <1>2, <1>3, LeastOfNats
<1>5. i \in 1..Len(b) /\ i \in Nat /\ b[i].id # nextID - i + 1
    BY <1>1, <1>4
<1>6. \A j \in 1..Len(b) : j < i => b[j].id = nextID - j + 1
    <2>1. ASSUME NEW j \in 1..Len(b), j < i PROVE j \notin S
        <3>1. j \in Nat /\ ~(i <= j)
            BY <1>5, <2>1
        <3>2. QED
            BY <1>4, <3>1
    <2>2. QED
        BY <2>1
<1> HIDE DEF S
<1> DEFINE m == nextID - i + 1
<1>7. b[i].id < m
    <2>1. CASE i = 1
        BY <1>1, <1>5, <2>1
    <2>2. CASE i > 1
        <3>1. i - 1 \in 1..Len(b) /\ i - 1 < i
            BY <1>1, <1>5, <2>2
        <3>2. b[i - 1].id = nextID - (i - 1) + 1 /\ b[i - 1].id > b[i].id
            BY <1>5, <1>6, <3>1 DEF Falling
        <3>3. QED
            BY <1>1, <1>5, <3>2
    <2>3. QED
        BY <1>1, <1>5, <2>1, <2>2
<1>8. m \in 1..nextID
    BY <1>1, <1>5, <1>7
<1>9. ~PushedOut(m, b)
    BY <1>1, <1>5, <1>7, <1>8 DEF PushedOut
<1>10. ~Within(m, b)
    <2>1. SUFFICES ASSUME NEW j \in 1..Len(b), b[j].id = m PROVE FALSE
        BY DEF Within
    <2>2. CASE j < i
        BY <1>1, <1>5, <1>6, <2>1, <2>2
    <2>3. CASE j = i
        BY <1>5, <2>1, <2>3
    <2>4. CASE j > i
        <3>1. b[i].id > b[j].id
            BY <1>5, <2>4 DEF Falling
        <3>2. QED
            BY <1>1, <1>5, <1>7, <1>8, <2>1, <3>1
    <2>5. QED
        BY <1>1, <1>5, <2>1, <2>2, <2>3, <2>4
<1>11. QED
    BY <1>8, <1>9, <1>10

LEMMA QuietIsExact == DashTypeOK /\ DashInv => QuietPageIsExact
<1> SUFFICES ASSUME DashTypeOK, DashInv, NEW p \in Page, Quiet(p), why[p] = {}
             PROVE  page[p].rows = Reverse(entries)
    BY DEF QuietPageIsExact
<1>1. PICK b \in Seq(EntrySet) : b = page[p].rows
    BY PageFacts
<1>2. /\ PageRight(page[p]) /\ page[p].list = "shown" /\ page[p].listed \in Nat
      /\ AllGenuine(b) /\ nextID \in Nat
    BY <1>1, PageFacts DEF Quiet, PageGenuine
<1>3. Queue(page[p]) = <<>>
    BY DEF Quiet, Queue
<1>4. Faithful(b, <<>>, page[p].listed)
    BY <1>1, <1>2, <1>3 DEF PageRight
<1>5. ASSUME NEW n \in 1..nextID PROVE Within(n, b) \/ PushedOut(n, b)
    <2>1. Told(n, page[p].listed)
        BY DEF Told, Quiet, Pending
    <2>2. ~Within(n, <<>>)
        BY EmptySeq DEF Within
    <2>3. QED
        BY <1>4, <2>1, <2>2 DEF Faithful, Complete
<1>6. Falling(b) /\ Len(b) <= MaxEntries /\ \A i \in 1..Len(b) : Genuine(b[i])
    BY <1>2, <1>4 DEF Faithful, Displayed, AllGenuine
<1>7. \A i \in 1..Len(b) : b[i].id \in 1..nextID
    BY <1>6 DEF Genuine
<1>8. \A i \in 1..Len(b) : b[i].id = nextID - i + 1
    BY <1>2, <1>5, <1>6, <1>7, NoGap
<1> DEFINE k == Len(entries)
<1>9. /\ k \in Nat /\ MaxEntries \in Nat /\ Base \in Nat /\ nextID = Base + k /\ k <= MaxEntries
      /\ Base = 0 \/ k = MaxEntries
      /\ Len(b) \in Nat
    BY ListTypes DEF DashInv, ListInOrder
<1>10. Len(b) <= nextID
    <2>1. CASE Len(b) = 0
        BY <1>2, <2>1
    <2>2. CASE Len(b) # 0
        <3>1. Len(b) \in 1..Len(b)
            BY <1>9, <2>2
        <3>2. b[Len(b)].id \in 1..nextID /\ b[Len(b)].id = nextID - Len(b) + 1
            BY <1>7, <1>8, <3>1
        <3>3. QED
            BY <1>2, <1>9, <3>2
    <2>3. QED
        BY <2>1, <2>2
<1>11. Len(b) = k
    <2>1. Len(b) <= k
        BY <1>6, <1>9, <1>10
    <2>2. ASSUME Len(b) < k PROVE FALSE
        <3>1. nextID - Len(b) \in 1..nextID
            BY <1>2, <1>9, <2>2
        <3>2. ~PushedOut(nextID - Len(b), b)
            BY <1>9, <2>2 DEF PushedOut
        <3>3. ~Within(nextID - Len(b), b)
            <4>1. ASSUME NEW i \in 1..Len(b) PROVE b[i].id # nextID - Len(b)
                <5>1. b[i].id = nextID - i + 1
                    BY <1>8
                <5>2. QED
                    BY <1>2, <1>9, <5>1
            <4>2. QED
                BY <4>1 DEF Within
        <3>4. QED
            BY <1>5, <3>1, <3>2, <3>3
    <2>3. QED
        BY <1>9, <2>1, <2>2
<1>12. /\ Reverse(entries) \in Seq(EntrySet) /\ Len(Reverse(entries)) = k
       /\ \A i \in 1..k : Reverse(entries)[i] = entries[k - i + 1]
    BY Reversing DEF DashTypeOK
<1>13. ASSUME NEW i \in 1..k PROVE b[i] = entries[k - i + 1]
    <2>1. i \in 1..Len(b) /\ b[i].id = nextID - i + 1 /\ Genuine(b[i])
        BY <1>6, <1>8, <1>11
    <2>2. b[i].id > Base /\ b[i].id - Base = k - i + 1
        BY <1>2, <1>9, <2>1
    <2>3. QED
        BY <2>1, <2>2 DEF Genuine
<1> HIDE DEF k
<1>14. b = Reverse(entries)
    BY <1>11, <1>12, <1>13, SeqEqual
<1>15. QED
    BY <1>1, <1>14

(***************************************************************************)
(* Every recorder, page and entry keeps its type, and every entry that a   *)
(* page has or is about to get is one that was recorded.                   *)
(***************************************************************************)
THEOREM EntriesAreGenuine == Spec => [](DashTypeOK /\ PagesGenuine)
<1>1. DashTypeOK /\ DashInv => DashTypeOK /\ PagesGenuine
    BY DEF DashInv
<1>2. QED
    BY <1>1, DashInitially, DashStep, PTL DEF Spec

(***************************************************************************)
(* record, handleList, handleStream and the page's load and onmessage, in  *)
(* any order: a page to which nothing is under way shows exactly the list, *)
(* unless one of the five things has happened to it.                       *)
(***************************************************************************)
THEOREM QuietPagesAreExact == Spec => []QuietPageIsExact
BY DashInitially, DashStep, QuietIsExact, PTL DEF Spec
=============================================================================
