------------------------------ MODULE Discovery ------------------------------
(***************************************************************************)
(* "Find people": the dialog (gui/peer_discovery_dialog.cpp), the search    *)
(* the Core makes for it (the receiver of core/application.cpp and          *)
(* core/network_discovery.cpp), the people on the network who answer with   *)
(* the same code, and the telemetry that brings the answers back            *)
(* (core/telemetry_snapshot.cpp, gui/telemetry_protocol.cpp,                *)
(* gui/core_process_controller.cpp).                                        *)
(*                                                                         *)
(* A contact is the endpoint it is kept at, an answer the request, the      *)
(* session and the endpoint in it.  Request numbers come from the clock and *)
(* are taken to be new.  Datagrams are lost, repeated and reordered.  A     *)
(* control line is applied when it is written, by a Core that was told to   *)
(* stop not at all.  The seeking computer has one address, and a search     *)
(* ends before an entry of a reply cache does (10 s).                       *)
(***************************************************************************)
EXTENDS Integers, Sequences, SequencesExt, FiniteSets, FiniteSetsExt, Functions

CONSTANTS
    People,         \* those who may answer, numbered in the order of their names
    EndpointsOf,    \* the endpoints each may answer from
    FirstContacts,  \* endpoints that may be contacts at the start
    MaxSearches,    \* bound: searches begun
    MaxSessions     \* bound: Cores each of the people starts

ASSUME DiscoveryAssumption ==
    /\ People \subseteq Nat /\ IsFiniteSet(FirstContacts)
    /\ \A p \in People : EndpointsOf[p] # {}
    /\ MaxSearches \in Nat /\ \A p \in People : MaxSessions[p] \in Nat

VARIABLES
    search,     \* the dialog
    contacts,   \* the endpoints of the window's contacts
    core,       \* the window's Core
    tele,       \* the telemetry on its way: the pipe, the parser, whether a notice is posted
    net,        \* the datagrams sent
    people      \* the people's Cores: their session, and whom they replied to

searchVars == <<search, contacts, core, tele, net, people>>

-----------------------------------------------------------------------------
\* What status_ says: the number of people found, or
Searching == -2
Failed == -1

Dialog == [open |-> FALSE, request |-> 0, rows |-> <<>>, error |-> FALSE,
           finished |-> FALSE, status |-> Searching, added |-> {}]

NoTelemetry == [pipe |-> <<>>, peers |-> {}, error |-> 0, pending |-> FALSE]

\* A Core that starts with the contacts known
Fresh(known) == [phase |-> "up", requested |-> 0, active |-> 0, error |-> FALSE,
                 found |-> {}, known |-> known]
Down == [Fresh({}) EXCEPT !.phase = "down"]
Alive == core.phase # "down"

Query(r) == [type |-> "query", request |-> r]
Response(r, s, at) == [type |-> "response", request |-> r, session |-> s, at |-> at]

Unasked == [session |-> 1, replied |-> {}]

SearchInit ==
    /\ search = Dialog /\ tele = NoTelemetry /\ net = {}
    /\ people = [p \in People |-> Unasked]

-----------------------------------------------------------------------------
\* finish_search_status
FinishStatus(d) ==
    [d EXCEPT !.status = IF d.error THEN Failed ELSE Len(d.rows)]

\* rebuild_list
RebuildList(d) == IF d.finished \/ d.error THEN FinishStatus(d) ELSE d

\* begin_search, with the Core c to tell
BeginSearch(d, c) ==
    /\ d.request < MaxSearches
    /\ LET begun == [d EXCEPT !.open = TRUE, !.request = @ + 1, !.rows = <<>>,
                              !.error = c.phase = "down", !.finished = FALSE, !.status = Searching]
       IN  /\ search' = IF begun.error THEN FinishStatus(begun) ELSE begun
           /\ core' = IF c.phase = "up" THEN [c EXCEPT !.requested = begun.request] ELSE c

\* show_peer_discovery_dialog, up to the first search
ShowSearch ==
    /\ ~search.open
    /\ IF Alive THEN UNCHANGED tele ELSE tele' = NoTelemetry
    /\ BeginSearch([search EXCEPT !.added = {}], IF Alive THEN core ELSE Fresh(ToSet(contacts)))
    /\ UNCHANGED <<contacts, net, people>>

RefreshSearch ==
    /\ search.open /\ BeginSearch(search, core)
    /\ UNCHANGED <<contacts, tele, net, people>>

\* The search's time is over.
SearchTimer ==
    /\ search.open /\ ~search.finished
    /\ search' = FinishStatus([search EXCEPT !.finished = TRUE])
    /\ UNCHANGED <<contacts, core, tele, net, people>>

\* Mutated form: the endpoints of the contacts are not looked through.
AddUnchecked(at) == contacts' = Append(contacts, at)

\* add_discovered_contact, and whether it returns true
AddDiscovered(at) == at \notin ToSet(contacts) /\ contacts' = Append(contacts, at)

\* add_selected: the selection is that of a row, not of a person, and may be at any.
AddSelected(i) ==
    /\ search.open /\ ~search.rows[i].contact
    /\ AddDiscovered(search.rows[i].at)
    /\ search' = RebuildList([search EXCEPT !.rows[i].contact = TRUE,
                                            !.added = @ \cup {search.rows[i].at}])
    /\ UNCHANGED <<core, tele, net, people>>

\* show_peer_discovery_dialog, behind the dialog: somebody was added, so the Core is restarted.
CloseSearch ==
    /\ search.open
    /\ search' = [search EXCEPT !.open = FALSE]
    /\ IF search.added = {} THEN UNCHANGED <<core, tele>>
       ELSE IF Alive THEN core' = [core EXCEPT !.phase = "stopping"] /\ UNCHANGED tele
       ELSE core' = Fresh(ToSet(contacts)) /\ tele' = NoTelemetry
    /\ UNCHANGED <<contacts, net, people>>

-----------------------------------------------------------------------------
\* cleanup_finished_process, and the start it was asked for
CoreRestarts ==
    /\ core.phase = "stopping"
    /\ core' = Fresh(ToSet(contacts)) /\ tele' = NoTelemetry
    /\ UNCHANGED <<search, contacts, net, people>>

\* A Core ends by itself.
CoreEnds ==
    /\ core.phase = "up"
    /\ core' = Down
    /\ UNCHANGED <<search, contacts, tele, net, people>>

\* The receiver takes up a request: nothing could be sent, or the query is on its way.
CoreSearches ==
    /\ Alive /\ core.requested \notin {0, core.active}
    /\ \E failed \in BOOLEAN :
        /\ core' = [core EXCEPT !.active = core.requested, !.error = failed, !.found = {}]
        /\ net' = IF failed THEN net ELSE net \cup {Query(core.requested)}
    /\ UNCHANGED <<search, contacts, tele, people>>

\* One of the people receives a query: DiscoveryReplyCache::should_reply, and the reply.
Answers(p) ==
    \E query \in {m \in net : m.type = "query" /\ m.request \notin people[p].replied},
       at \in EndpointsOf[p] :
        /\ people' = [people EXCEPT ![p].replied = @ \cup {query.request}]
        /\ net' = net \cup {Response(query.request, <<p, people[p].session>>, at)}
        /\ UNCHANGED <<search, contacts, core, tele>>

\* One of the people starts another Core.
StartsAnew(p) ==
    /\ people[p].session < MaxSessions[p]
    /\ people' = [people EXCEPT ![p] = [session |-> @.session + 1, replied |-> {}]]
    /\ UNCHANGED <<search, contacts, core, tele, net>>

\* add_discovered_peer
Found(found, peer) ==
    LET same == {f \in found : f.session = peer.session}
    IN  IF \E f \in same : f.contact /\ ~peer.contact THEN found ELSE (found \ same) \cup {peer}

\* The receiver takes a response.
CoreHears ==
    \E m \in {n \in net : n.type = "response" /\ n.request = core.active} :
        /\ Alive
        /\ core' = [core EXCEPT !.found = Found(@,
                [request |-> m.request, session |-> m.session, at |-> m.at,
                 contact |-> m.at \in core.known])]
        /\ UNCHANGED <<search, contacts, tele, net, people>>

-----------------------------------------------------------------------------
\* TelemetrySnapshot::serialize, the search's part: the error, then the people
Error(r) == [error |-> TRUE, of |-> r]
Peer(f) == [error |-> FALSE, of |-> f]
Lines ==
    (IF core.active # 0 /\ core.error THEN <<Error(core.active)>> ELSE <<>>)
        \o SetToSeq({Peer(f) : f \in core.found})

\* The Core writes a snapshot; bound: when the last one has been read.
Report ==
    /\ Alive /\ tele.pipe = <<>> /\ Lines # <<>>
    /\ tele' = [tele EXCEPT !.pipe = Lines]
    /\ UNCHANGED <<search, contacts, core, net, people>>

\* TelemetryParser::parse_line, for lines of one snapshot: each is of another session.
Parsed(t, lines) ==
    LET heard == {l.of : l \in {x \in lines : ~x.error}}
    IN  [t EXCEPT !.peers = heard \cup {f \in @ : \A h \in heard :
                                            f.session # h.session \/ f.request # h.request},
                  !.error = IF \E l \in lines : l.error
                            THEN (CHOOSE l \in lines : l.error).of ELSE @]

\* Mutated form: the notice that is pending is not noticed as taken.
ReadNever(k) ==
    [Parsed(tele, ToSet(SubSeq(tele.pipe, 1, k))) EXCEPT
        !.pipe = SubSeq(tele.pipe, k + 1, Len(tele.pipe)), !.pending = tele.peers = {}]

\* read_telemetry: k lines that have come whole
Read(k) ==
    [Parsed(tele, ToSet(SubSeq(tele.pipe, 1, k))) EXCEPT
        !.pipe = SubSeq(tele.pipe, k + 1, Len(tele.pipe)), !.pending = TRUE]

ReadTelemetry ==
    /\ \E k \in 1 .. Len(tele.pipe) : tele' = Read(k)
    /\ UNCHANGED <<search, contacts, core, net, people>>

\* Mutated form: the answers to every search are shown.
IncomingAll(d, t) ==
    {[f EXCEPT !.contact = @ \/ f.at \in d.added] : f \in t.peers}

\* apply_telemetry: the answers to the present search, whom the dialog added being contacts
Incoming(d, t) ==
    {[f EXCEPT !.contact = @ \/ f.at \in d.added] : f \in {g \in t.peers : g.request = d.request}}

\* The rows by name: two of one person stand in any order.
Sorted(incoming) ==
    {rows \in SetToSeqs(incoming) :
        \A i, j \in DOMAIN rows : i < j => rows[i].session[1] <= rows[j].session[1]}

\* WM_APP_CORE_TELEMETRY: take_latest_telemetry, apply_telemetry
TakeTelemetry ==
    /\ tele.pending
    /\ tele' = [tele EXCEPT !.pending = FALSE]
    /\ IF ~search.open THEN UNCHANGED search
       ELSE \E rows \in Sorted(Incoming(search, tele)) :
            LET listed == IF rows = <<>> /\ search.rows = <<>> THEN search
                          ELSE RebuildList([search EXCEPT !.rows = rows])
            IN  search' = IF tele.error = search.request
                          THEN FinishStatus([listed EXCEPT !.error = TRUE]) ELSE listed
    /\ UNCHANGED <<contacts, core, net, people>>

SearchStep ==
    \/ ShowSearch \/ RefreshSearch \/ SearchTimer \/ CloseSearch
    \/ \E i \in DOMAIN search.rows : AddSelected(i)
    \/ CoreRestarts \/ CoreEnds \/ CoreSearches \/ CoreHears
    \/ \E p \in People : Answers(p) \/ StartsAnew(p)
    \/ Report \/ ReadTelemetry \/ TakeTelemetry

-----------------------------------------------------------------------------
\* Each row is somebody's answer to the search on show, nobody is there twice, and behind the
\* search the status counts the rows or tells the error: whatever answers come late, twice or
\* to an earlier search, and however the telemetry is cut up (apply_telemetry, begin_search).
SearchShown ==
    search.open =>
        /\ \A row \in ToSet(search.rows) : Response(search.request, row.session, row.at) \in net
        /\ \A i, j \in DOMAIN search.rows :
               search.rows[i].session = search.rows[j].session => i = j
        /\ search.error => search.status = Failed
        /\ search.finished /\ ~search.error => search.status = Len(search.rows)

\* No two contacts have the same endpoint, although one endpoint may answer with two sessions
\* and be added before the telemetry marks the other row (add_discovered_contact; CHANGELOG.md,
\* "adds selected endpoints to contacts while preventing duplicates").
NoDuplicates == IsInjective(contacts)

\* Nobody whose answer the Core has stays unshown, unless the search ends or is begun anew
\* or its Core ends: the answer is a row however the pipe cuts the telemetry up and whenever
\* the notice is posted (read_telemetry, take_latest_telemetry, apply_telemetry).
Unshown ==
    /\ search.open /\ core.phase = "up" /\ core.active = search.request
    /\ \E f \in core.found : \A row \in ToSet(search.rows) : row.session # f.session
AnswerShown == Unshown ~> ~Unshown
=============================================================================
