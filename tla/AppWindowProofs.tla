-------------------------- MODULE AppWindowProofs --------------------------
(***************************************************************************)
(* Theorems about the window's program, for every number of launches,       *)
(* people, searches, sessions, contacts and hotkeys.  First the inductive   *)
(* invariant of the search for people: what the Core has found, what is in  *)
(* the pipe, what the parser keeps and what is shown can each be traced to  *)
(* a datagram, and each names nobody twice.  Then that of the program, and  *)
(* that of the hotkeys, for every keyboard and mouse, every choice of       *)
(* hotkeys, number of contacts and of messages posted.                      *)
(***************************************************************************)
EXTENDS AppWindow, FiniteSetTheorems, SequenceTheorems, TLAPS

Places == (UNION {EndpointsOf[p] : p \in People}) \cup FirstContacts
Sessions == People \X Nat
PeerRecords == [request : Nat, session : Sessions, at : Places, contact : BOOLEAN]
Responses == [type : {"response"}, request : Nat, session : Sessions, at : Places]
Messages == [type : {"query"}, request : Nat] \cup Responses
TelemetryLines == [error : {TRUE}, of : Nat] \cup [error : {FALSE}, of : PeerRecords]

Dialogs == [open : BOOLEAN, request : Nat, rows : Seq(PeerRecords), error : BOOLEAN,
            finished : BOOLEAN, status : Int, added : SUBSET Places]
Cores == [phase : {"up", "stopping", "down"}, requested : Nat, active : Nat, error : BOOLEAN,
          found : SUBSET PeerRecords, known : SUBSET Places]
Telemetries == [pipe : Seq(TelemetryLines), peers : SUBSET PeerRecords, error : Nat,
                pending : BOOLEAN]

SearchTyped ==
    /\ search \in Dialogs /\ core \in Cores /\ tele \in Telemetries
    /\ contacts \in Seq(Places)
    /\ net \subseteq Messages
    /\ people \in [People -> [session : Nat, replied : SUBSET Nat]]

\* Somebody did answer so.
Answered(f, sent) == Response(f.request, f.session, f.at) \in sent

FoundSound(found, sent) ==
    /\ IsFiniteSet(found)
    /\ \A f \in found : Answered(f, sent)
    /\ \A f, g \in found : f.session = g.session => f = g

PipeSound(pipe, sent) ==
    \A i, j \in DOMAIN pipe : ~pipe[i].error /\ ~pipe[j].error =>
        /\ Answered(pipe[i].of, sent)
        /\ pipe[i].of.session = pipe[j].of.session => pipe[i].of = pipe[j].of

PeersSound(peers, sent) ==
    /\ IsFiniteSet(peers)
    /\ \A f \in peers : Answered(f, sent)
    /\ \A f, g \in peers : f.session = g.session /\ f.request = g.request => f = g

RowsSound(d, sent) ==
    /\ \A i \in DOMAIN d.rows : d.rows[i].request = d.request /\ Answered(d.rows[i], sent)
    /\ \A i, j \in DOMAIN d.rows : d.rows[i].session = d.rows[j].session => i = j

StatusSound(d) ==
    /\ d.error => d.status = Failed
    /\ d.finished /\ ~d.error => d.status = Len(d.rows)

SearchInv ==
    /\ SearchTyped
    /\ FoundSound(core.found, net)
    /\ PipeSound(tele.pipe, net)
    /\ PeersSound(tele.peers, net)
    /\ RowsSound(search, net) /\ StatusSound(search)
    /\ NoDuplicates

-----------------------------------------------------------------------------
LEMMA InvShown == SearchInv => SearchShown
  BY DEF SearchInv, SearchTyped, RowsSound, StatusSound, Answered, SearchShown, ToSet, Dialogs

LEMMA ToSetTyped ==
    ASSUME NEW S, NEW s \in Seq(S)
    PROVE  ToSet(s) \subseteq S
  BY DEF ToSet

\* A set as a sequence: each of its elements once.
LEMMA SetToSeqIs ==
    ASSUME NEW S, IsFiniteSet(S)
    PROVE  SetToSeq(S) \in Seq(S) /\ IsInjective(SetToSeq(S))
<1>1. Cardinality(S) \in Nat /\ Bijection(1 .. Cardinality(S), S) # {}
  BY FS_CardinalityType DEF ExistsBijection
<1>2. PICK f \in [1 .. Cardinality(S) -> S] : IsInjective(f)
  BY <1>1 DEF Bijection, Injection
<1>3. SetToSeq(S) \in [1 .. Cardinality(S) -> S] /\ IsInjective(SetToSeq(S))
  BY <1>2 DEF SetToSeq
<1>4. QED
  BY <1>1, <1>3

LEMMA FreshTyped ==
    ASSUME NEW known \in SUBSET Places, NEW sent
    PROVE  Fresh(known) \in Cores /\ FoundSound(Fresh(known).found, sent)
  BY FS_EmptySet DEF Fresh, Cores, FoundSound

LEMMA DownTyped ==
    ASSUME NEW sent
    PROVE  Down \in Cores /\ FoundSound(Down.found, sent)
  BY FreshTyped DEF Down, Fresh, Cores

LEMMA NoTelemetryTyped ==
    ASSUME NEW sent
    PROVE  /\ NoTelemetry \in Telemetries
           /\ PipeSound(NoTelemetry.pipe, sent) /\ PeersSound(NoTelemetry.peers, sent)
  BY FS_EmptySet DEF NoTelemetry, Telemetries, PipeSound, PeersSound

LEMMA DialogTyped ==
    ASSUME NEW sent
    PROVE  Dialog \in Dialogs /\ RowsSound(Dialog, sent) /\ StatusSound(Dialog)
  BY DEF Dialog, Dialogs, RowsSound, StatusSound, Searching

\* What was sent stays sent.
LEMMA MoreSent ==
    ASSUME SearchInv, NEW more, net \subseteq more
    PROVE  /\ FoundSound(core.found, more) /\ PipeSound(tele.pipe, more)
           /\ PeersSound(tele.peers, more) /\ RowsSound(search, more)
  BY DEF SearchInv, FoundSound, PipeSound, PeersSound, RowsSound, Answered

LEMMA FinishSound ==
    ASSUME NEW d \in Dialogs
    PROVE  /\ FinishStatus(d) \in Dialogs /\ StatusSound(FinishStatus(d))
           /\ FinishStatus(d).rows = d.rows /\ FinishStatus(d).request = d.request
           /\ FinishStatus(d).open = d.open
<1>1. Failed \in Int /\ Len(d.rows) \in Int
  BY DEF Failed, Dialogs
<1>2. QED
  BY <1>1 DEF FinishStatus, Dialogs, StatusSound

LEMMA RebuildSound ==
    ASSUME NEW d \in Dialogs
    PROVE  /\ RebuildList(d) \in Dialogs /\ StatusSound(RebuildList(d))
           /\ RebuildList(d).rows = d.rows /\ RebuildList(d).request = d.request
           /\ RebuildList(d).open = d.open
<1>1. CASE d.finished \/ d.error
  BY <1>1, FinishSound DEF RebuildList
<1>2. CASE ~(d.finished \/ d.error)
  BY <1>2 DEF RebuildList, StatusSound
<1>3. QED
  BY <1>1, <1>2

LEMMA SameRows ==
    ASSUME NEW d, NEW e, NEW sent, RowsSound(d, sent), e.rows = d.rows, e.request = d.request
    PROVE  RowsSound(e, sent)
  BY DEF RowsSound

-----------------------------------------------------------------------------
(* The dialog's steps *)

LEMMA BeginSound ==
    ASSUME NEW d \in Dialogs, NEW c \in Cores, BeginSearch(d, c),
           NEW sent, FoundSound(c.found, sent)
    PROVE  /\ search' \in Dialogs /\ RowsSound(search', sent) /\ StatusSound(search')
           /\ core' \in Cores /\ FoundSound(core'.found, sent)
<1> DEFINE begun == [d EXCEPT !.open = TRUE, !.request = @ + 1, !.rows = <<>>,
                              !.error = c.phase = "down", !.finished = FALSE, !.status = Searching]
<1>1. begun \in Dialogs
  <2> DEFINE half == [d EXCEPT !.open = TRUE, !.request = d.request + 1, !.rows = <<>>]
             down == c.phase = "down"
             next == d.request + 1
  <2>1. begun = [half EXCEPT !.error = down, !.finished = FALSE, !.status = Searching]
    OBVIOUS
  <2>2. half = [d EXCEPT !.open = TRUE, !.request = next, !.rows = <<>>]
    OBVIOUS
  <2>3. down \in BOOLEAN
    OBVIOUS
  <2>4. next \in Nat /\ <<>> \in Seq(PeerRecords)
    BY DEF Dialogs
  <2> HIDE DEF half, begun, down, next
  <2>5. half \in Dialogs
    BY <2>2, <2>4 DEF Dialogs
  <2>6. Searching \in Int
    BY DEF Searching
  <2>7. QED
    BY <2>1, <2>3, <2>5, <2>6 DEF Dialogs
<1>2. begun.rows = <<>> /\ begun.finished = FALSE /\ begun.error \in BOOLEAN /\ begun.request \in Nat
  BY DEF Dialogs
<1>3. search' = IF begun.error THEN FinishStatus(begun) ELSE begun
  BY DEF BeginSearch
<1>4. core' = IF c.phase = "up" THEN [c EXCEPT !.requested = begun.request] ELSE c
  BY DEF BeginSearch
<1> HIDE DEF begun
<1>5. search' \in Dialogs /\ StatusSound(search') /\ search'.rows = <<>>
  <2>1. CASE begun.error
    BY <1>1, <1>2, <1>3, <2>1, FinishSound
  <2>2. CASE ~begun.error
    BY <1>1, <1>2, <1>3, <2>2 DEF StatusSound
  <2>3. QED
    BY <2>1, <2>2
<1>6. RowsSound(search', sent)
  BY <1>5 DEF RowsSound
<1>7. core' \in Cores /\ core'.found = c.found
  BY <1>2, <1>4 DEF Cores
<1>8. QED
  BY <1>5, <1>6, <1>7

LEMMA ShowSearchStep == ASSUME SearchInv, ShowSearch PROVE SearchInv'
<1>1. ToSet(contacts) \in SUBSET Places
  BY ToSetTyped DEF SearchInv, SearchTyped
<1> DEFINE c == IF Alive THEN core ELSE Fresh(ToSet(contacts))
<1>2. c \in Cores /\ FoundSound(c.found, net)
  BY <1>1, FreshTyped DEF SearchInv, SearchTyped
<1>3. [search EXCEPT !.added = {}] \in Dialogs
  BY DEF SearchInv, SearchTyped, Dialogs
<1>4. BeginSearch([search EXCEPT !.added = {}], c)
  BY DEF ShowSearch
<1> HIDE DEF c
<1>5. /\ search' \in Dialogs /\ RowsSound(search', net) /\ StatusSound(search')
      /\ core' \in Cores /\ FoundSound(core'.found, net)
  BY <1>2, <1>3, <1>4, BeginSound
<1>6. tele' \in Telemetries /\ PipeSound(tele'.pipe, net) /\ PeersSound(tele'.peers, net)
  BY NoTelemetryTyped DEF ShowSearch, SearchInv, SearchTyped
<1>7. QED
  BY <1>5, <1>6 DEF ShowSearch, SearchInv, SearchTyped, NoDuplicates

LEMMA RefreshSearchStep == ASSUME SearchInv, RefreshSearch PROVE SearchInv'
<1>1. /\ search' \in Dialogs /\ RowsSound(search', net) /\ StatusSound(search')
      /\ core' \in Cores /\ FoundSound(core'.found, net)
  BY BeginSound DEF RefreshSearch, SearchInv, SearchTyped
<1>2. QED
  BY <1>1 DEF RefreshSearch, SearchInv, SearchTyped, NoDuplicates

LEMMA SearchTimerStep == ASSUME SearchInv, SearchTimer PROVE SearchInv'
<1> DEFINE d == [search EXCEPT !.finished = TRUE]
<1>1. d \in Dialogs /\ d.rows = search.rows /\ d.request = search.request
  BY DEF SearchInv, SearchTyped, Dialogs
<1>2. search' = FinishStatus(d)
  BY DEF SearchTimer
<1> HIDE DEF d
<1>3. /\ search' \in Dialogs /\ StatusSound(search')
      /\ search'.rows = search.rows /\ search'.request = search.request
  BY <1>1, <1>2, FinishSound
<1>4. RowsSound(search', net)
  BY <1>3, SameRows DEF SearchInv
<1>5. QED
  BY <1>3, <1>4 DEF SearchTimer, SearchInv, SearchTyped, NoDuplicates

LEMMA CloseSearchStep == ASSUME SearchInv, CloseSearch PROVE SearchInv'
<1>1. ToSet(contacts) \in SUBSET Places
  BY ToSetTyped DEF SearchInv, SearchTyped
<1>2. search' \in Dialogs /\ RowsSound(search', net) /\ StatusSound(search')
  BY DEF CloseSearch, SearchInv, SearchTyped, Dialogs, RowsSound, StatusSound
<1>3. core' \in Cores /\ FoundSound(core'.found, net)
  <2>1. [core EXCEPT !.phase = "stopping"] \in Cores
        /\ [core EXCEPT !.phase = "stopping"].found = core.found
    BY DEF SearchInv, SearchTyped, Cores
  <2>2. QED
    BY <1>1, <2>1, FreshTyped DEF CloseSearch, SearchInv, SearchTyped
<1>4. tele' \in Telemetries /\ PipeSound(tele'.pipe, net) /\ PeersSound(tele'.peers, net)
  BY NoTelemetryTyped DEF CloseSearch, SearchInv, SearchTyped
<1>5. QED
  BY <1>2, <1>3, <1>4 DEF CloseSearch, SearchInv, SearchTyped, NoDuplicates

\* A contact added is a new one, and its row stays who it is.
LEMMA AddSelectedStep ==
    ASSUME SearchInv, NEW i \in DOMAIN search.rows, AddSelected(i)
    PROVE  SearchInv'
<1> DEFINE at == search.rows[i].at
           d == [search EXCEPT !.rows[i].contact = TRUE, !.added = @ \cup {search.rows[i].at}]
<1>1. search \in Dialogs /\ search.rows \in Seq(PeerRecords) /\ search.rows[i] \in PeerRecords
      /\ at \in Places
  <2>1. search \in Dialogs /\ search.rows \in Seq(PeerRecords)
    BY DEF SearchInv, SearchTyped, Dialogs
  <2>2. search.rows[i] \in PeerRecords
    BY <2>1
  <2>3. QED
    BY <2>1, <2>2 DEF PeerRecords
<1>2. contacts' \in Seq(Places)
  BY <1>1 DEF AddSelected, AddDiscovered, SearchInv, SearchTyped
<1>3. NoDuplicates'
  <2>1. \A j \in DOMAIN contacts : contacts[j] # at
    BY DEF AddSelected, AddDiscovered, ToSet
  <2>2. contacts' = Append(contacts, at) /\ contacts \in Seq(Places)
    BY DEF AddSelected, AddDiscovered, SearchInv, SearchTyped
  <2>3. IsInjective(contacts)
    BY DEF SearchInv, NoDuplicates
  <2> HIDE DEF at
  <2>4. \A j, k \in DOMAIN contacts : contacts[j] = contacts[k] => j = k
    BY <2>3 DEF IsInjective
  <2>5. ASSUME NEW j \in 1 .. (Len(contacts) + 1), NEW k \in 1 .. (Len(contacts) + 1),
               contacts'[j] = contacts'[k]
        PROVE  j = k
    BY <2>1, <2>2, <2>4, <2>5
  <2>6. DOMAIN contacts' = 1 .. (Len(contacts) + 1)
    BY <2>2
  <2>7. QED
    BY <2>5, <2>6 DEF NoDuplicates, IsInjective
<1>4. /\ d \in Dialogs /\ d.request = search.request
      /\ d.rows = [search.rows EXCEPT ![i].contact = TRUE]
  <2> DEFINE row == [search.rows[i] EXCEPT !.contact = TRUE]
             rows == [search.rows EXCEPT ![i] = row]
             added == search.added \cup {at}
  <2>1. row \in PeerRecords
    <3>1. row = [search.rows[i] EXCEPT !.contact = TRUE]
      OBVIOUS
    <3> HIDE DEF row
    <3>2. QED
      BY <1>1, <3>1 DEF PeerRecords
  <2>2. d = [search EXCEPT !.rows = rows, !.added = added]
        /\ rows = [search.rows EXCEPT ![i].contact = TRUE]
    OBVIOUS
  <2> HIDE DEF row
  <2>3. rows \in Seq(PeerRecords)
    BY <1>1, <2>1
  <2>4. added \in SUBSET Places
    BY <1>1 DEF Dialogs
  <2> HIDE DEF d, rows, added
  <2>5. QED
    BY <1>1, <2>2, <2>3, <2>4 DEF Dialogs
<1>5. RowsSound(d, net)
  <2>1. DOMAIN d.rows = DOMAIN search.rows
    BY <1>4
  <2>2. \A j \in DOMAIN search.rows :
            /\ d.rows[j].request = search.rows[j].request
            /\ d.rows[j].session = search.rows[j].session
            /\ d.rows[j].at = search.rows[j].at
    BY <1>1, <1>4 DEF PeerRecords
  <2> HIDE DEF d
  <2>3. QED
    BY <1>4, <2>1, <2>2 DEF SearchInv, RowsSound, Answered
<1>6. search' = RebuildList(d)
  BY DEF AddSelected
<1> HIDE DEF d
<1>7. search' \in Dialogs /\ StatusSound(search') /\ RowsSound(search', net)
  BY <1>4, <1>5, <1>6, RebuildSound, SameRows
<1>8. QED
  BY <1>2, <1>3, <1>7 DEF AddSelected, SearchInv, SearchTyped

-----------------------------------------------------------------------------
(* The steps of the Core and of the people *)

LEMMA CoreRestartsStep == ASSUME SearchInv, CoreRestarts PROVE SearchInv'
<1>1. ToSet(contacts) \in SUBSET Places
  BY ToSetTyped DEF SearchInv, SearchTyped
<1>2. core' \in Cores /\ FoundSound(core'.found, net)
  BY <1>1, FreshTyped DEF CoreRestarts
<1>3. tele' \in Telemetries /\ PipeSound(tele'.pipe, net) /\ PeersSound(tele'.peers, net)
  BY NoTelemetryTyped DEF CoreRestarts
<1>4. QED
  BY <1>2, <1>3 DEF CoreRestarts, SearchInv, SearchTyped, NoDuplicates

LEMMA CoreEndsStep == ASSUME SearchInv, CoreEnds PROVE SearchInv'
<1>1. core' \in Cores /\ FoundSound(core'.found, net)
  BY DownTyped DEF CoreEnds
<1>2. QED
  BY <1>1 DEF CoreEnds, SearchInv, SearchTyped, NoDuplicates

LEMMA CoreSearchesStep == ASSUME SearchInv, CoreSearches PROVE SearchInv'
<1>1. PICK failed \in BOOLEAN :
        /\ core' = [core EXCEPT !.active = core.requested, !.error = failed, !.found = {}]
        /\ net' = IF failed THEN net ELSE net \cup {Query(core.requested)}
  BY DEF CoreSearches
<1>2. core \in Cores /\ core.requested \in Nat
  BY DEF SearchInv, SearchTyped, Cores
<1>3. core' \in Cores /\ core'.found = {}
  BY <1>1, <1>2 DEF Cores
<1>4. net' \subseteq Messages /\ net \subseteq net'
  BY <1>1, <1>2 DEF Messages, Query, SearchInv, SearchTyped
<1>5. FoundSound(core'.found, net')
  BY <1>3, FS_EmptySet DEF FoundSound
<1>6. QED
  BY <1>3, <1>4, <1>5, MoreSent DEF CoreSearches, SearchInv, SearchTyped, NoDuplicates

LEMMA AnswersStep == ASSUME SearchInv, NEW p \in People, Answers(p) PROVE SearchInv'
<1>1. PICK query \in net, at \in EndpointsOf[p] :
        /\ query.type = "query"
        /\ people' = [people EXCEPT ![p].replied = @ \cup {query.request}]
        /\ net' = net \cup {Response(query.request, <<p, people[p].session>>, at)}
  BY DEF Answers
<1>2. query.request \in Nat
  BY <1>1 DEF SearchInv, SearchTyped, Messages, Responses
<1>3. <<p, people[p].session>> \in Sessions /\ at \in Places
  <2>1. people[p].session \in Nat
    BY DEF SearchInv, SearchTyped
  <2>2. QED
    BY <1>1, <2>1 DEF Sessions, Places
<1>4. Response(query.request, <<p, people[p].session>>, at) \in Responses
  BY <1>2, <1>3 DEF Response, Responses
<1>5. net' \subseteq Messages /\ net \subseteq net'
  BY <1>1, <1>4 DEF Messages, SearchInv, SearchTyped
<1>6. people' \in [People -> [session : Nat, replied : SUBSET Nat]]
  BY <1>1, <1>2 DEF SearchInv, SearchTyped
<1>7. QED
  BY <1>5, <1>6, MoreSent DEF Answers, SearchInv, SearchTyped, NoDuplicates

LEMMA StartsAnewStep == ASSUME SearchInv, NEW p \in People, StartsAnew(p) PROVE SearchInv'
<1>1. people' \in [People -> [session : Nat, replied : SUBSET Nat]]
  BY DEF StartsAnew, SearchInv, SearchTyped
<1>2. QED
  BY <1>1 DEF StartsAnew, SearchInv, SearchTyped, NoDuplicates

\* Whoever is found replaces the one of that session.
LEMMA CoreHearsStep == ASSUME SearchInv, CoreHears PROVE SearchInv'
<1>1. PICK m \in net :
        /\ m.type = "response"
        /\ core' = [core EXCEPT !.found = Found(@,
                [request |-> m.request, session |-> m.session, at |-> m.at,
                 contact |-> m.at \in core.known])]
  BY DEF CoreHears
<1> DEFINE contact == m.at \in core.known
           peer == [request |-> m.request, session |-> m.session, at |-> m.at,
                    contact |-> contact]
           found == Found(core.found, peer)
<1>2. core' = [core EXCEPT !.found = found]
  BY <1>1
<1>3. m \in Responses
  BY <1>1 DEF SearchInv, SearchTyped, Messages
<1>4. peer \in PeerRecords /\ Answered(peer, net)
  <2>1. contact \in BOOLEAN
    OBVIOUS
  <2>2. m = Response(m.request, m.session, m.at)
    BY <1>3 DEF Response, Responses
  <2> HIDE DEF contact
  <2>3. peer \in PeerRecords
    BY <1>3, <2>1 DEF PeerRecords, Responses
  <2>4. QED
    BY <1>1, <2>2, <2>3 DEF Answered
<1> HIDE DEF peer
<1>5. /\ found \subseteq core.found \cup {peer}
      /\ \A f, g \in found : f.session = g.session => f = g
  BY DEF Found, SearchInv, FoundSound
<1> HIDE DEF found
<1>6. found \subseteq PeerRecords
  BY <1>4, <1>5 DEF SearchInv, SearchTyped, Cores
<1>7. core' \in Cores /\ core'.found = found
  BY <1>2, <1>6 DEF SearchInv, SearchTyped, Cores
<1>8. FoundSound(found, net)
  <2>1. IsFiniteSet(core.found \cup {peer})
    BY FS_AddElement DEF SearchInv, FoundSound
  <2>2. IsFiniteSet(found)
    BY <1>5, <2>1, FS_Subset
  <2>3. QED
    BY <1>4, <1>5, <2>2 DEF SearchInv, FoundSound
<1>9. QED
  BY <1>7, <1>8 DEF CoreHears, SearchInv, SearchTyped, NoDuplicates

-----------------------------------------------------------------------------
(* The telemetry's steps *)

LEMMA LinesSound ==
    ASSUME SearchInv
    PROVE  /\ Lines \in Seq(TelemetryLines)
           /\ \A i \in DOMAIN Lines : Lines[i].error \/ \E f \in core.found : Lines[i] = Peer(f)
<1> DEFINE head == IF core.active # 0 /\ core.error THEN <<Error(core.active)>> ELSE <<>>
           peers == {Peer(f) : f \in core.found}
           tail == SetToSeq(peers)
<1>1. core.active \in Nat /\ core.found \subseteq PeerRecords /\ IsFiniteSet(core.found)
  BY DEF SearchInv, SearchTyped, Cores, FoundSound
<1>2. head \in Seq(TelemetryLines) /\ \A i \in DOMAIN head : head[i].error
  <2>1. Error(core.active) \in TelemetryLines /\ Error(core.active).error
    BY <1>1 DEF Error, TelemetryLines
  <2>2. QED
    BY <2>1
<1>3. IsFiniteSet(peers)
  <2> DEFINE g == [f \in core.found |-> Peer(f)]
  <2>1. g \in Surjection(core.found, peers)
    BY DEF Surjection
  <2> HIDE DEF g, peers
  <2>2. QED
    BY <1>1, <2>1, FS_Surjection
<1>4. peers \subseteq TelemetryLines
  <2>1. \A f \in PeerRecords : Peer(f) \in TelemetryLines
    BY DEF Peer, TelemetryLines
  <2>2. QED
    BY <1>1, <2>1
<1>5. tail \in Seq(peers)
  BY <1>3, SetToSeqIs
<1>6. Lines = head \o tail
  BY DEF Lines
<1> HIDE DEF head, tail
<1>7. tail \in Seq(TelemetryLines) /\ \A i \in DOMAIN tail : \E f \in core.found : tail[i] = Peer(f)
  BY <1>4, <1>5
<1>8. QED
  BY <1>2, <1>6, <1>7

LEMMA ReportStep == ASSUME SearchInv, Report PROVE SearchInv'
<1>1. tele' = [tele EXCEPT !.pipe = Lines]
  BY DEF Report
<1>2. tele' \in Telemetries /\ tele'.pipe = Lines /\ tele'.peers = tele.peers
  BY <1>1, LinesSound DEF SearchInv, SearchTyped, Telemetries
<1>3. PipeSound(Lines, net)
  <2>1. \A i \in DOMAIN Lines : ~Lines[i].error => Lines[i].of \in core.found
    BY LinesSound DEF Peer
  <2>2. QED
    BY <2>1 DEF PipeSound, SearchInv, FoundSound
<1>4. QED
  BY <1>2, <1>3 DEF Report, SearchInv, SearchTyped, NoDuplicates

\* What is read replaces what was known of the same session and request.
LEMMA ReadTelemetryStep == ASSUME SearchInv, ReadTelemetry PROVE SearchInv'
<1>1. PICK k \in 1 .. Len(tele.pipe) : tele' = Read(k)
  BY DEF ReadTelemetry
<1> DEFINE lines == ToSet(SubSeq(tele.pipe, 1, k))
           heard == {l.of : l \in {x \in lines : ~x.error}}
           kept == {f \in tele.peers : \A h \in heard :
                                            f.session # h.session \/ f.request # h.request}
           error == IF \E l \in lines : l.error
                    THEN (CHOOSE l \in lines : l.error).of ELSE tele.error
           rest == SubSeq(tele.pipe, k + 1, Len(tele.pipe))
<1>2. tele' = [tele EXCEPT !.peers = heard \cup kept, !.error = error, !.pipe = rest,
                           !.pending = TRUE]
  BY <1>1 DEF Read, Parsed
<1>3. tele \in Telemetries /\ tele.pipe \in Seq(TelemetryLines) /\ Len(tele.pipe) \in Nat
  BY DEF SearchInv, SearchTyped, Telemetries
<1>4. \A l \in lines : \E i \in DOMAIN tele.pipe : l = tele.pipe[i]
  BY <1>3 DEF ToSet
<1>5. /\ rest \in Seq(TelemetryLines)
      /\ \A i \in DOMAIN rest : k + i \in DOMAIN tele.pipe /\ rest[i] = tele.pipe[k + i]
  BY <1>3
<1>6. \A h \in heard : \E i \in DOMAIN tele.pipe : ~tele.pipe[i].error /\ h = tele.pipe[i].of
  BY <1>4
<1>7. /\ kept \subseteq tele.peers
      /\ \A f \in kept, g \in heard : ~(f.session = g.session /\ f.request = g.request)
  OBVIOUS
<1>8. \A i \in DOMAIN tele.pipe :
        /\ tele.pipe[i].error => tele.pipe[i].of \in Nat
        /\ ~tele.pipe[i].error => tele.pipe[i].of \in PeerRecords
  <2>1. \A l \in TelemetryLines : (l.error => l.of \in Nat) /\ (~l.error => l.of \in PeerRecords)
    BY DEF TelemetryLines
  <2>2. QED
    BY <1>3, <2>1
<1>9. error \in Nat
  <2>1. CASE \E l \in lines : l.error
    <3> DEFINE l == CHOOSE x \in lines : x.error
    <3>1. l \in lines /\ l.error /\ error = l.of
      BY <2>1
    <3> HIDE DEF l, error, lines
    <3>2. PICK i \in DOMAIN tele.pipe : l = tele.pipe[i]
      BY <1>4, <3>1
    <3>3. QED
      BY <1>8, <3>1, <3>2
  <2>2. CASE ~(\E l \in lines : l.error)
    BY <1>3, <2>2 DEF Telemetries
  <2>3. QED
    BY <2>1, <2>2
<1> HIDE DEF lines, heard, kept, error, rest
<1>10. heard \subseteq PeerRecords /\ kept \subseteq PeerRecords
  <2>1. tele.peers \subseteq PeerRecords
    BY <1>3 DEF Telemetries
  <2>2. heard \subseteq PeerRecords
    BY <1>6, <1>8
  <2>3. QED
    BY <1>7, <2>1, <2>2
<1>11. IsFiniteSet(heard \cup kept)
  <2> DEFINE image == {tele.pipe[i].of : i \in 1 .. Len(tele.pipe)}
             g == [i \in 1 .. Len(tele.pipe) |-> tele.pipe[i].of]
  <2>1. g \in Surjection(1 .. Len(tele.pipe), image)
    BY DEF Surjection
  <2>2. IsFiniteSet(1 .. Len(tele.pipe))
    BY <1>3, FS_Interval
  <2>3. DOMAIN tele.pipe = 1 .. Len(tele.pipe)
    BY <1>3
  <2>4. heard \subseteq image
    BY <1>6, <2>3
  <2> HIDE DEF image, g
  <2>5. IsFiniteSet(image)
    BY <2>1, <2>2, FS_Surjection
  <2>6. IsFiniteSet(tele.peers)
    BY DEF SearchInv, PeersSound
  <2>7. IsFiniteSet(heard) /\ IsFiniteSet(kept)
    BY <1>7, <2>4, <2>5, <2>6, FS_Subset
  <2>8. QED
    BY <2>7, FS_Union
<1>12. PeersSound(heard \cup kept, net)
  <2>1. \A f \in heard : Answered(f, net)
    BY <1>6 DEF SearchInv, PipeSound
  <2>2. ASSUME NEW f \in heard, NEW g \in heard, f.session = g.session PROVE f = g
    <3>1. PICK i \in DOMAIN tele.pipe : ~tele.pipe[i].error /\ f = tele.pipe[i].of
      BY <1>6
    <3>2. PICK j \in DOMAIN tele.pipe : ~tele.pipe[j].error /\ g = tele.pipe[j].of
      BY <1>6
    <3>3. QED
      BY <2>2, <3>1, <3>2 DEF SearchInv, PipeSound
  <2>3. /\ \A f \in kept : Answered(f, net)
        /\ \A f, g \in kept : f.session = g.session /\ f.request = g.request => f = g
    BY <1>7 DEF SearchInv, PeersSound
  <2>4. QED
    BY <1>7, <1>11, <2>1, <2>2, <2>3 DEF PeersSound
<1>13. PipeSound(rest, net)
  <2>1. ASSUME NEW i \in DOMAIN rest, NEW j \in DOMAIN rest, ~rest[i].error, ~rest[j].error
        PROVE  /\ Answered(rest[i].of, net)
               /\ rest[i].of.session = rest[j].of.session => rest[i].of = rest[j].of
    BY <1>5, <2>1 DEF SearchInv, PipeSound
  <2>2. QED
    BY <2>1 DEF PipeSound
<1>14. tele' \in Telemetries /\ tele'.pipe = rest /\ tele'.peers = heard \cup kept
  BY <1>2, <1>3, <1>5, <1>9, <1>10 DEF Telemetries
<1>15. QED
  BY <1>12, <1>13, <1>14 DEF ReadTelemetry, SearchInv, SearchTyped, NoDuplicates

\* What is shown are the parser's answers to the search, each once.
LEMMA IncomingSound ==
    ASSUME SearchInv, NEW rows \in Sorted(Incoming(search, tele))
    PROVE  /\ rows \in Seq(PeerRecords)
           /\ \A i \in DOMAIN rows :
                  rows[i].request = search.request /\ Answered(rows[i], net)
           /\ \A i, j \in DOMAIN rows : rows[i].session = rows[j].session => i = j
<1> DEFINE own == {g \in tele.peers : g.request = search.request}
           Marked(f) == [f EXCEPT !.contact = @ \/ f.at \in search.added]
           incoming == {Marked(f) : f \in own}
<1>1. incoming = Incoming(search, tele)
  BY DEF Incoming
<1>2. tele.peers \subseteq PeerRecords /\ PeersSound(tele.peers, net)
  BY DEF SearchInv, SearchTyped, Telemetries
<1>3. ASSUME NEW f \in own
      PROVE  /\ Marked(f) \in PeerRecords /\ Marked(f).request = f.request
             /\ Marked(f).session = f.session /\ Marked(f).at = f.at
  <2> DEFINE contact == f.contact \/ f.at \in search.added
             m == Marked(f)
  <2>1. contact \in BOOLEAN
    OBVIOUS
  <2>2. m = [f EXCEPT !.contact = contact]
    OBVIOUS
  <2>3. f \in PeerRecords
    BY <1>2
  <2> HIDE DEF contact, m
  <2>4. m \in PeerRecords /\ m.request = f.request /\ m.session = f.session /\ m.at = f.at
    BY <2>1, <2>2, <2>3 DEF PeerRecords
  <2>5. QED
    BY <2>4 DEF m
<1>4. IsFiniteSet(incoming)
  <2> DEFINE g == [f \in own |-> Marked(f)]
  <2>1. g \in Surjection(own, incoming)
    BY DEF Surjection
  <2>2. IsFiniteSet(own)
    BY <1>2, FS_Subset DEF PeersSound
  <2> HIDE DEF g, own, incoming
  <2>3. QED
    BY <2>1, <2>2, FS_Surjection
<1>5. /\ rows \in [1 .. Cardinality(incoming) -> incoming]
      /\ \A i, j \in 1 .. Cardinality(incoming) : i # j => rows[i] # rows[j]
  BY <1>1 DEF Sorted, SetToSeqs
<1>6. Cardinality(incoming) \in Nat
  BY <1>4, FS_CardinalityType
<1>7. \A m \in incoming : \E f \in own :
        /\ m = Marked(f) /\ m \in PeerRecords /\ m.request = f.request
        /\ m.session = f.session /\ m.at = f.at
  BY <1>3
<1>8. \A f \in own : f \in tele.peers /\ f.request = search.request
  OBVIOUS
<1> HIDE DEF own, Marked, incoming
<1>9. rows \in Seq(PeerRecords) /\ DOMAIN rows = 1 .. Cardinality(incoming)
  <2>1. incoming \subseteq PeerRecords
    BY <1>7
  <2>2. QED
    BY <1>5, <1>6, <2>1
<1>10. ASSUME NEW i \in DOMAIN rows
       PROVE  rows[i].request = search.request /\ Answered(rows[i], net)
  <2>1. PICK f \in own : /\ rows[i].request = f.request
                          /\ rows[i].session = f.session /\ rows[i].at = f.at
    BY <1>5, <1>7, <1>9
  <2>2. QED
    BY <1>2, <1>8, <2>1 DEF PeersSound, Answered
<1>11. ASSUME NEW i \in DOMAIN rows, NEW j \in DOMAIN rows, rows[i].session = rows[j].session
       PROVE  i = j
  <2>1. PICK f \in own : rows[i] = Marked(f) /\ rows[i].session = f.session
    BY <1>5, <1>7, <1>9
  <2>2. PICK g \in own : rows[j] = Marked(g) /\ rows[j].session = g.session
    BY <1>5, <1>7, <1>9
  <2>3. f = g
    BY <1>2, <1>8, <1>11, <2>1, <2>2 DEF PeersSound
  <2>4. QED
    BY <1>5, <1>9, <2>1, <2>2, <2>3
<1>12. QED
  BY <1>9, <1>10, <1>11

LEMMA TakeTelemetryStep == ASSUME SearchInv, TakeTelemetry PROVE SearchInv'
<1>1. /\ tele' \in Telemetries /\ tele'.pipe = tele.pipe /\ tele'.peers = tele.peers
  <2>1. tele' = [tele EXCEPT !.pending = FALSE]
    BY DEF TakeTelemetry
  <2>2. QED
    BY <2>1 DEF SearchInv, SearchTyped, Telemetries
<1>2. search' \in Dialogs /\ RowsSound(search', net) /\ StatusSound(search')
  <2>1. CASE ~search.open
    BY <2>1 DEF TakeTelemetry, SearchInv, SearchTyped
  <2>2. CASE search.open
    <3> DEFINE with(rows) == [search EXCEPT !.rows = rows]
               listed(rows) == IF rows = <<>> /\ search.rows = <<>> THEN search
                               ELSE RebuildList(with(rows))
    <3>1. PICK rows \in Sorted(Incoming(search, tele)) :
            search' = IF tele.error = search.request
                      THEN FinishStatus([listed(rows) EXCEPT !.error = TRUE])
                      ELSE listed(rows)
      BY <2>2 DEF TakeTelemetry
    <3>2. with(rows) \in Dialogs /\ RowsSound(with(rows), net)
      <4> DEFINE w == with(rows)
      <4>1. w = [search EXCEPT !.rows = rows]
        OBVIOUS
      <4> HIDE DEF w
      <4>2. w \in Dialogs /\ w.rows = rows /\ w.request = search.request
        BY <4>1, IncomingSound DEF SearchInv, SearchTyped, Dialogs
      <4>3. RowsSound(w, net)
        BY <4>2, IncomingSound DEF RowsSound
      <4>4. QED
        BY <4>2, <4>3 DEF w
    <3> DEFINE l == listed(rows)
               e == [l EXCEPT !.error = TRUE]
    <3>3. l \in Dialogs /\ RowsSound(l, net) /\ StatusSound(l)
      <4> HIDE DEF with
      <4>1. CASE rows = <<>> /\ search.rows = <<>>
        BY <4>1 DEF SearchInv, SearchTyped
      <4>2. CASE ~(rows = <<>> /\ search.rows = <<>>)
        BY <3>2, <4>2, RebuildSound, SameRows
      <4>3. QED
        BY <4>1, <4>2
    <3>4. search' = IF tele.error = search.request THEN FinishStatus(e) ELSE l
      BY <3>1
    <3>5. e = [l EXCEPT !.error = TRUE]
      OBVIOUS
    <3> HIDE DEF l, e, listed, with
    <3>6. e \in Dialogs /\ e.rows = l.rows /\ e.request = l.request
      BY <3>3, <3>5 DEF Dialogs
    <3>7. RowsSound(e, net)
      BY <3>3, <3>6, SameRows
    <3>8. FinishStatus(e) \in Dialogs /\ StatusSound(FinishStatus(e)) /\ RowsSound(FinishStatus(e), net)
      BY <3>6, <3>7, FinishSound, SameRows
    <3>9. QED
      BY <3>3, <3>4, <3>8
  <2>3. QED
    BY <2>1, <2>2
<1>3. QED
  BY <1>1, <1>2 DEF TakeTelemetry, SearchInv, SearchTyped, NoDuplicates

-----------------------------------------------------------------------------
LEMMA SearchStepInv == ASSUME SearchInv, SearchStep PROVE SearchInv'
<1>1. CASE ShowSearch \/ RefreshSearch \/ SearchTimer \/ CloseSearch
  BY <1>1, ShowSearchStep, RefreshSearchStep, SearchTimerStep, CloseSearchStep
<1>2. CASE \E i \in DOMAIN search.rows : AddSelected(i)
  BY <1>2, AddSelectedStep
<1>3. CASE CoreRestarts \/ CoreEnds \/ CoreSearches \/ CoreHears
  BY <1>3, CoreRestartsStep, CoreEndsStep, CoreSearchesStep, CoreHearsStep
<1>4. CASE \E p \in People : Answers(p) \/ StartsAnew(p)
  BY <1>4, AnswersStep, StartsAnewStep
<1>5. CASE Report \/ ReadTelemetry \/ TakeTelemetry
  BY <1>5, ReportStep, ReadTelemetryStep, TakeTelemetryStep
<1>6. QED
  BY <1>1, <1>2, <1>3, <1>4, <1>5 DEF SearchStep

-----------------------------------------------------------------------------
(* The program *)

Stages == {"off", "event", "late", "owner", "runs", "closing", "leaves", "ended"}

InstanceTyped ==
    /\ subject \in {"launches", "search", "hotkeys"}
    /\ stage \in [Programs -> Stages]
    /\ mutex \in Programs \cup {0} /\ straggler \in Programs \cup {0}

\* One program at the most is between taking the mutex and releasing it.
OneOwner == \A p \in Programs : stage[p] \in {"owner", "runs", "closing"} <=> p = mutex

\* Only where there is one program does a search add somebody.
OneSubject ==
    /\ subject = "search" \/ search.added = {}
    /\ subject # "launches" => \A p \in Programs \ {1} : stage[p] = "off"

IInv == SearchInv /\ InstanceTyped /\ OneOwner /\ OneSubject /\ CoreWithInstance

-----------------------------------------------------------------------------
LEMMA ProgramsAre == 1 \in Programs /\ 0 \notin Programs
  BY LaunchesAssumption DEF Programs

LEMMA InitIInv == Init => IInv
<1> SUFFICES ASSUME Init PROVE IInv
  OBVIOUS
<1>1. contacts \in Seq(Places) /\ NoDuplicates
  <2>1. CASE contacts = <<>>
    BY <2>1 DEF NoDuplicates, IsInjective
  <2>2. CASE contacts \in {SetToSeq(s) : s \in SUBSET FirstContacts}
    <3>1. PICK s \in SUBSET FirstContacts : contacts = SetToSeq(s)
      BY <2>2
    <3>2. IsFiniteSet(s)
      BY DiscoveryAssumption, FS_Subset
    <3>3. contacts \in Seq(s) /\ NoDuplicates
      BY <3>1, <3>2, SetToSeqIs DEF NoDuplicates
    <3>4. s \subseteq Places
      BY DEF Places
    <3>5. QED
      BY <3>3, <3>4
  <2>3. QED
    BY <2>1, <2>2 DEF Init
<1>2. core \in Cores /\ FoundSound(core.found, net)
  <2>1. ToSet(contacts) \in SUBSET Places
    BY <1>1, ToSetTyped
  <2>2. QED
    BY <2>1, FreshTyped, DownTyped DEF Init
<1>3. /\ search = Dialog /\ tele = NoTelemetry /\ net = {}
      /\ people = [p \in People |-> Unasked]
  BY DEF Init, SearchInit
<1>4. people \in [People -> [session : Nat, replied : SUBSET Nat]]
  BY <1>3 DEF Unasked
<1>5. SearchInv
  BY <1>1, <1>2, <1>3, <1>4, DialogTyped, NoTelemetryTyped DEF SearchInv, SearchTyped
<1>6. InstanceTyped
  BY ProgramsAre DEF Init, InstanceTyped, Stages
<1>7. OneOwner
  BY ProgramsAre DEF Init, OneOwner
<1>8. OneSubject
  BY <1>3 DEF Init, OneSubject, Dialog
<1>9. CoreWithInstance
  BY ProgramsAre DEF Init, CoreWithInstance, Alive, Down, Fresh
<1>10. QED
  BY <1>5, <1>6, <1>7, <1>8, <1>9 DEF IInv

-----------------------------------------------------------------------------
\* What a step of the instance leaves alone
Aside == UNCHANGED <<subject, keys, search, contacts, tele, net, people>>

LEMMA SearchKept ==
    ASSUME SearchInv, Aside, core' \in Cores, FoundSound(core'.found, net)
    PROVE  SearchInv'
  BY DEF Aside, SearchInv, SearchTyped, NoDuplicates

LEMMA SameCore ==
    ASSUME SearchInv, Aside, core' = core
    PROVE  SearchInv' /\ (Alive' <=> Alive)
  BY SearchKept DEF Alive, SearchInv, SearchTyped

LEMMA ProgramStep ==
    ASSUME IInv, Aside, NEW p \in Programs, Launch(p) \/ TakeMutex(p) \/ GiveWay(p)
    PROVE  IInv'
<1>1. SearchInv' /\ (Alive' <=> Alive) /\ search' = search /\ subject' = subject
      /\ straggler' = straggler
  BY SameCore DEF IInv, Launch, TakeMutex, GiveWay, Aside
<1>2. CASE Launch(p)
  BY <1>1, <1>2, ProgramsAre DEF Launch, IInv, InstanceTyped, Stages, OneOwner, OneSubject, CoreWithInstance
<1>3. CASE TakeMutex(p)
  BY <1>1, <1>3, ProgramsAre DEF TakeMutex, IInv, InstanceTyped, Stages, OneOwner, OneSubject, CoreWithInstance
<1>4. CASE GiveWay(p)
  BY <1>1, <1>4, ProgramsAre DEF GiveWay, IInv, InstanceTyped, Stages, OneOwner, OneSubject, CoreWithInstance
<1>5. QED
  BY <1>2, <1>3, <1>4

LEMMA OpenWindowStep ==
    ASSUME IInv, Aside, NEW p \in Programs, OpenWindow(p)
    PROVE  IInv'
<1>1. core' \in Cores /\ FoundSound(core'.found, net)
  <2>1. ToSet(contacts) \in SUBSET Places
    BY ToSetTyped DEF IInv, SearchInv, SearchTyped
  <2>2. QED
    BY <2>1, FreshTyped DEF OpenWindow
<1>2. SearchInv'
  BY <1>1, SearchKept DEF IInv
<1>3. search' = search /\ subject' = subject
  BY DEF Aside
<1>4. stage' = [stage EXCEPT ![p] = "runs"] /\ mutex' = mutex /\ straggler' = straggler
      /\ stage[p] = "owner"
  BY DEF OpenWindow
<1>5. InstanceTyped' /\ OneOwner' /\ OneSubject'
  BY <1>3, <1>4, ProgramsAre DEF IInv, InstanceTyped, Stages, OneOwner, OneSubject
<1>6. CoreWithInstance'
  BY <1>3, <1>4, ProgramsAre DEF IInv, InstanceTyped, Stages, OneOwner, CoreWithInstance
<1>7. QED
  BY <1>2, <1>5, <1>6 DEF IInv

LEMMA LeaveStep ==
    ASSUME IInv, Aside, NEW p \in Programs, SearchReturns(p) \/ ProgramEnds(p)
    PROVE  IInv'
<1>1. SearchInv' /\ (Alive' <=> Alive) /\ search' = search /\ subject' = subject /\ mutex' = mutex
  BY SameCore DEF IInv, SearchReturns, ProgramEnds, Aside
<1>2. CASE SearchReturns(p)
  BY <1>1, <1>2, ProgramsAre DEF SearchReturns, IInv, InstanceTyped, Stages, OneOwner, OneSubject, CoreWithInstance
<1>3. CASE ProgramEnds(p)
  BY <1>1, <1>3, ProgramsAre DEF ProgramEnds, IInv, InstanceTyped, Stages, OneOwner, OneSubject, CoreWithInstance
<1>4. QED
  BY <1>2, <1>3

LEMMA ViewStep ==
    ASSUME IInv, Aside, Wait \/ ShowExisting \/ Hide \/ Restore \/ TaskbarRestarts
    PROVE  IInv'
<1>1. UNCHANGED <<stage, mutex, straggler, core>>
  BY DEF Wait, ShowExisting, Hide, Restore, TaskbarRestarts
<1>2. SearchInv' /\ (Alive' <=> Alive) /\ search' = search /\ subject' = subject
  BY <1>1, SameCore DEF IInv, Aside
<1>3. QED
  BY <1>1, <1>2 DEF IInv, InstanceTyped, OneOwner, OneSubject, CoreWithInstance

LEMMA CoreShutDownStep == ASSUME IInv, Aside, CoreShutDown PROVE IInv'
<1>1. core' = Down /\ UNCHANGED <<stage, mutex, straggler>>
  BY DEF CoreShutDown
<1>2. SearchInv' /\ ~Alive'
  BY <1>1, DownTyped, SearchKept DEF IInv, Alive, Down
<1>3. search' = search /\ subject' = subject
  BY DEF Aside
<1>4. QED
  BY <1>1, <1>2, <1>3 DEF IInv, InstanceTyped, OneOwner, OneSubject, CoreWithInstance

LEMMA ReleaseInstanceStep == ASSUME IInv, Aside, ReleaseInstance PROVE IInv'
<1>1. SearchInv' /\ (Alive' <=> Alive) /\ search' = search /\ subject' = subject
  BY SameCore DEF IInv, ReleaseInstance, Aside
<1>2. QED
  BY <1>1, ProgramsAre DEF ReleaseInstance, IInv, InstanceTyped, Stages, OneOwner, OneSubject, CoreWithInstance

\* Where a program runs, no Core was started behind one that left.
LEMMA NoStraggler == ASSUME IInv, Runs PROVE straggler = 0
  BY ProgramsAre DEF IInv, Runs, InstanceTyped, OneOwner, OneSubject, CoreWithInstance

LEMMA ExitRequestedStep == ASSUME IInv, ExitRequested PROVE IInv'
<1>1. /\ stage' = [stage EXCEPT ![mutex] = "closing"] /\ mutex' = mutex /\ subject' = subject
      /\ straggler' = 0 /\ stage[mutex] = "runs" /\ mutex # 0 /\ contacts' = contacts
  BY NoStraggler DEF ExitRequested, Runs
<1>2. core' \in Cores /\ FoundSound(core'.found, net')
  <2>1. [Down EXCEPT !.phase = "stopping"] \in Cores /\ [Down EXCEPT !.phase = "stopping"].found = {}
    BY DEF Down, Fresh, Cores
  <2>2. QED
    BY <2>1, DownTyped, FS_EmptySet DEF ExitRequested, FoundSound
<1>3. search' \in Dialogs /\ RowsSound(search', net') /\ StatusSound(search')
      /\ (subject # "search" => search'.added = {})
  <2> DEFINE added == IF search.open THEN search.added ELSE {}
             d == [Dialog EXCEPT !.added = added]
  <2>1. added \in SUBSET Places /\ (subject # "search" => added = {})
    BY DEF IInv, OneSubject, SearchInv, SearchTyped, Dialogs
  <2>2. search' = d /\ d = [Dialog EXCEPT !.added = added]
    BY DEF ExitRequested
  <2> HIDE DEF added, d
  <2>3. d \in Dialogs /\ d.added = added /\ d.rows = <<>> /\ ~d.error /\ ~d.finished
    BY <2>1, <2>2, DialogTyped DEF Dialogs, Dialog
  <2>4. QED
    BY <2>1, <2>2, <2>3 DEF RowsSound, StatusSound
<1>4. SearchInv'
  <2>1. net' \subseteq Messages /\ people' \in [People -> [session : Nat, replied : SUBSET Nat]]
    BY DEF ExitRequested, Unasked
  <2>2. tele' = NoTelemetry
    BY DEF ExitRequested
  <2>3. QED
    BY <1>1, <1>2, <1>3, <2>1, <2>2, NoTelemetryTyped
    DEF IInv, SearchInv, SearchTyped, NoDuplicates
<1>5. InstanceTyped' /\ OneOwner' /\ OneSubject'
  BY <1>1, <1>3, ProgramsAre DEF IInv, InstanceTyped, Stages, OneOwner, OneSubject
<1>6. CoreWithInstance'
  BY <1>1 DEF IInv, InstanceTyped, CoreWithInstance
<1>7. QED
  BY <1>4, <1>5, <1>6 DEF IInv

LEMMA SeekingStep == ASSUME IInv, Seeking(SearchStep) PROVE IInv'
<1>1. SearchInv' /\ UNCHANGED <<subject, stage, mutex, straggler>> /\ subject = "search" /\ Runs
  BY SearchStepInv DEF IInv, Seeking, instanceVars
<1>2. QED
  BY <1>1, NoStraggler DEF IInv, InstanceTyped, OneOwner, OneSubject, CoreWithInstance, Runs

LEMMA KeyingStep == ASSUME IInv, UNCHANGED <<subject, searchVars, instanceVars>> PROVE IInv'
<1>1. SearchInv' /\ (Alive' <=> Alive)
  BY DEF IInv, SearchInv, SearchTyped, NoDuplicates, searchVars, Alive
<1>2. QED
  BY <1>1 DEF IInv, InstanceTyped, OneOwner, OneSubject, CoreWithInstance, searchVars, instanceVars

-----------------------------------------------------------------------------
LEMMA NextIInv == IInv /\ [Next]_vars => IInv'
<1> SUFFICES ASSUME IInv, [Next]_vars PROVE IInv'
  OBVIOUS
<1>1. CASE InstanceStep
  BY <1>1, ProgramStep, OpenWindowStep, LeaveStep, ViewStep, CoreShutDownStep,
     ReleaseInstanceStep DEF InstanceStep, Aside
<1>2. CASE ExitRequested
  BY <1>2, ExitRequestedStep
<1>3. CASE Seeking(SearchStep)
  BY <1>3, SeekingStep
<1>4. CASE Keying(KeysStep)
  BY <1>4, KeyingStep DEF Keying
<1>5. CASE UNCHANGED vars
  BY <1>5, KeyingStep DEF vars
<1>6. QED
  BY <1>1, <1>2, <1>3, <1>4, <1>5 DEF Next

LEMMA Invariance == Spec => []IInv
  BY InitIInv, NextIInv, PTL DEF Spec

\* The search, the telemetry and the stages of all programs keep to their types.
THEOREM TypeCorrect == Spec => [](SearchTyped /\ InstanceTyped)
<1>1. IInv => SearchTyped /\ InstanceTyped
  BY DEF IInv, SearchInv
<1>2. QED
  BY <1>1, Invariance, PTL

\* Two Cores never contend for the port, however many programs are launched and whenever one
\* exits; the Core that an exit upon an open search starts ends with its program.
THEOREM CoreBelongs == Spec => []CoreWithInstance
<1>1. IInv => CoreWithInstance
  BY DEF IInv
<1>2. QED
  BY <1>1, Invariance, PTL

\* The rows shown are answers to the search on show, each session once, and counted right,
\* however many people answer and however the telemetry is cut up.
THEOREM ShownIsAnswered == Spec => []SearchShown
<1>1. IInv => SearchShown
  BY InvShown DEF IInv
<1>2. QED
  BY <1>1, Invariance, PTL

\* No endpoint is added to the contacts twice.
THEOREM ContactsOnce == Spec => []NoDuplicates
<1>1. IInv => NoDuplicates
  BY DEF IInv, SearchInv
<1>2. QED
  BY <1>1, Invariance, PTL
-----------------------------------------------------------------------------
(* The hotkeys: what the hooks believe is held is held, and the messages they posted    *)
(* tell it, one after the other, to those who are talked to.                            *)

\* How many members of s come before i
Rank(s, i) == Cardinality({j \in s : j < i})

\* The members of a set of contacts can be counted from the least.
LEMMA AscendingIs ==
    ASSUME NEW s \in SUBSET Listed
    PROVE  /\ Ascending(s) \in Seq(s) /\ IsInjective(Ascending(s))
           /\ \A n \in DOMAIN Ascending(s) : Ascending(s)[n] \in s
<1> DEFINE n == Cardinality(s)
           rank == [i \in s |-> Rank(s, i)]
<1>1. s \in SUBSET Nat /\ s \in SUBSET Int
  BY HotkeysAssumption DEF Listed
<1>2. IsFiniteSet(s) /\ n \in Nat
  <2>1. 1 \in Int /\ Count \in Int
    BY HotkeysAssumption
  <2>2. IsFiniteSet(Listed)
    BY <2>1, FS_Interval DEF Listed
  <2>3. QED
    BY <2>2, FS_Subset, FS_CardinalityType
<1>3. ASSUME NEW i \in s
      PROVE  /\ {j \in s : j < i} \in SUBSET s /\ {j \in s : j < i} # s
             /\ IsFiniteSet({j \in s : j < i})
             /\ Rank(s, i) \in 0 .. (n - 1)
  <2> DEFINE before == {j \in s : j < i}
  <2>1. before \in SUBSET s /\ i \notin before
    BY <1>1
  <2>2. IsFiniteSet(before) /\ Cardinality(before) <= n /\ Cardinality(before) # n
    BY <1>2, <1>3, <2>1, FS_Subset
  <2>3. Cardinality(before) \in Nat
    BY <2>2, FS_CardinalityType
  <2>4. Rank(s, i) = Cardinality(before)
    BY DEF Rank
  <2> HIDE DEF before, n
  <2>5. Rank(s, i) \in 0 .. (n - 1)
    BY <1>2, <2>2, <2>3, <2>4
  <2>6. QED
    BY <1>3, <2>1, <2>2, <2>5 DEF before, n
<1>4. ASSUME NEW i \in s, NEW j \in s, i < j PROVE Rank(s, i) # Rank(s, j)
  <2> DEFINE a == {m \in s : m < i}
             b == {m \in s : m < j}
  <2>1. i \in Int /\ j \in Int
    BY <1>1
  <2>2. a \in SUBSET b /\ i \in b /\ i \notin a
    <3>1. \A m \in s : m < i => m < j
      BY <1>1, <1>4, <2>1
    <3>2. ~(i < i)
      BY <2>1
    <3>3. QED
      BY <1>4, <3>1, <3>2
  <2>3. IsFiniteSet(b)
    BY <1>3
  <2>4. Cardinality(b) # Cardinality(a)
    BY <2>2, <2>3, FS_Subset
  <2>5. QED
    BY <2>4 DEF Rank
<1>5. rank \in Injection(s, 0 .. (n - 1))
  <2>1. rank \in [s -> 0 .. (n - 1)]
    BY <1>3
  <2>2. \A i, j \in s : rank[i] = rank[j] => i = j
    BY <1>1, <1>4
  <2>3. QED
    BY <2>1, <2>2 DEF Injection, IsInjective
<1>6. rank \in Surjection(s, 0 .. (n - 1))
  <2>1. 0 \in Int /\ n - 1 \in Int
    BY <1>2
  <2>2. IsFiniteSet(0 .. (n - 1)) /\ Cardinality(0 .. (n - 1)) = IF 0 > n - 1 THEN 0 ELSE n - 1 - 0 + 1
    BY <2>1, FS_Interval
  <2>3. Cardinality(0 .. (n - 1)) = Cardinality(s)
    BY <1>2, <2>2
  <2>4. QED
    BY <1>5, <2>2, <2>3, FS_Injection
<1>7. ASSUME NEW k \in 1 .. n PROVE \E i \in s : Rank(s, i) = k - 1
  <2>1. k - 1 \in 0 .. (n - 1)
    BY <1>2
  <2>2. QED
    BY <1>6, <2>1 DEF Surjection
<1>8. Ascending(s) = [k \in 1 .. n |-> CHOOSE i \in s : Rank(s, i) = k - 1]
  BY DEF Ascending, Rank
<1>9. ASSUME NEW k \in 1 .. n
      PROVE  Ascending(s)[k] \in s /\ Rank(s, Ascending(s)[k]) = k - 1
  <2>1. Ascending(s)[k] = CHOOSE i \in s : Rank(s, i) = k - 1
    BY <1>8
  <2>2. QED
    BY <1>7, <2>1
<1>10. DOMAIN Ascending(s) = 1 .. n
  BY <1>8
<1>11. Ascending(s) \in Seq(s)
  <2> DEFINE r == Ascending(s)
  <2>1. r = [k \in 1 .. n |-> r[k]]
    BY <1>8
  <2>2. \A k \in 1 .. n : r[k] \in s
    BY <1>9
  <2> HIDE DEF r, n
  <2>3. QED
    BY <1>2, <2>1, <2>2, IsASeq DEF r
<1>12. IsInjective(Ascending(s))
  <2>1. ASSUME NEW a \in 1 .. n, NEW b \in 1 .. n, Ascending(s)[a] = Ascending(s)[b] PROVE a = b
    <3>1. a - 1 = b - 1
      BY <1>9, <2>1
    <3>2. QED
      BY <1>2, <3>1
  <2>2. QED
    BY <1>10, <2>1 DEF IsInjective
<1>13. QED
  BY <1>9, <1>10, <1>11, <1>12

-----------------------------------------------------------------------------
\* Of the messages about one, the first ends what is heard, each ends what the one before it
\* began, and the last tells how it is.
Chain(s, x, heard, down) ==
    LET at == {j \in DOMAIN s : s[j].of = x}
    IN  /\ at = {} => (heard => down)
        /\ \A j \in at : (\A l \in at : j <= l) => (heard => ~s[j].on)
        /\ \A j \in at : (\A l \in at : l <= j) => (s[j].on <=> down)
        /\ \A j, l \in at : j < l /\ (\A m \in at : m <= j \/ l <= m) => (s[j].on # s[l].on)

Notes == [of : Listed \cup {All}, on : BOOLEAN]

\* Messages are appended of which at most one is about x.
LEMMA ChainJoin ==
    ASSUME NEW s \in Seq(Notes), NEW t \in Seq(Notes), NEW x,
           NEW heard \in BOOLEAN, NEW down \in BOOLEAN, NEW now \in BOOLEAN,
           Chain(s, x, heard, down),
           \A p, q \in DOMAIN t : t[p].of = x /\ t[q].of = x => p = q,
           \A p \in DOMAIN t : t[p].of = x => t[p].on = now /\ now = ~down,
           (\A p \in DOMAIN t : t[p].of # x) => now = down
    PROVE  Chain(s \o t, x, heard, now)
<1> DEFINE u == s \o t
           at == {j \in DOMAIN s : s[j].of = x}
           to == {j \in DOMAIN u : u[j].of = x}
<1>1. /\ Len(s) \in Nat /\ Len(t) \in Nat /\ Len(u) = Len(s) + Len(t)
      /\ DOMAIN s = 1 .. Len(s) /\ DOMAIN t = 1 .. Len(t) /\ DOMAIN u = 1 .. (Len(s) + Len(t))
  OBVIOUS
<1>2. \A j \in DOMAIN s : j \in DOMAIN u /\ u[j] = s[j] /\ j \in Nat /\ j <= Len(s)
  BY <1>1
<1>3. \A j \in DOMAIN u : j \in Nat /\ (j \notin DOMAIN s => /\ j - Len(s) \in DOMAIN t
                                                          /\ u[j] = t[j - Len(s)] /\ j > Len(s))
  BY <1>1
<1>4. \A p \in DOMAIN t : p + Len(s) \in DOMAIN u /\ u[p + Len(s)] = t[p] /\ p \in Nat
                          /\ p + Len(s) \notin DOMAIN s
  BY <1>1
<1>5. \A j \in at : j \in to /\ u[j] = s[j]
  BY <1>2
<1>6. /\ at = {} => (heard => down)
      /\ \A j \in at : (\A l \in at : j <= l) => (heard => ~s[j].on)
      /\ \A j \in at : (\A l \in at : l <= j) => (s[j].on <=> down)
      /\ \A j, l \in at : j < l /\ (\A m \in at : m <= j \/ l <= m) => (s[j].on # s[l].on)
  BY DEF Chain
<1> HIDE DEF u
<1>7. CASE \A p \in DOMAIN t : t[p].of # x
  <2>1. to = at /\ now = down
    BY <1>2, <1>3, <1>7
  <2>2. \A j \in at : u[j] = s[j]
    BY <1>5
  <2>3. /\ at = {} => (heard => now)
        /\ \A j \in at : (\A l \in at : j <= l) => (heard => ~u[j].on)
        /\ \A j \in at : (\A l \in at : l <= j) => (u[j].on <=> now)
        /\ \A j, l \in at : j < l /\ (\A m \in at : m <= j \/ l <= m) => (u[j].on # u[l].on)
    BY <1>6, <2>1, <2>2
  <2> HIDE DEF at
  <2>4. QED
    BY <2>1, <2>3 DEF Chain, u
<1>8. CASE \E p \in DOMAIN t : t[p].of = x
  <2>1. PICK p \in DOMAIN t : t[p].of = x
    BY <1>8
  <2> DEFINE e == p + Len(s)
  <2>2. e \in to /\ u[e].on = now /\ e \in Nat
    BY <1>1, <1>4, <2>1
  <2>3. \A j \in to : j = e \/ j \in at
    BY <1>1, <1>2, <1>3, <2>1
  <2>4. \A j \in at : j < e /\ j \in Nat
    BY <1>1, <1>2
  <2>5. now = ~down
    BY <2>1
  <2> HIDE DEF e
  <2>6. \A j \in to : (\A l \in to : j <= l) => (heard => ~u[j].on)
    <3> SUFFICES ASSUME NEW j \in to, \A l \in to : j <= l, heard PROVE ~u[j].on
      OBVIOUS
    <3>1. CASE j \in at
      BY <1>5, <1>6, <3>1
    <3>2. CASE j = e /\ at = {}
      BY <1>6, <2>2, <2>5, <3>2
    <3>3. CASE j = e /\ at # {}
      <4>1. PICK l \in at : TRUE
        BY <3>3
      <4>2. l < e /\ e <= l /\ l \in Nat
        BY <1>5, <2>4, <3>3
      <4>3. QED
        BY <2>2, <4>2
    <3>4. QED
      BY <2>3, <3>1, <3>2, <3>3
  <2>7. \A j \in to : (\A l \in to : l <= j) => (u[j].on <=> now)
    <3> SUFFICES ASSUME NEW j \in to, \A l \in to : l <= j PROVE j = e
      BY <2>2
    <3>1. e <= j
      BY <2>2
    <3>2. QED
      BY <2>2, <2>3, <2>4, <3>1
  <2>8. ASSUME NEW j \in to, NEW l \in to, j < l, \A m \in to : m <= j \/ l <= m
        PROVE  u[j].on # u[l].on
    <3>1. j # e
      BY <2>2, <2>3, <2>4, <2>8
    <3>2. j \in at
      BY <2>3, <3>1
    <3>3. CASE l \in at
      BY <1>5, <1>6, <2>8, <3>2, <3>3
    <3>4. CASE l = e
      <4>1. \A m \in at : m <= j
        <5> SUFFICES ASSUME NEW m \in at PROVE m <= j
          OBVIOUS
        <5>1. m \in Nat /\ m < e /\ (m <= j \/ e <= m)
          BY <1>5, <2>4, <2>8, <3>4
        <5>2. QED
          BY <2>2, <5>1
      <4>2. u[j].on <=> down
        BY <1>5, <1>6, <3>2, <4>1
      <4>3. QED
        BY <2>2, <2>5, <3>4, <4>2
    <3>5. QED
      BY <2>3, <3>3, <3>4
  <2>9. to # {}
    BY <2>2
  <2>10. QED
    BY <2>6, <2>7, <2>8, <2>9 DEF Chain, u
<1>9. QED
  BY <1>7, <1>8

\* The first message is taken: one that is about x tells what is heard, unless it is refused.
LEMMA ChainTaken ==
    ASSUME NEW s \in Seq(Notes), s # <<>>, NEW x, NEW heard \in BOOLEAN, NEW down \in BOOLEAN,
           Chain(s, x, heard, down), NEW now \in BOOLEAN,
           IF Head(s).of = x THEN now => Head(s).on ELSE now = heard
    PROVE  Chain(Tail(s), x, now, down)
<1> DEFINE u == Tail(s)
           at == {j \in DOMAIN s : s[j].of = x}
           to == {j \in DOMAIN u : u[j].of = x}
<1>1. /\ Len(s) \in Nat \ {0} /\ DOMAIN s = 1 .. Len(s) /\ DOMAIN u = 1 .. (Len(s) - 1)
      /\ u \in Seq(Notes) /\ Head(s) = s[1]
  BY HeadTailProperties
<1>2. \A j \in DOMAIN u : u[j] = s[j + 1] /\ j + 1 \in DOMAIN s /\ j \in Nat /\ j > 0
  BY <1>1
<1>3. \A j \in DOMAIN s : j \in Nat /\ (j # 1 => j - 1 \in DOMAIN u /\ u[j - 1] = s[j])
  BY <1>1
<1>4. /\ at = {} => (heard => down)
      /\ \A j \in at : (\A l \in at : j <= l) => (heard => ~s[j].on)
      /\ \A j \in at : (\A l \in at : l <= j) => (s[j].on <=> down)
      /\ \A j, l \in at : j < l /\ (\A m \in at : m <= j \/ l <= m) => (s[j].on # s[l].on)
  BY DEF Chain
<1> HIDE DEF u
<1>5. \A j \in to : j + 1 \in at /\ u[j] = s[j + 1] /\ j \in Nat /\ j > 0
  BY <1>2
<1>6. \A j \in at : j \in Nat /\ (j = 1 \/ (j - 1 \in to /\ j > 1))
  BY <1>1, <1>3
<1>7. \A j \in to : (\A l \in to : l <= j) => (u[j].on <=> down)
  <2> SUFFICES ASSUME NEW j \in to, \A l \in to : l <= j PROVE u[j].on <=> down
    OBVIOUS
  <2>1. ASSUME NEW l \in at PROVE l <= j + 1
    <3>1. l \in Nat /\ (l = 1 \/ (l - 1 \in to /\ l - 1 <= j))
      BY <1>6
    <3>2. QED
      BY <1>5, <3>1
  <2>2. QED
    BY <1>4, <1>5, <2>1
<1>8. ASSUME NEW j \in to, NEW l \in to, j < l, \A m \in to : m <= j \/ l <= m
      PROVE  u[j].on # u[l].on
  <2>1. j + 1 < l + 1
    BY <1>5, <1>8
  <2>2. ASSUME NEW m \in at PROVE m <= j + 1 \/ l + 1 <= m
    <3>1. m \in Nat /\ (m = 1 \/ (m - 1 \in to /\ (m - 1 <= j \/ l <= m - 1)))
      BY <1>6, <1>8
    <3>2. QED
      BY <1>5, <3>1
  <2>3. QED
    BY <1>4, <1>5, <2>1, <2>2
<1>9. CASE Head(s).of = x
  <2>1. 1 \in at /\ (now => s[1].on)
    BY <1>1, <1>9
  <2>2. to = {} => (now => down)
    <3>1. to = {} => \A l \in at : l <= 1
      BY <1>6
    <3>2. QED
      BY <1>4, <2>1, <3>1
  <2>3. ASSUME NEW j \in to, \A l \in to : j <= l, now PROVE ~u[j].on
    <3>1. 1 < j + 1
      BY <1>5
    <3>2. ASSUME NEW m \in at PROVE m <= 1 \/ j + 1 <= m
      <4>1. m \in Nat /\ (m = 1 \/ (m - 1 \in to /\ j <= m - 1))
        BY <1>6, <2>3
      <4>2. QED
        BY <1>5, <4>1
    <3>3. s[1].on # s[j + 1].on
      <4> DEFINE n == j + 1
      <4>1. n \in at /\ 1 < n /\ \A m \in at : m <= 1 \/ n <= m
        BY <1>5, <3>1, <3>2
      <4> HIDE DEF n
      <4>2. s[1].on # s[n].on
        BY <1>4, <2>1, <4>1
      <4>3. QED
        BY <4>2 DEF n
    <3>4. s[j + 1].on \in BOOLEAN
      <4>1. \A i \in 1 .. Len(s) : s[i] \in Notes
        OBVIOUS
      <4>2. s[j + 1] \in Notes
        BY <1>1, <1>5, <4>1
      <4>3. QED
        BY <4>2 DEF Notes
    <3>5. QED
      BY <1>5, <2>1, <2>3, <3>3, <3>4
  <2>4. QED
    BY <1>7, <1>8, <2>2, <2>3 DEF Chain, u
<1>10. CASE Head(s).of # x
  <2>1. 1 \notin at /\ now = heard
    BY <1>1, <1>10
  <2>2. to = {} => at = {}
    BY <1>6, <2>1
  <2>3. ASSUME NEW j \in to, \A l \in to : j <= l, now PROVE ~u[j].on
    <3>1. ASSUME NEW m \in at PROVE j + 1 <= m
      <4>1. m \in Nat /\ m - 1 \in to /\ j <= m - 1
        BY <1>6, <2>1, <2>3
      <4>2. QED
        BY <1>5, <4>1
    <3>2. QED
      BY <1>4, <1>5, <2>1, <2>3, <3>1
  <2>4. QED
    BY <1>4, <1>7, <1>8, <2>1, <2>2, <2>3 DEF Chain, u
<1>11. QED
  BY <1>9, <1>10
-----------------------------------------------------------------------------
Inputs == Keys \cup Buttons \cup Modifiers
HotkeySet == Recordable \cup {NotSet}
KeyDialogs == [open : BOOLEAN, all : HotkeySet, of : [Listed -> HotkeySet] \cup {<<>>},
               recording : {None, All} \cup Listed, mouse : Buttons \cup {"none"}]
KeyStates ==
    [down : SUBSET Inputs, last : Inputs \cup {"none"},
     all : HotkeySet, of : [Listed -> HotkeySet], hooks : SUBSET {"keyboard", "mouse"},
     allDown : BOOLEAN,
     contactDown : BOOLEAN, pressed : HotkeySet, indices : Seq(Listed),
     posted : Seq(Notes),
     group : BOOLEAN, refs : [Listed -> {0, 1}],
     dialog : KeyDialogs]

\* What the hooks believe, and what is heard, of the group or a contact
Believed(k, x) ==
    IF x = All THEN k.allDown
    ELSE k.contactDown /\ \E n \in DOMAIN k.indices : k.indices[n] = x
Heard(k, x) == IF x = All THEN k.group ELSE k.refs[x] = 1

Chains(k) == \A x \in {All} \cup Listed : Chain(k.posted, x, Heard(k, x), Believed(k, x))

\* A contact's hotkey that is held is not the group's, and is that of all it talks to.
Ours(k, pressed, indices) ==
    /\ pressed \in HotkeySet /\ indices \in Seq(Listed)
    /\ pressed # k.all /\ (pressed.vk \in Buttons => k.all.vk # pressed.vk)
    /\ indices # <<>> /\ IsInjective(indices)
    /\ \A n \in DOMAIN indices : k.of[indices[n]] = pressed
PressedTrue(k) == k.contactDown => Ours(k, k.pressed, k.indices)

\* The dialog has taken the hooks away.
Quiet(k) ==
    k.dialog.open => ~k.allDown /\ ~k.contactDown /\ k.dialog.of \in [Listed -> HotkeySet]

HooksOf(k) ==
    (IF NeedsKeyboard(k) THEN {"keyboard"} ELSE {}) \cup (IF NeedsMouse(k) THEN {"mouse"} ELSE {})
Hooked(k) == ~k.dialog.open => k.hooks = HooksOf(k)

Base(k) == k \in KeyStates /\ Chains(k) /\ PressedTrue(k) /\ Quiet(k) /\ Hooked(k)

\* r differs from k only in what the hooks remember and post.
Alike(r, k) ==
    /\ r.down = k.down /\ r.last = k.last /\ r.all = k.all /\ r.of = k.of /\ r.hooks = k.hooks
    /\ r.group = k.group /\ r.refs = k.refs /\ r.dialog = k.dialog

LEMMA AlikeHooked ==
    ASSUME NEW r, NEW k, Alike(r, k), Hooked(k)
    PROVE  Hooked(r)
  BY DEF Alike, Hooked, HooksOf, NeedsKeyboard, NeedsMouse, HotkeysOf

LEMMA ListedIs == All \notin Listed /\ None \notin Listed /\ All # None
  BY HotkeysAssumption DEF All, None, Listed

\* A message about the group
LEMMA GroupPosted ==
    ASSUME NEW k, Base(k), NEW on \in BOOLEAN, k.allDown = ~on
    PROVE  LET r == [k EXCEPT !.allDown = on, !.posted = Append(@, Group(on))]
           IN  r \in KeyStates /\ Chains(r)
<1> DEFINE r == [k EXCEPT !.allDown = on, !.posted = Append(@, Group(on))]
           t == <<Group(on)>>
<1>1. k \in KeyStates /\ k.posted \in Seq(Notes)
  BY DEF Base, KeyStates
<1>2. Group(on) \in Notes /\ t \in Seq(Notes)
  BY DEF Group, Notes
<1>3. Append(k.posted, Group(on)) = k.posted \o t /\ k.posted \o t \in Seq(Notes)
  BY <1>1, <1>2
<1>4. /\ r \in KeyStates /\ r.posted = k.posted \o t /\ r.allDown = on
      /\ r.contactDown = k.contactDown /\ r.indices = k.indices
      /\ r.group = k.group /\ r.refs = k.refs
  BY <1>1, <1>3 DEF KeyStates
<1>5. ASSUME NEW x \in {All} \cup Listed PROVE Chain(r.posted, x, Heard(r, x), Believed(r, x))
  <2> DEFINE h == Heard(k, x)
             d == Believed(k, x)
             n == Believed(r, x)
  <2>1. h \in BOOLEAN /\ d \in BOOLEAN /\ n \in BOOLEAN
    BY <1>1, <1>4 DEF KeyStates, Heard, Believed
  <2>2. Chain(k.posted, x, h, d)
    BY DEF Base, Chains
  <2>3. Heard(r, x) = h
    BY <1>4 DEF Heard
  <2>4. DOMAIN t = {1} /\ t[1].of = All /\ t[1].on = on
    BY DEF Group
  <2>5. IF x = All THEN n = on /\ d = ~on ELSE n = d
    BY <1>4 DEF Believed
  <2> HIDE DEF h, d, n, t, r
  <2>6. Chain(k.posted \o t, x, h, n)
    BY <1>1, <1>2, <2>1, <2>2, <2>4, <2>5, ChainJoin
  <2>7. QED
    BY <1>4, <2>3, <2>6 DEF n
<1>6. QED
  BY <1>4, <1>5 DEF Chains

LEMMA PrivateIs ==
    ASSUME NEW indices \in Seq(Listed), NEW on \in BOOLEAN
    PROVE  /\ Private(indices, on) \in Seq(Notes)
           /\ DOMAIN Private(indices, on) = DOMAIN indices
           /\ \A n \in DOMAIN indices : /\ Private(indices, on)[n].of = indices[n]
                                        /\ Private(indices, on)[n].on = on
<1> DEFINE t == Private(indices, on)
<1>1. DOMAIN indices = 1 .. Len(indices) /\ Len(indices) \in Nat
  OBVIOUS
<1>2. /\ t = [n \in 1 .. Len(indices) |-> t[n]]
      /\ \A n \in 1 .. Len(indices) : t[n] = [of |-> indices[n], on |-> on]
  BY <1>1 DEF Private
<1>3. \A n \in 1 .. Len(indices) : t[n] \in Notes
  BY <1>2 DEF Notes
<1> HIDE DEF t
<1>4. t \in Seq(Notes) /\ DOMAIN t = 1 .. Len(indices)
  BY <1>1, <1>2, <1>3, IsASeq
<1>5. QED
  BY <1>1, <1>2, <1>4 DEF t

\* Messages about contacts
LEMMA ContactsPosted ==
    ASSUME NEW k, Base(k), NEW on \in BOOLEAN, k.contactDown = ~on,
           NEW pressed \in HotkeySet, NEW indices \in Seq(Listed),
           NEW told \in Seq(Listed), IsInjective(told),
           IF on THEN told = indices ELSE told = k.indices
    PROVE  LET r == [k EXCEPT !.contactDown = on, !.pressed = pressed, !.indices = indices,
                              !.posted = @ \o Private(told, on)]
           IN  r \in KeyStates /\ Chains(r)
<1> DEFINE r == [k EXCEPT !.contactDown = on, !.pressed = pressed, !.indices = indices,
                          !.posted = @ \o Private(told, on)]
           t == Private(told, on)
<1>1. k \in KeyStates /\ k.posted \in Seq(Notes)
  BY DEF Base, KeyStates
<1>2. /\ t \in Seq(Notes) /\ DOMAIN t = DOMAIN told
      /\ \A n \in DOMAIN told : t[n].of = told[n] /\ t[n].on = on /\ told[n] \in Listed
  BY PrivateIs
<1>3. k.posted \o t \in Seq(Notes)
  BY <1>1, <1>2
<1>4. /\ r \in KeyStates /\ r.posted = k.posted \o t /\ r.allDown = k.allDown
      /\ r.contactDown = on /\ r.indices = indices
      /\ r.group = k.group /\ r.refs = k.refs
  <2> HIDE DEF t
  <2>1. r = [k EXCEPT !.contactDown = on, !.pressed = pressed, !.indices = indices,
                      !.posted = k.posted \o t]
    BY <1>1 DEF t, KeyStates
  <2> HIDE DEF r
  <2>2. QED
    BY <1>1, <1>3, <2>1 DEF KeyStates
<1>5. ASSUME NEW x \in {All} \cup Listed PROVE Chain(r.posted, x, Heard(r, x), Believed(r, x))
  <2> DEFINE h == Heard(k, x)
             d == Believed(k, x)
             n == Believed(r, x)
             in == \E i \in DOMAIN told : told[i] = x
  <2>1. h \in BOOLEAN /\ d \in BOOLEAN /\ n \in BOOLEAN
    BY <1>1, <1>4 DEF KeyStates, Heard, Believed
  <2>2. Chain(k.posted, x, h, d)
    BY DEF Base, Chains
  <2>3. Heard(r, x) = h
    BY <1>4 DEF Heard
  <2>4. CASE x = All
    <3>1. n = d /\ \A i \in DOMAIN t : t[i].of # x
      BY <1>2, <1>4, <2>4, ListedIs DEF Believed
    <3> HIDE DEF h, d, n, t, r
    <3>2. Chain(k.posted \o t, x, h, n)
      BY <1>1, <1>2, <2>1, <2>2, <3>1, ChainJoin
    <3>3. QED
      BY <1>4, <2>3, <3>2 DEF n
  <2>5. CASE x # All
    <3>1. \A p, q \in DOMAIN t : t[p].of = x /\ t[q].of = x => p = q
      BY <1>2 DEF IsInjective
    <3>0. IF on THEN ~d /\ (n <=> in) ELSE ~n /\ (d <=> in)
      <4>1. CASE on
        <5>1. ~d
          BY <2>5, <4>1 DEF Believed
        <5>2. n <=> in
          BY <1>4, <2>5, <4>1 DEF Believed
        <5>3. QED
          BY <4>1, <5>1, <5>2
      <4>2. CASE ~on
        <5>1. ~n
          BY <1>4, <2>5, <4>2 DEF Believed
        <5>2. d <=> in
          BY <2>5, <4>2 DEF Believed
        <5>3. QED
          BY <4>2, <5>1, <5>2
      <4>3. QED
        BY <4>1, <4>2
    <3> HIDE DEF h, d, n
    <3>2. \A p \in DOMAIN t : t[p].of = x => t[p].on = n /\ n = ~d
      <4> SUFFICES ASSUME NEW p \in DOMAIN t, t[p].of = x PROVE t[p].on = n /\ n = ~d
        OBVIOUS
      <4>1. in /\ t[p].on = on
        BY <1>2
      <4> HIDE DEF in
      <4>2. QED
        BY <2>1, <3>0, <4>1
    <3>3. (\A p \in DOMAIN t : t[p].of # x) => n = d
      <4> SUFFICES ASSUME \A p \in DOMAIN t : t[p].of # x PROVE n = d
        OBVIOUS
      <4>1. ~in
        BY <1>2
      <4> HIDE DEF in
      <4>2. QED
        BY <2>1, <3>0, <4>1
    <3> HIDE DEF t, r
    <3>4. Chain(k.posted \o t, x, h, n)
      BY <1>1, <1>2, <2>1, <2>2, <3>1, <3>2, <3>3, ChainJoin
    <3>5. QED
      BY <1>4, <2>3, <3>4 DEF n
  <2>6. QED
    BY <2>4, <2>5
<1>6. QED
  BY <1>4, <1>5 DEF Chains
-----------------------------------------------------------------------------
(* What the functions that the hooks call make of a sound state *)

LEMMA DeactivateAllBase ==
    ASSUME NEW k, Base(k)
    PROVE  LET r == DeactivateAll(k)
           IN  /\ Base(r) /\ Alike(r, k) /\ ~r.allDown
               /\ r.contactDown = k.contactDown /\ r.pressed = k.pressed
<1> DEFINE r == DeactivateAll(k)
<1>1. CASE ~k.allDown
  BY <1>1 DEF DeactivateAll, Alike
<1>2. CASE k.allDown
  <2>1. r = [k EXCEPT !.allDown = FALSE, !.posted = Append(@, Group(FALSE))]
    BY <1>2 DEF DeactivateAll
  <2>2. k \in KeyStates
    BY DEF Base
  <2>3. r \in KeyStates /\ Chains(r)
    <3>1. k.allDown = ~FALSE
      BY <1>2, <2>2 DEF KeyStates
    <3>2. QED
      BY <2>1, <3>1, GroupPosted
  <2> HIDE DEF r
  <2>4. /\ Alike(r, k) /\ r.allDown = FALSE /\ r.contactDown = k.contactDown
        /\ r.pressed = k.pressed /\ r.indices = k.indices
    BY <2>1, <2>2 DEF KeyStates, Alike
  <2>5. Hooked(r)
    BY <2>4, AlikeHooked DEF Base
  <2>6. PressedTrue(r) /\ Quiet(r)
    BY <2>4 DEF Base, PressedTrue, Quiet, Ours, Alike
  <2>7. QED
    BY <2>3, <2>4, <2>5, <2>6 DEF Base, r
<1>3. QED
  BY <1>1, <1>2

LEMMA ActivateAllBase ==
    ASSUME NEW k, Base(k), ~k.dialog.open
    PROVE  LET r == ActivateAll(k)
           IN  /\ Base(r) /\ Alike(r, k) /\ r.allDown
               /\ r.contactDown = k.contactDown /\ r.pressed = k.pressed
<1> DEFINE r == ActivateAll(k)
<1>1. CASE k.allDown
  BY <1>1 DEF ActivateAll, Alike
<1>2. CASE ~k.allDown
  <2>1. r = [k EXCEPT !.allDown = TRUE, !.posted = Append(@, Group(TRUE))]
    BY <1>2 DEF ActivateAll
  <2>2. k \in KeyStates
    BY DEF Base
  <2>3. r \in KeyStates /\ Chains(r)
    <3>1. k.allDown = ~TRUE
      BY <1>2, <2>2 DEF KeyStates
    <3>2. QED
      BY <2>1, <3>1, GroupPosted
  <2> HIDE DEF r
  <2>4. /\ Alike(r, k) /\ r.allDown = TRUE /\ r.contactDown = k.contactDown
        /\ r.pressed = k.pressed /\ r.indices = k.indices
    BY <2>1, <2>2 DEF KeyStates, Alike
  <2>5. Hooked(r)
    BY <2>4, AlikeHooked DEF Base
  <2>6. PressedTrue(r) /\ Quiet(r)
    BY <2>4 DEF Base, PressedTrue, Quiet, Ours, Alike
  <2>7. QED
    BY <2>3, <2>4, <2>5, <2>6 DEF Base, r
<1>3. QED
  BY <1>1, <1>2

LEMMA DeactivateContactBase ==
    ASSUME NEW k, Base(k)
    PROVE  LET r == DeactivateContact(k)
           IN  Base(r) /\ Alike(r, k) /\ ~r.contactDown /\ r.allDown = k.allDown
<1> DEFINE r == DeactivateContact(k)
<1>1. CASE ~k.contactDown
  BY <1>1 DEF DeactivateContact, Alike
<1>2. CASE k.contactDown
  <2>1. r = [k EXCEPT !.contactDown = FALSE, !.pressed = NotSet, !.indices = <<>>,
                      !.posted = @ \o Private(k.indices, FALSE)]
    BY <1>2 DEF DeactivateContact
  <2>2. k \in KeyStates
    BY DEF Base
  <2>3. r \in KeyStates /\ Chains(r)
    <3>1. k.contactDown = ~FALSE /\ k.indices \in Seq(Listed) /\ IsInjective(k.indices)
      BY <1>2, <2>2 DEF KeyStates, Base, PressedTrue, Ours
    <3>2. NotSet \in HotkeySet /\ <<>> \in Seq(Listed) /\ FALSE \in BOOLEAN
      BY DEF HotkeySet
    <3>3. IF FALSE THEN k.indices = <<>> ELSE k.indices = k.indices
      OBVIOUS
    <3>4. LET q == [k EXCEPT !.contactDown = FALSE, !.pressed = NotSet, !.indices = <<>>,
                             !.posted = @ \o Private(k.indices, FALSE)]
          IN  q \in KeyStates /\ Chains(q)
      BY <3>1, <3>2, <3>3, ContactsPosted, Zenon
    <3>5. QED
      BY <2>1, <3>4
  <2> HIDE DEF r
  <2>4. Alike(r, k) /\ r.contactDown = FALSE /\ r.allDown = k.allDown
    BY <2>1, <2>2 DEF KeyStates, Alike
  <2>5. Hooked(r)
    BY <2>4, AlikeHooked DEF Base
  <2>6. PressedTrue(r) /\ Quiet(r)
    BY <2>4 DEF Base, PressedTrue, Quiet, Alike
  <2>7. QED
    BY <2>3, <2>4, <2>5, <2>6 DEF Base, r
<1>3. QED
  BY <1>1, <1>2

LEMMA ActivateContactBase ==
    ASSUME NEW k, Base(k), ~k.dialog.open, NEW pressed, NEW matching,
           matching # <<>> => Ours(k, pressed, matching)
    PROVE  LET r == ActivateContact(k, pressed, matching)
           IN  /\ Base(r) /\ Alike(r, k) /\ r.allDown = k.allDown
               /\ r = k \/ (~k.contactDown /\ r.pressed = pressed)
<1> DEFINE r == ActivateContact(k, pressed, matching)
<1>1. CASE k.contactDown \/ k.group \/ matching = <<>>
  BY <1>1 DEF ActivateContact, Alike
<1>2. CASE ~(k.contactDown \/ k.group \/ matching = <<>>)
  <2>1. r = [k EXCEPT !.contactDown = TRUE, !.pressed = pressed, !.indices = matching,
                      !.posted = @ \o Private(matching, TRUE)]
    BY <1>2 DEF ActivateContact
  <2>2. k \in KeyStates /\ Ours(k, pressed, matching)
    BY <1>2 DEF Base
  <2>3. r \in KeyStates /\ Chains(r)
    <3>1. k.contactDown = ~TRUE
      BY <1>2, <2>2 DEF KeyStates
    <3>2. pressed \in HotkeySet /\ matching \in Seq(Listed) /\ IsInjective(matching)
      BY <2>2 DEF Ours
    <3>3. TRUE \in BOOLEAN /\ IF TRUE THEN matching = matching ELSE matching = k.indices
      OBVIOUS
    <3>4. LET q == [k EXCEPT !.contactDown = TRUE, !.pressed = pressed, !.indices = matching,
                             !.posted = @ \o Private(matching, TRUE)]
          IN  q \in KeyStates /\ Chains(q)
      BY <3>1, <3>2, <3>3, ContactsPosted, Zenon
    <3>5. QED
      BY <2>1, <3>4
  <2> HIDE DEF r
  <2>4. /\ Alike(r, k) /\ r.contactDown = TRUE /\ r.allDown = k.allDown
        /\ r.pressed = pressed /\ r.indices = matching
    BY <2>1, <2>2 DEF KeyStates, Alike
  <2>5. Hooked(r)
    BY <2>4, AlikeHooked DEF Base
  <2>6. PressedTrue(r) /\ Quiet(r)
    BY <2>2, <2>4 DEF Base, PressedTrue, Quiet, Alike, Ours
  <2>7. QED
    BY <1>2, <2>3, <2>4, <2>5, <2>6 DEF Base, r
<1>3. QED
  BY <1>1, <1>2

LEMMA DeactivateBase ==
    ASSUME NEW k, Base(k)
    PROVE  LET r == Deactivate(k)
           IN  Base(r) /\ Alike(r, k) /\ ~r.contactDown /\ ~r.allDown
<1> DEFINE j == DeactivateAll(k)
<1>1. Base(j) /\ Alike(j, k) /\ ~j.allDown
  BY DeactivateAllBase
<1>2. Deactivate(k) = DeactivateContact(j)
  BY DEF Deactivate
<1> HIDE DEF j
<1>3. /\ Base(DeactivateContact(j)) /\ Alike(DeactivateContact(j), j)
      /\ ~DeactivateContact(j).contactDown /\ DeactivateContact(j).allDown = j.allDown
  BY <1>1, DeactivateContactBase
<1>4. QED
  BY <1>1, <1>2, <1>3 DEF Alike

\* Those whose hotkey was pressed
LEMMA MatchingIs ==
    ASSUME NEW k, NEW hotkeys
    PROVE  LET m == Matching(k, hotkeys)
           IN  /\ m \in Seq(Listed) /\ IsInjective(m)
               /\ \A n \in DOMAIN m : m[n] \in Listed /\ k.of[m[n]] \in hotkeys
<1> DEFINE s == {i \in Listed : k.of[i] \in hotkeys}
           m == Ascending(s)
<1>1. s \in SUBSET Listed
  OBVIOUS
<1>2. m \in Seq(s) /\ IsInjective(m) /\ \A n \in DOMAIN m : m[n] \in s
  BY <1>1, AscendingIs
<1>3. m \in Seq(Listed)
  <2> HIDE DEF m, s
  <2>1. QED
    BY <1>1, <1>2
<1>4. QED
  BY <1>2, <1>3 DEF Matching
-----------------------------------------------------------------------------
\* A hotkey is held down, and repeats only as itself: no modifier has come or gone since.
Holds(k, h) == Valid(h) /\ h.vk \in k.down /\ h.modifiers \subseteq k.down
Steady(k, h) == k.last = h.vk /\ h.vk \notin Buttons => Held(k) = h.modifiers

AllTrue(k) == k.allDown => Holds(k, k.all) /\ Steady(k, k.all)
ContactTrue(k) == k.contactDown => Holds(k, k.pressed) /\ Steady(k, k.pressed)

\* The group's hotkey and a contact's are not held by the same key.
Apart(k) == k.allDown /\ k.contactDown => k.all.vk # k.pressed.vk

KeysSound(k) == Base(k) /\ AllTrue(k) /\ ContactTrue(k) /\ Apart(k)

LEMMA HotkeyIs ==
    ASSUME NEW h \in HotkeySet, Valid(h)
    PROVE  /\ h.vk \in Keys \cup Buttons /\ h.vk \notin Modifiers
           /\ h.modifiers \in SUBSET Modifiers
           /\ h.vk \in Buttons => h.modifiers = {}
           /\ h = [modifiers |-> h.modifiers, vk |-> h.vk]
  BY HotkeysAssumption DEF HotkeySet, Recordable, Valid, NotSet

\* What is known of the group's hotkey and of a contact's while they are held
LEMMA HeldAre ==
    ASSUME NEW k, Base(k)
    PROVE  /\ k.allDown /\ Valid(k.all) =>
                  /\ ~k.dialog.open /\ k.all \in HotkeySet /\ k.all \in HotkeysOf(k)
           /\ k.contactDown /\ Valid(k.pressed) =>
                  /\ ~k.dialog.open /\ k.pressed \in HotkeySet /\ k.pressed \in HotkeysOf(k)
<1>1. k \in KeyStates /\ k.all \in HotkeySet /\ k.of \in [Listed -> HotkeySet]
  BY DEF Base, KeyStates
<1>2. ASSUME k.contactDown, Valid(k.pressed) PROVE k.pressed \in HotkeysOf(k)
  <2>1. /\ k.indices \in Seq(Listed) /\ k.indices # <<>>
        /\ \A n \in DOMAIN k.indices : k.of[k.indices[n]] = k.pressed
    BY <1>2 DEF Base, PressedTrue, Ours
  <2>2. 1 \in DOMAIN k.indices /\ k.indices[1] \in Listed
    BY <2>1
  <2>3. k.pressed \in ToSet(k.of)
    BY <1>1, <2>1, <2>2 DEF ToSet
  <2>4. QED
    BY <1>2, <2>3 DEF HotkeysOf
<1>3. QED
  BY <1>1, <1>2 DEF Base, Quiet, PressedTrue, Ours, HotkeysOf

\* A key or a button goes down, before anybody looks at it.
LEMMA DownSound ==
    ASSUME NEW q, KeysSound(q), NEW vk \in Inputs,
           vk \notin q.down \/ (vk = q.last /\ vk \notin Buttons)
    PROVE  LET k == [q EXCEPT !.down = @ \cup {vk}, !.last = vk]
           IN  /\ KeysSound(k) /\ vk \in k.down /\ k.last = vk
               /\ vk \in Buttons => /\ k.allDown => k.all.vk # vk
                                    /\ k.contactDown => k.pressed.vk # vk
<1> DEFINE k == [q EXCEPT !.down = @ \cup {vk}, !.last = vk]
<1>1. q \in KeyStates /\ Base(q) /\ AllTrue(q) /\ ContactTrue(q) /\ Apart(q)
  BY DEF KeysSound, Base
<1>2. /\ k \in KeyStates /\ k.down = q.down \cup {vk} /\ k.last = vk
      /\ k.all = q.all /\ k.of = q.of /\ k.hooks = q.hooks /\ k.dialog = q.dialog
      /\ k.allDown = q.allDown /\ k.contactDown = q.contactDown /\ k.pressed = q.pressed
      /\ k.indices = q.indices /\ k.posted = q.posted /\ k.group = q.group /\ k.refs = q.refs
  BY <1>1 DEF KeyStates, Inputs
<1> HIDE DEF k
<1>3. Base(k)
  <2>1. Chains(k)
    BY <1>1, <1>2 DEF Base, Chains, Heard, Believed
  <2>2. PressedTrue(k) /\ Quiet(k)
    BY <1>1, <1>2 DEF Base, PressedTrue, Quiet, Ours
  <2>3. Hooked(k)
    BY <1>1, <1>2 DEF Base, Hooked, HooksOf, NeedsKeyboard, NeedsMouse, HotkeysOf
  <2>4. QED
    BY <1>2, <2>1, <2>2, <2>3 DEF Base
<1>4. ASSUME NEW h \in HotkeySet, Holds(q, h), Steady(q, h)
      PROVE  Holds(k, h) /\ Steady(k, h) /\ (vk \in Buttons => h.vk # vk)
  <2>1. Holds(k, h) /\ (vk \in Buttons => h.vk # vk)
    BY <1>2, <1>4 DEF Holds
  <2>2. ASSUME vk = h.vk, h.vk \notin Buttons PROVE Held(k) = h.modifiers
    <3>1. q.last = h.vk
      BY <1>4, <2>2 DEF Holds
    <3>2. Held(q) = h.modifiers
      BY <1>4, <2>2, <3>1 DEF Steady
    <3>3. vk \notin Modifiers
      BY <1>4, <2>2, HotkeyIs DEF Holds
    <3>4. QED
      BY <1>2, <3>2, <3>3 DEF Held
  <2>3. QED
    BY <1>2, <2>1, <2>2 DEF Steady
<1>5. AllTrue(k) /\ ContactTrue(k) /\ (vk \in Buttons => /\ k.allDown => k.all.vk # vk
                                                         /\ k.contactDown => k.pressed.vk # vk)
  <2>1. q.all \in HotkeySet /\ q.pressed \in HotkeySet
    BY <1>1 DEF KeyStates
  <2>2. QED
    BY <1>1, <1>2, <1>4, <2>1 DEF AllTrue, ContactTrue
<1>6. Apart(k)
  BY <1>1, <1>2 DEF Apart
<1>7. QED
  BY <1>2, <1>3, <1>5, <1>6 DEF KeysSound, k

LEMMA MouseDownSound ==
    ASSUME NEW k, KeysSound(k), NEW vk \in Buttons, vk \in k.down, ~k.dialog.open,
           k.allDown => k.all.vk # vk, k.contactDown => k.pressed.vk # vk
    PROVE  KeysSound(MouseButtonDown(k, vk))
<1>1. k \in KeyStates /\ Base(k) /\ AllTrue(k) /\ ContactTrue(k) /\ Apart(k)
  BY DEF KeysSound, Base
<1>2. k.all \in HotkeySet /\ k.of \in [Listed -> HotkeySet]
  BY <1>1 DEF KeyStates
<1>3. CASE k.all.vk = vk
  <2> DEFINE r == ActivateAll(k)
  <2>1. /\ Base(r) /\ Alike(r, k) /\ r.allDown
        /\ r.contactDown = k.contactDown /\ r.pressed = k.pressed
    BY <1>1, ActivateAllBase
  <2>2. MouseButtonDown(k, vk) = r
    BY <1>3 DEF MouseButtonDown
  <2> HIDE DEF r
  <2>3. Valid(k.all)
    BY <1>3, HotkeysAssumption DEF Valid
  <2>4. k.all.modifiers = {}
    BY <1>2, <1>3, <2>3, HotkeyIs
  <2>5. AllTrue(r)
    BY <1>3, <2>1, <2>3, <2>4 DEF AllTrue, Holds, Steady, Alike
  <2>6. ContactTrue(r)
    BY <1>1, <2>1 DEF ContactTrue, Holds, Steady, Held, Alike
  <2>7. Apart(r)
    BY <1>3, <2>1 DEF Apart, Alike
  <2>8. QED
    BY <2>1, <2>2, <2>5, <2>6, <2>7 DEF KeysSound
<1>4. CASE k.all.vk # vk
  <2> DEFINE pressed == [modifiers |-> {}, vk |-> vk]
             m == Matching(k, [modifiers : SUBSET Modifiers, vk : {vk}])
             r == ActivateContact(k, pressed, m)
  <2>1. /\ m \in Seq(Listed) /\ IsInjective(m)
        /\ \A n \in DOMAIN m : m[n] \in Listed /\ k.of[m[n]] \in [modifiers : SUBSET Modifiers, vk : {vk}]
    BY MatchingIs
  <2>2. MouseButtonDown(k, vk) = r
    BY <1>4 DEF MouseButtonDown
  <2> HIDE DEF m
  <2>3. pressed \in HotkeySet /\ Valid(pressed) /\ pressed.vk = vk /\ pressed.modifiers = {}
    BY HotkeysAssumption DEF HotkeySet, Recordable, Valid
  <2>4. ASSUME NEW n \in DOMAIN m PROVE k.of[m[n]] = pressed
    <3> DEFINE h == k.of[m[n]]
    <3>1. h \in HotkeySet /\ h.vk = vk
      BY <1>2, <2>1
    <3>2. Valid(h)
      BY <3>1, HotkeysAssumption DEF Valid
    <3> HIDE DEF h
    <3>3. h.modifiers = {} /\ h = [modifiers |-> h.modifiers, vk |-> h.vk]
      BY <3>1, <3>2, HotkeyIs
    <3>4. QED
      BY <3>1, <3>3 DEF h
  <2>5. m # <<>> => Ours(k, pressed, m)
    BY <1>4, <2>1, <2>3, <2>4 DEF Ours
  <2>6. /\ Base(r) /\ Alike(r, k) /\ r.allDown = k.allDown
        /\ r = k \/ (~k.contactDown /\ r.pressed = pressed)
    BY <1>1, <2>5, ActivateContactBase
  <2> HIDE DEF r, pressed
  <2>7. CASE r = k
    BY <2>2, <2>7
  <2>8. CASE r.pressed = pressed
    <3>1. AllTrue(r)
      BY <1>1, <2>6 DEF AllTrue, Holds, Steady, Held, Alike
    <3>2. ContactTrue(r)
      BY <2>3, <2>6, <2>8 DEF ContactTrue, Holds, Steady, Alike
    <3>3. Apart(r)
      BY <1>4, <2>3, <2>6, <2>8 DEF Apart, Alike
    <3>4. QED
      BY <2>2, <2>6, <3>1, <3>2, <3>3 DEF KeysSound
  <2>9. QED
    BY <2>6, <2>7, <2>8
<1>5. QED
  BY <1>3, <1>4

LEMMA KeyDownSound ==
    ASSUME NEW k, KeysSound(k), NEW vk \in Inputs \ Buttons, vk \in k.down, k.last = vk,
           ~k.dialog.open
    PROVE  KeysSound(KeyboardDown(k, vk))
<1> DEFINE pressed == [modifiers |-> Held(k), vk |-> vk]
<1>1. k \in KeyStates /\ Base(k) /\ AllTrue(k) /\ ContactTrue(k) /\ Apart(k)
  BY DEF KeysSound, Base
<1>2. k.all \in HotkeySet /\ k.of \in [Listed -> HotkeySet] /\ k.down \in SUBSET Inputs
      /\ k.pressed \in HotkeySet
  BY <1>1 DEF KeyStates
<1>3. CASE vk \in Modifiers
  BY <1>3 DEF KeyboardDown
<1>4. CASE vk \notin Modifiers
  <2>1. vk \in Keys /\ vk \notin Buttons /\ Held(k) \in SUBSET Modifiers
    BY <1>4 DEF Inputs, Held
  <2>2. /\ pressed \in HotkeySet /\ Valid(pressed)
        /\ pressed.vk = vk /\ pressed.modifiers = Held(k) /\ Held(k) \subseteq k.down
    BY <2>1, HotkeysAssumption DEF HotkeySet, Recordable, Valid, Held
  \* Whatever is held by the key that repeats is held as it was pressed.
  <2>3. ASSUME NEW h \in HotkeySet, Holds(k, h), Steady(k, h), h.vk = vk PROVE h = pressed
    <3>1. Held(k) = h.modifiers
      BY <2>1, <2>3 DEF Steady
    <3>2. h = [modifiers |-> h.modifiers, vk |-> h.vk]
      BY <2>3, HotkeyIs DEF Holds
    <3>3. QED
      BY <2>3, <3>1, <3>2
  <2>4. CASE k.all = pressed
    <3> DEFINE r == ActivateAll(k)
    <3>1. /\ Base(r) /\ Alike(r, k) /\ r.allDown
          /\ r.contactDown = k.contactDown /\ r.pressed = k.pressed
      BY <1>1, ActivateAllBase
    <3>2. KeyboardDown(k, vk) = r
      BY <1>4, <2>4 DEF KeyboardDown
    <3> HIDE DEF r, pressed
    <3>3. AllTrue(r)
      BY <2>2, <2>4, <3>1 DEF AllTrue, Holds, Steady, Held, Alike
    <3>4. ContactTrue(r)
      BY <1>1, <3>1 DEF ContactTrue, Holds, Steady, Held, Alike
    <3>5. ASSUME k.contactDown PROVE k.pressed.vk # vk
      <4>1. k.pressed # k.all
        BY <1>1, <3>5 DEF Base, PressedTrue, Ours
      <4>2. Holds(k, k.pressed) /\ Steady(k, k.pressed)
        BY <1>1, <3>5 DEF ContactTrue
      <4>3. QED
        BY <1>2, <2>3, <2>4, <4>1, <4>2
    <3>6. Apart(r)
      BY <2>2, <2>4, <3>1, <3>5 DEF Apart, Alike
    <3>7. QED
      BY <3>1, <3>2, <3>3, <3>4, <3>6 DEF KeysSound
  <2>5. CASE k.all # pressed
    <3> DEFINE m == Matching(k, {pressed})
               r == ActivateContact(k, pressed, m)
    <3>1. /\ m \in Seq(Listed) /\ IsInjective(m)
          /\ \A n \in DOMAIN m : m[n] \in Listed /\ k.of[m[n]] \in {pressed}
      BY MatchingIs
    <3>2. KeyboardDown(k, vk) = r
      BY <1>4, <2>5 DEF KeyboardDown
    <3> HIDE DEF m
    <3>3. m # <<>> => Ours(k, pressed, m)
      BY <2>1, <2>2, <2>5, <3>1 DEF Ours
    <3>4. /\ Base(r) /\ Alike(r, k) /\ r.allDown = k.allDown
          /\ r = k \/ (~k.contactDown /\ r.pressed = pressed)
      BY <1>1, <3>3, ActivateContactBase
    <3> HIDE DEF r, pressed
    <3>5. CASE r = k
      BY <3>2, <3>5
    <3>6. CASE r.pressed = pressed
      <4>1. AllTrue(r)
        BY <1>1, <3>4 DEF AllTrue, Holds, Steady, Held, Alike
      <4>2. ContactTrue(r)
        BY <2>2, <3>4, <3>6 DEF ContactTrue, Holds, Steady, Held, Alike
      <4>3. k.allDown => k.all.vk # vk
        BY <1>1, <1>2, <2>3, <2>5 DEF AllTrue
      <4>4. Apart(r)
        BY <2>2, <3>4, <3>6, <4>3 DEF Apart, Alike
      <4>5. QED
        BY <3>2, <3>4, <4>1, <4>2, <4>4 DEF KeysSound
    <3>7. QED
      BY <3>4, <3>5, <3>6
  <2>6. QED
    BY <2>4, <2>5
<1>5. QED
  BY <1>3, <1>4
-----------------------------------------------------------------------------
\* What is set in the dialog changes nothing that is held, as nothing is.
LEMMA DialogSound ==
    ASSUME NEW k, KeysSound(k), k.dialog.open,
           NEW d \in KeyDialogs, d.open, d.of \in [Listed -> HotkeySet]
    PROVE  KeysSound([k EXCEPT !.dialog = d])
<1> DEFINE r == [k EXCEPT !.dialog = d]
<1>1. k \in KeyStates /\ Base(k) /\ ~k.allDown /\ ~k.contactDown
  BY DEF KeysSound, Base, Quiet
<1>2. /\ r \in KeyStates /\ r.dialog = d
      /\ r.down = k.down /\ r.last = k.last /\ r.all = k.all /\ r.of = k.of /\ r.hooks = k.hooks
      /\ r.allDown = k.allDown /\ r.contactDown = k.contactDown /\ r.pressed = k.pressed
      /\ r.indices = k.indices /\ r.posted = k.posted /\ r.group = k.group /\ r.refs = k.refs
  BY <1>1 DEF KeyStates
<1> HIDE DEF r
<1>3. Chains(r)
  BY <1>1, <1>2 DEF Base, Chains, Heard, Believed
<1>4. Base(r)
  BY <1>1, <1>2, <1>3 DEF Base, PressedTrue, Quiet, Hooked
<1>5. QED
  BY <1>1, <1>2, <1>4 DEF KeysSound, AllTrue, ContactTrue, Apart, r

LEMMA RecordSound ==
    ASSUME NEW k, KeysSound(k), k.dialog.open, k.dialog.recording # None,
           NEW hotkey \in HotkeySet, NEW mouse \in Buttons \cup {"none"}
    PROVE  KeysSound(Record(k, hotkey, mouse))
<1> DEFINE d == k.dialog
           set == IF d.recording = All THEN [d EXCEPT !.all = hotkey]
                  ELSE [d EXCEPT !.of[d.recording] = hotkey]
           e == [set EXCEPT !.mouse = mouse, !.recording = IF mouse = "none" THEN None ELSE @]
<1>1. d \in KeyDialogs /\ d.open /\ d.of \in [Listed -> HotkeySet]
      /\ d.recording \in {All} \cup Listed
  BY DEF KeysSound, Base, Quiet, KeyStates, KeyDialogs
<1>2. set \in KeyDialogs /\ set.open /\ set.of \in [Listed -> HotkeySet]
  <2>1. CASE d.recording = All
    BY <1>1, <2>1 DEF KeyDialogs
  <2>2. CASE d.recording # All
    <3> DEFINE of == [d.of EXCEPT ![d.recording] = hotkey]
    <3>1. of \in [Listed -> HotkeySet] /\ set = [d EXCEPT !.of = of]
      BY <1>1, <2>2 DEF KeyDialogs
    <3> HIDE DEF of, set, d
    <3>2. QED
      BY <1>1, <3>1 DEF KeyDialogs
  <2>3. QED
    BY <2>1, <2>2
<1>3. Record(k, hotkey, mouse) = [k EXCEPT !.dialog = e]
  BY DEF Record
<1> HIDE DEF set
<1>4. e \in KeyDialogs /\ e.open /\ e.of \in [Listed -> HotkeySet]
  BY <1>2 DEF KeyDialogs
<1> HIDE DEF e
<1>5. QED
  BY <1>3, <1>4, DialogSound

LEMMA DialogDownSound ==
    ASSUME NEW k, KeysSound(k), k.dialog.open, NEW vk \in Inputs
    PROVE  KeysSound(DialogDown(k, vk))
<1>1. CASE k.dialog.recording = None \/ vk \in Modifiers
  BY <1>1 DEF DialogDown
<1>2. CASE k.dialog.recording # None /\ vk \in Buttons /\ vk \notin Modifiers
  <2>1. [modifiers |-> {}, vk |-> vk] \in HotkeySet
    BY <1>2 DEF HotkeySet, Recordable
  <2>2. DialogDown(k, vk) = Record(k, [modifiers |-> {}, vk |-> vk], vk)
    BY <1>2 DEF DialogDown
  <2>3. QED
    BY <1>2, <2>1, <2>2, RecordSound
<1>3. CASE k.dialog.recording # None /\ vk \notin Buttons /\ vk \notin Modifiers
  <2>1. [modifiers |-> Held(k), vk |-> vk] \in HotkeySet
    BY <1>3 DEF HotkeySet, Recordable, Inputs, Held
  <2>2. DialogDown(k, vk) = Record(k, [modifiers |-> Held(k), vk |-> vk], "none")
    BY <1>3 DEF DialogDown
  <2>3. QED
    BY <1>3, <2>1, <2>2, RecordSound
<1>4. QED
  BY <1>1, <1>2, <1>3

\* A recording ends.
LEMMA DialogEndSound ==
    ASSUME NEW k, KeysSound(k), k.dialog.open, NEW which \in {None, All} \cup Listed
    PROVE  KeysSound([k EXCEPT !.dialog.recording = which, !.dialog.mouse = "none"])
<1> DEFINE d == [k.dialog EXCEPT !.recording = which, !.mouse = "none"]
<1>1. k.dialog \in KeyDialogs /\ k.dialog.of \in [Listed -> HotkeySet] /\ k \in KeyStates
  BY DEF KeysSound, Base, Quiet, KeyStates
<1>2. d \in KeyDialogs /\ d.open /\ d.of \in [Listed -> HotkeySet]
  BY <1>1 DEF KeyDialogs
<1>3. [k EXCEPT !.dialog.recording = which, !.dialog.mouse = "none"] = [k EXCEPT !.dialog = d]
  BY <1>1 DEF KeyStates
<1> HIDE DEF d
<1>4. QED
  BY <1>2, <1>3, DialogSound

LEMMA PressSound ==
    ASSUME KeysSound(keys), NEW vk \in Inputs, Press(vk)
    PROVE  KeysSound(keys')
<1> DEFINE k == [keys EXCEPT !.down = @ \cup {vk}, !.last = vk]
<1>1. /\ KeysSound(k) /\ vk \in k.down /\ k.last = vk
      /\ vk \in Buttons => /\ k.allDown => k.all.vk # vk
                           /\ k.contactDown => k.pressed.vk # vk
  <2>1. vk \notin keys.down \/ (vk = keys.last /\ vk \notin Buttons)
    BY DEF Press
  <2>2. QED
    BY <2>1, DownSound
<1>2. keys' = IF k.dialog.open THEN DialogDown(k, vk)
              ELSE IF vk \in Buttons
                   THEN IF "mouse" \in k.hooks THEN MouseButtonDown(k, vk) ELSE k
              ELSE IF "keyboard" \in k.hooks THEN KeyboardDown(k, vk) ELSE k
  BY DEF Press
<1> HIDE DEF k
<1>3. CASE k.dialog.open
  BY <1>1, <1>2, <1>3, DialogDownSound
<1>4. CASE ~k.dialog.open /\ vk \in Buttons /\ "mouse" \in k.hooks
  BY <1>1, <1>2, <1>4, MouseDownSound
<1>5. CASE ~k.dialog.open /\ vk \notin Buttons /\ "keyboard" \in k.hooks
  BY <1>1, <1>2, <1>5, KeyDownSound
<1>6. QED
  BY <1>1, <1>2, <1>3, <1>4, <1>5
-----------------------------------------------------------------------------
\* A key or a button goes up, before anybody looks at it.
Released(q, vk) == [q EXCEPT !.down = @ \ {vk}, !.last = IF @ = vk THEN "none" ELSE @]

LEMMA ReleasedBase ==
    ASSUME NEW q, Base(q), NEW vk \in Inputs
    PROVE  LET k == Released(q, vk)
           IN  /\ Base(k) /\ k.down = q.down \ {vk}
               /\ k.last = IF q.last = vk THEN "none" ELSE q.last
               /\ k.all = q.all /\ k.of = q.of /\ k.hooks = q.hooks /\ k.dialog = q.dialog
               /\ k.allDown = q.allDown /\ k.contactDown = q.contactDown
               /\ k.pressed = q.pressed
<1> DEFINE k == Released(q, vk)
<1>1. q \in KeyStates
  BY DEF Base
<1>2. /\ k \in KeyStates /\ k.down = q.down \ {vk}
      /\ k.last = (IF q.last = vk THEN "none" ELSE q.last)
      /\ k.all = q.all /\ k.of = q.of /\ k.hooks = q.hooks /\ k.dialog = q.dialog
      /\ k.allDown = q.allDown /\ k.contactDown = q.contactDown /\ k.pressed = q.pressed
      /\ k.indices = q.indices /\ k.posted = q.posted /\ k.group = q.group /\ k.refs = q.refs
  BY <1>1 DEF KeyStates, Inputs, Released
<1> HIDE DEF k
<1>3. Chains(k)
  BY <1>1, <1>2 DEF Base, Chains, Heard, Believed
<1>4. PressedTrue(k) /\ Quiet(k)
  BY <1>1, <1>2 DEF Base, PressedTrue, Quiet, Ours
<1>5. Hooked(k)
  BY <1>1, <1>2 DEF Base, Hooked, HooksOf, NeedsKeyboard, NeedsMouse, HotkeysOf
<1>6. QED
  BY <1>2, <1>3, <1>4, <1>5 DEF Base, k

\* What the release does not belong to is held as before.
LEMMA ReleasedFar ==
    ASSUME NEW q, KeysSound(q), NEW vk \in Inputs, NEW r, Base(r), Alike(r, Released(q, vk)),
           r.allDown => q.allDown /\ vk # q.all.vk /\ vk \notin q.all.modifiers,
           r.contactDown => /\ q.contactDown /\ r.pressed = q.pressed
                            /\ vk # q.pressed.vk /\ vk \notin q.pressed.modifiers
    PROVE  KeysSound(r)
<1>1. Base(q) /\ AllTrue(q) /\ ContactTrue(q) /\ Apart(q)
  BY DEF KeysSound
<1>2. /\ r.down = q.down \ {vk} /\ r.all = q.all
      /\ r.last = (IF q.last = vk THEN "none" ELSE q.last)
  BY <1>1, ReleasedBase DEF Alike
<1>3. ASSUME NEW h, Holds(q, h), Steady(q, h), vk # h.vk, vk \notin h.modifiers
      PROVE  Holds(r, h) /\ Steady(r, h)
  <2>1. Holds(r, h)
    BY <1>2, <1>3 DEF Holds
  <2>2. ASSUME r.last = h.vk, h.vk \notin Buttons PROVE Held(r) = h.modifiers
    <3>1. q.last = h.vk
      BY <1>2, <1>3, <2>2 DEF Holds, Valid
    <3>2. Held(q) = h.modifiers
      BY <1>3, <2>2, <3>1 DEF Steady
    <3>3. QED
      BY <1>2, <1>3, <3>2 DEF Held
  <2>3. QED
    BY <2>1, <2>2 DEF Steady
<1>4. AllTrue(r)
  BY <1>1, <1>2, <1>3 DEF AllTrue
<1>5. ContactTrue(r)
  BY <1>1, <1>2, <1>3 DEF ContactTrue
<1>6. Apart(r)
  BY <1>1, <1>2 DEF Apart
<1>7. QED
  BY <1>4, <1>5, <1>6 DEF KeysSound

LEMMA ReleaseSound ==
    ASSUME KeysSound(keys), NEW vk \in Inputs, Release(vk)
    PROVE  KeysSound(keys')
<1> DEFINE k == Released(keys, vk)
<1>1. /\ Base(k) /\ k.all = keys.all /\ k.hooks = keys.hooks /\ k.dialog = keys.dialog
      /\ k.allDown = keys.allDown /\ k.contactDown = keys.contactDown
      /\ k.pressed = keys.pressed
  BY ReleasedBase DEF KeysSound
<1>2. Alike(k, k)
  BY DEF Alike
<1>3. keys' = IF k.dialog.open THEN DialogUp(k, vk)
              ELSE IF vk \in Buttons
                   THEN IF "mouse" \in k.hooks THEN MouseButtonUp(k, vk) ELSE k
              ELSE IF "keyboard" \in k.hooks THEN KeyboardUp(k, vk) ELSE k
  BY DEF Release, Released
\* What is held, is held by a hotkey.
<1>4. keys.allDown => /\ Valid(keys.all) /\ keys.all \in HotkeySet
                      /\ ~k.dialog.open /\ k.all \in HotkeysOf(k)
  BY <1>1, HeldAre DEF KeysSound, AllTrue, Holds
<1>5. keys.contactDown => /\ Valid(keys.pressed) /\ keys.pressed \in HotkeySet
                          /\ ~k.dialog.open /\ k.pressed \in HotkeysOf(k)
  BY <1>1, HeldAre DEF KeysSound, ContactTrue, Holds
<1>6. /\ keys.allDown => /\ keys.all.vk \in Keys \cup Buttons
                         /\ keys.all.vk \notin Modifiers
                         /\ keys.all.modifiers \in SUBSET Modifiers
                         /\ keys.all.vk \in Buttons => keys.all.modifiers = {}
      /\ keys.contactDown => /\ keys.pressed.vk \in Keys \cup Buttons
                             /\ keys.pressed.vk \notin Modifiers
                             /\ keys.pressed.modifiers \in SUBSET Modifiers
                             /\ keys.pressed.vk \in Buttons => keys.pressed.modifiers = {}
  BY <1>4, <1>5, HotkeyIs
<1>7. keys.allDown /\ keys.contactDown => keys.all.vk # keys.pressed.vk
  BY DEF KeysSound, Apart
<1> DEFINE j == DeactivateAll(k)
           e == DeactivateContact(k)
<1>8. /\ Base(j) /\ Alike(j, k) /\ ~j.allDown
      /\ j.contactDown = keys.contactDown /\ j.pressed = keys.pressed
  BY <1>1, DeactivateAllBase
<1>9. Base(e) /\ Alike(e, k) /\ ~e.contactDown /\ e.allDown = keys.allDown
  BY <1>1, DeactivateContactBase
<1>10. CASE k.dialog.open
  <2>1. KeysSound(k)
    BY <1>1, <1>2, <1>4, <1>5, <1>10, ReleasedFar
  <2> HIDE DEF k
  <2>2. CASE keys' = k
    BY <2>1, <2>2
  <2>3. CASE keys' = [k EXCEPT !.dialog.recording = None, !.dialog.mouse = "none"]
    BY <1>10, <2>1, <2>3, DialogEndSound
  <2>4. QED
    BY <1>3, <1>10, <2>2, <2>3 DEF DialogUp
<1>11. CASE ~k.dialog.open /\ vk \in Buttons /\ "mouse" \in k.hooks
  <2>1. keys' = MouseButtonUp(k, vk)
    BY <1>3, <1>11
  <2>2. vk \notin Modifiers
    BY <1>11, HotkeysAssumption
  <2>3. CASE keys.allDown /\ vk = keys.all.vk
    <3>1. keys' = j
      BY <1>1, <2>1, <2>3 DEF MouseButtonUp
    <3> HIDE DEF j, k
    <3>2. QED
      BY <1>6, <1>7, <1>8, <2>2, <2>3, <3>1, ReleasedFar DEF k
  <2>4. CASE ~(keys.allDown /\ vk = keys.all.vk) /\ vk = keys.pressed.vk
    <3>1. keys' = e
      BY <1>1, <2>1, <2>4 DEF MouseButtonUp
    <3> HIDE DEF e, k
    <3>2. QED
      BY <1>6, <1>9, <2>2, <2>4, <3>1, ReleasedFar DEF k
  <2>5. CASE ~(keys.allDown /\ vk = keys.all.vk) /\ vk # keys.pressed.vk
    <3>1. keys' = k
      BY <1>1, <2>1, <2>5 DEF MouseButtonUp
    <3> HIDE DEF k
    <3>2. QED
      BY <1>1, <1>2, <1>6, <2>2, <2>5, <3>1, ReleasedFar DEF k
  <2>6. QED
    BY <2>3, <2>4, <2>5
<1>12. CASE ~k.dialog.open /\ vk \in Buttons /\ "mouse" \notin k.hooks
  <2>1. keys' = k
    BY <1>3, <1>12
  <2>2. vk \notin Modifiers
    BY <1>12, HotkeysAssumption
  <2>3. \A h \in HotkeysOf(k) : h.vk # vk
    BY <1>1, <1>12 DEF Base, Hooked, HooksOf, NeedsMouse
  <2> HIDE DEF k
  <2>4. QED
    BY <1>1, <1>2, <1>4, <1>5, <1>6, <2>1, <2>2, <2>3, ReleasedFar DEF k
<1>13. CASE ~k.dialog.open /\ vk \notin Buttons /\ "keyboard" \notin k.hooks
  <2>1. keys' = k
    BY <1>3, <1>13
  <2>2. \A h \in HotkeysOf(k) : h.vk \in Buttons
    BY <1>1, <1>13 DEF Base, Hooked, HooksOf, NeedsKeyboard
  <2> HIDE DEF k
  <2>3. QED
    BY <1>1, <1>2, <1>4, <1>5, <1>6, <1>13, <2>1, <2>2, ReleasedFar DEF k
<1>14. CASE ~k.dialog.open /\ vk \notin Buttons /\ "keyboard" \in k.hooks
  <2> DEFINE i == IF k.allDown /\ (vk = k.all.vk \/ vk \in k.all.modifiers) THEN j ELSE k
             f == DeactivateContact(i)
  <2>1. keys' = KeyboardUp(k, vk)
    BY <1>3, <1>14
  <2>2. /\ Base(i) /\ Alike(i, k) /\ i.pressed = keys.pressed
        /\ i.contactDown = keys.contactDown
        /\ i.allDown => keys.allDown /\ vk # keys.all.vk /\ vk \notin keys.all.modifiers
    BY <1>1, <1>2, <1>8
  <2>3. CASE keys.allDown /\ vk = keys.all.vk
    <3>1. keys' = j
      BY <1>1, <2>1, <2>3 DEF KeyboardUp
    <3> HIDE DEF j, k, i
    <3>2. QED
      BY <1>6, <1>7, <1>8, <2>3, <3>1, ReleasedFar DEF k
  <2>4. CASE ~(keys.allDown /\ vk = keys.all.vk)
             /\ (vk = keys.pressed.vk \/ vk \in keys.pressed.modifiers)
    <3>1. keys' = f
      BY <1>1, <2>1, <2>2, <2>4 DEF KeyboardUp
    <3> HIDE DEF i, k
    <3>2. Base(f) /\ Alike(f, i) /\ ~f.contactDown /\ f.allDown = i.allDown
      BY <2>2, DeactivateContactBase
    <3>3. Alike(f, k)
      BY <2>2, <3>2 DEF Alike
    <3> HIDE DEF f
    <3>4. QED
      BY <2>2, <3>1, <3>2, <3>3, ReleasedFar DEF k
  <2>5. CASE ~(keys.allDown /\ vk = keys.all.vk)
             /\ ~(vk = keys.pressed.vk \/ vk \in keys.pressed.modifiers)
    <3>1. keys' = i
      BY <1>1, <2>1, <2>2, <2>5 DEF KeyboardUp
    <3> HIDE DEF i, k
    <3>2. QED
      BY <2>2, <2>5, <3>1, ReleasedFar DEF k
  <2>6. QED
    BY <2>3, <2>4, <2>5
<1>15. QED
  BY <1>10, <1>11, <1>12, <1>13, <1>14
-----------------------------------------------------------------------------
LEMMA TakeHotkeySound ==
    ASSUME KeysSound(keys), TakeHotkey
    PROVE  KeysSound(keys')
<1> DEFINE s == keys.posted
           m == Head(s)
           r == keys'
<1>1. /\ keys \in KeyStates /\ Base(keys) /\ AllTrue(keys) /\ ContactTrue(keys) /\ Apart(keys)
      /\ s \in Seq(Notes) /\ s # <<>>
  BY DEF KeysSound, Base, KeyStates, TakeHotkey
<1>2. m \in Notes /\ Tail(s) \in Seq(Notes) /\ 1 \in DOMAIN s /\ s[1] = m
  BY <1>1, HeadTailProperties
<1>3. m.of \in Listed \cup {All} /\ m.on \in BOOLEAN
  BY <1>2 DEF Notes
<1>4. keys.group \in BOOLEAN /\ keys.refs \in [Listed -> {0, 1}]
  BY <1>1 DEF KeyStates
\* Whoever is talked to is not begun with again.
<1>5. ASSUME m.of \in Listed, m.on PROVE keys.refs[m.of] = 0
  <2> DEFINE at == {j \in DOMAIN s : s[j].of = m.of}
  <2>1. 1 \in at /\ \A l \in at : 1 <= l
    BY <1>1, <1>2
  <2>2. Chain(s, m.of, Heard(keys, m.of), Believed(keys, m.of))
    BY <1>1, <1>5 DEF Base, Chains
  <2>3. ~Heard(keys, m.of)
    BY <1>2, <1>5, <2>1, <2>2 DEF Chain
  <2>4. QED
    BY <1>4, <1>5, <2>3, ListedIs DEF Heard
<1> DEFINE group == IF m.of = All THEN m.on ELSE keys.group
           refs == IF m.of = All \/ (m.on /\ keys.group) THEN keys.refs
                   ELSE [keys.refs EXCEPT ![m.of] = IF m.on THEN 1 ELSE 0]
<1>6. group \in BOOLEAN /\ refs \in [Listed -> {0, 1}]
  BY <1>3, <1>4
<1>7. r = [keys EXCEPT !.posted = Tail(s), !.group = group, !.refs = refs]
  <2> DEFINE k == [keys EXCEPT !.posted = Tail(s)]
  <2>1. r = IF m.of = All THEN [k EXCEPT !.group = m.on]
            ELSE IF m.on THEN IF k.group THEN k ELSE [k EXCEPT !.refs[m.of] = @ + 1]
            ELSE IF k.refs[m.of] = 0 THEN k ELSE [k EXCEPT !.refs[m.of] = @ - 1]
    BY DEF TakeHotkey
  <2>2. k.group = keys.group /\ k.refs = keys.refs
    BY <1>1 DEF KeyStates
  <2>3. CASE m.of = All
    <3>1. r = [k EXCEPT !.group = m.on] /\ group = m.on /\ refs = keys.refs
      BY <2>1, <2>3
    <3> HIDE DEF group, refs, r, m, s
    <3>2. QED
      BY <1>1, <3>1 DEF KeyStates
  <2>4. CASE m.of # All /\ refs = keys.refs /\ r = k
    <3>1. group = keys.group
      BY <2>4
    <3> HIDE DEF group, refs, r, m, s
    <3>2. QED
      BY <1>1, <2>4, <3>1 DEF KeyStates
  <2>5. CASE m.of # All /\ r = [k EXCEPT !.refs = refs]
    <3>1. group = keys.group
      BY <2>5
    <3> HIDE DEF group, refs, r, m, s
    <3>2. QED
      BY <1>1, <2>5, <3>1 DEF KeyStates
  <2>6. ASSUME m.of # All PROVE (refs = keys.refs /\ r = k) \/ r = [k EXCEPT !.refs = refs]
    <3>1. m.of \in Listed /\ keys.refs[m.of] \in {0, 1}
      BY <1>3, <1>4, <2>6
    <3>2. CASE m.on /\ keys.group
      BY <2>1, <2>2, <2>6, <3>2
    <3>3. CASE m.on /\ ~keys.group
      <4>1. [k.refs EXCEPT ![m.of] = @ + 1] = refs
        BY <1>4, <1>5, <2>2, <2>6, <3>1, <3>3
      <4>2. r = [k EXCEPT !.refs[m.of] = @ + 1]
        BY <2>1, <2>2, <2>6, <3>3
      <4> HIDE DEF refs, m, s, r
      <4>3. QED
        BY <4>1, <4>2
    <3>4. CASE ~m.on /\ keys.refs[m.of] = 0
      <4>1. refs = keys.refs
        BY <1>4, <2>6, <3>1, <3>4
      <4>2. QED
        BY <2>1, <2>2, <2>6, <3>4, <4>1
    <3>5. CASE ~m.on /\ keys.refs[m.of] = 1
      <4>1. [k.refs EXCEPT ![m.of] = @ - 1] = refs
        BY <1>4, <2>2, <2>6, <3>1, <3>5
      <4>2. r = [k EXCEPT !.refs[m.of] = @ - 1]
        BY <2>1, <2>2, <2>6, <3>5
      <4> HIDE DEF refs, m, s, r
      <4>3. QED
        BY <4>1, <4>2
    <3>6. QED
      BY <1>3, <3>1, <3>2, <3>3, <3>4, <3>5
  <2>7. QED
    BY <2>3, <2>4, <2>5, <2>6
<1> HIDE DEF r
<1>8. /\ r \in KeyStates /\ r.posted = Tail(s) /\ r.group = group /\ r.refs = refs
      /\ r.down = keys.down /\ r.last = keys.last /\ r.all = keys.all /\ r.of = keys.of
      /\ r.hooks = keys.hooks /\ r.allDown = keys.allDown /\ r.contactDown = keys.contactDown
      /\ r.pressed = keys.pressed /\ r.indices = keys.indices /\ r.dialog = keys.dialog
  <2> HIDE DEF group, refs, s, m
  <2>1. QED
    BY <1>1, <1>2, <1>6, <1>7 DEF KeyStates
<1>9. ASSUME NEW x \in {All} \cup Listed PROVE Chain(r.posted, x, Heard(r, x), Believed(r, x))
  <2> DEFINE now == Heard(r, x)
             h == Heard(keys, x)
             d == Believed(keys, x)
  <2>1. now \in BOOLEAN /\ h \in BOOLEAN /\ d \in BOOLEAN /\ Believed(r, x) = d
    <3>1. now \in BOOLEAN /\ h \in BOOLEAN
      BY <1>1, <1>8 DEF KeyStates, Heard
    <3>2. d \in BOOLEAN
      BY <1>1 DEF KeyStates, Believed
    <3>3. Believed(r, x) = d
      BY <1>8 DEF Believed
    <3>4. QED
      BY <3>1, <3>2, <3>3
  <2>2. Chain(s, x, h, d)
    BY <1>1 DEF Base, Chains
  <2>3. CASE x = All
    <3>1. IF m.of = x THEN now => m.on ELSE now = h
      BY <1>8, <2>3 DEF Heard
    <3> HIDE DEF now, h, d, m, s
    <3>2. Chain(Tail(s), x, now, d)
      BY <1>1, <2>1, <2>2, <3>1, ChainTaken DEF m
    <3>3. QED
      BY <1>8, <2>1, <3>2 DEF now
  <2>4. CASE x \in Listed /\ x # All
    <3>1. now = (refs[x] = 1) /\ h = (keys.refs[x] = 1)
      BY <1>8, <2>4 DEF Heard
    <3>2. m.of = x => (refs[x] = 1 => m.on)
      BY <1>4, <2>4
    <3>3. m.of # x => refs[x] = keys.refs[x]
      BY <1>4, <2>4
    <3>4. IF m.of = x THEN now => m.on ELSE now = h
      BY <3>1, <3>2, <3>3
    <3> HIDE DEF now, h, d, m, s
    <3>5. Chain(Tail(s), x, now, d)
      BY <1>1, <2>1, <2>2, <3>4, ChainTaken DEF m
    <3>6. QED
      BY <1>8, <2>1, <3>5 DEF now
  <2>5. QED
    BY <2>3, <2>4
<1>10. Base(r)
  <2>1. Chains(r)
    BY <1>9 DEF Chains
  <2>2. PressedTrue(r) /\ Quiet(r) /\ Hooked(r)
    BY <1>1, <1>8 DEF Base, PressedTrue, Quiet, Ours, Hooked, HooksOf, NeedsKeyboard, NeedsMouse, HotkeysOf
  <2>3. QED
    BY <1>8, <2>1, <2>2 DEF Base
<1>11. AllTrue(r) /\ ContactTrue(r) /\ Apart(r)
  BY <1>1, <1>8 DEF AllTrue, ContactTrue, Apart, Holds, Steady, Held
<1>12. QED
  BY <1>10, <1>11 DEF KeysSound, r

-----------------------------------------------------------------------------
\* Nothing is held, as far as the hooks know: the hotkeys and the dialog may change.
LEMMA QuietSound ==
    ASSUME NEW k, Base(k), ~k.allDown, ~k.contactDown, NEW r \in KeyStates,
           ~r.allDown, ~r.contactDown, r.posted = k.posted, r.indices = k.indices,
           r.group = k.group, r.refs = k.refs, Quiet(r), Hooked(r)
    PROVE  KeysSound(r)
<1>1. k \in KeyStates /\ Chains(k)
  BY DEF Base
<1>2. r.allDown = k.allDown /\ r.contactDown = k.contactDown
  BY <1>1 DEF KeyStates
<1>3. \A x \in {All} \cup Listed : Heard(r, x) = Heard(k, x) /\ Believed(r, x) = Believed(k, x)
  BY <1>2 DEF Heard, Believed
<1>4. Chains(r)
  BY <1>1, <1>3 DEF Chains
<1>5. QED
  BY <1>4 DEF KeysSound, Base, PressedTrue, AllTrue, ContactTrue, Apart

LEMMA NoDialogTyped == NoDialog \in KeyDialogs
  BY DEF NoDialog, KeyDialogs, HotkeySet

LEMMA UpdateHookIs ==
    ASSUME NEW k, ~k.allDown, ~k.contactDown
    PROVE  UpdateHook(k) = [k EXCEPT !.hooks = HooksOf(k)]
  BY DEF UpdateHook, HooksOf, Deactivate, DeactivateAll, DeactivateContact

LEMMA OpenHotkeysSound ==
    ASSUME KeysSound(keys), OpenHotkeys
    PROVE  KeysSound(keys')
<1> DEFINE k == Deactivate(keys)
           d == [NoDialog EXCEPT !.open = TRUE, !.all = keys.all, !.of = keys.of]
           r == [k EXCEPT !.hooks = {}, !.dialog = d]
<1>1. Base(k) /\ ~k.allDown /\ ~k.contactDown /\ k \in KeyStates
  BY DeactivateBase DEF KeysSound, Base
<1>2. keys.all \in HotkeySet /\ keys.of \in [Listed -> HotkeySet]
  BY DEF KeysSound, Base, KeyStates
<1>3. d \in KeyDialogs /\ d.open /\ d.of = keys.of
  BY <1>2, NoDialogTyped DEF KeyDialogs, NoDialog
<1>4. keys' = r
  BY <1>1 DEF OpenHotkeys, RemoveHook, KeyStates
<1> HIDE DEF k, d
<1>5. /\ r \in KeyStates /\ r.dialog = d
      /\ ~r.allDown /\ ~r.contactDown /\ r.posted = k.posted /\ r.indices = k.indices
      /\ r.group = k.group /\ r.refs = k.refs
  BY <1>1, <1>3 DEF KeyStates
<1> HIDE DEF r
<1>6. Quiet(r) /\ Hooked(r)
  BY <1>2, <1>3, <1>5 DEF Quiet, Hooked
<1>7. QED
  BY <1>1, <1>4, <1>5, <1>6, QuietSound

LEMMA StartRecordingSound ==
    ASSUME KeysSound(keys), NEW which \in {None, All} \cup Listed, StartRecording(which)
    PROVE  KeysSound(keys')
  BY DialogEndSound DEF StartRecording, Unchanged

LEMMA ClearHotkeySound ==
    ASSUME KeysSound(keys), NEW which \in {All} \cup Listed, ClearHotkey(which)
    PROVE  KeysSound(keys')
<1> DEFINE all == IF which = All THEN NotSet ELSE keys.dialog.all
           of == IF which = All THEN keys.dialog.of ELSE [keys.dialog.of EXCEPT ![which] = NotSet]
           d == [keys.dialog EXCEPT !.recording = None, !.mouse = "none", !.all = all, !.of = of]
<1>1. /\ keys \in KeyStates /\ keys.dialog \in KeyDialogs /\ keys.dialog.open
      /\ keys.dialog.of \in [Listed -> HotkeySet]
  BY DEF KeysSound, Base, Quiet, KeyStates, ClearHotkey, Unchanged
<1>2. all \in HotkeySet /\ of \in [Listed -> HotkeySet]
  BY <1>1 DEF KeyDialogs, HotkeySet
<1>3. keys' = [keys EXCEPT !.dialog = d]
  BY <1>1 DEF ClearHotkey, KeyStates, KeyDialogs
<1> HIDE DEF all, of
<1>4. d \in KeyDialogs /\ d.open /\ d.of \in [Listed -> HotkeySet]
  BY <1>1, <1>2 DEF KeyDialogs
<1> HIDE DEF d
<1>5. QED
  BY <1>1, <1>3, <1>4, DialogSound

LEMMA CloseHotkeysSound ==
    ASSUME KeysSound(keys), NEW accepted \in BOOLEAN, CloseHotkeys(accepted)
    PROVE  KeysSound(keys')
<1> DEFINE k == [keys EXCEPT !.dialog = NoDialog]
           all == IF accepted THEN keys.dialog.all ELSE keys.all
           of == IF accepted THEN keys.dialog.of ELSE keys.of
           j == [k EXCEPT !.all = all, !.of = of]
           r == [j EXCEPT !.hooks = HooksOf(j)]
<1>1. /\ keys \in KeyStates /\ Base(keys) /\ keys.dialog \in KeyDialogs
      /\ ~keys.allDown /\ ~keys.contactDown /\ keys.dialog.of \in [Listed -> HotkeySet]
  BY DEF KeysSound, Base, Quiet, KeyStates, CloseHotkeys
<1>2. all \in HotkeySet /\ of \in [Listed -> HotkeySet]
  BY <1>1 DEF KeyStates, KeyDialogs
<1>3. k \in KeyStates /\ ~k.allDown /\ ~k.contactDown /\ Deactivate(k) = k
  BY <1>1, NoDialogTyped DEF KeyStates, Deactivate, DeactivateAll, DeactivateContact
<1>4. keys' = UpdateHook(j)
  <2>1. keys' = UpdateHook(IF ~accepted THEN k
                           ELSE [Deactivate(k) EXCEPT !.all = keys.dialog.all, !.of = keys.dialog.of])
    BY DEF CloseHotkeys
  <2>2. CASE accepted
    BY <1>3, <2>1, <2>2
  <2>3. CASE ~accepted
    <3>1. j = k
      BY <1>1, <2>3 DEF KeyStates
    <3>2. QED
      BY <2>1, <2>3, <3>1
  <2>4. QED
    BY <2>2, <2>3
<1>5. /\ j \in KeyStates /\ j.dialog = NoDialog
      /\ ~j.allDown /\ ~j.contactDown /\ j.posted = keys.posted /\ j.indices = keys.indices
      /\ j.group = keys.group /\ j.refs = keys.refs
  <2> HIDE DEF all, of
  <2>1. QED
    BY <1>1, <1>2, NoDialogTyped DEF KeyStates
<1> HIDE DEF j
<1>6. keys' = r /\ HooksOf(j) \in SUBSET {"keyboard", "mouse"}
  BY <1>4, <1>5, UpdateHookIs DEF HooksOf
<1>7. /\ r \in KeyStates /\ r.dialog = NoDialog /\ r.hooks = HooksOf(j)
      /\ r.all = j.all /\ r.of = j.of
      /\ ~r.allDown /\ ~r.contactDown /\ r.posted = keys.posted /\ r.indices = keys.indices
      /\ r.group = keys.group /\ r.refs = keys.refs
  BY <1>5, <1>6 DEF KeyStates
<1> HIDE DEF r
<1>8. Quiet(r) /\ Hooked(r)
  BY <1>7 DEF Quiet, Hooked, HooksOf, NeedsKeyboard, NeedsMouse, HotkeysOf, NoDialog
<1>9. QED
  BY <1>1, <1>6, <1>7, <1>8, QuietSound

-----------------------------------------------------------------------------
LEMMA KeysStepSound == KeysSound(keys) /\ KeysStep => KeysSound(keys')
  BY PressSound, ReleaseSound, TakeHotkeySound, OpenHotkeysSound, StartRecordingSound,
     ClearHotkeySound, CloseHotkeysSound DEF KeysStep, Inputs

\* A window that has just opened, or has closed
LEMMA AtRest ==
    ASSUME NEW all \in HotkeySet, NEW of \in [Listed -> HotkeySet]
    PROVE  LET k == KeysAt(all, of)
           IN  k \in KeyStates /\ Chains(k) /\ ~k.allDown /\ ~k.contactDown
<1> DEFINE k == KeysAt(all, of)
<1>1. <<>> \in Seq(Notes) /\ <<>> \in Seq(Listed) /\ NotSet \in HotkeySet
      /\ [i \in Listed |-> 0] \in [Listed -> {0, 1}]
  BY DEF HotkeySet
<1>2. k \in KeyStates
  BY <1>1, NoDialogTyped DEF KeysAt, KeyStates
<1>3. /\ ~k.allDown /\ ~k.contactDown /\ k.posted = <<>> /\ ~k.group
      /\ k.refs = [i \in Listed |-> 0]
  BY DEF KeysAt
<1> HIDE DEF k
<1>4. Chains(k)
  <2>1. \A x \in {All} \cup Listed : ~Heard(k, x)
    BY <1>3 DEF Heard
  <2>2. QED
    BY <1>3, <2>1 DEF Chains, Chain
<1>5. QED
  BY <1>2, <1>3, <1>4 DEF k

LEMMA KeysInitSound == KeysInit => KeysSound(keys)
<1> SUFFICES ASSUME KeysInit PROVE KeysSound(keys)
  OBVIOUS
<1>1. PICK all \in FirstHotkeys \cup {NotSet}, of \in [Listed -> FirstHotkeys \cup {NotSet}] :
          keys = UpdateHook(KeysAt(all, of))
  BY DEF KeysInit
<1>2. all \in HotkeySet /\ of \in [Listed -> HotkeySet]
  BY HotkeysAssumption DEF HotkeySet
<1> DEFINE k == KeysAt(all, of)
           r == [k EXCEPT !.hooks = HooksOf(k)]
<1>3. /\ k \in KeyStates /\ Chains(k) /\ ~k.allDown /\ ~k.contactDown /\ k.dialog = NoDialog
  <2>1. k.dialog = NoDialog
    BY DEF KeysAt
  <2>2. QED
    BY <1>2, <2>1, AtRest
<1> HIDE DEF k
<1>4. keys = r /\ HooksOf(k) \in SUBSET {"keyboard", "mouse"}
  BY <1>1, <1>3, UpdateHookIs DEF HooksOf, k
<1>5. /\ r \in KeyStates /\ r.dialog = NoDialog /\ r.hooks = HooksOf(k)
      /\ r.all = k.all /\ r.of = k.of
      /\ ~r.allDown /\ ~r.contactDown /\ r.posted = k.posted /\ r.indices = k.indices
      /\ r.group = k.group /\ r.refs = k.refs
  BY <1>3, <1>4 DEF KeyStates
<1> HIDE DEF r
<1>6. Chains(r)
  <2>1. r.allDown = k.allDown /\ r.contactDown = k.contactDown
    BY <1>3, <1>5 DEF KeyStates
  <2>2. \A x \in {All} \cup Listed : Heard(r, x) = Heard(k, x) /\ Believed(r, x) = Believed(k, x)
    BY <1>5, <2>1 DEF Heard, Believed
  <2>3. QED
    BY <1>3, <1>5, <2>2 DEF Chains
<1>7. Quiet(r) /\ Hooked(r) /\ PressedTrue(r)
  BY <1>5 DEF Quiet, Hooked, PressedTrue, HooksOf, NeedsKeyboard, NeedsMouse, HotkeysOf, NoDialog
<1>8. QED
  BY <1>4, <1>5, <1>6, <1>7 DEF KeysSound, Base, AllTrue, ContactTrue, Apart

\* Nothing posted is left: what is heard is what the hooks believe, and they are right.
LEMMA SoundHeard == KeysSound(keys) => HeardAsHeld
<1> SUFFICES ASSUME KeysSound(keys), keys.posted = <<>>
             PROVE  /\ keys.group => ~keys.dialog.open /\ IsHeld(keys.all)
                    /\ \A i \in Listed : keys.refs[i] > 0 => ~keys.dialog.open /\ IsHeld(keys.of[i])
  BY DEF HeardAsHeld
<1>1. \A x \in {All} \cup Listed : Heard(keys, x) => Believed(keys, x)
  BY DEF KeysSound, Base, Chains, Chain
<1>2. keys.group => ~keys.dialog.open /\ IsHeld(keys.all)
  <2>1. keys.group => keys.allDown
    BY <1>1 DEF Heard, Believed
  <2>2. QED
    BY <2>1 DEF KeysSound, Base, Quiet, AllTrue, Holds, IsHeld
<1>3. ASSUME NEW i \in Listed, keys.refs[i] > 0 PROVE ~keys.dialog.open /\ IsHeld(keys.of[i])
  <2>1. keys.refs[i] \in {0, 1}
    BY DEF KeysSound, Base, KeyStates
  <2>2. Heard(keys, i) /\ i # All
    BY <1>3, <2>1, ListedIs DEF Heard
  <2>3. keys.contactDown /\ \E n \in DOMAIN keys.indices : keys.indices[n] = i
    BY <1>1, <2>2 DEF Believed
  <2>4. keys.of[i] = keys.pressed
    BY <2>3 DEF KeysSound, Base, PressedTrue, Ours
  <2>5. QED
    BY <2>3, <2>4 DEF KeysSound, Base, Quiet, ContactTrue, Holds, IsHeld
<1>4. QED
  BY <1>2, <1>3

-----------------------------------------------------------------------------
\* The hotkeys work while the one program of such a behaviour runs; else they are at rest.
KeysInv ==
    /\ subject = "hotkeys" => stage[1] \in {"runs", "closing", "leaves", "ended"}
    /\ IF subject = "hotkeys" /\ stage[1] = "runs" THEN KeysSound(keys)
       ELSE keys = KeysAt(keys.all, keys.of)

LEMMA InitKeysInv == Init => KeysInv
<1> SUFFICES ASSUME Init PROVE KeysInv
  OBVIOUS
<1>1. CASE subject = "hotkeys"
  BY <1>1, KeysInitSound, ProgramsAre DEF Init, KeysInv
<1>2. CASE subject # "hotkeys"
  <2>1. keys = Unset
    BY <1>2 DEF Init
  <2>2. keys = KeysAt(keys.all, keys.of)
    BY <2>1 DEF Unset, KeysAt
  <2>3. QED
    BY <1>2, <2>2 DEF KeysInv
<1>3. QED
  BY <1>1, <1>2

\* In such a behaviour no program but the first owns the mutex.
LEMMA FirstRuns == ASSUME IInv, Runs, subject = "hotkeys" PROVE mutex = 1
  BY DEF IInv, Runs, InstanceTyped, OneSubject

LEMMA StagesKept ==
    ASSUME IInv, KeysInv, InstanceStep, subject = "hotkeys"
    PROVE  /\ stage'[1] \in {"runs", "closing", "leaves", "ended"}
           /\ stage'[1] = "runs" <=> stage[1] = "runs"
<1>1. stage[1] \in {"runs", "closing", "leaves", "ended"}
  BY DEF KeysInv
<1>2. stage \in [Programs -> Stages] /\ \A p \in Programs \ {1} : stage[p] = "off"
  BY DEF IInv, InstanceTyped, OneSubject
<1>3. ASSUME NEW p \in Programs, Launch(p) \/ TakeMutex(p) \/ GiveWay(p) \/ OpenWindow(p)
      PROVE  FALSE
  BY <1>1, <1>2, <1>3 DEF Launch, TakeMutex, GiveWay, OpenWindow
<1>4. ASSUME NEW p \in Programs, SearchReturns(p) \/ ProgramEnds(p)
      PROVE  stage' = stage \/ (stage[p] = "leaves" /\ stage' = [stage EXCEPT ![p] = "ended"])
  BY <1>4 DEF SearchReturns, ProgramEnds
<1>5. ASSUME ReleaseInstance
      PROVE  stage[mutex] = "closing" /\ stage' = [stage EXCEPT ![mutex] = "leaves"]
  BY <1>5 DEF ReleaseInstance
<1>6. ASSUME Wait \/ ShowExisting \/ Hide \/ Restore \/ TaskbarRestarts \/ CoreShutDown
      PROVE  stage' = stage
  BY <1>6 DEF Wait, ShowExisting, Hide, Restore, TaskbarRestarts, CoreShutDown
<1>7. QED
  BY <1>1, <1>2, <1>3, <1>4, <1>5, <1>6, ProgramsAre DEF InstanceStep

LEMMA NextKeysInv == IInv /\ KeysInv /\ [Next]_vars => KeysInv'
<1> SUFFICES ASSUME IInv, KeysInv, [Next]_vars PROVE KeysInv'
  OBVIOUS
<1>1. CASE InstanceStep
  <2>1. keys' = keys /\ subject' = subject
    BY <1>1 DEF InstanceStep
  <2>2. subject = "hotkeys" => /\ stage'[1] \in {"runs", "closing", "leaves", "ended"}
                               /\ stage'[1] = "runs" <=> stage[1] = "runs"
    BY <1>1, StagesKept
  <2>3. QED
    BY <2>1, <2>2 DEF KeysInv
<1>2. CASE ExitRequested
  <2>1. keys' = KeysAt(keys.all, keys.of) /\ subject' = subject /\ Runs
        /\ stage' = [stage EXCEPT ![mutex] = "closing"]
    BY <1>2 DEF ExitRequested
  <2>2. keys' = KeysAt(keys'.all, keys'.of)
    BY <2>1 DEF KeysAt
  <2>3. subject = "hotkeys" => stage'[1] = "closing"
    BY <2>1, FirstRuns, ProgramsAre DEF IInv, InstanceTyped
  <2>4. QED
    BY <2>1, <2>2, <2>3 DEF KeysInv
<1>3. CASE Seeking(SearchStep)
  <2>1. keys' = keys /\ subject' = subject /\ subject = "search"
    BY <1>3 DEF Seeking
  <2>2. QED
    BY <2>1 DEF KeysInv
<1>4. CASE Keying(KeysStep)
  <2>1. subject = "hotkeys" /\ subject' = subject /\ stage' = stage /\ Runs /\ KeysStep
    BY <1>4 DEF Keying, instanceVars
  <2>2. stage[1] = "runs"
    BY <2>1, FirstRuns DEF Runs
  <2>3. KeysSound(keys')
    BY <2>1, <2>2, KeysStepSound DEF KeysInv
  <2>4. QED
    BY <2>1, <2>2, <2>3 DEF KeysInv
<1>5. CASE UNCHANGED vars
  BY <1>5 DEF vars, instanceVars, KeysInv
<1>6. QED
  BY <1>1, <1>2, <1>3, <1>4, <1>5 DEF Next

\* By hotkey, the group and each contact are talked to only while their own hotkey is held
\* down, as soon as the messages posted are handled: for all keys, buttons and modifiers, all
\* choices of hotkeys (several contacts may have the same), every order in which they are
\* pressed, repeated and released, and whenever the dialog opens.
THEOREM TalkedToAsHeld == Spec => []HeardAsHeld
<1>1. KeysInv => HeardAsHeld
  <2>1. CASE subject = "hotkeys" /\ stage[1] = "runs"
    BY <2>1, SoundHeard DEF KeysInv
  <2>2. ASSUME keys = KeysAt(keys.all, keys.of) PROVE HeardAsHeld
    <3>1. ~keys.group /\ keys.refs = [i \in Listed |-> 0]
      BY <2>2 DEF KeysAt
    <3>2. \A i \in Listed : ~(keys.refs[i] > 0)
      BY <3>1
    <3>3. QED
      BY <3>1, <3>2 DEF HeardAsHeld
  <2>3. QED
    BY <2>1, <2>2 DEF KeysInv
<1>2. QED
  BY <1>1, Invariance, InitKeysInv, NextKeysInv, PTL DEF Spec
=============================================================================
