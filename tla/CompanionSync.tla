---------------------------- MODULE CompanionSync -----------------------------
(***************************************************************************)
(* The store of the companion web application and the grinders it talks    *)
(* to: store/grinderStore.ts with the HTTP client, the WebSocket client    *)
(* and the sessions in IndexedDB.                                          *)
(*                                                                         *)
(* JavaScript runs one callback at a time, so an action is a callback, or  *)
(* an async function from one await to the next; whatever is awaited may   *)
(* be overtaken by the user, by the socket or by another synchronisation.  *)
(*                                                                         *)
(* Of a grinder the model has what the application can see: its phase, and *)
(* the session files, which come into being empty, are closed, are rotated *)
(* out, and stay empty when the power fails in between.                    *)
(***************************************************************************)
EXTENDS Naturals, FiniteSets, FiniteSetsExt, Functions, TLC

CONSTANTS
    Hosts,       \* addresses a user may enter
    NoHost,
    Busy,        \* bound: the grinders somebody grinds with
    Kept,        \* for each grinder, the session ids it holds at first
    Capacity,    \* MAX_STORED_SESSIONS_FLASH
    MaxId,       \* bound: session ids in a run
    Calls,       \* bound: synchronisations under way at a time
    Slots        \* bound: WebSockets that exist at a time

ASSUME HostAssumption == NoHost \notin Hosts /\ Busy \subseteq Hosts
ASSUME FileAssumption == MaxId \in Nat /\ Capacity \in Nat \ {0} /\ Kept \in [Hosts -> SUBSET (1..MaxId)]
ASSUME SlotAssumption == Slots \subseteq Nat \ {0} /\ Calls \subseteq Nat

VARIABLES
    status,     \* status of the store
    host,       \* wifiHost
    asked,      \* the host whose status is awaited
    isSyncing,
    calls,      \* the sync() calls
    table,      \* the sessions store of IndexedDB: id -> what was in the file
    url,        \* url and handler of the live client
    sockets,    \* WebSockets: host, state, and whether they have an onclose handler
    socket,     \* the live client's socket, or 0
    timers,     \* pending reconnect timers; reconnectTimer is the one set last
    live,       \* phase of the last telemetry, which GrindPage shows
    page,       \* "connect", "grind"
    phase,      \* phase of each grinder
    log,        \* what became of the session of its last grind: "none", "ended", "writing"
    files       \* its session files: id -> "empty" or "whole"

store    == <<status, host, asked>>
syncs    == <<isSyncing, calls, table>>
client   == <<url, sockets, socket, timers>>
grinders == <<phase, log, files>>
vars     == <<store, syncs, client, live, page, grinders>>

Call(step, from, listed, todo, data) ==
    [step |-> step, from |-> from, listed |-> listed, todo |-> todo, data |-> data]
NoCall == Call("ended", NoHost, {}, {}, "none")
Free   == [url |-> NoHost, state |-> "free", heard |-> FALSE]

OneOf(S)   == CHOOSE x \in S : TRUE
Running(c) == calls[c].step # "ended"
Open       == {s \in Slots : sockets[s].state = "open"}

Init ==
    /\ status = "disconnected" /\ host \in Hosts /\ asked = NoHost
    /\ isSyncing = FALSE /\ calls = [c \in Calls |-> NoCall] /\ table = <<>>
    /\ url = NoHost /\ sockets = [s \in Slots |-> Free] /\ socket = 0 /\ timers = 0
    /\ live = "none" /\ page = "connect"
    /\ phase = [h \in Hosts |-> "IDLE"] /\ log = [h \in Hosts |-> "none"]
    /\ files = [h \in Hosts |-> [i \in Kept[h] |-> "whole"]]

-----------------------------------------------------------------------------
\* The live client.

\* disconnect() takes the handler off the socket before it closes it.
Closing(heard) == [url |-> NoHost, state |-> "closing", heard |-> heard]
LeaveHandler == [sockets EXCEPT ![socket] = Closing(TRUE)]  \* mutant: it reports its end later
TakeHandler  == [sockets EXCEPT ![socket] = Closing(FALSE)]
CloseSocket  == IF socket = 0 THEN sockets ELSE TakeHandler
KeepTimers  == timers  \* mutant
ClearTimer  == IF timers = 0 THEN 0 ELSE timers - 1

\* openSocket().
OpenSocket(h, among) ==
    LET free == {s \in Slots : among[s] = Free}
    IN  /\ free # {}
        /\ socket' = OneOf(free)
        /\ sockets' = [among EXCEPT ![socket'] = [url |-> h, state |-> "open", heard |-> TRUE]]

\* onclose, at once or late; a socket without handler just goes.
Reconnect == timers' = IF url # NoHost THEN timers + 1 ELSE timers
SocketCloses(s) ==
    /\ sockets[s] # Free
    /\ sockets' = [sockets EXCEPT ![s] = Free]
    /\ IF sockets[s].heard THEN socket' = 0 /\ Reconnect ELSE UNCHANGED <<socket, timers>>
    /\ UNCHANGED <<store, syncs, url, live, page, grinders>>

TimerFires ==
    /\ timers > 0
    /\ timers' = timers - 1
    /\ IF url = NoHost THEN UNCHANGED <<sockets, socket>> ELSE OpenSocket(url, sockets)
    /\ UNCHANGED <<store, syncs, url, live, page, grinders>>

-----------------------------------------------------------------------------
\* connectWifi() and disconnect(), the buttons of ConnectPage.

busy == status = "connecting" \/ isSyncing

EditHost(h) ==
    /\ page = "connect" /\ status # "connected"
    /\ host' = h
    /\ UNCHANGED <<status, asked, syncs, client, live, page, grinders>>

PressConnect ==
    /\ page = "connect" /\ status # "connected" /\ ~busy
    /\ status' = "connecting" /\ asked' = host
    /\ UNCHANGED <<host, syncs, client, live, page, grinders>>

\* enableLive() goes to the address that is entered by now.
ConnectSucceeds ==
    /\ status = "connecting"
    /\ status' = "connected" /\ asked' = NoHost
    /\ url' = host /\ timers' = ClearTimer
    /\ OpenSocket(host, CloseSocket)
    /\ UNCHANGED <<host, syncs, live, page, grinders>>

\* ... and throws there when the browser does not let it open the socket; the
\* former one is closed by then.
ConnectThrows ==
    /\ status = "connecting"
    /\ status' = "error" /\ asked' = NoHost
    /\ url' = host /\ sockets' = CloseSocket /\ socket' = 0 /\ timers' = ClearTimer
    /\ UNCHANGED <<host, syncs, live, page, grinders>>

ConnectFails ==
    /\ status = "connecting"
    /\ status' = "error" /\ asked' = NoHost
    /\ UNCHANGED <<host, syncs, client, live, page, grinders>>

PressDisconnect ==
    /\ page = "connect" /\ status = "connected" /\ ~busy
    /\ status' = "disconnected" /\ live' = "none"
    /\ url' = NoHost /\ sockets' = CloseSocket /\ socket' = 0 /\ timers' = ClearTimer
    /\ UNCHANGED <<host, asked, syncs, page, grinders>>

-----------------------------------------------------------------------------
\* sync().

BeginSync ==
    LET free == {c \in Calls : ~Running(c)}
    IN  /\ free # {}
        /\ isSyncing' = TRUE
        /\ calls' = [calls EXCEPT ![OneOf(free)] = Call("ids", host, {}, {}, "none")]

PressSync ==
    /\ page = "connect" /\ status = "connected" /\ ~busy
    /\ BeginSync
    /\ UNCHANGED <<store, table, client, live, page, grinders>>

\* The end of a call, whatever other calls are doing.
NotSyncing   == isSyncing' = FALSE
SyncReturns(c) ==
    /\ calls' = [calls EXCEPT ![c] = NoCall]
    /\ NotSyncing
SyncThrows(c) ==
    /\ calls' = [calls EXCEPT ![c] = NoCall]
    /\ isSyncing' = FALSE

Go(c, step) == calls' = [calls EXCEPT ![c] = step] /\ UNCHANGED isSyncing

\* getSessionIds() answers.
ListArrives(c) ==
    LET ids == DOMAIN files[calls[c].from]
    IN  /\ calls[c].step = "ids"
        /\ IF ids = {} THEN SyncReturns(c)
           ELSE Go(c, Call("known", calls[c].from, ids, ids, "none"))
        /\ UNCHANGED table

\* The rest of the loop up to its next await: known sessions are skipped.
GoOn(c, left) ==
    IF left = {} THEN SyncReturns(c)
    ELSE Go(c, Call("file", calls[c].from, calls[c].listed, left, "none"))

\* getExistingSessionIds(), read once for the whole loop.
KnownArrive(c) ==
    /\ calls[c].step = "known"
    /\ GoOn(c, calls[c].todo \ DOMAIN table)
    /\ UNCHANGED table

\* getSessionBinary() answers 404 for a file that was rotated out, and
\* parseSessionFile() throws for one that is empty; either ends the whole call.
Current(c) == Min(calls[c].todo)
Parses(data) == data = "whole"
SkipFailing(c) == GoOn(c, calls[c].todo \ {Current(c)})  \* mutant: the loop goes on
FileFails(c) == SyncThrows(c)
FileArrives(c) ==
    LET f == files[calls[c].from]
    IN  /\ calls[c].step = "file"
        /\ IF Current(c) \in DOMAIN f /\ Parses(f[Current(c)])
           THEN Go(c, Call("store", calls[c].from, calls[c].listed, calls[c].todo, f[Current(c)]))
           ELSE FileFails(c)
        /\ UNCHANGED table

\* upsertParsedSession() commits.
With(i, data) == [j \in DOMAIN table \cup {i} |-> IF j = i THEN data ELSE table[j]]
SameAgain(c) == calls[c].todo  \* mutant
Others(c)    == calls[c].todo \ {Current(c)}
SessionStored(c) ==
    /\ calls[c].step = "store"
    /\ table' = With(Current(c), calls[c].data)
    /\ GoOn(c, Others(c))

\* Any await may fail.
AwaitFails(c) ==
    /\ Running(c)
    /\ SyncThrows(c)
    /\ UNCHANGED table

SyncStep(c) ==
    /\ ListArrives(c) \/ KnownArrive(c) \/ FileArrives(c) \/ SessionStored(c) \/ AwaitFails(c)
    /\ UNCHANGED <<store, client, live, page, grinders>>

-----------------------------------------------------------------------------
\* GrindPage.

\* prevPhase of a mounted page is the phase it showed last, that is, live.  A
\* grind that ends in front of the page is synchronised, also while another
\* synchronisation is under way.  A grinder sends nothing while it is idle.
Finishing(p) == page = "grind" /\ live = "ACTIVE" /\ p = "DONE"
Telemetry(s) ==
    /\ sockets[s].state = "open" /\ url # NoHost
    /\ phase[sockets[s].url] # "IDLE"
    /\ live' = phase[sockets[s].url]
    /\ IF Finishing(live') /\ status = "connected" THEN BeginSync
       ELSE UNCHANGED <<isSyncing, calls>>
    /\ UNCHANGED <<store, table, client, page, grinders>>

GoToPage(p) ==
    /\ page # p
    /\ page' = p
    /\ UNCHANGED <<store, syncs, client, live, grinders>>

\* startRemoteGrind(), and the remote command that becomes a grind.
canStartRemote == live = "none" \/ live = "IDLE"
PressStart ==
    /\ page = "grind" /\ status = "connected" /\ canStartRemote
    /\ host \in Busy /\ phase[host] = "IDLE" /\ log[host] = "none"
    /\ phase' = [phase EXCEPT ![host] = "ACTIVE"]
    /\ UNCHANGED <<store, syncs, client, live, page, log, files>>

\* returnRemoteIdle() and stopRemoteGrind(): the button fits what the page shows,
\* the command has an effect if it fits what the grinder does.
PressIdleOrStop ==
    /\ page = "grind" /\ status = "connected" /\ live # "none"
    /\ host \in Busy /\ phase[host] = live
    /\ phase' = [phase EXCEPT ![host] = "IDLE"]
    /\ UNCHANGED <<store, syncs, client, live, page, log, files>>

\* The browser loads the page anew: what is left is the database and, in
\* localStorage, the address.
Reload ==
    /\ status' = "disconnected" /\ asked' = NoHost
    /\ isSyncing' = FALSE /\ calls' = [c \in Calls |-> NoCall]
    /\ url' = NoHost /\ sockets' = [s \in Slots |-> Free] /\ socket' = 0 /\ timers' = 0
    /\ live' = "none" /\ page' = "connect"
    /\ UNCHANGED <<host, table, grinders>>

-----------------------------------------------------------------------------
\* The grinders.

NextId(h) == Max(DOMAIN files[h] \cup {0}) + 1

StartGrind(h) ==
    /\ phase[h] = "IDLE" /\ log[h] = "none"
    /\ phase' = [phase EXCEPT ![h] = "ACTIVE"]
    /\ UNCHANGED <<store, syncs, client, live, page, log, files>>

EndGrind(h) ==
    /\ phase[h] = "ACTIVE"
    /\ phase' = [phase EXCEPT ![h] = "DONE"]
    /\ log' = [log EXCEPT ![h] = "ended"]
    /\ UNCHANGED <<store, syncs, client, live, page, files>>

DismissGrind(h) ==
    /\ phase[h] = "DONE"
    /\ phase' = [phase EXCEPT ![h] = "IDLE"]
    /\ UNCHANGED <<store, syncs, client, live, page, log, files>>

OpenFile(h) ==
    /\ log[h] = "ended" /\ NextId(h) <= MaxId
    /\ log' = [log EXCEPT ![h] = "writing"]
    /\ files' = [files EXCEPT ![h] = (NextId(h) :> "empty") @@ @]
    /\ UNCHANGED <<store, syncs, client, live, page, phase>>

Newest(f) == Restrict(f, {i \in DOMAIN f : Cardinality({j \in DOMAIN f : j > i}) < Capacity})
CloseFile(h) ==
    /\ log[h] = "writing"
    /\ log' = [log EXCEPT ![h] = "none"]
    /\ files' = [files EXCEPT ![h] = Newest([@ EXCEPT ![Max(DOMAIN files[h])] = "whole"])]
    /\ UNCHANGED <<store, syncs, client, live, page, phase>>

PowerFails(h) ==
    /\ phase[h] # "IDLE" \/ log[h] # "none"
    /\ phase' = [phase EXCEPT ![h] = "IDLE"]
    /\ log' = [log EXCEPT ![h] = "none"]
    /\ UNCHANGED <<store, syncs, client, live, page, files>>

-----------------------------------------------------------------------------
User ==
    \/ \E h \in Hosts : EditHost(h)
    \/ PressConnect \/ PressDisconnect \/ PressSync \/ PressStart \/ PressIdleOrStop \/ Reload
    \/ \E p \in {"connect", "grind"} : GoToPage(p)
Network ==
    \/ ConnectSucceeds \/ ConnectThrows \/ ConnectFails
    \/ \E c \in Calls : SyncStep(c)
    \/ \E s \in Slots : SocketCloses(s) \/ Telemetry(s)
    \/ TimerFires
Grinder(h) ==
    StartGrind(h) \/ EndGrind(h) \/ DismissGrind(h) \/ OpenFile(h) \/ CloseFile(h) \/ PowerFails(h)

Next == User \/ Network \/ \E h \in Busy : Grinder(h)

\* fetch and IndexedDB answer or fail.
Fairness == \A c \in Calls : WF_vars(SyncStep(c))

Spec == Init /\ [][Next]_vars /\ Fairness

-----------------------------------------------------------------------------
\* Properties.

SyncTypeOK ==
    /\ status \in {"disconnected", "connecting", "connected", "error"}
    /\ host \in Hosts /\ asked \in Hosts \cup {NoHost} /\ url \in Hosts \cup {NoHost}
    /\ isSyncing \in BOOLEAN /\ live \in {"none", "ACTIVE", "DONE"}
    /\ page \in {"connect", "grind"} /\ socket \in Slots \cup {0} /\ timers \in 0..1
    /\ \A c \in Calls : /\ calls[c].step \in {"ended", "ids", "known", "file", "store"}
                        /\ calls[c].todo \subseteq calls[c].listed
                        /\ calls[c].step \in {"file", "store"} => calls[c].todo # {}
    /\ \A s \in Slots : sockets[s].state \in {"free", "open", "closing"}
    /\ \A h \in Hosts : log[h] = "writing" => files[h][Max(DOMAIN files[h])] = "empty"

\* Without a connection nothing is shown, no socket is open and none will be
\* opened: what the live client had begun before disconnect() does not come
\* back, however late sockets close and timers fire.
DisconnectedIsSilent ==
    status # "connected" => live = "none" /\ Open = {} /\ timers = 0

\* The telemetry comes over one socket, or one is about to be opened, and from
\* the address sync() reads from, although the address may be edited while the
\* grinder's answer is awaited.
LiveIsFromTheSyncedGrinder ==
    status = "connected" =>
        /\ Cardinality(Open) + timers = 1
        /\ \A s \in Open : s = socket /\ sockets[s].url = host

\* The buttons of ConnectPage are disabled only while a synchronisation is under
\* way that will enable them again, although calls overlap and share the flag.
BusyIsTrue == isSyncing => \E c \in Calls : Running(c)

\* A synchronisation that ends without an error has a session for every id that
\* was on the grinder when it began, whatever is rotated out, written or imported
\* by another call meanwhile.  An id the grinder gave twice counts as known.
FinishedSyncIsComplete ==
    [][\A c \in Calls : (KnownArrive(c) \/ SessionStored(c)) /\ calls'[c] = NoCall =>
           calls[c].listed \subseteq DOMAIN table']_vars

\* A session that was listed while its file was being written, or whose file the
\* power failed for, is not imported as it is: it would never be read again.
OnlyWholeSessionsAreStored == \A i \in DOMAIN table : table[i] = "whole"

\* Every synchronisation ends, with or without an error, and gives the buttons
\* back.
SyncEnds == isSyncing ~> ~isSyncing
=============================================================================
