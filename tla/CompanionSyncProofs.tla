------------------------- MODULE CompanionSyncProofs -------------------------
(***************************************************************************)
(* Theorems about the store of the companion web application, for all sets *)
(* of grinders and sessions and any number of calls and sockets.           *)
(*                                                                         *)
(* Two arguments that do not meet: what the calls of sync() have done is   *)
(* known from each call's own list (CallsInv), and what the live client    *)
(* may still do from the status of the connection (LiveInv).               *)
(***************************************************************************)
EXTENDS CompanionSync, FiniteSetTheorems, TLAPS

-----------------------------------------------------------------------------
\* The calls of sync().

\* What a call no longer has to do is in the table.
Sound(r, t) ==
    /\ r.listed \ r.todo \subseteq DOMAIN t
    /\ r.step = "store" => r.data = "whole"

CallsInv ==
    /\ calls = [c \in Calls |-> calls[c]]
    /\ \A c \in Calls : Sound(calls[c], table)
TableInv == \A i \in DOMAIN table : table[i] = "whole"
BusyInv == isSyncing = TRUE => \E c \in Calls : calls[c].step # "ended"

SyncInv == CallsInv /\ TableInv /\ BusyInv

\* How far a step takes a call.
Goes(c, r) == calls' = [calls EXCEPT ![c] = r] /\ isSyncing' = isSyncing
Ends(c) == calls' = [calls EXCEPT ![c] = NoCall] /\ isSyncing' = FALSE

LEMMA Choosing ==
    ASSUME NEW S, S # {} PROVE OneOf(S) \in S
BY DEF OneOf

LEMMA NoCallIsSound == ASSUME NEW t PROVE Sound(NoCall, t)
BY DEF Sound, NoCall, Call

\* What sync() does after an await that went well.
LEMMA GoesOn ==
    ASSUME CallsInv, NEW c \in Calls, NEW left, GoOn(c, left)
    PROVE  \/ left = {} /\ Ends(c)
           \/ /\ left # {}
              /\ \E r : /\ Goes(c, r) /\ r.step = "file"
                        /\ r.listed = calls[c].listed /\ r.todo = left
<1>1. CASE left = {}
  BY <1>1 DEF GoOn, SyncReturns, NotSyncing, Ends
<1>2. CASE left # {}
  <2> DEFINE r == Call("file", calls[c].from, calls[c].listed, left, "none")
  <2>1. Goes(c, r)
    BY <1>2 DEF GoOn, Go, Goes
  <2>2. r.step = "file" /\ r.listed = calls[c].listed /\ r.todo = left
    BY DEF Call
  <2> QED
    BY <1>2, <2>1, <2>2
<1> QED
  BY <1>1, <1>2

\* A step of a call leaves it sound and running, or ends it; the table only gets
\* sessions that are whole.
LEMMA CallStep ==
    ASSUME CallsInv, TableInv, NEW c \in Calls, SyncStep(c)
    PROVE  /\ DOMAIN table \subseteq DOMAIN table' /\ TableInv'
           /\ \/ Ends(c)
              \/ \E r : Goes(c, r) /\ Sound(r, table') /\ r.step # "ended"
<1>0. Sound(calls[c], table)
  BY DEF CallsInv
<1>1. CASE ListArrives(c)
  <2>1. table' = table
    BY <1>1 DEF ListArrives
  <2> DEFINE ids == DOMAIN files[calls[c].from]
             r == Call("known", calls[c].from, ids, ids, "none")
  <2>2. Ends(c) \/ Goes(c, r)
    BY <1>1 DEF ListArrives, SyncReturns, NotSyncing, Ends, Go, Goes
  <2>3. Sound(r, table') /\ r.step # "ended"
    BY DEF Sound, Call
  <2> QED
    BY <2>1, <2>2, <2>3 DEF TableInv
<1>2. CASE KnownArrive(c)
  <2>1. table' = table /\ GoOn(c, calls[c].todo \ DOMAIN table)
    BY <1>2 DEF KnownArrive
  <2>2. CASE Ends(c)
    BY <2>1, <2>2 DEF TableInv
  <2>3. ASSUME NEW r, Goes(c, r), r.step = "file",
               r.listed = calls[c].listed, r.todo = calls[c].todo \ DOMAIN table
        PROVE  Sound(r, table') /\ r.step # "ended"
    BY <1>0, <2>1, <2>3 DEF Sound
  <2> QED
    BY <2>1, <2>2, <2>3, GoesOn DEF TableInv
<1>3. CASE FileArrives(c)
  <2>1. table' = table
    BY <1>3 DEF FileArrives
  <2> DEFINE d == files[calls[c].from][Current(c)]
             r == Call("store", calls[c].from, calls[c].listed, calls[c].todo, d)
  <2>2. Ends(c) \/ (Parses(d) /\ Goes(c, r))
    BY <1>3 DEF FileArrives, FileFails, SyncThrows, Ends, Go, Goes
  <2>3. Parses(d) => Sound(r, table') /\ r.step # "ended"
    BY <1>0, <2>1 DEF Sound, Parses, Call
  <2> QED
    BY <2>1, <2>2, <2>3 DEF TableInv
<1>4. CASE SessionStored(c)
  <2>1. table' = With(Current(c), calls[c].data) /\ GoOn(c, Others(c)) /\ calls[c].step = "store"
    BY <1>4 DEF SessionStored
  <2>2. DOMAIN table' = DOMAIN table \cup {Current(c)}
    BY <2>1 DEF With
  <2>3. TableInv'
    BY <1>0, <2>1 DEF With, TableInv, Sound
  <2>4. ASSUME NEW r, Goes(c, r), r.step = "file",
               r.listed = calls[c].listed, r.todo = Others(c)
        PROVE  Sound(r, table') /\ r.step # "ended"
    BY <1>0, <2>2, <2>4 DEF Sound, Others
  <2> QED
    BY <2>1, <2>2, <2>3, <2>4, GoesOn
<1>5. CASE AwaitFails(c)
  BY <1>5 DEF AwaitFails, SyncThrows, Ends, TableInv
<1> QED
  BY <1>1, <1>2, <1>3, <1>4, <1>5 DEF SyncStep

LEMMA CallBegins ==
    ASSUME SyncInv, BeginSync, UNCHANGED table
    PROVE  SyncInv'
<1> DEFINE free == {c \in Calls : ~Running(c)}
           r == Call("ids", host, {}, {}, "none")
<1>1. free # {} /\ calls' = [calls EXCEPT ![OneOf(free)] = r]
  BY DEF BeginSync
<1>2. PICK c \in Calls : calls' = [calls EXCEPT ![c] = r]
  <2>1. OneOf(free) \in free
    BY <1>1, Choosing
  <2> QED
    BY <1>1, <2>1
<1>4. Sound(r, table) /\ r.step # "ended"
  BY DEF Sound, Call
<1> HIDE DEF r
<1>5. CallsInv'
  BY <1>2, <1>4 DEF SyncInv, CallsInv
<1>6. calls'[c].step # "ended"
  BY <1>2, <1>4 DEF SyncInv, CallsInv
<1> QED
  BY <1>5, <1>6 DEF SyncInv, TableInv, BusyInv

\* Only these steps touch the calls and the table.
LEMMA SyncFrame ==
    ASSUME [Next]_vars
    PROVE  \/ UNCHANGED syncs
           \/ \E c \in Calls : SyncStep(c)
           \/ BeginSync /\ UNCHANGED table
           \/ Reload
<1>1. CASE User
  <2>1. CASE PressSync
    BY <2>1 DEF PressSync
  <2>2. CASE \/ \E h \in Hosts : EditHost(h)
             \/ PressConnect \/ PressDisconnect \/ PressStart \/ PressIdleOrStop
             \/ \E p \in {"connect", "grind"} : GoToPage(p)
    BY <2>2 DEF EditHost, PressConnect, PressDisconnect, PressStart, PressIdleOrStop, GoToPage
  <2> QED
    BY <1>1, <2>1, <2>2 DEF User
<1>2. CASE Network
  <2>1. ASSUME NEW s \in Slots, Telemetry(s)
        PROVE  UNCHANGED syncs \/ (BeginSync /\ UNCHANGED table)
    BY <2>1 DEF Telemetry, syncs
  <2>2. CASE ConnectSucceeds \/ ConnectThrows \/ ConnectFails \/ TimerFires
             \/ \E s \in Slots : SocketCloses(s)
    BY <2>2 DEF ConnectSucceeds, ConnectThrows, ConnectFails, TimerFires, SocketCloses
  <2> QED
    BY <1>2, <2>1, <2>2 DEF Network
<1>3. ASSUME NEW h \in Busy, Grinder(h)
      PROVE  UNCHANGED syncs
  BY <1>3 DEF Grinder, StartGrind, EndGrind, DismissGrind, OpenFile, CloseFile, PowerFails
<1>4. CASE UNCHANGED vars
  BY <1>4 DEF vars
<1> QED
  BY <1>1, <1>2, <1>3, <1>4 DEF Next

LEMMA SyncInit ==
    ASSUME Init PROVE SyncInv
<1>1. calls = [c \in Calls |-> NoCall] /\ table = <<>> /\ isSyncing = FALSE
  BY DEF Init
<1>2. CallsInv
  BY <1>1, NoCallIsSound DEF CallsInv
<1> QED
  BY <1>1, <1>2 DEF SyncInv, TableInv, BusyInv

LEMMA SyncInvStep ==
    ASSUME SyncInv, [Next]_vars
    PROVE  SyncInv'
<1>1. CASE UNCHANGED syncs
  BY <1>1 DEF syncs, SyncInv, CallsInv, TableInv, BusyInv
<1>2. ASSUME NEW c \in Calls, SyncStep(c)
      PROVE  SyncInv'
  <2>1. /\ DOMAIN table \subseteq DOMAIN table' /\ TableInv'
        /\ \/ Ends(c)
           \/ \E r : Goes(c, r) /\ Sound(r, table') /\ r.step # "ended"
    BY <1>2, CallStep DEF SyncInv
  <2>2. \A d \in Calls : Sound(calls[d], table')
    BY <2>1 DEF SyncInv, CallsInv, Sound
  <2>3. calls = [d \in Calls |-> calls[d]]
    BY DEF SyncInv, CallsInv
  <2>4. CASE Ends(c)
    <3>1. CallsInv'
      BY <2>2, <2>3, <2>4, NoCallIsSound DEF Ends, CallsInv
    <3> QED
      BY <2>1, <2>4, <3>1 DEF Ends, SyncInv, BusyInv
  <2>5. ASSUME NEW r, Goes(c, r), Sound(r, table'), r.step # "ended"
        PROVE  SyncInv'
    <3>1. CallsInv'
      BY <2>2, <2>3, <2>5 DEF Goes, CallsInv
    <3>2. calls'[c].step # "ended"
      BY <2>3, <2>5 DEF Goes
    <3> QED
      BY <2>1, <3>1, <3>2 DEF SyncInv, BusyInv
  <2> QED
    BY <2>1, <2>4, <2>5
<1>3. CASE BeginSync /\ UNCHANGED table
  BY <1>3, CallBegins
<1>4. CASE Reload
  <2>1. CallsInv'
    BY <1>4, NoCallIsSound DEF Reload, CallsInv
  <2> QED
    BY <1>4, <2>1 DEF Reload, SyncInv, TableInv, BusyInv
<1> QED
  BY <1>1, <1>2, <1>3, <1>4, SyncFrame

LEMMA SyncInvariance == Spec => []SyncInv
<1>1. Init => SyncInv
  BY SyncInit
<1>2. SyncInv /\ [Next]_vars => SyncInv'
  BY SyncInvStep
<1> QED
  BY <1>1, <1>2, PTL DEF Spec

\* The flag that disables the buttons stands for a call that will take it back.
THEOREM BusyButtons == Spec => []BusyIsTrue
<1>1. SyncInv => BusyIsTrue
  BY DEF SyncInv, BusyInv, BusyIsTrue, Running
<1> QED
  BY <1>1, SyncInvariance, PTL

\* No session enters the database whose file was not whole, however many calls
\* overlap and whatever the grinders write meanwhile.
THEOREM WholeSessions == Spec => []OnlyWholeSessionsAreStored
<1>1. SyncInv => OnlyWholeSessionsAreStored
  BY DEF SyncInv, TableInv, OnlyWholeSessionsAreStored
<1> QED
  BY <1>1, SyncInvariance, PTL

\* A synchronisation that ends without an error has all it had listed.
LEMMA EndIsComplete ==
    ASSUME SyncInv, NEW c \in Calls, KnownArrive(c) \/ SessionStored(c), calls'[c] = NoCall
    PROVE  calls[c].listed \subseteq DOMAIN table'
<1>0. CallsInv /\ Sound(calls[c], table) /\ calls = [d \in Calls |-> calls[d]]
  BY DEF SyncInv, CallsInv
<1>1. ASSUME NEW left, GoOn(c, left) PROVE left = {}
  <2>1. ASSUME NEW r, Goes(c, r), r.step = "file" PROVE FALSE
    BY <1>0, <2>1 DEF Goes, NoCall, Call
  <2> QED
    BY <1>0, <1>1, <2>1, GoesOn
<1>2. CASE KnownArrive(c)
  <2>1. calls[c].todo \ DOMAIN table = {} /\ table' = table
    BY <1>1, <1>2 DEF KnownArrive
  <2> QED
    BY <1>0, <2>1 DEF Sound
<1>3. CASE SessionStored(c)
  <2>1. Others(c) = {} /\ DOMAIN table' = DOMAIN table \cup {Current(c)}
    BY <1>1, <1>3 DEF SessionStored, With
  <2> QED
    BY <1>0, <2>1 DEF Sound, Others
<1> QED
  BY <1>2, <1>3

THEOREM CompleteSync == Spec => FinishedSyncIsComplete
<1>1. SyncInv /\ [Next]_vars =>
        [\A c \in Calls : (KnownArrive(c) \/ SessionStored(c)) /\ calls'[c] = NoCall =>
             calls[c].listed \subseteq DOMAIN table']_vars
  BY EndIsComplete
<1> QED
  BY <1>1, SyncInvariance, PTL DEF Spec, FinishedSyncIsComplete

-----------------------------------------------------------------------------
\* The live client.

IsSocket(s) ==
    \/ sockets[s] = Free
    \/ sockets[s] = Closing(FALSE)
    \/ /\ sockets[s] = [url |-> host, state |-> "open", heard |-> TRUE]
       /\ s = socket

\* Sockets that were left are closing and not heard; the one that is open is the
\* client's, or it has none and a timer will open one.
SocketsInv ==
    /\ sockets = [s \in Slots |-> sockets[s]]
    /\ \A s \in Slots : IsSocket(s)
LinkInv ==
    /\ status = "connected" =>
          /\ url = host
          /\ \/ timers = 0 /\ socket \in Slots /\ sockets[socket].state = "open"
             \/ timers = 1 /\ socket = 0
    /\ status # "connected" => timers = 0 /\ socket = 0 /\ live = "none"
    /\ host \in Hosts
LiveInv == SocketsInv /\ LinkInv

LEMMA Kinds ==
    /\ Free.state = "free" /\ Free.heard = FALSE
    /\ Closing(FALSE).state = "closing" /\ Closing(FALSE).heard = FALSE
    /\ \A h : /\ [url |-> h, state |-> "open", heard |-> TRUE].state = "open"
              /\ [url |-> h, state |-> "open", heard |-> TRUE].heard = TRUE
              /\ [url |-> h, state |-> "open", heard |-> TRUE].url = h
BY DEF Free, Closing

\* Without a socket of its own the client has none that is open.
LEMMA NoneOpen ==
    ASSUME SocketsInv, socket = 0
    PROVE  \A s \in Slots : sockets[s] = Free \/ sockets[s] = Closing(FALSE)
BY SlotAssumption DEF SocketsInv, IsSocket

\* CloseSocket leaves none that is heard.
LEMMA Left ==
    ASSUME LiveInv
    PROVE  /\ CloseSocket = [s \in Slots |-> CloseSocket[s]]
           /\ \A s \in Slots : CloseSocket[s] = Free \/ CloseSocket[s] = Closing(FALSE)
<1>1. CASE socket = 0
  BY <1>1, NoneOpen DEF CloseSocket, LiveInv, SocketsInv
<1>2. CASE socket # 0
  <2>1. CloseSocket = [sockets EXCEPT ![socket] = Closing(FALSE)]
    BY <1>2 DEF CloseSocket, TakeHandler
  <2> QED
    BY <2>1 DEF LiveInv, SocketsInv, IsSocket
<1> QED
  BY <1>1, <1>2

LEMMA Opened ==
    ASSUME NEW h, NEW among, OpenSocket(h, among),
           among = [s \in Slots |-> among[s]],
           \A s \in Slots : among[s] = Free \/ among[s] = Closing(FALSE),
           host' = h
    PROVE  SocketsInv' /\ socket' \in Slots /\ sockets'[socket'].state = "open"
<1>1. socket' \in Slots
  <2> DEFINE free == {s \in Slots : among[s] = Free}
  <2>1. free # {} /\ socket' = OneOf(free)
    BY DEF OpenSocket
  <2>2. OneOf(free) \in free
    BY <2>1, Choosing
  <2> QED
    BY <2>1, <2>2
<1>2. sockets' = [among EXCEPT ![socket'] = [url |-> h, state |-> "open", heard |-> TRUE]]
  BY DEF OpenSocket
<1>3. sockets' = [s \in Slots |-> sockets'[s]]
  BY <1>2
<1>4. \A s \in Slots : IsSocket(s)'
  BY <1>1, <1>2 DEF IsSocket
<1>5. sockets'[socket'].state = "open"
  BY <1>1, <1>2
<1> QED
  BY <1>1, <1>3, <1>4, <1>5 DEF SocketsInv

\* Only these steps touch the live client, its address or what it shows.
LEMMA LiveFrame ==
    ASSUME [Next]_vars
    PROVE  \/ UNCHANGED <<status, host, client, live>>
           \/ \E h \in Hosts : EditHost(h)
           \/ PressConnect \/ ConnectSucceeds \/ ConnectThrows \/ ConnectFails
           \/ PressDisconnect \/ Reload
           \/ \E s \in Slots : SocketCloses(s) \/ Telemetry(s)
           \/ TimerFires
<1>1. CASE User
  BY <1>1 DEF User, PressSync, PressStart, PressIdleOrStop, GoToPage, store
<1>2. CASE Network
  <2>1. ASSUME NEW c \in Calls, SyncStep(c)
        PROVE  UNCHANGED <<status, host, client, live>>
    BY <2>1 DEF SyncStep, store
  <2> QED
    BY <1>2, <2>1 DEF Network
<1>3. ASSUME NEW h \in Busy, Grinder(h)
      PROVE  UNCHANGED <<status, host, client, live>>
  BY <1>3 DEF Grinder, StartGrind, EndGrind, DismissGrind, OpenFile, CloseFile, PowerFails, store
<1>4. CASE UNCHANGED vars
  BY <1>4 DEF vars, store
<1> QED
  BY <1>1, <1>2, <1>3, <1>4 DEF Next

LEMMA LiveInit ==
    ASSUME Init PROVE LiveInv
<1>1. SocketsInv
  BY DEF Init, SocketsInv, IsSocket
<1>2. LinkInv
  BY DEF Init, LinkInv
<1> QED
  BY <1>1, <1>2 DEF LiveInv

LEMMA LiveStep ==
    ASSUME LiveInv, [Next]_vars
    PROVE  LiveInv'
<1>1. CASE UNCHANGED <<status, host, client, live>>
  BY <1>1 DEF client, LiveInv, SocketsInv, IsSocket, LinkInv
<1>2. ASSUME NEW h \in Hosts, EditHost(h)
      PROVE  LiveInv'
  <2>1. status # "connected" /\ host' = h /\ UNCHANGED <<status, client, live>>
    BY <1>2 DEF EditHost
  <2>2. socket = 0
    BY <2>1 DEF LiveInv, LinkInv
  <2>3. SocketsInv'
    BY <2>1, <2>2, NoneOpen DEF LiveInv, SocketsInv, IsSocket, client
  <2> QED
    BY <2>1, <2>3 DEF LiveInv, LinkInv, client
<1>3. CASE PressConnect \/ ConnectFails
  <2>1. /\ UNCHANGED <<host, client, live>>
        /\ status # "connected" /\ status' # "connected"
    BY <1>3 DEF PressConnect, ConnectFails
  <2>2. SocketsInv'
    BY <2>1 DEF LiveInv, SocketsInv, IsSocket, client
  <2> QED
    BY <2>1, <2>2 DEF LiveInv, LinkInv, client
<1>4. CASE ConnectSucceeds
  <2>1. OpenSocket(host, CloseSocket) /\ host' = host /\ url' = host /\ status' = "connected"
    BY <1>4 DEF ConnectSucceeds
  <2>2. timers' = 0
    BY <1>4 DEF ConnectSucceeds, ClearTimer, LiveInv, LinkInv
  <2>3. SocketsInv' /\ socket' \in Slots /\ sockets'[socket'].state = "open"
    BY <2>1, Left, Opened
  <2> QED
    BY <2>1, <2>2, <2>3 DEF LiveInv, LinkInv
<1>5. CASE PressDisconnect \/ ConnectThrows
  <2>1. /\ status' # "connected" /\ live' = "none" /\ socket' = 0
        /\ sockets' = CloseSocket /\ host' = host
    BY <1>5 DEF PressDisconnect, ConnectThrows, LiveInv, LinkInv
  <2>2. timers' = 0
    BY <1>5 DEF PressDisconnect, ConnectThrows, ClearTimer, LiveInv, LinkInv
  <2>3. SocketsInv'
    BY <2>1, Left DEF SocketsInv, IsSocket
  <2> QED
    BY <2>1, <2>2, <2>3 DEF LiveInv, LinkInv
<1>6. CASE Reload
  <2>1. SocketsInv'
    BY <1>6 DEF Reload, SocketsInv, IsSocket
  <2> QED
    BY <1>6, <2>1 DEF Reload, LiveInv, LinkInv
<1>7. ASSUME NEW s \in Slots, SocketCloses(s)
      PROVE  LiveInv'
  <2>1. /\ sockets[s] # Free /\ sockets' = [sockets EXCEPT ![s] = Free]
        /\ UNCHANGED <<status, host, url, live>>
    BY <1>7 DEF SocketCloses, store
  <2>2. IsSocket(s) /\ sockets = [r \in Slots |-> sockets[r]]
    BY DEF LiveInv, SocketsInv
  <2>3. CASE sockets[s].heard = TRUE
    <3>1. s = socket
      BY <2>2, <2>3, Kinds DEF IsSocket
    <3>2. status = "connected" /\ url # NoHost
      BY <3>1, SlotAssumption, HostAssumption DEF LiveInv, LinkInv
    <3>3. timers = 0 /\ socket' = 0 /\ timers' = 1
      BY <2>3, <3>1, <3>2, <1>7, SlotAssumption DEF SocketCloses, Reconnect, LiveInv, LinkInv
    <3>4. SocketsInv'
      BY <2>1, <3>1 DEF LiveInv, SocketsInv, IsSocket
    <3> QED
      BY <2>1, <3>2, <3>3, <3>4 DEF LiveInv, LinkInv
  <2>4. CASE sockets[s].heard # TRUE
    <3>1. sockets[s] = Closing(FALSE) /\ sockets[s].heard = FALSE
      BY <2>1, <2>2, <2>4, Kinds DEF IsSocket
    <3>2. UNCHANGED <<socket, timers>>
      BY <1>7, <3>1 DEF SocketCloses
    <3>3. SocketsInv'
      BY <2>1, <3>2 DEF LiveInv, SocketsInv, IsSocket
    <3>4. socket \in Slots /\ sockets[socket].state = "open" => sockets'[socket].state = "open"
      BY <2>1, <2>2, <3>1, Kinds
    <3> QED
      BY <2>1, <3>2, <3>3, <3>4 DEF LiveInv, LinkInv
  <2> QED
    BY <2>3, <2>4
<1>8. ASSUME NEW s \in Slots, Telemetry(s)
      PROVE  LiveInv'
  <2>1. sockets[s].state = "open" /\ UNCHANGED <<status, host, client>>
    BY <1>8 DEF Telemetry, store
  <2>2. status = "connected"
    <3>1. IsSocket(s)
      BY DEF LiveInv, SocketsInv
    <3>2. s = socket
      BY <2>1, <3>1, Kinds DEF IsSocket
    <3> QED
      BY <3>2, SlotAssumption DEF LiveInv, LinkInv
  <2>3. SocketsInv'
    BY <2>1 DEF LiveInv, SocketsInv, IsSocket, client
  <2> QED
    BY <2>1, <2>2, <2>3 DEF LiveInv, LinkInv, client
<1>9. CASE TimerFires
  <2>1. status = "connected" /\ url = host /\ timers = 1 /\ socket = 0 /\ host \in Hosts
    BY <1>9 DEF TimerFires, LiveInv, LinkInv
  <2>2. /\ UNCHANGED <<status, host, url, live>> /\ timers' = 0
        /\ OpenSocket(url, sockets)
    BY <1>9, <2>1, HostAssumption DEF TimerFires, store
  <2>3. SocketsInv' /\ socket' \in Slots /\ sockets'[socket'].state = "open"
    BY <2>1, <2>2, NoneOpen, Opened DEF LiveInv, SocketsInv
  <2> QED
    BY <2>1, <2>2, <2>3 DEF LiveInv, LinkInv
<1> QED
  BY LiveFrame, <1>1, <1>2, <1>3, <1>4, <1>5, <1>6, <1>7, <1>8, <1>9

LEMMA LiveInvariance == Spec => []LiveInv
<1>1. Init => LiveInv
  BY LiveInit
<1>2. LiveInv /\ [Next]_vars => LiveInv'
  BY LiveStep
<1> QED
  BY <1>1, <1>2, PTL DEF Spec

\* After disconnect() nothing is shown and nothing will be: no socket that closes
\* late and no timer that was set before brings the connection back.
THEOREM SilentWhenDisconnected == Spec => []DisconnectedIsSilent
<1>1. LiveInv => DisconnectedIsSilent
  <2> SUFFICES ASSUME LiveInv, status # "connected"
               PROVE  live = "none" /\ Open = {} /\ timers = 0
    BY DEF DisconnectedIsSilent
  <2>1. live = "none" /\ timers = 0 /\ socket = 0
    BY DEF LiveInv, LinkInv
  <2>2. Open = {}
    BY <2>1, NoneOpen, Kinds DEF LiveInv, Open
  <2> QED
    BY <2>1, <2>2
<1> QED
  BY <1>1, LiveInvariance, PTL

\* What is shown comes over one socket, from the grinder sync() reads from.
THEOREM LiveFromSynced == Spec => []LiveIsFromTheSyncedGrinder
<1>1. LiveInv => LiveIsFromTheSyncedGrinder
  <2> SUFFICES ASSUME LiveInv, status = "connected"
               PROVE  /\ Cardinality(Open) + timers = 1
                      /\ \A s \in Open : s = socket /\ sockets[s].url = host
    BY DEF LiveIsFromTheSyncedGrinder
  <2>1. \A s \in Open : s = socket /\ sockets[s].url = host
    BY Kinds DEF Open, LiveInv, SocketsInv, IsSocket
  <2>2. CASE timers = 0 /\ socket \in Slots /\ sockets[socket].state = "open"
    <3>1. Open = {socket}
      BY <2>1, <2>2 DEF Open
    <3>2. Cardinality(Open) = 1
      BY <3>1, FS_Singleton
    <3> QED
      BY <2>1, <2>2, <3>2
  <2>3. CASE timers = 1 /\ socket = 0
    <3>1. Open = {}
      BY <2>3, NoneOpen, Kinds DEF LiveInv, Open
    <3>2. Cardinality(Open) = 0
      BY <3>1, FS_EmptySet
    <3> QED
      BY <2>1, <2>3, <3>2
  <2> QED
    BY <2>2, <2>3 DEF LiveInv, LinkInv
<1> QED
  BY <1>1, LiveInvariance, PTL

=============================================================================
