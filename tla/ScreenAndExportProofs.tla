----------------------- MODULE ScreenAndExportProofs ------------------------
(***************************************************************************)
(* What a client stores is a whole session, and the screen follows the     *)
(* grind. GrindScreen and DataExport are the two sides of a data export,   *)
(* which displaces the screen. They share no name and are proved about one *)
(* after the other.                                                        *)
(*                                                                         *)
(* 1. What a client stores is a whole session (StoredAreWhole), for all    *)
(* session files, any room for notifications and any number of exports. A  *)
(* chunk goes from the stream through the buffer of the task and the air   *)
(* to the client. PipeInv says of every two neighbours on this way that    *)
(* the second is of the same file if its number follows: a request, a      *)
(* disconnection or a report in between makes the numbers start again. The *)
(* client checks the numbers, so all it keeps is of the file that its      *)
(* first chunk names (PlaceInv).                                           *)
(*                                                                         *)
(* 2. The screen follows the phase, SETUP gets its acknowledgment and no   *)
(* timer outlives its screen, for queues of any size. What is still to     *)
(* come, in the queue or on Core 0, is the trail; ScreenInv says that its  *)
(* last event tells the phase (Told), what may follow what on it (Chained, *)
(* Begun), and what the screen shows once it is empty (Caught). The steps  *)
(* are cut into a few shapes by what they do to the trail (Shapes), and    *)
(* every part of ScreenInv is carried over the shapes. An event that is    *)
(* dropped or overtaken breaks Told; nothing is claimed from there until   *)
(* the screen and the phase agree, and there it holds again (Recovery).    *)
(***************************************************************************)
EXTENDS DataExport, GrindScreen, SequenceTheorems, TLAPS

\* What is on the way: chunks, numbered from 1, the list and reports, which are of
\* no file; the client keeps chunks and lists.
Chunk == [file : DOMAIN Length, n : Nat \ {0}]
Heard == Chunk \cup {List}
Item  == Heard \cup {Complete, Failed}

Follow(x, y) == x.file # 0 /\ y.file # 0 /\ y.n = x.n + 1 => y.file = x.file

Holding  == task \in {"counting", "sending"}
Upcoming == [file |-> stream.file, n |-> stream.at + 1]

\* What left the task last, if it is still under way or heard by the client.
Latest ==
    IF air # <<>> THEN air[Len(air)]
    ELSE IF receiving /\ chunks # <<>> THEN chunks[Len(chunks)] ELSE Failed

WayInv ==
    /\ air \in Seq(Item) /\ chunks \in Seq(Heard) /\ (Holding => buffer \in Chunk)
    /\ stream \in [file : DOMAIN Length \cup {0}, at : Nat, sent : Nat, active : BOOLEAN]
    /\ stream.active => stream.file \in DOMAIN Length
    /\ files \subseteq DOMAIN Length
    /\ ~connected => air = <<>> /\ chunks = <<>>

PipeInv ==
    /\ \A k \in 1..Len(air) - 1 : Follow(air[k], air[k + 1])
    /\ receiving /\ chunks # <<>> /\ air # <<>> => Follow(chunks[Len(chunks)], air[1])
    /\ Holding => Follow(Latest, buffer)
    /\ Holding /\ stream.active => Follow(buffer, Upcoming)
    /\ ~Holding /\ stream.active => Follow(Latest, Upcoming)

PlaceInv ==
    \A m \in 1..Len(chunks) :
        (\A n \in 1..m : InPlace(n)) => \A n \in 1..m : chunks[n].file = chunks[1].file

StreamInv == WayInv /\ PipeInv /\ PlaceInv /\ StoredAreWhole

-----------------------------------------------------------------------------
\* Sequences.

LEMMA AtTheEnd ==
    ASSUME NEW S, NEW s \in Seq(S), NEW x \in S
    PROVE  /\ Append(s, x) \in Seq(S) /\ Append(s, x) # <<>>
           /\ Len(Append(s, x)) = Len(s) + 1 /\ Len(s) \in Nat
           /\ Append(s, x)[Len(s) + 1] = x
           /\ \A k \in 1..Len(s) : Append(s, x)[k] = s[k]
OBVIOUS

LEMMA FromTheFront ==
    ASSUME NEW S, NEW s \in Seq(S), s # <<>>
    PROVE  /\ Tail(s) \in Seq(S) /\ Head(s) = s[1] /\ Head(s) \in S
           /\ Len(s) \in Nat \ {0} /\ Len(Tail(s)) = Len(s) - 1
           /\ \A k \in 1..Len(s) - 1 : Tail(s)[k] = s[k + 1]
           /\ Tail(s) # <<>> <=> Len(s) > 1
OBVIOUS

LEMMA BothEnds ==
    ASSUME NEW S, NEW s \in Seq(S), s # <<>>
    PROVE  Len(s) \in Nat \ {0} /\ s[Len(s)] \in S /\ s[1] \in S
OBVIOUS

LEMMA ReportsAreItems == Failed \in Item /\ Complete \in Item /\ List \in Item
BY DEF Heard, Item

LEMMA ChunksAreItems == Chunk \subseteq Item /\ Heard \subseteq Item
BY DEF Heard, Item

\* What is of a file is a chunk, and so is what has a number and is no report.
LEMMA ItemFacts ==
    ASSUME NEW x \in Item
    PROVE  /\ x.file # 0 => x \in Chunk
           /\ x \notin {Complete, Failed} => x \in Heard
           /\ x \in Heard /\ x.n # 0 => x \in Chunk
BY DEF Item, Heard, List, Complete, Failed

LEMMA ChunkFacts ==
    ASSUME NEW x \in Chunk
    PROVE  /\ x.file # 0 /\ x.n \in Nat \ {0} /\ x \notin {List, Complete, Failed}
           /\ x = [file |-> x.file, n |-> x.n]
BY FileAssumption DEF Chunk, List, Complete, Failed

LEMMA LatestIsItem == WayInv => Latest \in Item
BY BothEnds, ReportsAreItems, ChunksAreItems DEF WayInv, Latest

-----------------------------------------------------------------------------
\* The contents of the way.

LEMMA NotifyKeeps ==
    ASSUME WayInv, NEW x \in Item, Notify(x), UNCHANGED <<connected, receiving, chunks>>,
           \A k \in 1..Len(air) - 1 : Follow(air[k], air[k + 1]),
           receiving /\ chunks # <<>> /\ air # <<>> => Follow(chunks[Len(chunks)], air[1]),
           Follow(Latest, x)
    PROVE  /\ air' \in Seq(Item)
           /\ ~connected => air' = <<>>
           /\ \A k \in 1..Len(air') - 1 : Follow(air'[k], air'[k + 1])
           /\ receiving /\ chunks # <<>> /\ air' # <<>> => Follow(chunks[Len(chunks)], air'[1])
           /\ Latest' = x \/ Latest' = Failed
<1>1. CASE ~connected
  BY <1>1 DEF Notify, WayInv, Latest
<1>2. CASE connected
  <2>1. air' = Append(air, x)
    BY <1>2 DEF Notify
  <2>2. air' \in Seq(Item) /\ air' # <<>> /\ Len(air') = Len(air) + 1 /\ Len(air) \in Nat
        /\ air'[Len(air) + 1] = x /\ \A k \in 1..Len(air) : air'[k] = air[k]
    BY <2>1, AtTheEnd DEF WayInv
  <2>3. Latest' = x
    BY <2>2 DEF Latest
  <2>4. ASSUME NEW k \in 1..Len(air') - 1
        PROVE  Follow(air'[k], air'[k + 1])
    <3>1. CASE k = Len(air)
      <4>1. air # <<>> /\ air'[k] = Latest
        BY <3>1, <2>2 DEF Latest
      <4> QED  BY <4>1, <3>1, <2>2
    <3>2. CASE k # Len(air)
      <4>1. k \in 1..Len(air) - 1 /\ k \in 1..Len(air) /\ k + 1 \in 1..Len(air)
        BY <3>2, <2>2
      <4> QED  BY <4>1, <2>2
    <3> QED  BY <3>1, <3>2
  <2>5. ASSUME receiving, chunks # <<>>
        PROVE  Follow(chunks[Len(chunks)], air'[1])
    <3>1. CASE air = <<>>
      <4>1. Latest = chunks[Len(chunks)] /\ air'[1] = x
        BY <3>1, <2>2, <2>5 DEF Latest
      <4> QED  BY <4>1
    <3>2. CASE air # <<>>
      <4>1. air'[1] = air[1]
        BY <3>2, <2>2 DEF WayInv
      <4> QED  BY <4>1, <3>2, <2>5
    <3> QED  BY <3>1, <3>2
  <2> QED  BY <1>2, <2>2, <2>3, <2>4, <2>5
<1> QED  BY <1>1, <1>2

\* A report may follow anything, and anything may follow a report.
LEMMA ReportsAreFree ==
    ASSUME NEW x
    PROVE  /\ Follow(x, Failed) /\ Follow(x, Complete) /\ Follow(x, List)
           /\ Follow(Failed, x) /\ Follow(Complete, x) /\ Follow(List, x)
BY DEF Follow, Failed, Complete, List

-----------------------------------------------------------------------------
\* Every step keeps the way in order.

\* Steps that neither send nor receive.
LEMMA WayFrame ==
    ASSUME WayInv, PipeInv, UNCHANGED <<air, chunks, receiving>>
    PROVE  /\ Latest' = Latest
           /\ \A k \in 1..Len(air') - 1 : Follow(air'[k], air'[k + 1])
           /\ receiving' /\ chunks' # <<>> /\ air' # <<>> => Follow(chunks'[Len(chunks')], air'[1])
BY DEF PipeInv, Latest

LEMMA TaskKeepsWay ==
    ASSUME WayInv, PipeInv, BluetoothTask
    PROVE  WayInv' /\ PipeInv'
<1>1. CASE CallOff
  <2>1. /\ ~stream'.active /\ ~Holding'
        /\ stream' \in [file : DOMAIN Length \cup {0}, at : Nat, sent : Nat, active : BOOLEAN]
        /\ UNCHANGED <<files, connected, receiving, chunks>> /\ Notify(Failed)
    BY <1>1 DEF CallOff, StopExport, NoStream, worker, script, Holding
  <2>2. /\ air' \in Seq(Item) /\ (~connected => air' = <<>>)
        /\ \A k \in 1..Len(air') - 1 : Follow(air'[k], air'[k + 1])
        /\ receiving /\ chunks # <<>> /\ air' # <<>> => Follow(chunks[Len(chunks)], air'[1])
    BY <2>1, NotifyKeeps, ReportsAreItems, ReportsAreFree DEF PipeInv
  <2> QED  BY <2>1, <2>2 DEF WayInv, PipeInv
<1>2. CASE BeginPass
  <2>1. /\ ~Holding /\ ~Holding'
        /\ UNCHANGED <<files, connected, stream, buffer, air, receiving, chunks>>
    BY <1>2 DEF BeginPass, device, script, Holding
  <2> QED  BY <2>1, WayFrame DEF WayInv, PipeInv, Upcoming
<1>3. CASE ReadChunk
  <2>1. /\ ~Holding /\ stream.active /\ buffer' = Upcoming /\ stream' = [stream EXCEPT !.at = @ + 1]
        /\ UNCHANGED <<files, connected, air, receiving, chunks>>
    BY <1>3 DEF ReadChunk, AtEnd, script, Holding, Upcoming
  <2>2. /\ stream'.file = stream.file /\ stream'.active = stream.active
        /\ stream' \in [file : DOMAIN Length \cup {0}, at : Nat, sent : Nat, active : BOOLEAN]
    <3>1. stream.at + 1 \in Nat
      BY DEF WayInv
    <3>2. stream' = [file |-> stream.file, at |-> stream.at + 1, sent |-> stream.sent,
                     active |-> stream.active]
      BY <2>1 DEF WayInv
    <3> QED  BY <3>1, <3>2 DEF WayInv
  <2>3. buffer' \in Chunk
    <3>1. stream.file \in DOMAIN Length /\ stream.at + 1 \in Nat \ {0}
      BY <2>1 DEF WayInv
    <3> QED  BY <2>1, <3>1 DEF Upcoming, Chunk
  <2>4. Follow(buffer', Upcoming')
    BY <2>1, <2>2 DEF Upcoming, Follow
  <2>5. Follow(Latest', buffer')
    BY <2>1, WayFrame DEF PipeInv
  <2>6. Holding'
    BY <1>3 DEF ReadChunk, Holding
  <2> QED  BY <2>1, <2>2, <2>3, <2>4, <2>5, <2>6, WayFrame DEF WayInv, PipeInv
<1>4. CASE ReadNothing
  <2>1. /\ ~Holding' /\ stream' = [stream EXCEPT !.active = FALSE]
        /\ UNCHANGED <<files, connected, air, receiving, chunks>>
    BY <1>4 DEF ReadNothing, script, Holding
  <2>2. ~stream'.active
        /\ stream' \in [file : DOMAIN Length \cup {0}, at : Nat, sent : Nat, active : BOOLEAN]
    BY <2>1 DEF WayInv
  <2> QED  BY <2>1, <2>2, WayFrame DEF WayInv, PipeInv
<1>5. CASE CountChunk
  <2>1. /\ Holding /\ Holding' /\ stream' = IF stream.active THEN Sent(stream) ELSE stream
        /\ UNCHANGED <<files, connected, buffer, air, receiving, chunks>>
    BY <1>5 DEF CountChunk, script, Holding
  <2>2. stream'.file = stream.file /\ stream'.at = stream.at /\ (stream'.active => stream.active)
    BY <2>1 DEF WayInv, Sent
  <2>3. stream' \in [file : DOMAIN Length \cup {0}, at : Nat, sent : Nat, active : BOOLEAN]
    <3>1. CASE stream.active
      BY <2>1, <3>1 DEF WayInv, Sent
    <3> QED  BY <2>1, <3>1 DEF WayInv
  <2> QED  BY <2>1, <2>2, <2>3, WayFrame DEF WayInv, PipeInv, Upcoming
<1>6. CASE SendChunk
  <2>1. /\ Holding /\ ~Holding' /\ Notify(buffer)
        /\ UNCHANGED <<files, connected, stream, receiving, chunks>>
    BY <1>6 DEF SendChunk, device, script, Holding
  <2>2. /\ air' \in Seq(Item) /\ (~connected => air' = <<>>)
        /\ \A k \in 1..Len(air') - 1 : Follow(air'[k], air'[k + 1])
        /\ receiving /\ chunks # <<>> /\ air' # <<>> => Follow(chunks[Len(chunks)], air'[1])
        /\ Latest' = buffer \/ Latest' = Failed
    BY <2>1, NotifyKeeps, ChunksAreItems DEF PipeInv, WayInv
  <2>3. stream'.active => Follow(Latest', Upcoming')
    BY <2>1, <2>2, ReportsAreFree DEF PipeInv, Upcoming
  <2> QED  BY <2>1, <2>2, <2>3 DEF WayInv, PipeInv
<1>7. CASE ClearProgress
  <2>1. /\ ~Holding /\ ~Holding'
        /\ UNCHANGED <<files, connected, stream, buffer, air, receiving, chunks>>
    BY <1>7 DEF ClearProgress, script, Holding
  <2> QED  BY <2>1, WayFrame DEF WayInv, PipeInv, Upcoming
<1>8. CASE CloseStream
  <2>1. /\ ~Holding' /\ ~stream'.active
        /\ stream' \in [file : DOMAIN Length \cup {0}, at : Nat, sent : Nat, active : BOOLEAN]
        /\ UNCHANGED <<files, connected, air, receiving, chunks>>
    BY <1>8 DEF CloseStream, NoStream, script, Holding
  <2> QED  BY <2>1, WayFrame DEF WayInv, PipeInv
<1>9. CASE ReportComplete
  <2>1. /\ ~Holding' /\ Notify(Complete)
        /\ UNCHANGED <<files, connected, stream, receiving, chunks>>
    BY <1>9 DEF ReportComplete, device, script, Holding
  <2>2. /\ air' \in Seq(Item) /\ (~connected => air' = <<>>)
        /\ \A k \in 1..Len(air') - 1 : Follow(air'[k], air'[k + 1])
        /\ receiving /\ chunks # <<>> /\ air' # <<>> => Follow(chunks[Len(chunks)], air'[1])
        /\ Latest' = Complete \/ Latest' = Failed
    BY <2>1, NotifyKeeps, ReportsAreItems, ReportsAreFree DEF PipeInv
  <2>3. Follow(Latest', Upcoming')
    BY <2>2, ReportsAreFree
  <2> QED  BY <2>1, <2>2, <2>3 DEF WayInv, PipeInv
<1> QED  BY <1>1, <1>2, <1>3, <1>4, <1>5, <1>6, <1>7, <1>8, <1>9 DEF BluetoothTask

\* A request opens a stream at its first chunk, or is answered with a report.
LEMMA RequestKeepsWay ==
    ASSUME WayInv, PipeInv, WriteRequest
    PROVE  WayInv' /\ PipeInv'
<1> DEFINE i == Min(todo)
<1>1. RequestFile(i) /\ UNCHANGED <<files, connected, task, buffer, receiving, chunks>>
  BY DEF WriteRequest, worker
<1>2. Holding' <=> Holding
  BY <1>1 DEF Holding
<1> HIDE DEF i
<1>3. CASE exporting
  <2>1. UNCHANGED <<stream, air>>
    BY <1>1, <1>3 DEF RequestFile, device
  <2> QED  BY <1>1, <1>2, <2>1, WayFrame DEF WayInv, PipeInv, Upcoming
<1>4. CASE ~exporting /\ i \in files
  <2>1. stream' = [file |-> i, at |-> 0, sent |-> 0, active |-> TRUE] /\ UNCHANGED air
    BY <1>1, <1>4 DEF RequestFile
  <2>2. stream' \in [file : DOMAIN Length \cup {0}, at : Nat, sent : Nat, active : BOOLEAN]
        /\ stream'.file \in DOMAIN Length
    BY <2>1, <1>4 DEF WayInv
  <2>3. Upcoming'.n = 1
    BY <2>1 DEF Upcoming
  <2>4. Follow(Latest, Upcoming')
    BY <2>3, LatestIsItem, ItemFacts, ChunkFacts DEF Follow
  <2>5. Holding => Follow(buffer, Upcoming')
    BY <2>3, ChunkFacts DEF Follow, WayInv
  <2> QED  BY <1>1, <1>2, <2>1, <2>2, <2>4, <2>5, WayFrame DEF WayInv, PipeInv
<1>5. CASE ~exporting /\ i \notin files
  <2>1. stream' = NoStream /\ Notify(Failed)
    BY <1>1, <1>5 DEF RequestFile
  <2>2. /\ air' \in Seq(Item) /\ (~connected => air' = <<>>)
        /\ \A k \in 1..Len(air') - 1 : Follow(air'[k], air'[k + 1])
        /\ receiving /\ chunks # <<>> /\ air' # <<>> => Follow(chunks[Len(chunks)], air'[1])
        /\ Latest' = Failed
    BY <1>1, <2>1, NotifyKeeps, ReportsAreItems, ReportsAreFree DEF PipeInv
  <2>3. ~stream'.active
        /\ stream' \in [file : DOMAIN Length \cup {0}, at : Nat, sent : Nat, active : BOOLEAN]
    BY <2>1 DEF NoStream
  <2>4. Follow(Latest', buffer')
    BY <2>2, ReportsAreFree
  <2> QED  BY <1>1, <1>2, <2>2, <2>3, <2>4 DEF WayInv, PipeInv
<1> QED  BY <1>3, <1>4, <1>5

\* The list and its report are free of what came before.
LEMMA ListKeepsWay ==
    ASSUME WayInv, PipeInv, RequestList
    PROVE  WayInv' /\ PipeInv'
<1>1. air' = air \o <<List, Complete>>
      /\ UNCHANGED <<files, connected, stream, task, buffer, receiving, chunks>>
  BY DEF RequestList, device, worker
<1>2. /\ air \in Seq(Item) /\ Len(air) \in Nat /\ List \in Item /\ Complete \in Item
      /\ connected
  BY ReportsAreItems DEF WayInv, RequestList
<1>3. /\ air' \in Seq(Item) /\ air' # <<>> /\ Len(air') = Len(air) + 2
      /\ air'[Len(air) + 1] = List /\ air'[Len(air) + 2] = Complete
      /\ \A k \in 1..Len(air) : air'[k] = air[k]
  BY <1>1, <1>2
<1>4. ASSUME NEW k \in 1..Len(air') - 1
      PROVE  Follow(air'[k], air'[k + 1])
  <2>1. CASE k \in 1..Len(air) - 1
    <3>1. air'[k] = air[k] /\ air'[k + 1] = air[k + 1]
      BY <1>2, <1>3, <2>1
    <3> QED  BY <2>1, <3>1 DEF PipeInv
  <2>2. CASE k = Len(air)
    BY <1>3, <2>2, ReportsAreFree
  <2>3. CASE k = Len(air) + 1
    BY <1>3, <2>3, ReportsAreFree
  <2> QED  BY <1>2, <1>3, <2>1, <2>2, <2>3
<1>5. receiving /\ chunks # <<>> => Follow(chunks[Len(chunks)], air'[1])
  <2>1. CASE air = <<>>
    BY <1>3, <2>1, ReportsAreFree
  <2>2. CASE air # <<>>
    <3>1. air'[1] = air[1]
      BY <1>2, <1>3, <2>2, BothEnds
    <3> QED  BY <2>2, <3>1 DEF PipeInv
  <2> QED  BY <2>1, <2>2
<1>6. Latest' = Complete /\ Holding' = Holding /\ Upcoming' = Upcoming
  BY <1>1, <1>3 DEF Latest, Holding, Upcoming
<1>7. WayInv'
  BY <1>1, <1>2, <1>3, <1>6 DEF WayInv
<1> QED  BY <1>1, <1>4, <1>5, <1>6, <1>7, ReportsAreFree DEF PipeInv

\* What is delivered goes from the front of the air to the end of the chunks.
LEMMA ReceiveKeepsWay ==
    ASSUME WayInv, PipeInv, Receive
    PROVE  WayInv' /\ PipeInv'
<1>1. /\ air # <<>> /\ air' = Tail(air) /\ UNCHANGED <<files, connected, stream, task, buffer>>
      /\ Head(air) \in {Complete, Failed} => receiving' = FALSE /\ chunks' = chunks
      /\ Head(air) \notin {Complete, Failed} =>
             /\ receiving' = receiving
             /\ chunks' = IF receiving THEN Append(chunks, Head(air)) ELSE chunks
  BY DEF Receive, device, worker
<1>2. /\ air' \in Seq(Item) /\ Head(air) = air[1] /\ Head(air) \in Item
      /\ Len(air) \in Nat \ {0} /\ Len(air') = Len(air) - 1
      /\ \A k \in 1..Len(air) - 1 : air'[k] = air[k + 1]
      /\ air' # <<>> <=> Len(air) > 1
  BY <1>1, FromTheFront DEF WayInv
<1>3. chunks' \in Seq(Heard)
      /\ (receiving' => chunks' # <<>> /\ chunks'[Len(chunks')] = Head(air))
  <2>1. CASE Head(air) \notin {Complete, Failed} /\ receiving
    <3>1. Head(air) \in Heard
      BY <1>2, <2>1, ItemFacts
    <3>2. chunks' = Append(chunks, Head(air))
      BY <1>1, <2>1
    <3> QED  BY <3>1, <3>2, AtTheEnd DEF WayInv
  <2>2. CASE ~(Head(air) \notin {Complete, Failed} /\ receiving)
    BY <1>1, <2>2 DEF WayInv
  <2> QED  BY <2>1, <2>2
<1>4. ASSUME NEW k \in 1..Len(air') - 1
      PROVE  Follow(air'[k], air'[k + 1])
  <2>1. /\ k + 1 \in 1..Len(air) - 1 /\ air'[k] = air[k + 1] /\ air'[k + 1] = air[(k + 1) + 1]
    BY <1>2
  <2> QED  BY <2>1 DEF PipeInv
<1>5. receiving' /\ chunks' # <<>> /\ air' # <<>> => Follow(chunks'[Len(chunks')], air'[1])
  <2> SUFFICES ASSUME receiving', air' # <<>>  PROVE Follow(chunks'[Len(chunks')], air'[1])
    OBVIOUS
  <2>1. 1 \in 1..Len(air) - 1 /\ air'[1] = air[1 + 1] /\ chunks'[Len(chunks')] = air[1]
    BY <1>2, <1>3
  <2> QED  BY <2>1 DEF PipeInv
<1>6. Latest' = Latest \/ Latest' = Failed
  <2>1. Latest = air[Len(air)]
    BY <1>1 DEF Latest
  <2>2. CASE air' # <<>>
    <3>1. Len(air) - 1 \in 1..Len(air) - 1 /\ air'[Len(air')] = air[Len(air)]
      BY <1>2, <2>2
    <3> QED  BY <2>1, <2>2, <3>1 DEF Latest
  <2>3. CASE air' = <<>>
    <3>1. Len(air) = 1
      BY <1>2, <2>3
    <3> QED  BY <1>2, <1>3, <2>1, <2>3, <3>1 DEF Latest
  <2> QED  BY <2>2, <2>3
<1>7. Holding' = Holding /\ Upcoming' = Upcoming
  BY <1>1 DEF Holding, Upcoming
<1>8. WayInv'
  <2>1. ~connected => FALSE
    BY <1>1 DEF WayInv
  <2> QED  BY <1>1, <1>2, <1>3, <1>7, <2>1 DEF WayInv
<1> QED  BY <1>1, <1>4, <1>5, <1>6, <1>7, <1>8, ReportsAreFree DEF PipeInv

LEMMA OtherStepsKeepWay ==
    ASSUME WayInv, PipeInv,
           Disconnect \/ StartScript \/ ReceiveList \/ FinishScript \/ BeginReceiving \/ Received
               \/ GiveUp \/ Process \/ (\E i \in DOMAIN Length : RemoveFile(i)) \/ UNCHANGED vars
    PROVE  WayInv' /\ PipeInv'
<1>1. CASE Disconnect
  <2>1. /\ air' = <<>> /\ chunks' = <<>> /\ UNCHANGED <<files, task, buffer>>
        /\ stream' = NoStream \/ stream' = stream
    BY <1>1 DEF Disconnect, EndExport, StopExport, device, worker
  <2>2. /\ stream' \in [file : DOMAIN Length \cup {0}, at : Nat, sent : Nat, active : BOOLEAN]
        /\ stream'.active => stream' = stream
    <3>1. CASE stream' = NoStream
      BY <3>1 DEF NoStream
    <3>2. CASE stream' = stream
      BY <3>2 DEF WayInv
    <3> QED  BY <2>1, <3>1, <3>2
  <2>3. Latest' = Failed
    BY <2>1 DEF Latest
  <2>4. Holding' = Holding /\ Follow(Latest', buffer') /\ Follow(Latest', Upcoming')
    BY <2>1, <2>3, ReportsAreFree DEF Holding
  <2>5. WayInv'
    BY <2>1, <2>2, <2>4 DEF WayInv
  <2>6. Holding' /\ stream'.active => Follow(buffer', Upcoming')
    BY <2>1, <2>2, <2>4 DEF PipeInv, Upcoming
  <2> QED  BY <2>1, <2>4, <2>5, <2>6 DEF PipeInv
<1>2. CASE BeginReceiving
  <2>1. chunks' = <<>> /\ UNCHANGED <<files, connected, stream, task, buffer, air>>
    BY <1>2 DEF BeginReceiving, device, worker
  <2>2. Latest' = Latest \/ Latest' = Failed
    BY <2>1 DEF Latest
  <2>3. Holding' = Holding /\ Upcoming' = Upcoming
    BY <2>1 DEF Holding, Upcoming
  <2>4. WayInv'
    BY <2>1, <2>3 DEF WayInv
  <2> QED  BY <2>1, <2>2, <2>3, <2>4, ReportsAreFree DEF PipeInv
<1>3. CASE StartScript
  <2>1. UNCHANGED <<files, stream, task, buffer, air>> /\ chunks' = <<>> /\ connected'
    BY <1>3 DEF StartScript, device, worker
  <2>2. Latest' = Latest \/ Latest' = Failed
    BY <2>1 DEF Latest
  <2>3. Holding' = Holding /\ Upcoming' = Upcoming
    BY <2>1 DEF Holding, Upcoming
  <2>4. WayInv'
    BY <2>1, <2>3 DEF WayInv
  <2> QED  BY <2>1, <2>2, <2>3, <2>4, ReportsAreFree DEF PipeInv
<1>4. CASE \E i \in DOMAIN Length : RemoveFile(i)
  <2>1. /\ UNCHANGED <<connected, stream, task, buffer, air, receiving, chunks>>
        /\ files' \subseteq files
    BY <1>4 DEF RemoveFile, device, worker, script
  <2> QED  BY <2>1, WayFrame DEF WayInv, PipeInv, Holding, Upcoming
<1>5. CASE ReceiveList \/ FinishScript \/ Received \/ GiveUp \/ Process \/ UNCHANGED vars
  <2>1. UNCHANGED <<files, connected, stream, task, buffer, air, receiving, chunks>>
    BY <1>5 DEF ReceiveList, FinishScript, Received, GiveUp, Process, vars, device, worker, script
  <2> QED  BY <2>1, WayFrame DEF WayInv, PipeInv, Holding, Upcoming
<1> QED  BY <1>1, <1>2, <1>3, <1>4, <1>5

-----------------------------------------------------------------------------
\* What the client keeps.

\* A chunk in its place is of the file of the one before.
LEMMA ReceiveKeepsPlaces ==
    ASSUME WayInv, PipeInv, PlaceInv, Receive
    PROVE  PlaceInv'
<1>1. CASE chunks' = chunks
  BY <1>1 DEF PlaceInv, InPlace
<1>2. CASE chunks' # chunks
  <2>1. /\ air # <<>> /\ Head(air) \notin {Complete, Failed} /\ receiving
        /\ chunks' = Append(chunks, Head(air))
    BY <1>2 DEF Receive
  <2>2. Head(air) = air[1] /\ Head(air) \in Heard
    <3>1. Head(air) = air[1] /\ Head(air) \in Item
      BY <2>1, FromTheFront DEF WayInv
    <3> QED  BY <2>1, <3>1, ItemFacts
  <2>3. /\ Len(chunks') = Len(chunks) + 1 /\ Len(chunks) \in Nat
        /\ chunks'[Len(chunks) + 1] = air[1]
        /\ \A k \in 1..Len(chunks) : chunks'[k] = chunks[k]
    BY <2>1, <2>2, AtTheEnd DEF WayInv
  <2> SUFFICES ASSUME NEW m \in 1..Len(chunks'), \A n \in 1..m : chunks'[n].n = n,
                      NEW n \in 1..m
               PROVE  chunks'[n].file = chunks'[1].file
    BY DEF PlaceInv, InPlace
  <2>4. CASE m <= Len(chunks)
    <3>1. m \in 1..Len(chunks) /\ \A j \in 1..m : chunks'[j] = chunks[j]
      BY <2>3, <2>4
    <3>2. \A j \in 1..m : chunks[j].file = chunks[1].file
      BY <3>1 DEF PlaceInv, InPlace
    <3> QED  BY <3>1, <3>2
  <2>5. CASE m = Len(chunks) + 1 /\ chunks # <<>>
    <3>1. Len(chunks) \in 1..Len(chunks) /\ 1 \in 1..Len(chunks)
      BY <2>5, BothEnds DEF WayInv
    <3>2. \A j \in 1..Len(chunks) : chunks[j].n = j
      BY <2>3, <2>5
    <3>3. \A j \in 1..Len(chunks) : chunks[j].file = chunks[1].file
      BY <3>1, <3>2 DEF PlaceInv, InPlace
    <3>4. air[1].n = chunks[Len(chunks)].n + 1
      BY <2>3, <2>5, <3>1, <3>2
    <3>5. chunks[Len(chunks)].file # 0 /\ air[1].file # 0
      <4>1. chunks[Len(chunks)] \in Heard /\ chunks[Len(chunks)].n # 0
        BY <2>5, <3>1, <3>2, BothEnds DEF WayInv
      <4>2. air[1] \in Heard /\ air[1].n # 0
        BY <2>2, <2>3, <2>5
      <4>3. chunks[Len(chunks)] \in Chunk /\ air[1] \in Chunk
        BY <4>1, <4>2, ItemFacts, ChunksAreItems
      <4> QED  BY <4>3, ChunkFacts
    <3>6. air[1].file = chunks[Len(chunks)].file
      BY <2>1, <2>5, <3>4, <3>5 DEF PipeInv, Follow
    <3>7. air[1].file = chunks[1].file
      BY <3>1, <3>3, <3>6
    <3> QED  BY <2>3, <2>5, <3>1, <3>3, <3>7
  <2>6. CASE chunks = <<>>
    BY <2>3, <2>6
  <2> QED  BY <2>3, <2>4, <2>5, <2>6
<1> QED  BY <1>1, <1>2

LEMMA PlaceStep ==
    ASSUME WayInv, PipeInv, PlaceInv, [Next]_vars
    PROVE  PlaceInv'
<1>1. CASE Receive
  BY <1>1, ReceiveKeepsPlaces
<1>2. CASE Disconnect \/ StartScript \/ BeginReceiving
  <2>1. chunks' = <<>>
    BY <1>2 DEF Disconnect, StartScript, BeginReceiving
  <2> QED  BY <2>1 DEF PlaceInv
<1>3. CASE BluetoothTask
  <2>1. UNCHANGED chunks
    BY <1>3 DEF BluetoothTask, CallOff, BeginPass, ReadChunk, ReadNothing, CountChunk, SendChunk,
                ClearProgress, CloseStream, ReportComplete, script
  <2> QED  BY <2>1 DEF PlaceInv, InPlace
<1>4. CASE RequestList \/ ReceiveList \/ FinishScript \/ WriteRequest \/ Received \/ GiveUp \/ Process
               \/ (\E i \in DOMAIN Length : RemoveFile(i)) \/ UNCHANGED vars
  <2>1. UNCHANGED chunks
    BY <1>4 DEF RequestList, ReceiveList, FinishScript, WriteRequest, Received, GiveUp, Process,
                RemoveFile, script, vars
  <2> QED  BY <2>1 DEF PlaceInv, InPlace
<1> QED  BY <1>1, <1>2, <1>3, <1>4 DEF Next, Script

\* The parser takes nothing but the session that was asked for.
LEMMA ParsedIsSession ==
    ASSUME WayInv, PlaceInv, Parses
    PROVE  IsSession
<1>1. /\ chunks # <<>> /\ chunks[1].file = asked /\ chunks[1] # List
      /\ Len(chunks) >= Length[asked] /\ \A n \in 1..Length[asked] : chunks[n].n = n
  BY DEF Parses, InPlace
<1>2. chunks[1] \in Heard /\ Len(chunks) \in Nat
  BY <1>1, BothEnds DEF WayInv
<1>3. Length[asked] \in Nat
  BY <1>1, <1>2, FileAssumption DEF Heard, Chunk
<1> SUFFICES ASSUME NEW n \in 1..Length[asked]
             PROVE  chunks[n] = [file |-> asked, n |-> n]
  BY DEF IsSession
<1>4. Length[asked] \in 1..Len(chunks) /\ n \in 1..Len(chunks)
  BY <1>1, <1>2, <1>3
<1>5. chunks[n].file = asked /\ chunks[n].n = n
  BY <1>1, <1>4 DEF PlaceInv, InPlace
<1>6. chunks[n] \in Chunk
  <2>1. chunks[n] \in Heard
    BY <1>4 DEF WayInv
  <2> QED  BY <1>5, <2>1, ItemFacts, ChunksAreItems
<1> QED  BY <1>5, <1>6, ChunkFacts

LEMMA StoredStep ==
    ASSUME WayInv, PlaceInv, StoredAreWhole, [Next]_vars
    PROVE  StoredAreWhole'
<1>1. CASE Process
  <2>1. CASE Parses
    <3>1. stored' = stored \cup {[id |-> asked, whole |-> IsSession]}
      BY <1>1, <2>1 DEF Process
    <3>2. IsSession
      BY <2>1, ParsedIsSession
    <3> QED  BY <3>1, <3>2 DEF StoredAreWhole
  <2>2. CASE ~Parses
    BY <1>1, <2>2 DEF Process, StoredAreWhole
  <2> QED  BY <2>1, <2>2
<1>2. CASE ~Process
  <2>1. stored' = stored
    BY <1>2 DEF Next, Script, BluetoothTask, CallOff, BeginPass, ReadChunk, ReadNothing, CountChunk,
                SendChunk, ClearProgress, CloseStream, ReportComplete, StartScript, RequestList,
                ReceiveList, FinishScript, WriteRequest, BeginReceiving, Receive, Received, GiveUp, RemoveFile, Disconnect,
                vars
  <2> QED  BY <2>1 DEF StoredAreWhole
<1> QED  BY <1>1, <1>2

-----------------------------------------------------------------------------

LEMMA StreamInit == Init => StreamInv
<1> SUFFICES ASSUME Init PROVE StreamInv
  OBVIOUS
<1>1. WayInv
  BY DEF Init, WayInv, NoStream, Holding
<1>2. PipeInv
  BY DEF Init, PipeInv, NoStream, Holding
<1> QED  BY <1>1, <1>2 DEF Init, StreamInv, PlaceInv, StoredAreWhole

LEMMA StreamStep == StreamInv /\ [Next]_vars => StreamInv'
<1> SUFFICES ASSUME StreamInv, [Next]_vars PROVE StreamInv'
  OBVIOUS
<1> USE DEF StreamInv
<1>1. WayInv' /\ PipeInv'
  <2>1. CASE BluetoothTask
    BY <2>1, TaskKeepsWay
  <2>2. CASE WriteRequest
    BY <2>2, RequestKeepsWay
  <2>3. CASE Receive
    BY <2>3, ReceiveKeepsWay
  <2>4. CASE RequestList
    BY <2>4, ListKeepsWay
  <2> QED  BY <2>1, <2>2, <2>3, <2>4, OtherStepsKeepWay DEF Next, Script
<1> QED  BY <1>1, PlaceStep, StoredStep

\* Whatever is missed, given up, cut short or exchanged under the reader, the
\* client stores a session only from its first chunk to its last.
THEOREM WholeFiles == Spec => []StoredAreWhole
<1>1. StreamInv => StoredAreWhole
  BY DEF StreamInv
<1> QED  BY <1>1, StreamInit, StreamStep, PTL DEF Spec

-----------------------------------------------------------------------------
\* The screen: what a trail is made of.

LEMMA TailFacts ==
    ASSUME NEW s \in Seq(Event), s # <<>>
    PROVE  /\ Tail(s) \in Seq(Event) /\ Len(Tail(s)) = Len(s) - 1
           /\ Linked(s) => Linked(Tail(s))
           /\ Tail(s) = <<>> => Len(s) = 1 /\ Last(s) = s[1]
           /\ Tail(s) # <<>> =>
                  /\ Last(Tail(s)) = Last(s)
                  /\ Len(s) >= 2 /\ Tail(s)[1] = s[2]
<1>1. /\ Len(s) \in Nat /\ Len(s) >= 1
      /\ Tail(s) \in Seq(Event) /\ Len(Tail(s)) = Len(s) - 1
      /\ \A i \in 1..Len(s) - 1 : Tail(s)[i] = s[i + 1]
  OBVIOUS
<1>2. ASSUME Linked(s)
      PROVE  Linked(Tail(s))
  <2> SUFFICES ASSUME NEW i \in 2..Len(Tail(s))
               PROVE  /\ Tail(s)[i] = "INITIALIZING" => Tail(s)[i - 1] = "STOPPED"
                      /\ Tail(s)[i] = "TIME_ADDITIONAL_PULSE" => Tail(s)[i - 1] = "COMPLETED"
    BY DEF Linked
  <2>1. i \in 1..Len(s) - 1 /\ i - 1 \in 1..Len(s) - 1 /\ i + 1 \in 2..Len(s) /\ (i - 1) + 1 = i
        /\ (i + 1) - 1 = i
    BY <1>1
  <2>2. Tail(s)[i] = s[i + 1] /\ Tail(s)[i - 1] = s[i]
    BY <1>1, <2>1
  <2>3. /\ s[i + 1] = "INITIALIZING" => s[(i + 1) - 1] = "STOPPED"
        /\ s[i + 1] = "TIME_ADDITIONAL_PULSE" => s[(i + 1) - 1] = "COMPLETED"
    BY <1>2, <2>1 DEF Linked
  <2> QED
    BY <2>1, <2>2, <2>3
<1>3. ASSUME Tail(s) = <<>>
      PROVE  Len(s) = 1 /\ Last(s) = s[1]
  <2>0. Len(<<>>) = 0
    OBVIOUS
  <2>1. Len(Tail(s)) = 0
    BY <1>3, <2>0, Zenon
  <2>2. Len(s) \in Nat /\ Len(Tail(s)) = Len(s) - 1
    BY <1>1
  <2>3. Len(s) = 1
    BY <2>1, <2>2
  <2> QED
    BY <2>3 DEF Last
<1>4. ASSUME Tail(s) # <<>>
      PROVE  Last(Tail(s)) = Last(s) /\ Len(s) >= 2 /\ Tail(s)[1] = s[2]
  <2>1. Len(Tail(s)) >= 1
    BY <1>1, <1>4
  <2>2. Len(s) - 1 \in 1..Len(s) - 1 /\ 1 \in 1..Len(s) - 1 /\ (Len(s) - 1) + 1 = Len(s)
    BY <1>1, <2>1
  <2>3. Tail(s)[Len(s) - 1] = s[Len(s)] /\ Tail(s)[1] = s[2]
    BY <1>1, <2>2
  <2> QED
    BY <1>1, <2>1, <2>3 DEF Last
<1> QED
  BY <1>1, <1>2, <1>3, <1>4

LEMMA AppendFacts ==
    ASSUME NEW s \in Seq(Event), NEW e \in Event,
           e = "INITIALIZING" => s = <<>> \/ Last(s) = "STOPPED",
           e = "TIME_ADDITIONAL_PULSE" => s = <<>> \/ Last(s) = "COMPLETED"
    PROVE  /\ Append(s, e) \in Seq(Event) /\ Append(s, e) # <<>>
           /\ Len(Append(s, e)) = Len(s) + 1
           /\ Last(Append(s, e)) = e
           /\ Append(s, e)[1] = IF s = <<>> THEN e ELSE s[1]
           /\ Linked(s) => Linked(Append(s, e))
<1>1. /\ Len(s) \in Nat
      /\ Append(s, e) \in Seq(Event) /\ Append(s, e) # <<>>
      /\ Len(Append(s, e)) = Len(s) + 1
      /\ \A i \in 1..Len(s) : Append(s, e)[i] = s[i]
      /\ Append(s, e)[Len(s) + 1] = e
  OBVIOUS
<1>2. Last(Append(s, e)) = e
  BY <1>1 DEF Last
<1>3. Append(s, e)[1] = IF s = <<>> THEN e ELSE s[1]
  OBVIOUS
<1>4. ASSUME Linked(s)
      PROVE  Linked(Append(s, e))
  <2> SUFFICES ASSUME NEW i \in 2..Len(s) + 1
               PROVE  /\ Append(s, e)[i] = "INITIALIZING" => Append(s, e)[i - 1] = "STOPPED"
                      /\ Append(s, e)[i] = "TIME_ADDITIONAL_PULSE" =>
                             Append(s, e)[i - 1] = "COMPLETED"
    BY <1>1 DEF Linked
  <2>1. i - 1 \in 1..Len(s) /\ (i \in 2..Len(s) \/ (i = Len(s) + 1 /\ i - 1 = Len(s)))
    BY <1>1
  <2>2. Append(s, e)[i - 1] = s[i - 1]
    BY <1>1, <2>1
  <2>3. CASE i \in 2..Len(s)
    <3>1. Append(s, e)[i] = s[i]
      BY <1>1, <2>3
    <3> QED
      BY <1>4, <2>2, <2>3, <3>1 DEF Linked
  <2>4. CASE i = Len(s) + 1 /\ i - 1 = Len(s)
    <3>1. Append(s, e)[i] = e /\ Append(s, e)[i - 1] = Last(s) /\ s # <<>>
      BY <1>1, <2>1, <2>2, <2>4 DEF Last
    <3> QED
      BY <3>1
  <2> QED
    BY <2>1, <2>3, <2>4
<1> QED
  BY <1>1, <1>2, <1>3, <1>4

\* What becomes of the trail, by what the steps do to its two parts.
LEMMA TrailFacts ==
    ASSUME NEW q \in Seq(Event), NEW u \in Seq(Event)
    PROVE  /\ q \o u \in Seq(Event) /\ Len(q \o u) = Len(q) + Len(u)
           /\ q \o <<>> = q
           /\ q \o u = <<>> <=> q = <<>> /\ u = <<>>
           /\ u # <<>> => Append(q, Head(u)) \o Tail(u) = q \o u
           /\ q # <<>> => Tail(q) \o u = Tail(q \o u) /\ Head(q) = (q \o u)[1]
<1>1. q \o u \in Seq(Event) /\ Len(q \o u) = Len(q) + Len(u)
  OBVIOUS
<1>2. q \o <<>> = q
  OBVIOUS
<1>3. q \o u = <<>> <=> q = <<>> /\ u = <<>>
  BY <1>1
<1>4. ASSUME u # <<>>
      PROVE  Append(q, Head(u)) \o Tail(u) = q \o u
  <2>1. Head(u) \in Event /\ Tail(u) \in Seq(Event) /\ u = <<Head(u)>> \o Tail(u)
    BY <1>4
  <2>2. <<Head(u)>> \in Seq(Event)
    BY <2>1
  <2>3. (q \o <<Head(u)>>) \o Tail(u) = q \o (<<Head(u)>> \o Tail(u))
    BY <2>1, <2>2, ConcatAssociative
  <2>4. Append(q, Head(u)) = q \o <<Head(u)>>
    BY <2>1, AppendIsConcat
  <2> QED
    BY <2>1, <2>3, <2>4
<1>5. ASSUME q # <<>>
      PROVE  Tail(q) \o u = Tail(q \o u) /\ Head(q) = (q \o u)[1]
  <2>1. Head(q) \in Event /\ Tail(q) \in Seq(Event) /\ q = <<Head(q)>> \o Tail(q)
    BY <1>5
  <2>2. <<Head(q)>> \in Seq(Event)
    BY <2>1
  <2>3. q \o u = <<Head(q)>> \o (Tail(q) \o u)
    BY <2>1, <2>2, ConcatAssociative
  <2>4. Tail(q) \o u \in Seq(Event)
    BY <2>1
  <2>5. Tail(<<Head(q)>> \o (Tail(q) \o u)) = Tail(q) \o u
    BY <2>2, <2>4
  <2>6. (q \o u)[1] = q[1]
    <3>1. Len(q) >= 1 /\ Len(q) \in Nat /\ Len(u) \in Nat
      BY <1>5
    <3>2. \A i \in 1..Len(q) + Len(u) :
            (q \o u)[i] = IF i <= Len(q) THEN q[i] ELSE u[i - Len(q)]
      BY ConcatProperties
    <3> QED
      BY <3>1, <3>2
  <2>7. Tail(q) \o u = Tail(q \o u)
    BY <2>3, <2>5, Zenon
  <2>8. Head(q) = q[1]
    BY <1>5
  <2> QED
    BY <2>6, <2>7, <2>8, Zenon
<1> QED
  BY <1>1, <1>2, <1>3, <1>4, <1>5

LEMMA TrailType ==
    ASSUME ScreenTypeOK
    PROVE  Trail \in Seq(Event) /\ Len(Trail) \in Nat /\ Len(Trail) = Len(events) + Len(unsent)
           /\ Len(events) \in Nat /\ Len(unsent) \in Nat
<1>1. events \in Seq(Event) /\ unsent \in Seq(Event)
  BY DEF ScreenTypeOK
<1> QED
  BY <1>1, TrailFacts DEF Trail

-----------------------------------------------------------------------------
\* The steps, by what they do to the trail, the phase and the screen.

known == <<phase, acknowledged, turn, screen, displaced>>

Still == UNCHANGED <<Trail, known>>

Grow ==
    /\ phase \in {"INITIALIZING", "ACTIVE", "TIME_ADDITIONAL_PULSE"}
    /\ phase' \in {"ACTIVE", "PURGE_CONFIRM", "COMPLETED", "TIMEOUT"}
    /\ \/ Trail' = Append(Trail, phase')
       \/ phase' = "TIMEOUT" /\ Trail' = Append(Append(Trail, "PURGE_CONFIRM"), "TIMEOUT")
    /\ UNCHANGED <<acknowledged, turn, screen, displaced>>

Take ==
    /\ turn = "events" /\ Trail # <<>>
    /\ Show(Trail[1]) /\ Trail' = Tail(Trail)
    /\ displaced' = (displaced /\ Trail[1] = "TIME_ADDITIONAL_PULSE")
    /\ UNCHANGED <<phase, turn>>

Emitted(p) == phase' = p /\ Trail' = Append(Trail, EventOf(p))

Begins ==
    /\ screen = "READY" /\ phase = "IDLE"
    /\ Emitted("INITIALIZING") /\ acknowledged' = FALSE
    /\ UNCHANGED screen
Ends ==
    /\ phase # "IDLE"
    /\ \/ screen = "GRINDING" \/ (screen = "PURGE_CONFIRM" /\ phase = "PURGE_CONFIRM")
       \/ screen \in {"GRIND_COMPLETE", "GRIND_TIMEOUT"} /\ phase \in Finished
    /\ Emitted("IDLE") /\ UNCHANGED <<acknowledged, screen>>
Continues ==
    /\ screen = "PURGE_CONFIRM" /\ phase = "PURGE_CONFIRM" /\ screen' = "GRINDING"
    /\ Emitted("ACTIVE") /\ UNCHANGED acknowledged
ContinuesStopped ==
    /\ screen = "PURGE_CONFIRM" /\ phase = "IDLE" /\ screen' = "GRINDING"
    /\ UNCHANGED <<phase, Trail, acknowledged>>
Pulses ==
    /\ screen = "GRIND_COMPLETE" /\ phase = "COMPLETED"
    /\ Emitted("TIME_ADDITIONAL_PULSE") /\ UNCHANGED <<acknowledged, screen>>
Pressed ==
    /\ turn # "events"
    /\ Begins \/ Ends \/ Continues \/ ContinuesStopped \/ Pulses
    /\ UNCHANGED <<turn, displaced>>

Export ==
    /\ turn = "update" /\ turn' = "input"
    /\ \/ screen' = "OTA_UPDATE" /\ displaced' = TRUE
       \/ screen' = "READY" /\ displaced' = (phase # "IDLE")
       \/ UNCHANGED <<screen, displaced>>
    /\ UNCHANGED <<Trail, phase, acknowledged>>

Walk ==
    /\ {screen, screen'} \subseteq {"READY", "MENU"}
    /\ UNCHANGED <<Trail, phase, acknowledged, turn, displaced>>

GoOn ==
    /\ \/ turn = "events" /\ Trail = <<>> /\ turn' = "remote"
       \/ turn = "remote" /\ turn' = "update"
       \/ turn = "input" /\ turn' = "events"
    /\ UNCHANGED <<Trail, phase, acknowledged, screen, displaced>>

LEMMA SameTrail ==
    ASSUME UNCHANGED <<events, unsent>>
    PROVE  Trail' = Trail
BY DEF Trail

LEMMA GrowStep ==
    ASSUME ScreenTypeOK, ChangePhase
    PROVE  Grow
<1>1. PICK path \in Passes(phase) :
          phase' = path[Len(path)] /\ unsent' = path
  BY DEF ChangePhase
<1>2. unsent = <<>> /\ events' = events /\ UNCHANGED <<acknowledged, turn, screen, displaced>>
  BY DEF ChangePhase, queue, display, transfers
<1>3. events \in Seq(Event) /\ Trail = events /\ Trail' = events \o path
  BY <1>1, <1>2, TrailFacts DEF ScreenTypeOK, Trail
<1>4. /\ phase \in {"INITIALIZING", "ACTIVE", "TIME_ADDITIONAL_PULSE"}
      /\ path \in {<<"ACTIVE">>, <<"PURGE_CONFIRM">>, <<"PURGE_CONFIRM", "TIMEOUT">>,
                   <<"COMPLETED">>, <<"TIMEOUT">>}
  BY <1>1 DEF Passes
<1>5. ASSUME NEW e \in {"ACTIVE", "PURGE_CONFIRM", "COMPLETED", "TIMEOUT"}, path = <<e>>
      PROVE  Grow
  <2>1. e \in Event /\ Len(path) = 1 /\ phase' = e
    BY <1>1, <1>5 DEF Event, Phase, Finished
  <2>2. Trail' = Append(Trail, e)
    BY <1>3, <1>5, <2>1, AppendIsConcat
  <2> QED
    BY <1>2, <1>4, <2>1, <2>2 DEF Grow
<1>6. ASSUME path = <<"PURGE_CONFIRM", "TIMEOUT">>
      PROVE  Grow
  <2>1. {"PURGE_CONFIRM", "TIMEOUT"} \subseteq Event /\ Len(path) = 2 /\ phase' = "TIMEOUT"
    BY <1>1, <1>6 DEF Event, Phase, Finished
  <2>2. Trail' = Append(Append(Trail, "PURGE_CONFIRM"), "TIMEOUT")
    BY <1>3, <1>6, <2>1
  <2> QED
    BY <1>2, <1>4, <2>1, <2>2 DEF Grow
<1> QED
  BY <1>4, <1>5, <1>6

\* An event that is not dropped is queued.
LEMMA SendStep ==
    ASSUME NEW e, Send(e), "dropped" \notin Lost
    PROVE  events' = Append(events, e)
BY DEF Send, Lost

LEMMA EmitStep ==
    ASSUME ScreenTypeOK, EmitEvent, amiss' = {}
    PROVE  Still
<1>1. unsent # <<>> /\ unsent' = Tail(unsent) /\ UNCHANGED known
  BY DEF EmitEvent, known, display, transfers
<1>2. "dropped" \notin Lost
  BY DEF EmitEvent
<1>3. events' = Append(events, Head(unsent))
  BY <1>2, SendStep DEF EmitEvent
<1>4. Trail' = Trail
  BY <1>1, <1>3, TrailFacts DEF Trail, ScreenTypeOK
<1> QED
  BY <1>1, <1>4 DEF Still

LEMMA TakeStep ==
    ASSUME ScreenTypeOK, HandleEvent
    PROVE  Take
<1>1. events # <<>> /\ events' = Tail(events) /\ unsent' = unsent
  BY DEF HandleEvent
<1>2. events \in Seq(Event) /\ unsent \in Seq(Event)
  BY DEF ScreenTypeOK
<1>3. Trail' = Tail(Trail) /\ Head(events) = Trail[1] /\ Trail # <<>>
  BY <1>1, <1>2, TrailFacts DEF Trail
<1>4. Show(Trail[1]) /\ displaced' = (displaced /\ Trail[1] = "TIME_ADDITIONAL_PULSE")
  BY <1>3 DEF HandleEvent
<1> QED
  BY <1>3, <1>4 DEF HandleEvent, Take

\* A handler whose event is neither dropped nor ahead of its time.
LEMMA SwitchStep ==
    ASSUME ScreenTypeOK, amiss' = {}, NEW p \in Phase, p # phase, Switch(p)
    PROVE  Emitted(p)
<1>1. /\ Send(EventOf(p)) /\ amiss' = amiss \cup Lost \cup Overtaken
      /\ phase' = p /\ unsent' = unsent
  BY DEF Switch
<1>2. "dropped" \notin Lost /\ unsent = <<>>
  BY <1>1 DEF Overtaken
<1>3. events' = Append(events, EventOf(p))
  BY <1>1, <1>2, SendStep
<1>4. events \in Seq(Event) /\ Trail = events /\ EventOf(p) \in Event
  BY <1>2, TrailFacts DEF ScreenTypeOK, Trail, EventOf, Event
<1>5. events' \in Seq(Event)
  BY <1>3, <1>4
<1>6. Trail' = events'
  BY <1>1, <1>2, <1>5, TrailFacts DEF Trail
<1> QED
  BY <1>1, <1>3, <1>4, <1>6 DEF Emitted

LEMMA NoSwitch ==
    ASSUME Switch(phase)
    PROVE  phase' = phase /\ Trail' = Trail
BY DEF Switch, Trail, queue

\* What is the same for buttons, remote commands and timers.
Handling == turn # "events" /\ amiss' = {} /\ UNCHANGED <<turn, displaced>>

LEMMA GrindButtonStep ==
    ASSUME ScreenTypeOK, Placed, Handling, PressGrindButton
    PROVE  Pressed \/ Still
<1>1. screen' = screen
  BY DEF PressGrindButton, display
<1>2. phase \in Phase
  BY DEF ScreenTypeOK
<1>3. CASE screen = "READY" /\ StartGrind
  <2>1. CASE phase = "IDLE"
    <3>1. Switch("INITIALIZING") /\ acknowledged' = FALSE
      BY <1>3, <2>1 DEF StartGrind
    <3>2. Emitted("INITIALIZING")
      BY <2>1, <3>1, SwitchStep DEF Handling, Phase
    <3> QED
      BY <1>1, <1>3, <2>1, <3>1, <3>2 DEF Pressed, Begins, Handling
  <2>2. CASE phase # "IDLE"
    <3>1. Switch(phase) /\ acknowledged' = acknowledged
      BY <1>3, <2>2 DEF StartGrind
    <3> QED
      BY <1>1, <3>1, NoSwitch DEF Still, known, Handling
  <2> QED
    BY <2>1, <2>2
<1>4. CASE screen \in {"GRINDING", "PURGE_CONFIRM"} /\ StopGrind
  <2>1. Switch("IDLE") /\ acknowledged' = acknowledged
    BY <1>4 DEF StopGrind
  <2>2. CASE phase # "IDLE"
    <3>1. screen = "GRINDING" \/ (screen = "PURGE_CONFIRM" /\ phase = "PURGE_CONFIRM")
      BY <1>4, <2>2 DEF Placed, Handling
    <3>2. Emitted("IDLE")
      BY <2>1, <2>2, SwitchStep DEF Handling, Phase
    <3> QED
      BY <1>1, <2>1, <2>2, <3>1, <3>2 DEF Pressed, Ends, Handling
  <2>3. CASE phase = "IDLE"
    BY <1>1, <2>1, <2>3, NoSwitch DEF Still, known, Handling
  <2> QED
    BY <2>2, <2>3
<1>5. CASE screen \in {"GRIND_COMPLETE", "GRIND_TIMEOUT"} /\ ReturnToIdle
  <2>1. acknowledged' = acknowledged
    BY <1>5 DEF ReturnToIdle
  <2>2. CASE phase \in Finished
    <3>1. Switch("IDLE") /\ phase # "IDLE"
      BY <1>5, <2>2 DEF ReturnToIdle, Finished
    <3>2. Emitted("IDLE")
      BY <3>1, SwitchStep DEF Handling, Phase
    <3> QED
      BY <1>1, <1>5, <2>1, <2>2, <3>1, <3>2 DEF Pressed, Ends, Handling
  <2>3. CASE phase \notin Finished
    <3>1. Switch(phase)
      BY <1>5, <2>3 DEF ReturnToIdle
    <3> QED
      BY <1>1, <2>1, <3>1, NoSwitch DEF Still, known, Handling
  <2> QED
    BY <2>2, <2>3
<1> QED
  BY <1>3, <1>4, <1>5 DEF PressGrindButton

LEMMA ContinueStep ==
    ASSUME ScreenTypeOK, Placed, Handling, PressContinueButton
    PROVE  Pressed
<1>1. screen = "PURGE_CONFIRM" /\ screen' = "GRINDING" /\ acknowledged' = acknowledged
  BY DEF PressContinueButton, SwitchTo, ContinueFromPurge
<1>2. CASE phase = "PURGE_CONFIRM"
  <2>1. Switch("ACTIVE")
    BY <1>2 DEF PressContinueButton, ContinueFromPurge
  <2>2. Emitted("ACTIVE")
    BY <1>2, <2>1, SwitchStep DEF Handling, Phase
  <2> QED
    BY <1>1, <1>2, <2>2 DEF Pressed, Continues, Handling
<1>3. CASE phase # "PURGE_CONFIRM"
  <2>1. phase = "IDLE"
    BY <1>1, <1>3 DEF Placed, Handling
  <2>2. Switch(phase)
    BY <1>3 DEF PressContinueButton, ContinueFromPurge
  <2> QED
    BY <1>1, <2>1, <2>2, NoSwitch DEF Pressed, ContinuesStopped, Handling
<1> QED
  BY <1>2, <1>3

LEMMA PulseStep ==
    ASSUME ScreenTypeOK, Handling, PressPulseButton
    PROVE  Pressed
<1>1. screen = "GRIND_COMPLETE" /\ phase = "COMPLETED" /\ screen' = screen
      /\ Switch("TIME_ADDITIONAL_PULSE") /\ acknowledged' = acknowledged
  BY DEF PressPulseButton, StartAdditionalPulse, display
<1>2. Emitted("TIME_ADDITIONAL_PULSE")
  BY <1>1, SwitchStep DEF Handling, Phase
<1> QED
  BY <1>1, <1>2 DEF Pressed, Pulses, Handling

\* A timer that is due does what the grind button does on its screen.
LEMMA TimerStep ==
    ASSUME ScreenTypeOK, TimerBelongsToScreen, Handling,
           timer # NoTimer, ReturnToIdle, UNCHANGED screen
    PROVE  Pressed \/ Still
<1>1. screen \in {"GRIND_COMPLETE", "GRIND_TIMEOUT"} /\ acknowledged' = acknowledged
  BY DEF ScreenTypeOK, TimerBelongsToScreen, ReturnToIdle
<1>2. CASE phase \in Finished
  <2>1. Switch("IDLE") /\ phase # "IDLE"
    BY <1>2 DEF ReturnToIdle, Finished
  <2>2. Emitted("IDLE")
    BY <2>1, SwitchStep DEF Handling, Phase
  <2> QED
    BY <1>1, <1>2, <2>1, <2>2 DEF Pressed, Ends, Handling
<1>3. CASE phase \notin Finished
  <2>1. Switch(phase)
    BY <1>3 DEF ReturnToIdle
  <2> QED
    BY <1>1, <2>1, NoSwitch DEF Still, known, Handling
<1> QED
  BY <1>2, <1>3

\* While nothing goes amiss.
LEMMA Shapes ==
    ASSUME ScreenTypeOK, TimerBelongsToScreen, Placed, amiss' = {}, [ScreenNext]_screenVars
    PROVE  Still \/ Grow \/ Take \/ Pressed \/ Export \/ Walk \/ GoOn
<1>1. CASE ChangePhase  BY <1>1, GrowStep
<1>2. CASE EmitEvent  BY <1>2, EmitStep
<1>3. CASE HandleEvent  BY <1>3, TakeStep
<1>4. CASE HandleRemoteCommand
  <2>1. Handling
    BY <1>4 DEF HandleRemoteCommand, Handling, transfers
  <2>2. Obey(Head(remote))
    BY <1>4 DEF HandleRemoteCommand
  <2>3. CASE UNCHANGED <<grinder, queue, display>>
    BY <2>1, <2>3, SameTrail DEF Still, known, Handling, grinder, queue, display
  <2> QED
    BY <2>1, <2>2, <2>3, GrindButtonStep, ContinueStep DEF Obey
<1>5. CASE PressButton
  <2>1. Handling
    BY <1>5 DEF PressButton, Handling, transfers
  <2> QED
    BY <1>5, <2>1, GrindButtonStep, ContinueStep, PulseStep DEF PressButton
<1>6. CASE TimerFires
  <2>1. Handling
    BY <1>6 DEF TimerFires, Handling, transfers
  <2> QED
    BY <1>6, <2>1, TimerStep DEF TimerFires
<1>7. CASE UpdateControllers
  <2>1. turn = "update" /\ turn' = "input" /\ UNCHANGED <<phase, acknowledged>> /\ Trail' = Trail
    BY <1>7, SameTrail DEF UpdateControllers, grinder, queue
  <2> QED
    BY <1>7, <2>1
       DEF UpdateControllers, ShowExport, HideExport, KeepScreen, SwitchTo, Export, display
<1>8. CASE Navigate
  <2>1. UNCHANGED <<phase, acknowledged, turn, displaced>> /\ Trail' = Trail
    BY <1>8, SameTrail DEF Navigate, grinder, queue, transfers
  <2> QED
    BY <1>8, <2>1 DEF Navigate, SwitchTo, Walk
<1>9. CASE NextTurn
  <2>1. UNCHANGED <<phase, acknowledged, screen, displaced>> /\ Trail' = Trail /\ unsent = <<>>
    BY <1>9, SameTrail DEF NextTurn, grinder, transfers, display
  <2>2. events = <<>> => Trail = <<>>
    BY <2>1 DEF Trail
  <2> QED
    BY <1>9, <2>1, <2>2 DEF NextTurn, GoOn
<1>10. CASE ReceiveCommand \/ ExportBegins \/ ExportEnds
  BY <1>10, SameTrail DEF ReceiveCommand, ExportBegins, ExportEnds, Still, known, grinder, queue,
     display, transfers
<1>11. CASE UNCHANGED screenVars
  BY <1>11, SameTrail DEF screenVars, Still, known, grinder, queue, display, transfers
<1> QED
  BY <1>1, <1>2, <1>3, <1>4, <1>5, <1>6, <1>7, <1>8, <1>9, <1>10, <1>11
  DEF ScreenNext, Core0, Loop, Input, Outside

-----------------------------------------------------------------------------
\* The inductive steps, from the shapes.

\* What is appended, in a trail that tells the phase.
LEMMA EmittedFacts ==
    ASSUME Trail \in Seq(Event), Told, NEW p \in Phase, Emitted(p),
           p = "INITIALIZING" => phase = "IDLE",
           p = "TIME_ADDITIONAL_PULSE" => phase = "COMPLETED"
    PROVE  /\ Trail' # <<>> /\ Len(Trail') = Len(Trail) + 1
           /\ Last(Trail') = EventOf(p)
           /\ Trail'[1] = IF Trail = <<>> THEN EventOf(p) ELSE Trail[1]
           /\ Linked(Trail) => Linked(Trail')
<1>1. EventOf(p) \in Event /\ Trail' = Append(Trail, EventOf(p))
  BY DEF EventOf, Event, Emitted
<1>2. EventOf(p) = "INITIALIZING" => Trail = <<>> \/ Last(Trail) = "STOPPED"
  BY DEF EventOf, Told
<1>3. EventOf(p) = "TIME_ADDITIONAL_PULSE" => Trail = <<>> \/ Last(Trail) = "COMPLETED"
  BY DEF EventOf, Told
<1> QED
  BY <1>1, <1>2, <1>3, AppendFacts

LEMMA GrownFacts ==
    ASSUME Trail \in Seq(Event), Grow
    PROVE  /\ Trail' # <<>> /\ Last(Trail') = EventOf(phase)'
           /\ Trail'[1] # "INITIALIZING" \/ (Trail # <<>> /\ Trail'[1] = Trail[1])
           /\ Trail'[1] # "TIME_ADDITIONAL_PULSE" \/ (Trail # <<>> /\ Len(Trail') > 1)
           /\ Linked(Trail) => Linked(Trail')
<1>1. phase' \in Event /\ EventOf(phase)' = phase'
      /\ phase' \notin {"INITIALIZING", "TIME_ADDITIONAL_PULSE"}
  BY DEF Grow, Event, Phase, Finished, EventOf
<1>2. Len(Trail) \in Nat /\ (Trail # <<>> => Len(Trail) >= 1)
  OBVIOUS
<1>3. CASE Trail' = Append(Trail, phase')
  <2>1. /\ Trail' # <<>> /\ Last(Trail') = phase' /\ Len(Trail') = Len(Trail) + 1
        /\ Trail'[1] = IF Trail = <<>> THEN phase' ELSE Trail[1]
        /\ Linked(Trail) => Linked(Trail')
    BY <1>1, <1>3, AppendFacts
  <2> QED
    BY <1>1, <1>2, <2>1
<1>4. CASE phase' = "TIMEOUT" /\ Trail' = Append(Append(Trail, "PURGE_CONFIRM"), "TIMEOUT")
  <2> DEFINE upTo == Append(Trail, "PURGE_CONFIRM")
  <2>1. {"PURGE_CONFIRM", "TIMEOUT"} \subseteq Event
    BY DEF Event, Phase, Finished
  <2>2. /\ upTo \in Seq(Event) /\ upTo # <<>> /\ Len(upTo) = Len(Trail) + 1
        /\ upTo[1] = IF Trail = <<>> THEN "PURGE_CONFIRM" ELSE Trail[1]
        /\ Linked(Trail) => Linked(upTo)
    BY <2>1, AppendFacts
  <2>3. /\ Trail' # <<>> /\ Last(Trail') = "TIMEOUT" /\ Len(Trail') = Len(upTo) + 1
        /\ Trail'[1] = upTo[1]
        /\ Linked(upTo) => Linked(Trail')
    <3> HIDE DEF upTo
    <3>1. Trail' = Append(upTo, "TIMEOUT")
      BY <1>4 DEF upTo
    <3> QED
      BY <2>1, <2>2, <3>1, AppendFacts
  <2> QED
    BY <1>1, <1>2, <1>4, <2>2, <2>3
<1> QED
  BY <1>3, <1>4 DEF Grow

LEMMA PressedFacts ==
    ASSUME Pressed
    PROVE  \/ ContinuesStopped
           \/ \E p \in Phase :
                /\ Emitted(p)
                /\ p = "INITIALIZING" => phase = "IDLE" /\ screen = "READY" /\ screen' = screen
                /\ p = "TIME_ADDITIONAL_PULSE" =>
                       phase = "COMPLETED" /\ screen = "GRIND_COMPLETE" /\ screen' = screen
                /\ screen' = screen \/ screen = "PURGE_CONFIRM"
BY DEF Pressed, Begins, Ends, Continues, Pulses, Phase, Finished

LEMMA ToldStep ==
    ASSUME Trail \in Seq(Event), Told, Still \/ Grow \/ Take \/ Pressed \/ Export \/ Walk \/ GoOn
    PROVE  Told'
<1>1. CASE Trail' = Trail /\ phase' = phase
  BY <1>1 DEF Told, EventOf
<1>2. CASE Grow
  BY <1>2, GrownFacts DEF Told
<1>3. CASE Take
  BY <1>3, TailFacts DEF Take, Told, EventOf
<1>4. CASE Pressed
  <2>1. CASE ContinuesStopped
    BY <1>1, <2>1 DEF ContinuesStopped
  <2>2. ASSUME NEW p \in Phase, Emitted(p),
               p = "INITIALIZING" => phase = "IDLE",
               p = "TIME_ADDITIONAL_PULSE" => phase = "COMPLETED"
        PROVE  Told'
    <3>1. Last(Trail') = EventOf(p) /\ phase' = p
      BY <2>2, EmittedFacts DEF Emitted
    <3> QED
      BY <3>1 DEF Told, EventOf
  <2> QED
    BY <1>4, <2>1, <2>2, PressedFacts
<1> QED
  BY <1>1, <1>2, <1>3, <1>4 DEF Still, known, Export, Walk, GoOn

LEMMA ChainedStep ==
    ASSUME Trail \in Seq(Event), Told, Chained,
           Still \/ Grow \/ Take \/ Pressed \/ Export \/ Walk \/ GoOn
    PROVE  Chained'
<1>1. CASE Trail' = Trail
  BY <1>1 DEF Chained
<1>2. CASE Grow
  BY <1>2, GrownFacts DEF Chained
<1>3. CASE Take
  BY <1>3, TailFacts DEF Take, Chained
<1>4. CASE Pressed
  <2>1. ASSUME NEW p \in Phase, Emitted(p),
               p = "INITIALIZING" => phase = "IDLE",
               p = "TIME_ADDITIONAL_PULSE" => phase = "COMPLETED"
        PROVE  Chained'
    BY <2>1, EmittedFacts DEF Chained
  <2> QED
    BY <1>1, <1>4, <2>1, PressedFacts DEF ContinuesStopped
<1> QED
  BY <1>1, <1>2, <1>3, <1>4 DEF Still, Export, Walk, GoOn

LEMMA PlacedStep ==
    ASSUME ScreenTypeOK, Placed, Caught, Still \/ Grow \/ Take \/ Pressed \/ Export \/ Walk \/ GoOn
    PROVE  Placed'
<1>1. CASE Still
  BY <1>1 DEF Still, known, Placed
<1>2. CASE Grow
  BY <1>2 DEF Grow, Placed
<1>3. CASE Take
  BY <1>3 DEF Take, Placed, Show, SwitchTo, ShowFinished, GrindingEvents, display
<1>4. CASE Pressed
  BY <1>4 DEF Pressed, Begins, Ends, Continues, ContinuesStopped, Pulses, Emitted, Placed, Elsewhere
<1>5. CASE Export
  BY <1>5 DEF Export, Placed, Elsewhere
<1>6. CASE Walk
  BY <1>6 DEF Walk, Placed, Elsewhere
<1>7. CASE GoOn
  <2>1. turn = "events" /\ screen = "PURGE_CONFIRM" => phase = "PURGE_CONFIRM"
    BY <1>7 DEF GoOn, Placed, Elsewhere, Caught, ScreensOf, ScreenTypeOK, Phase, Finished
  <2> QED
    BY <1>7, <2>1 DEF GoOn, Placed
<1> QED
  BY <1>1, <1>2, <1>3, <1>4, <1>5, <1>6, <1>7

\* What Show does to the screen, for an event that is not a pulse.
LEMMA ShowFacts ==
    ASSUME NEW e \in Event, Show(e)
    PROVE  /\ e = "STOPPED" => screen' = "READY"
           /\ e = "COMPLETED" => screen' = "GRIND_COMPLETE"
           /\ e = "TIMEOUT" => screen' = "GRIND_TIMEOUT"
           /\ e = "PURGE_CONFIRM" => screen' = "PURGE_CONFIRM"
           /\ e \in {"INITIALIZING", "ACTIVE"} => screen' = "GRINDING"
           /\ e = "TIME_ADDITIONAL_PULSE" => screen' = screen
           /\ e = "INITIALIZING" /\ screen # "GRINDING" /\ phase = "INITIALIZING" => acknowledged'
           /\ acknowledged => acknowledged'
BY DEF Show, SwitchTo, ShowFinished, Acknowledge, GrindingEvents, display

LEMMA BegunStep ==
    ASSUME Trail \in Seq(Event), Told, Chained, Begun, Placed,
           Still \/ Grow \/ Take \/ Pressed \/ Export \/ Walk \/ GoOn
    PROVE  Begun'
<1>1. CASE Still
  BY <1>1 DEF Still, known, Begun
<1>2. CASE Grow
  <2>1. ASSUME Trail'[1] = "INITIALIZING"
        PROVE  screen' \in Elsewhere
    <3>1. Trail # <<>> /\ Trail'[1] = Trail[1] /\ screen' = screen
      BY <1>2, <2>1, GrownFacts DEF Grow
    <3> QED
      BY <2>1, <3>1 DEF Begun
  <2>2. ASSUME Trail'[1] = "TIME_ADDITIONAL_PULSE", Len(Trail') = 1
        PROVE  FALSE
    BY <1>2, <2>2, GrownFacts
  <2> QED
    BY <2>1, <2>2 DEF Begun
<1>3. CASE Take
  <2>1. /\ Trail # <<>> /\ Trail' = Tail(Trail) /\ Show(Trail[1]) /\ Trail[1] \in Event
    BY <1>3 DEF Take
  <2> SUFFICES ASSUME Trail' # <<>>
               PROVE  /\ Trail'[1] = "INITIALIZING" => screen' \in Elsewhere
                      /\ Trail'[1] = "TIME_ADDITIONAL_PULSE" => screen' = "GRIND_COMPLETE"
    BY DEF Begun
  <2>2. Len(Trail) >= 2 /\ Len(Trail) \in Nat /\ Trail'[1] = Trail[2]
    BY <2>1, TailFacts
  <2>3. /\ Trail[2] = "INITIALIZING" => Trail[1] = "STOPPED"
        /\ Trail[2] = "TIME_ADDITIONAL_PULSE" => Trail[1] = "COMPLETED"
    <3>1. 2 \in 2..Len(Trail) /\ 2 - 1 = 1
      BY <2>2
    <3> QED
      BY <3>1 DEF Chained, Linked
  <2> QED
    BY <2>1, <2>2, <2>3, ShowFacts DEF Elsewhere
<1>4. CASE Pressed
  <2>0. displaced' = displaced
    BY <1>4 DEF Pressed
  <2>1. CASE ContinuesStopped
    BY <2>0, <2>1 DEF ContinuesStopped, Begun, Placed, Elsewhere
  <2>2. ASSUME NEW p \in Phase, Emitted(p),
               p = "INITIALIZING" => phase = "IDLE" /\ screen = "READY" /\ screen' = screen,
               p = "TIME_ADDITIONAL_PULSE" =>
                   phase = "COMPLETED" /\ screen = "GRIND_COMPLETE" /\ screen' = screen,
               screen' = screen \/ screen = "PURGE_CONFIRM"
        PROVE  Begun'
    <3>1. /\ Len(Trail') = Len(Trail) + 1
          /\ Trail'[1] = IF Trail = <<>> THEN EventOf(p) ELSE Trail[1]
      BY <2>2, EmittedFacts
    <3>2. CASE Trail = <<>>
      <4>1. /\ EventOf(p) = "INITIALIZING" => p = "INITIALIZING"
            /\ EventOf(p) = "TIME_ADDITIONAL_PULSE" => p = "TIME_ADDITIONAL_PULSE"
        BY DEF EventOf
      <4> QED
        BY <2>2, <3>1, <3>2, <4>1 DEF Begun, Elsewhere
    <3>3. CASE Trail # <<>>
      <4>1. Trail'[1] = Trail[1] /\ Len(Trail') # 1
        BY <3>1, <3>3
      <4> QED
        BY <2>2, <3>3, <4>1 DEF Begun, Elsewhere
    <3> QED
      BY <3>2, <3>3
  <2> QED
    BY <1>4, <2>1, <2>2, PressedFacts
<1>5. CASE Export
  <2>1. CASE Trail # <<>> /\ Trail[1] = "TIME_ADDITIONAL_PULSE" /\ Len(Trail) = 1
    <3>1. phase # "IDLE"
      BY <2>1 DEF Told, Last, EventOf
    <3> QED
      BY <1>5, <2>1, <3>1 DEF Export, Begun, Elsewhere
  <2>2. CASE ~(Trail # <<>> /\ Trail[1] = "TIME_ADDITIONAL_PULSE" /\ Len(Trail) = 1)
    BY <1>5, <2>2 DEF Export, Begun, Elsewhere
  <2> QED
    BY <2>1, <2>2
<1>6. CASE Walk
  BY <1>6 DEF Walk, Begun, Elsewhere
<1>7. CASE GoOn
  BY <1>7 DEF GoOn, Begun
<1> QED
  BY <1>1, <1>2, <1>3, <1>4, <1>5, <1>6, <1>7

LEMMA CaughtStep ==
    ASSUME ScreenTypeOK, Trail \in Seq(Event), Told, Begun, Caught, Placed,
           Still \/ Grow \/ Take \/ Pressed \/ Export \/ Walk \/ GoOn
    PROVE  Caught'
<1>1. CASE Still \/ GoOn
  BY <1>1 DEF Still, GoOn, known, Caught, ScreensOf
<1>2. CASE Grow
  BY <1>2, GrownFacts DEF Caught
<1>3. CASE Take
  <2> SUFFICES ASSUME Trail' = <<>>
               PROVE  /\ ~displaced' => screen' \in ScreensOf(phase)'
                      /\ phase' = "INITIALIZING" => acknowledged'
    BY DEF Caught
  <2>1. /\ Trail # <<>> /\ Trail' = Tail(Trail) /\ Show(Trail[1]) /\ Trail[1] \in Event
        /\ phase' = phase
        /\ displaced' = (displaced /\ Trail[1] = "TIME_ADDITIONAL_PULSE")
    BY <1>3 DEF Take
  <2>2. Len(Trail) = 1 /\ Trail[1] = EventOf(phase)
    BY <2>1, TailFacts DEF Told
  <2>3. ASSUME ~displaced'
        PROVE  screen' \in ScreensOf(phase)
    <3>1. CASE phase = "TIME_ADDITIONAL_PULSE"
      <4>1. Trail[1] = "TIME_ADDITIONAL_PULSE"
        BY <2>2, <3>1 DEF EventOf
      <4>2. screen = "GRIND_COMPLETE"
        BY <2>1, <2>2, <2>3, <4>1 DEF Begun
      <4> QED
        BY <2>1, <3>1, <4>1, <4>2, ShowFacts DEF ScreensOf
    <3>2. CASE phase # "TIME_ADDITIONAL_PULSE"
      <4>1. phase \in Phase
        BY DEF ScreenTypeOK
      <4> QED
        BY <2>1, <2>2, <3>2, <4>1, ShowFacts DEF ScreensOf, EventOf, Phase, Finished
    <3> QED
      BY <3>1, <3>2
  <2>4. ASSUME phase = "INITIALIZING"
        PROVE  acknowledged'
    <3>1. Trail[1] = "INITIALIZING"
      BY <2>2, <2>4 DEF EventOf
    <3>2. screen # "GRINDING"
      BY <2>1, <3>1 DEF Begun, Elsewhere
    <3> QED
      BY <2>1, <2>4, <3>1, <3>2, ShowFacts
  <2>5. ScreensOf(phase)' = ScreensOf(phase)
    BY <2>1 DEF ScreensOf
  <2> QED
    BY <2>1, <2>3, <2>4, <2>5
<1>4. CASE Pressed
  <2>1. CASE ContinuesStopped
    <3>1. ASSUME Trail = <<>>
          PROVE  FALSE
      <4>1. ~displaced
        BY <2>1 DEF ContinuesStopped, Placed, Elsewhere
      <4> QED
        BY <2>1, <3>1, <4>1 DEF ContinuesStopped, Caught, ScreensOf
    <3> QED
      BY <2>1, <3>1 DEF ContinuesStopped, Caught
  <2>2. ASSUME NEW p \in Phase, Emitted(p),
               p = "INITIALIZING" => phase = "IDLE",
               p = "TIME_ADDITIONAL_PULSE" => phase = "COMPLETED"
        PROVE  Caught'
    BY <2>2, EmittedFacts DEF Caught
  <2> QED
    BY <1>4, <2>1, <2>2, PressedFacts
<1>5. CASE Export
  BY <1>5 DEF Export, Caught, ScreensOf
<1>6. CASE Walk
  <2>1. ASSUME Trail = <<>>, ~displaced
        PROVE  screen' \in ScreensOf(phase)
    <3>1. screen \in ScreensOf(phase) /\ phase \in Phase
      BY <2>1 DEF Caught, ScreenTypeOK
    <3>2. phase = "IDLE"
      BY <1>6, <3>1 DEF Walk, ScreensOf, Phase, Finished
    <3> QED
      BY <1>6, <3>2 DEF Walk, ScreensOf
  <2> QED
    BY <1>6, <2>1 DEF Walk, Caught, ScreensOf
<1> QED
  BY <1>1, <1>2, <1>3, <1>4, <1>5, <1>6

\* Once the screen and the phase agree, nothing is left of what went amiss.
LEMMA Recovery ==
    ASSUME ScreenTypeOK, NextTurn, turn = "events", Agreed
    PROVE  Orderly'
<1>1. /\ UNCHANGED <<phase, acknowledged, events, unsent, screen, displaced>>
      /\ events = <<>> /\ unsent = <<>>
  BY DEF NextTurn, grinder, display, transfers, Agreed, Settled
<1>2. Trail' = <<>>
  BY <1>1 DEF Trail
<1>3. Told' /\ Begun'
  BY <1>2 DEF Told, Begun
<1>4. Chained'
  <2>1. 2..Len(<<>>) = {}
    OBVIOUS
  <2> QED
    BY <1>2, <2>1 DEF Chained, Linked
<1>5. Caught'
  BY <1>1 DEF Agreed, Caught, ScreensOf
<1>6. Placed'
  BY <1>1 DEF Agreed, Placed, ScreensOf, ScreenTypeOK, Phase, Finished
<1> QED
  BY <1>3, <1>4, <1>5, <1>6 DEF Orderly

\* What is amiss stays so until then.
LEMMA AmissStep ==
    ASSUME [ScreenNext]_screenVars, amiss' = {}
    PROVE  amiss = {} \/ (NextTurn /\ turn = "events" /\ Agreed)
<1>1. CASE UNCHANGED queue
  BY <1>1 DEF queue
<1>2. ASSUME NEW p, Switch(p)
      PROVE  amiss = {}
  BY <1>2 DEF Switch, queue
<1>3. CASE EmitEvent
  BY <1>3 DEF EmitEvent
<1>4. CASE HandleEvent
  BY <1>4 DEF HandleEvent
<1>5. CASE PressGrindButton \/ PressContinueButton \/ PressPulseButton \/ ReturnToIdle
  <2>1. \E p : Switch(p)
    BY <1>5, Zenon DEF PressGrindButton, PressContinueButton, PressPulseButton, StartGrind,
       StopGrind, ReturnToIdle, ContinueFromPurge, StartAdditionalPulse
  <2> QED
    BY <1>2, <2>1
<1>6. CASE NextTurn
  BY <1>6 DEF NextTurn
<1> QED
  BY <1>1, <1>3, <1>4, <1>5, <1>6 DEF ScreenNext, Core0, Loop, Input, Outside, ChangePhase,
     HandleRemoteCommand, Obey, UpdateControllers, PressButton, Navigate, TimerFires,
     ReceiveCommand, ExportBegins, ExportEnds, screenVars

-----------------------------------------------------------------------------
\* Types, and the timer under its screen, whatever is amiss.

LEMMA EventTypes ==
    ASSUME NEW p \in Phase
    PROVE  EventOf(p) \in Event
BY DEF EventOf, Event

Kinds ==
    /\ phase \in Phase /\ acknowledged \in BOOLEAN
    /\ unsent \in Seq(Event) /\ events \in Seq(Event) /\ Len(events) <= EventQueueSize
    /\ amiss \subseteq {"dropped", "overtaken"}
    /\ screen \in Screen /\ timer \in {NoTimer, "GRIND_COMPLETE", "GRIND_TIMEOUT"}
    /\ TimerBelongsToScreen

LEMMA SendTypes ==
    ASSUME events \in Seq(Event), Len(events) <= EventQueueSize, NEW e \in Event, Send(e)
    PROVE  events' \in Seq(Event) /\ Len(events') <= EventQueueSize
<1>1. EventQueueSize \in Nat
  BY ScreenQueuesAssumption
<1>2. \/ events' = events
      \/ Len(events) < EventQueueSize /\ events' = Append(events, e)
  BY DEF Send
<1> QED
  BY <1>1, <1>2

LEMMA SwitchTypes ==
    ASSUME Kinds, NEW p \in Phase, Switch(p)
    PROVE  /\ phase' \in Phase /\ unsent' \in Seq(Event)
           /\ events' \in Seq(Event) /\ Len(events') <= EventQueueSize
           /\ amiss' \subseteq {"dropped", "overtaken"}
<1>1. /\ events \in Seq(Event) /\ Len(events) <= EventQueueSize /\ phase' = p /\ unsent' = unsent
      /\ unsent \in Seq(Event) /\ amiss \subseteq {"dropped", "overtaken"}
  BY DEF Kinds, Switch
<1>2. CASE p = phase
  BY <1>1, <1>2 DEF Switch, queue
<1>3. CASE p # phase
  <2>1. Send(EventOf(p)) /\ amiss' = amiss \cup Lost \cup Overtaken
    BY <1>3 DEF Switch
  <2>2. events' \in Seq(Event) /\ Len(events') <= EventQueueSize
    BY <1>1, <2>1, EventTypes, SendTypes
  <2>3. amiss' \subseteq {"dropped", "overtaken"}
    BY <1>1, <2>1 DEF Lost, Overtaken
  <2> QED
    BY <1>1, <2>2, <2>3
<1> QED
  BY <1>2, <1>3

LEMMA ButtonTypes ==
    ASSUME Kinds,
           \/ PressGrindButton \/ PressContinueButton \/ PressPulseButton
           \/ ReturnToIdle /\ timer' = NoTimer /\ UNCHANGED screen
    PROVE  Kinds'
<1>1. phase \in Phase /\ {"IDLE", "INITIALIZING", "ACTIVE", "TIME_ADDITIONAL_PULSE"} \subseteq Phase
  BY DEF Kinds, Phase
<1>2. \E p \in Phase : Switch(p)
  BY <1>1, Zenon DEF PressGrindButton, PressContinueButton, PressPulseButton, StartGrind, StopGrind,
     ReturnToIdle, ContinueFromPurge, StartAdditionalPulse
<1>3. acknowledged' \in BOOLEAN
  BY DEF Kinds, PressGrindButton, PressContinueButton, PressPulseButton, StartGrind, StopGrind,
     ReturnToIdle, ContinueFromPurge, StartAdditionalPulse
<1>4. /\ screen' \in Screen /\ timer' \in {NoTimer, "GRIND_COMPLETE", "GRIND_TIMEOUT"}
      /\ TimerBelongsToScreen'
  BY DEF Kinds, PressGrindButton, PressContinueButton, PressPulseButton, display, SwitchTo, Screen,
     TimerBelongsToScreen
<1> QED
  BY <1>2, <1>3, <1>4, SwitchTypes DEF Kinds

LEMMA ShowTypes ==
    ASSUME Kinds, NEW e \in Event, Show(e)
    PROVE  /\ screen' \in Screen /\ timer' \in {NoTimer, "GRIND_COMPLETE", "GRIND_TIMEOUT"}
           /\ TimerBelongsToScreen' /\ acknowledged' \in BOOLEAN
BY DEF Kinds, Show, SwitchTo, ShowFinished, Acknowledge, TimerBelongsToScreen, Screen, display

LEMMA KindsStep ==
    ASSUME Kinds, [ScreenNext]_screenVars
    PROVE  Kinds'
<1>1. ASSUME UNCHANGED <<grinder, queue, display>>
      PROVE  Kinds'
  BY <1>1 DEF grinder, queue, display, Kinds, TimerBelongsToScreen
<1>2. CASE ChangePhase
  <2>1. PICK path \in Passes(phase) : phase' = path[Len(path)] /\ unsent' = path
    BY <1>2 DEF ChangePhase
  <2>2. path \in {<<"ACTIVE">>, <<"PURGE_CONFIRM">>, <<"PURGE_CONFIRM", "TIMEOUT">>,
                  <<"COMPLETED">>, <<"TIMEOUT">>}
    BY <2>1 DEF Passes
  <2>3. /\ phase' \in Phase /\ unsent' \in Seq(Event)
    BY <2>1, <2>2 DEF Phase, Event, Finished
  <2>4. UNCHANGED <<acknowledged, events, amiss, screen, timer>>
    BY <1>2 DEF ChangePhase, queue, display
  <2> QED
    BY <2>3, <2>4 DEF Kinds, TimerBelongsToScreen
<1>3. CASE EmitEvent
  <2>1. Head(unsent) \in Event /\ Tail(unsent) \in Seq(Event)
    BY <1>3 DEF EmitEvent, Kinds
  <2>2. /\ Send(Head(unsent)) /\ unsent' = Tail(unsent) /\ amiss' = amiss \cup Lost
        /\ UNCHANGED <<phase, acknowledged, screen, timer>>
    BY <1>3 DEF EmitEvent, display
  <2>3. events' \in Seq(Event) /\ Len(events') <= EventQueueSize
    BY <2>1, <2>2, SendTypes DEF Kinds
  <2>4. amiss' \subseteq {"dropped", "overtaken"}
    BY <2>2 DEF Kinds, Lost
  <2> QED
    BY <2>1, <2>2, <2>3, <2>4 DEF Kinds, TimerBelongsToScreen
<1>4. CASE HandleEvent
  <2>1. events # <<>> /\ Show(Head(events)) /\ events' = Tail(events)
        /\ UNCHANGED <<phase, unsent, amiss>>
    BY <1>4 DEF HandleEvent
  <2>2. /\ Head(events) \in Event /\ events' \in Seq(Event)
        /\ Len(events) \in Nat /\ Len(events') = Len(events) - 1 /\ Len(events) <= EventQueueSize
    BY <2>1 DEF Kinds
  <2>3. Len(events') <= EventQueueSize
    BY <2>2, ScreenQueuesAssumption
  <2> QED
    BY <2>1, <2>2, <2>3, ShowTypes DEF Kinds
<1>5. CASE HandleRemoteCommand
  BY <1>1, <1>5, ButtonTypes DEF HandleRemoteCommand, Obey
<1>6. CASE PressButton
  BY <1>6, ButtonTypes DEF PressButton
<1>7. CASE TimerFires
  BY <1>7, ButtonTypes DEF TimerFires
<1>8. CASE UpdateControllers \/ Navigate
  <2>1. UNCHANGED <<grinder, queue>>
    BY <1>8 DEF UpdateControllers, Navigate
  <2>2. \/ UNCHANGED display
        \/ SwitchTo("OTA_UPDATE") \/ SwitchTo("READY") \/ SwitchTo("MENU")
    BY <1>8 DEF UpdateControllers, Navigate, ShowExport, HideExport, KeepScreen
  <2> QED
    BY <1>1, <2>1, <2>2 DEF SwitchTo, Kinds, TimerBelongsToScreen, Screen, grinder, queue
<1>9. CASE ReceiveCommand \/ ExportBegins \/ ExportEnds \/ UNCHANGED screenVars
  BY <1>1, <1>9 DEF ReceiveCommand, ExportBegins, ExportEnds, screenVars
<1>10. CASE NextTurn
  <2>1. UNCHANGED <<grinder, events, display>> /\ amiss' \in {{}, amiss}
    BY <1>10 DEF NextTurn
  <2> QED
    BY <2>1 DEF Kinds, TimerBelongsToScreen, grinder, display
<1> QED
  BY <1>2, <1>3, <1>4, <1>5, <1>6, <1>7, <1>8, <1>9, <1>10
     DEF ScreenNext, Core0, Loop, Input, Outside

\* The rest of the types.
OtherKinds ==
    /\ turn \in {"events", "remote", "update", "input"}
    /\ remote \in Seq(Commands) /\ Len(remote) <= RemoteQueueSize
    /\ inExport \in BOOLEAN /\ exportShown \in BOOLEAN /\ displaced \in BOOLEAN

LEMMA OtherKindsStep ==
    ASSUME OtherKinds, [ScreenNext]_screenVars
    PROVE  OtherKinds'
<1>1. RemoteQueueSize \in Nat /\ Len(remote) \in Nat
  BY ScreenQueuesAssumption DEF OtherKinds
<1>2. turn' \in {"events", "remote", "update", "input"}
  BY DEF OtherKinds, ScreenNext, Core0, Loop, Input, Outside, ChangePhase, EmitEvent, HandleEvent,
     HandleRemoteCommand, UpdateControllers, NextTurn, PressButton, Navigate, TimerFires,
     ReceiveCommand, ExportBegins, ExportEnds, screenVars
<1>3. inExport' \in BOOLEAN /\ exportShown' \in BOOLEAN /\ displaced' \in BOOLEAN
  BY DEF OtherKinds, ScreenNext, Core0, Loop, Input, Outside, ChangePhase, EmitEvent, HandleEvent,
     HandleRemoteCommand, UpdateControllers, ShowExport, HideExport, KeepScreen, NextTurn,
     PressButton, Navigate, TimerFires, ReceiveCommand, ExportBegins, ExportEnds, screenVars,
     transfers
<1>4. \/ remote' = remote
      \/ remote # <<>> /\ remote' = Tail(remote)
      \/ \E c \in Commands : Len(remote) < RemoteQueueSize /\ remote' = Append(remote, c)
  BY DEF ScreenNext, Core0, Loop, Input, Outside, ChangePhase, EmitEvent, HandleEvent,
     HandleRemoteCommand, UpdateControllers, NextTurn, PressButton, Navigate, TimerFires,
     ReceiveCommand, Enqueue, ExportBegins, ExportEnds, screenVars
<1>5. remote' \in Seq(Commands) /\ Len(remote') <= RemoteQueueSize
  <2>1. remote \in Seq(Commands) /\ Len(remote) <= RemoteQueueSize
    BY DEF OtherKinds
  <2> QED
    BY <1>1, <1>4, <2>1
<1> QED
  BY <1>2, <1>3, <1>5 DEF OtherKinds

LEMMA KindsAreTypes == ScreenTypeOK /\ TimerBelongsToScreen <=> Kinds /\ OtherKinds
BY DEF ScreenTypeOK, Kinds, OtherKinds

-----------------------------------------------------------------------------
LEMMA KindsInit ==
    ASSUME ScreenInit PROVE Kinds /\ OtherKinds
<1>1. <<>> \in Seq(Event) /\ <<>> \in Seq(Commands) /\ Len(<<>>) = 0
  OBVIOUS
<1>2. Len(<<>>) <= EventQueueSize /\ Len(<<>>) <= RemoteQueueSize
  BY <1>1, ScreenQueuesAssumption
<1>3. /\ events = <<>> /\ unsent = <<>> /\ remote = <<>>
      /\ phase = "IDLE" /\ screen = "READY" /\ timer = NoTimer /\ amiss = {}
  BY DEF ScreenInit
<1>4. Kinds
  BY <1>1, <1>2, <1>3 DEF ScreenInit, Kinds, Phase, Screen, TimerBelongsToScreen
<1>5. OtherKinds
  BY <1>1, <1>2, <1>3 DEF ScreenInit, OtherKinds
<1> QED
  BY <1>4, <1>5

LEMMA KindsInvariance == ScreenSpec => [](ScreenTypeOK /\ TimerBelongsToScreen)
<1>1. ScreenInit => Kinds /\ OtherKinds
  BY KindsInit
<1>2. Kinds /\ OtherKinds /\ [ScreenNext]_screenVars => (Kinds /\ OtherKinds)'
  BY KindsStep, OtherKindsStep
<1>3. Kinds /\ OtherKinds => ScreenTypeOK /\ TimerBelongsToScreen
  BY KindsAreTypes
<1> QED
  BY <1>1, <1>2, <1>3, PTL DEF ScreenSpec

LEMMA ScreenInvInit ==
    ASSUME ScreenInit PROVE ScreenInv
<1>1. ScreenTypeOK /\ TimerBelongsToScreen
  BY KindsInit, KindsAreTypes
<1>2. Trail = <<>> /\ Len(Trail) = 0
  BY DEF ScreenInit, Trail
<1>3. Told /\ Chained /\ Begun
  BY <1>2 DEF Told, Chained, Linked, Begun
<1>4. Caught /\ Placed
  BY DEF ScreenInit, Caught, Placed, ScreensOf
<1> QED
  BY <1>1, <1>3, <1>4 DEF ScreenInv, Orderly

\* The invariant of the screen, for all queues and commands.
THEOREM ScreenInvariance == ScreenSpec => []ScreenInv
<1>1. ScreenInit => ScreenInv
  BY ScreenInvInit
<1>2. ScreenInv /\ [ScreenNext]_screenVars => ScreenInv'
  <2> SUFFICES ASSUME ScreenInv, [ScreenNext]_screenVars
               PROVE  ScreenInv'
    OBVIOUS
  <2>1. (ScreenTypeOK /\ TimerBelongsToScreen)'
    <3>1. Kinds' /\ OtherKinds'
      BY KindsAreTypes, KindsStep, OtherKindsStep DEF ScreenInv
    <3>2. (Kinds /\ OtherKinds)' => (ScreenTypeOK /\ TimerBelongsToScreen)'
      BY KindsAreTypes, PTL
    <3> QED
      BY <3>1, <3>2
  <2>2. ASSUME amiss' = {}, amiss = {}
        PROVE  Orderly'
    <3>1. ScreenTypeOK /\ TimerBelongsToScreen /\ Trail \in Seq(Event)
      BY TrailType DEF ScreenInv
    <3>2. Told /\ Chained /\ Begun /\ Caught /\ Placed
      BY <2>2 DEF ScreenInv, Orderly
    <3>3. Still \/ Grow \/ Take \/ Pressed \/ Export \/ Walk \/ GoOn
      BY <2>2, <3>1, <3>2, Shapes
    <3>4. Told' /\ Chained' /\ Begun'
      BY <3>1, <3>2, <3>3, ToldStep, ChainedStep, BegunStep
    <3>5. Caught' /\ Placed'
      BY <3>1, <3>2, <3>3, CaughtStep, PlacedStep
    <3> QED
      BY <3>4, <3>5 DEF Orderly
  <2>3. ASSUME amiss' = {}, NextTurn, turn = "events", Agreed
        PROVE  Orderly'
    BY <2>3, Recovery DEF ScreenInv
  <2> QED
    BY <2>1, <2>2, <2>3, AmissStep DEF ScreenInv
<1> QED
  BY <1>1, <1>2, PTL DEF ScreenSpec

\* For all queues and commands: once no event is under way the screen shows the
\* phase of the controller, or a data export has displaced it, whatever crossed on
\* the way, unless an event was dropped or overtaken since the two last agreed
\* (handle_grind_event, emit_ui_event, process_remote_grind_command).
THEOREM ScreenFollows == ScreenSpec => []ScreenFollowsPhase
<1>1. ScreenInv => ScreenFollowsPhase
  <2> SUFFICES ASSUME Caught, events = <<>>, unsent = <<>>, ~displaced
               PROVE  screen \in ScreensOf(phase)
    BY DEF ScreenInv, Orderly, ScreenFollowsPhase, Settled
  <2>1. Trail = <<>>
    BY DEF Trail
  <2> QED
    BY <2>1 DEF Caught
<1> QED
  BY <1>1, ScreenInvariance, PTL

\* For all queues and commands: a grind whose INITIALIZING has been handled is
\* acknowledged, so SETUP does not wait for what never comes, unless an event was
\* dropped or overtaken (ui_acknowledge_phase_transition).
THEOREM SetupIsAcknowledged == ScreenSpec => []InitializingIsAcknowledged
<1>1. ScreenInv => InitializingIsAcknowledged
  <2> SUFFICES ASSUME Caught, events = <<>>, unsent = <<>>, phase = "INITIALIZING"
               PROVE  acknowledged
    BY DEF ScreenInv, Orderly, InitializingIsAcknowledged, Settled
  <2>1. Trail = <<>>
    BY DEF Trail
  <2> QED
    BY <2>1 DEF Caught
<1> QED
  BY <1>1, ScreenInvariance, PTL

\* For all queues and commands, whatever is dropped or overtaken: a timer of 60 s
\* runs only under its own screen, so it never dismisses another grind
\* (start_grind_complete_timer, on_state_changed).
THEOREM TimersBelong == ScreenSpec => []TimerBelongsToScreen
BY KindsInvariance, PTL

\* The screen keeps its types, whatever is dropped or overtaken: the queues stay within their
\* sizes, and no phase, event or screen but the code's turns up.
THEOREM ScreenTypes == ScreenSpec => []ScreenTypeOK
BY KindsInvariance, PTL
=============================================================================
