------------------------------ MODULE DataExport ------------------------------
(***************************************************************************)
(* The export of session files over Bluetooth: the transfer in             *)
(* bluetooth/manager.cpp, the stream in bluetooth/data_stream.cpp and the  *)
(* client, export_data() of tools/ble/grinder-ble.py.                      *)
(*                                                                         *)
(* The Bluetooth task sends a file chunk by chunk while requests and       *)
(* disconnections are handled in callbacks of the Bluetooth stack, without *)
(* a lock; send_next_data_chunk() is split where they can come between.    *)
(* Notifications are delivered in order, some time after they were sent.   *)
(***************************************************************************)
EXTENDS Naturals, Sequences, FiniteSetsExt

CONSTANTS
    Length,    \* the session files there are at first: id -> number of chunks
    MaxAir,    \* bound: notifications under way; notify() waits for room
    MaxRuns    \* bound: exports a user starts

ASSUME FileAssumption  == \A i \in DOMAIN Length : i \in Nat \ {0} /\ Length[i] \in Nat
ASSUME BoundAssumption == MaxAir \in Nat \ {0, 1} /\ MaxRuns \in Nat

VARIABLES
    files,      \* ids of the session files
    connected,  \* device_connected
    exporting,  \* data_export_in_progress
    session,    \* current_file_session_id
    stream,     \* active_file with its position, file_bytes_sent, file_stream_active
    task,       \* the Bluetooth task: "idle", "reading", "counting", "sending", "clearing",
                \* "closing", "reporting"
    buffer,     \* the chunk it has read
    air,        \* notifications under way
    client,     \* export_data(): "off", "ready", "listing", "next", "asked", "receiving",
                \* "received"
    todo,       \* session_ids it has not requested yet
    asked,      \* the session it has requested
    receiving,  \* receiving_data
    chunks,     \* data_chunks
    stored,     \* what it has processed: session -> chunks
    runs

device == <<exporting, session, stream>>
worker == <<task, buffer>>
script == <<client, todo, asked, receiving, chunks>>
vars   == <<files, connected, device, worker, air, script, stored, runs>>

NoStream == [file |-> 0, at |-> 0, sent |-> 0, active |-> FALSE]
NoChunk  == [file |-> 0, n |-> 0]
Complete == [file |-> 0, n |-> 1]
Failed   == [file |-> 0, n |-> 2]
List     == [file |-> 0, n |-> 0]  \* the list of session files

Init ==
    /\ files = DOMAIN Length /\ connected = FALSE
    /\ exporting = FALSE /\ session = 0 /\ stream = NoStream
    /\ task = "idle" /\ buffer = NoChunk /\ air = <<>>
    /\ client = "off" /\ todo = {} /\ asked = 0 /\ receiving = FALSE /\ chunks = <<>>
    /\ stored = {} /\ runs = 0

-----------------------------------------------------------------------------
\* The Bluetooth task: send_next_data_chunk().

Notify(x) == air' = IF connected THEN Append(air, x) ELSE air
Room == Len(air) < MaxAir

StopHalfway == UNCHANGED exporting /\ session' = 0 /\ stream' = NoStream  \* mutant
StopExport  == exporting' = FALSE /\ session' = 0 /\ stream' = NoStream

\* The client has gone, or there is no file: the transfer is called off.
CallOff ==
    /\ task = "idle" /\ exporting /\ Room
    /\ ~connected \/ session = 0
    /\ StopExport
    /\ Notify(Failed)
    /\ UNCHANGED <<files, connected, worker, script, stored, runs>>

BeginPass ==
    /\ task = "idle" /\ exporting /\ connected /\ session # 0
    /\ task' = "reading"
    /\ UNCHANGED <<files, connected, device, buffer, air, script, stored, runs>>

\* read_file_chunk() reads from whatever file is open; nothing at the end of the
\* file, and nothing when flash cannot be read.
AtEnd == ~stream.active \/ stream.at >= Length[stream.file]
ReadChunk ==
    /\ task = "reading" /\ ~AtEnd
    /\ task' = "counting"
    /\ buffer' = [file |-> stream.file, n |-> stream.at + 1]
    /\ stream' = [stream EXCEPT !.at = @ + 1]
    /\ UNCHANGED <<files, connected, exporting, session, air, script, stored, runs>>

ReadNothing ==
    /\ task = "reading"
    /\ task' = "clearing"
    /\ stream' = [stream EXCEPT !.active = FALSE]
    /\ UNCHANGED <<files, connected, exporting, session, buffer, air, script, stored, runs>>

\* ... and counts what it read for the stream there is now.
Sent(s) == [file |-> s.file, at |-> s.at, sent |-> s.sent + 1,
            active |-> s.active /\ s.sent + 1 < Length[s.file]]
CountChunk ==
    /\ task = "counting"
    /\ task' = "sending"
    /\ stream' = IF stream.active THEN Sent(stream) ELSE stream
    /\ UNCHANGED <<files, connected, exporting, session, buffer, air, script, stored, runs>>

SendChunk ==
    /\ task = "sending" /\ Room
    /\ task' = "idle" /\ buffer' = NoChunk
    /\ Notify(buffer)
    /\ UNCHANGED <<files, connected, device, script, stored, runs>>

\* The end of the file, in the order of the assignments.
ClearProgress ==
    /\ task = "clearing"
    /\ task' = "closing"
    /\ exporting' = FALSE
    /\ UNCHANGED <<files, connected, session, stream, buffer, air, script, stored, runs>>

CloseStream ==
    /\ task = "closing"
    /\ task' = "reporting"
    /\ session' = 0 /\ stream' = NoStream
    /\ UNCHANGED <<files, connected, exporting, buffer, air, script, stored, runs>>

ReportComplete ==
    /\ task = "reporting" /\ Room
    /\ task' = "idle"
    /\ Notify(Complete)
    /\ UNCHANGED <<files, connected, device, buffer, script, stored, runs>>

-----------------------------------------------------------------------------
\* The callbacks, and the rest of the grinder.

\* send_individual_file(); a transfer under way is not disturbed.
RequestFile(i) ==
    IF exporting THEN UNCHANGED <<device, air>>
    ELSE IF i \in files
    THEN /\ exporting' = TRUE /\ session' = i
         /\ stream' = [file |-> i, at |-> 0, sent |-> 0, active |-> TRUE]
         /\ UNCHANGED air
    ELSE /\ stream' = NoStream
         /\ Notify(Failed)
         /\ UNCHANGED <<exporting, session>>

\* onDisconnect(); what is under way is lost, and the script ends with an
\* exception.
EndExport  == IF exporting THEN StopExport ELSE UNCHANGED device
Disconnect ==
    /\ connected
    /\ connected' = FALSE
    /\ EndExport
    /\ air' = <<>>
    /\ client' = "off" /\ todo' = {} /\ asked' = 0 /\ receiving' = FALSE /\ chunks' = <<>>
    /\ UNCHANGED <<files, worker, stored, runs>>

\* The log is purged or rotated; a file that is open cannot be removed.
RemoveFile(i) ==
    /\ i \in files /\ ~(stream.active /\ stream.file = i)
    /\ files' = files \ {i}
    /\ UNCHANGED <<connected, device, worker, air, script, stored, runs>>

-----------------------------------------------------------------------------
\* export_data().

\* It connects, gets ready for the list and asks for it; the
\* hundred sessions it may name fit in one notification, and send_file_list()
\* reports its end itself.
StartScript ==
    /\ ~connected /\ runs < MaxRuns
    /\ connected' = TRUE /\ runs' = runs + 1
    /\ client' = "ready" /\ receiving' = TRUE /\ chunks' = <<>>
    /\ UNCHANGED <<files, device, worker, air, todo, asked, stored>>

RequestList ==
    /\ client = "ready" /\ connected /\ Len(air) + 2 <= MaxAir
    /\ client' = "listing" /\ todo' = files
    /\ air' = air \o <<List, Complete>>
    /\ UNCHANGED <<files, connected, device, worker, asked, receiving, chunks, stored, runs>>

\* It ends when no list has come in 10 s, or before a report that was late; the
\* late chunk of an earlier export beside the list makes any list of it.
ReceiveList ==
    /\ client = "listing"
    /\ IF receiving \/ chunks = <<>>
       THEN client' = "off" /\ todo' = {}
       ELSE /\ client' = "next"
            /\ todo' \in IF chunks = <<List>> THEN {todo} ELSE SUBSET DOMAIN Length
    /\ UNCHANGED <<files, connected, device, worker, air, asked, receiving, chunks, stored, runs>>

FinishScript ==
    /\ client = "next" /\ todo = {}
    /\ client' = "off"
    /\ UNCHANGED <<files, connected, device, worker, air, todo, asked, receiving, chunks, stored,
                   runs>>

WriteRequest ==
    /\ client = "next" /\ todo # {} /\ Room
    /\ client' = "asked"
    /\ asked' = Min(todo) /\ todo' = todo \ {Min(todo)}
    /\ RequestFile(Min(todo))
    /\ UNCHANGED <<files, connected, worker, receiving, chunks, stored, runs>>

\* Only now is it ready for the answer.
BeginReceiving ==
    /\ client = "asked"
    /\ client' = "receiving"
    /\ receiving' = TRUE /\ chunks' = <<>>
    /\ UNCHANGED <<files, connected, device, worker, air, todo, asked, stored, runs>>

\* on_data_received() and on_data_status(), whatever the script is doing.
Receive ==
    /\ air # <<>>
    /\ air' = Tail(air)
    /\ IF Head(air) \in {Complete, Failed}
       THEN receiving' = FALSE /\ UNCHANGED chunks
       ELSE /\ chunks' = IF receiving THEN Append(chunks, Head(air)) ELSE chunks
            /\ UNCHANGED receiving
    /\ UNCHANGED <<files, connected, device, worker, client, todo, asked, stored, runs>>

\* It notices the end of a transfer, or has waited for 30 s.
Received ==
    /\ client = "receiving" /\ ~receiving
    /\ client' = "received"
    /\ UNCHANGED <<files, connected, device, worker, air, todo, asked, receiving, chunks, stored,
                   runs>>

WaitOn == FALSE /\ UNCHANGED vars  \* mutant: it waits without a limit
GiveUp ==
    /\ client = "receiving" /\ receiving
    /\ client' = "next"
    /\ UNCHANGED <<files, connected, device, worker, air, todo, asked, receiving, chunks, stored,
                   runs>>

\* _parse_single_file_data(): the header names the session and how many records
\* follow; records are numbered, so every chunk has its place.  What follows the
\* last record is ignored.
AnyPlace(n) == chunks[n].n >= 1  \* mutant: chunks are not numbered
InPlace(n) == chunks[n].n = n
Parses ==
    /\ chunks # <<>> /\ chunks[1] # List /\ chunks[1].file = asked
    /\ Len(chunks) >= Length[asked] /\ \A n \in 1..Length[asked] : InPlace(n)
IsSession == \A n \in 1..Length[asked] : chunks[n] = [file |-> asked, n |-> n]
Process ==
    /\ client = "received"
    /\ client' = "next"
    /\ stored' = IF Parses THEN stored \cup {[id |-> asked, whole |-> IsSession]} ELSE stored
    /\ UNCHANGED <<files, connected, device, worker, air, todo, asked, receiving, chunks, runs>>

-----------------------------------------------------------------------------
BluetoothTask == CallOff \/ BeginPass \/ ReadChunk \/ ReadNothing \/ CountChunk \/ SendChunk
                     \/ ClearProgress \/ CloseStream \/ ReportComplete
Script == RequestList \/ ReceiveList \/ FinishScript \/ WriteRequest \/ BeginReceiving
              \/ Received \/ GiveUp \/ Process

Next == BluetoothTask \/ Script \/ Receive \/ StartScript \/ Disconnect
            \/ \E i \in DOMAIN Length : RemoveFile(i)

\* The task runs, notifications arrive, and the script goes on, at the latest
\* when its time is up.
Spec == Init /\ [][Next]_vars /\ WF_vars(BluetoothTask) /\ WF_vars(Receive) /\ WF_vars(Script)

-----------------------------------------------------------------------------
\* Properties.

ExportTypeOK ==
    /\ files \subseteq DOMAIN Length /\ session \in DOMAIN Length \cup {0}
    /\ stream.file \in DOMAIN Length \cup {0} /\ (stream.active => stream.file # 0)
    /\ stream.file # 0 => stream.at <= Length[stream.file]
    /\ task \in {"idle", "reading", "counting", "sending", "clearing", "closing", "reporting"}
    /\ Len(air) <= MaxAir /\ runs \in 0..MaxRuns
    /\ client \in {"off", "ready", "listing", "next", "asked", "receiving", "received"}
    /\ client \in {"asked", "receiving", "received"} => asked \in DOMAIN Length

\* What the client stores as a session is that session, from its first chunk to
\* its last: chunks it missed because it was not ready, chunks and reports of an
\* export it gave up, a file that ended early and a stream that was exchanged
\* under the reader are all noticed.
StoredAreWhole == \A s \in stored : s.whole

\* Every transfer ends, whatever comes between the steps of its last pass.
TransferEnds == exporting ~> ~exporting

\* The client comes to the end of its list, although it waits for reports that
\* were sent before it was ready for them.
ScriptEnds == client # "off" ~> client = "off"
===============================================================================
