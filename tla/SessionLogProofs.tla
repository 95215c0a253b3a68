--------------------------- MODULE SessionLogProofs ---------------------------
(***************************************************************************)
(* Proofs about SessionLog, for any length of the flash queue, any number  *)
(* of stored sessions and of grinds, whenever the user leaves a grind: what *)
(* a file holds, that every finished grind gets one, and which go to make  *)
(* room.                                                                   *)
(***************************************************************************)
EXTENDS SessionLog, FiniteSetTheorems, WellFoundedInduction, TLAPS

LEMMA FewerRequests ==
    ASSUME NEW S, NEW s \in Seq(S), s # <<>>, NEW n \in Nat, Len(s) <= n
    PROVE  Tail(s) \in Seq(S) /\ Len(Tail(s)) <= n /\ Head(s) \in S
OBVIOUS

LEMMA OneMoreRequest ==
    ASSUME LogTypeOK PROVE Enqueue(grind) \in Seq(0..MaxGrinds) /\ Len(Enqueue(grind)) <= FlashQueueSize
<1>1. CASE Len(requests) < FlashQueueSize
  <2>1. Append(requests, grind) \in Seq(0..MaxGrinds) /\ Len(Append(requests, grind)) = Len(requests) + 1
    BY DEF LogTypeOK
  <2> QED  BY <1>1, <2>1, StoreAssumption DEF Enqueue, LogTypeOK
<1>2. CASE ~(Len(requests) < FlashQueueSize)
  BY <1>2 DEF Enqueue, LogTypeOK
<1> QED  BY <1>1, <1>2

LEMMA WrittenIsSessionFile ==
    ASSUME LogTypeOK, NEW session \in {draft, current},
           NEW data \in {draft.data, entries, draft.data \cup entries}
    PROVE  Written(session, data) \in SessionFile /\ Written(session, data).id = draft.id
<1>1. session.of \in Nat /\ session.result \in Nat /\ data \in SUBSET Nat /\ draft \in SessionFile
  BY DEF LogTypeOK, SessionFile
<1> QED  BY <1>1 DEF Written, SessionFile

LEMMA EmptyIsSessionFile ==
    ASSUME LogTypeOK
    PROVE  [draft EXCEPT !.data = {}] \in SessionFile /\ [draft EXCEPT !.data = {}].id = draft.id
BY DEF LogTypeOK, SessionFile

LEMMA NoFileIsSessionFile == NoFile \in SessionFile
BY DEF NoFile, SessionFile

\* What every restart leaves.
LEMMA RebootTypes ==
    ASSUME LogTypeOK, Reboot
    PROVE  /\ stage' = "idle" /\ grind' \in 0..MaxGrinds /\ endQueued' \in BOOLEAN
           /\ logging' \in BOOLEAN /\ requests' \in Seq(0..MaxGrinds)
           /\ Len(requests') <= FlashQueueSize
           /\ current' \in [id : Nat, of : Nat, result : Nat] /\ entries' \in SUBSET Nat
           /\ step' = "none" /\ draft' \in SessionFile /\ files' \subseteq SessionFile
           /\ full' \in BOOLEAN /\ booted' \in 0..MaxGrinds /\ hurried' \subseteq Nat
<1>1. files' \subseteq SessionFile
  BY EmptyIsSessionFile DEF Reboot, LogTypeOK, Others
<1>2. requests' \in Seq(0..MaxGrinds) /\ Len(requests') <= FlashQueueSize
  BY StoreAssumption DEF Reboot
<1> QED  BY <1>1, <1>2, NoFileIsSessionFile DEF Reboot, LogTypeOK

LEMMA TypeStep == LogTypeOK /\ [Next]_vars => LogTypeOK'
<1> SUFFICES ASSUME LogTypeOK, [Next]_vars PROVE LogTypeOK'
  OBVIOUS
<1> USE StoreAssumption, RunAssumption
<1>1. CASE StartGrind
  <2>1. grind' \in 0..MaxGrinds
    BY <1>1 DEF StartGrind, LogTypeOK
  <2>2. UNCHANGED <<requests, logging, current, entries, nextId, savedId, enabled, step,
                    draft, full, files, booted, hurried>>
    BY <1>1 DEF StartGrind, memory, ids, writer, past
  <2>3. stage' = "preparing" /\ endQueued' = FALSE
    BY <1>1 DEF StartGrind, EndFlagReset
  <2> QED  BY <2>1, <2>2, <2>3 DEF LogTypeOK
<1>2. CASE BeginSession
  BY <1>2 DEF BeginSession, ClearEntries, LogTypeOK, writer, past
<1>3. CASE OpenSession
  BY <1>3 DEF OpenSession, LogTypeOK, ids, writer, past
<1>4. CASE Record
  BY <1>4 DEF Record, LogTypeOK, control, ids, writer, past
<1>5. CASE FinishGrind \/ ExtendGrind
  BY <1>5 DEF FinishGrind, ExtendGrind, LogTypeOK, memory, ids, writer, past
<1>21. ASSUME Leave PROVE hurried' \subseteq Nat /\ booted' \in 0..MaxGrinds
  BY <1>21 DEF Leave, LogTypeOK
<1>22. CASE DismissGrind
  BY <1>22, <1>21 DEF DismissGrind, LogTypeOK, memory, ids, writer
<1>6. CASE QueueEnd
  BY <1>6, OneMoreRequest DEF QueueEnd, LogTypeOK, memory, ids, writer, past
<1>7. CASE StopGrind
  BY <1>7, <1>21 DEF StopGrind, LogTypeOK, ids, writer
<1>8. CASE TakeRequest
  <2>1. requests' \in Seq(0..MaxGrinds) /\ Len(requests') <= FlashQueueSize
        /\ Head(requests) \in 0..MaxGrinds
    BY <1>8, FewerRequests DEF TakeRequest, LogTypeOK
  <2>2. current \in [id : Nat, of : Nat, result : Nat] /\ Head(requests) \in Nat
    BY <2>1, RunAssumption DEF LogTypeOK
  <2>3. current' = current \/ current' = [current EXCEPT !.result = Head(requests)]
    BY <1>8, Zenon DEF TakeRequest, EnterResult
  <2>4. current' \in [id : Nat, of : Nat, result : Nat]
    BY <2>2, <2>3
  <2>5. step' \in {"none", "open", "write", "clean", "clear"}
    BY <1>8 DEF TakeRequest, EnterResult, LogTypeOK
  <2> QED  BY <1>8, <2>1, <2>4, <2>5 DEF TakeRequest, LogTypeOK, control, ids, past
<1>9. CASE OpenFile
  <2>1. draft' \in SessionFile
    BY <1>9 DEF OpenFile, LogTypeOK, SessionFile
  <2> QED  BY <1>9, <2>1 DEF OpenFile, Others, LogTypeOK, control, memory, ids, past
<1>10. CASE WriteFile
  <2>1. files' \subseteq SessionFile
    BY <1>10, WrittenIsSessionFile DEF WriteFile, Others, LogTypeOK
  <2> QED  BY <1>10, <2>1 DEF WriteFile, LogTypeOK, control, memory, ids, past
<1>11. CASE FailToWrite
  <2>1. step' = "clear" /\ full' = TRUE
    BY <1>11 DEF FailToWrite
  <2> QED  BY <1>11, <2>1 DEF FailToWrite, LogTypeOK, control, memory, ids, past
<1>12. CASE CleanUp
  BY <1>12 DEF CleanUp, LogTypeOK, control, memory, ids, past
<1>13. CASE ClearSession
  BY <1>13 DEF ClearSession, LogTypeOK, control, ids, past
<1>14. CASE ToggleLogging \/ PurgeLogs
  BY <1>14 DEF ToggleLogging, PurgeLogs, LogTypeOK, control, memory, ids, writer, past
<1>15. CASE PowerFails
  <2>1. Reboot /\ nextId' = savedId /\ UNCHANGED <<savedId, enabled>>
    BY <1>15 DEF PowerFails
  <2> QED  BY <2>1, RebootTypes DEF LogTypeOK
<1>16. CASE FactoryReset
  <2>1. savedId' \in Nat \ {0} /\ nextId' \in Nat /\ nextId' >= savedId'
    BY <1>16 DEF FactoryReset
  <2>2. enabled' \in BOOLEAN
    BY <1>16 DEF FactoryReset
  <2>3. Reboot
    BY <1>16 DEF FactoryReset
  <2> QED  BY <2>1, <2>2, <2>3, RebootTypes DEF LogTypeOK
<1>17. CASE UNCHANGED vars
  BY <1>17 DEF vars, control, memory, ids, writer, past, LogTypeOK
<1>18. CASE Controller
  BY <1>18, <1>1, <1>2, <1>3, <1>4, <1>5, <1>6, <1>7, <1>22 DEF Controller
<1>19. CASE FileTask
  BY <1>19, <1>8, <1>9, <1>10, <1>11, <1>12, <1>13 DEF FileTask
<1>20. CASE Menu
  BY <1>20, <1>14, <1>16 DEF Menu
<1> QED
  BY <1>15, <1>17, <1>18, <1>19, <1>20 DEF Next

LEMMA TypeInit == Init => LogTypeOK
<1> SUFFICES ASSUME Init PROVE LogTypeOK
  OBVIOUS
<1>1. requests \in Seq(0..MaxGrinds) /\ Len(requests) <= FlashQueueSize
  BY StoreAssumption DEF Init
<1>2. current \in [id : Nat, of : Nat, result : Nat] /\ draft \in SessionFile
  BY NoFileIsSessionFile DEF Init
<1>3. grind \in 0..MaxGrinds /\ booted \in 0..MaxGrinds /\ hurried \subseteq Nat
  BY RunAssumption DEF Init
<1>4. savedId \in Nat \ {0} /\ nextId \in Nat /\ nextId >= savedId
  BY RunAssumption DEF Init
<1>5. {endQueued, logging, enabled, full} \subseteq BOOLEAN
  BY DEF Init
<1>6. stage = "idle" /\ step = "none" /\ entries \in SUBSET Nat /\ files \subseteq SessionFile
  BY DEF Init
<1> QED  BY <1>1, <1>2, <1>3, <1>4, <1>5, <1>6 DEF LogTypeOK

\* Every variable of the log keeps its type, and the flash queue its bound, whatever
\* the three tasks, the menu and the power supply do.
THEOREM TypeCorrectness == Spec => []LogTypeOK
BY TypeInit, TypeStep, PTL DEF Spec
-----------------------------------------------------------------------------
\* The grind that is there, or comes next.
Turn  == IF stage = "idle" THEN grind + 1 ELSE grind
Calm  == Turn \notin hurried
Going == stage \in {"running", "over"}

\* While the file task has something to do, the grind that asked for it is there;
\* or it was left early, and then so was every grind the task can meet.
QueueInv ==
    /\ Busy /\ Calm => Going /\ endQueued = TRUE
    /\ Busy /\ ~Calm => current.of \in hurried /\ (step = "write" => draft.of \in hurried)

\* What is being recorded, asked for and written belongs to the grind that is there.
SessionInv ==
    /\ stage \in {"preparing", "opening"} => endQueued = FALSE
    /\ stage \in {"opening", "running", "over"} => current.of = grind /\ entries \subseteq {grind}
    /\ Going /\ Calm => \A i \in 1..Len(requests) : requests[i] = grind
WriterInv ==
    /\ draft.whole = FALSE
    /\ step \in {"open", "write"} /\ Calm => current.result = grind
    /\ step = "write" /\ Calm => draft.of = grind /\ draft.result = grind /\ draft.data \subseteq {grind}

\* Who leaves a grind early takes the next one into account.
LEMMA Leaving ==
    ASSUME Leave, stage # "idle", stage' = "idle", grind' = grind
    PROVE  /\ Busy => grind \in hurried' /\ ~Calm'
           /\ hurried \subseteq hurried' /\ booted' = booted
BY DEF Leave, Calm, Turn

\* Every other step but a restart leaves it to the same grind.
LEMMA SameTurn ==
    ASSUME [Next]_vars, LogTypeOK
    PROVE  /\ hurried \subseteq hurried'
           /\ ~(DismissGrind \/ StopGrind) => hurried' = hurried
           /\ \/ DismissGrind \/ StopGrind \/ FactoryReset \/ PowerFails \/ Calm' = Calm
<1>0. grind \in Nat
  BY RunAssumption DEF LogTypeOK
<1>1. CASE StartGrind
  BY <1>0, <1>1 DEF StartGrind, past, Calm, Turn
<1>2. CASE BeginSession \/ OpenSession \/ FinishGrind \/ ExtendGrind
  BY <1>2 DEF BeginSession, OpenSession, FinishGrind, ExtendGrind, past, Calm, Turn
<1>3. CASE Record \/ QueueEnd \/ FileTask \/ ToggleLogging \/ PurgeLogs \/ UNCHANGED vars
  BY <1>3 DEF Record, QueueEnd, FileTask, TakeRequest, OpenFile, WriteFile, FailToWrite, CleanUp,
     ClearSession, ToggleLogging, PurgeLogs, vars, control, past, Calm, Turn
<1>4. CASE DismissGrind \/ StopGrind
  BY <1>4 DEF DismissGrind, StopGrind, Leave
<1>5. CASE FactoryReset \/ PowerFails
  BY <1>5 DEF FactoryReset, PowerFails, Reboot
<1> QED
  BY <1>1, <1>2, <1>3, <1>4, <1>5 DEF Next, Controller, Menu

LEMMA QueueStep ==
    ASSUME LogTypeOK, QueueInv, SessionInv, WriterInv, [Next]_vars PROVE QueueInv'
<1>0. hurried \subseteq hurried'
  BY SameTurn
<1>1. CASE StartGrind \/ OpenSession \/ Record
  <2>1. UNCHANGED <<requests, step, draft, hurried>> /\ current'.of = current.of
    BY <1>1 DEF StartGrind, OpenSession, Record, memory, writer, past
  <2>2. Calm' = Calm
    BY <1>1, SameTurn DEF StartGrind, OpenSession, Record, DismissGrind, StopGrind, FactoryReset,
       PowerFails, Reboot, control
  <2>3. Busy' = Busy
    BY <2>1 DEF Busy
  <2>4. Going => Going' /\ endQueued' = endQueued
    BY <1>1 DEF StartGrind, OpenSession, Record, control, Going
  <2> QED  BY <2>1, <2>2, <2>3, <2>4 DEF QueueInv
<1>2. CASE BeginSession
  <2>1. stage = "preparing" /\ stage' = "opening" /\ current'.of = grind
        /\ UNCHANGED <<grind, requests, step, draft, hurried>>
    BY <1>2 DEF BeginSession, writer, past
  <2> QED  BY <2>1 DEF QueueInv, Going, Calm, Turn, Busy
<1>3. CASE FinishGrind \/ ExtendGrind
  BY <1>3 DEF FinishGrind, ExtendGrind, memory, writer, past, QueueInv, Going, Calm, Turn, Busy
<1>4. CASE QueueEnd
  <2>1. stage = "over" /\ endQueued' = TRUE /\ UNCHANGED <<stage, grind, current, step, draft, hurried>>
    BY <1>4 DEF QueueEnd, memory, writer, past
  <2>2. current.of = grind /\ Turn = grind
    BY <2>1 DEF SessionInv, Turn
  <2>3. Calm' = Calm /\ Going'
    BY <2>1 DEF Calm, Turn, Going
  <2>4. step = "write" /\ ~Calm => draft.of \in hurried
    BY DEF QueueInv, Busy
  <2> QED  BY <2>1, <2>2, <2>3, <2>4 DEF QueueInv, Calm
<1>5. CASE DismissGrind \/ StopGrind
  <2>1. stage # "idle" /\ stage' = "idle" /\ Leave /\ UNCHANGED <<grind, requests, current, step, draft>>
    BY <1>5 DEF DismissGrind, StopGrind, memory, writer
  <2>2. Busy' = Busy
    BY <2>1 DEF Busy
  <2>3. CASE ~Busy
    BY <2>2, <2>3 DEF QueueInv
  <2>4. CASE Busy /\ ~Calm
    <3>1. current.of \in hurried /\ (step = "write" => draft.of \in hurried)
      BY <2>4 DEF QueueInv
    <3> QED  BY <1>0, <2>1, <2>4, <3>1, Leaving DEF QueueInv
  <2>5. CASE Busy /\ Calm
    <3>1. Going
      BY <2>5 DEF QueueInv
    <3>2. current.of = grind /\ (step = "write" => draft.of = grind)
      BY <2>5, <3>1 DEF SessionInv, WriterInv, Going
    <3> QED  BY <2>1, <2>5, <3>2, Leaving DEF QueueInv
  <2> QED  BY <2>3, <2>4, <2>5
<1>6. CASE FileTask
  <2>1. Busy /\ UNCHANGED <<stage, grind, endQueued, hurried>>
    BY <1>6 DEF FileTask, TakeRequest, OpenFile, WriteFile, FailToWrite, CleanUp, ClearSession, control,
       past, Busy
  <2>2. Calm' = Calm /\ Going' = Going
    BY <2>1 DEF Calm, Turn, Going
  <2>3. current'.of = current.of
    <3>1. CASE TakeRequest
      BY <3>1 DEF TakeRequest, EnterResult, LogTypeOK
    <3> QED  BY <1>6, <3>1 DEF FileTask, OpenFile, WriteFile, FailToWrite, CleanUp, ClearSession, memory
  <2>4. step' = "write" => draft'.of = current.of
    BY <1>6 DEF FileTask, TakeRequest, EnterResult, OpenFile, WriteFile, FailToWrite, CleanUp,
       ClearSession
  <2> QED  BY <2>1, <2>2, <2>3, <2>4 DEF QueueInv
<1>7. CASE ToggleLogging \/ PurgeLogs \/ UNCHANGED vars
  BY <1>7 DEF ToggleLogging, PurgeLogs, vars, control, memory, writer, past, QueueInv, Going, Calm, Turn,
     Busy
<1>8. CASE FactoryReset \/ PowerFails
  BY <1>8 DEF FactoryReset, PowerFails, Reboot, QueueInv, Busy
<1> QED
  BY <1>1, <1>2, <1>3, <1>4, <1>5, <1>6, <1>7, <1>8 DEF Next, Controller, Menu

LEMMA SameRequests ==
    ASSUME LogTypeOK, SessionInv, Going, Calm
    PROVE  /\ \A i \in 1..Len(Enqueue(grind)) : Enqueue(grind)[i] = grind
           /\ requests # <<>> => /\ Head(requests) = grind
                                 /\ \A i \in 1..Len(Tail(requests)) : Tail(requests)[i] = grind
<1>1. requests \in Seq(0..MaxGrinds) /\ \A i \in 1..Len(requests) : requests[i] = grind
  BY DEF LogTypeOK, SessionInv
<1>2. \A i \in 1..Len(Append(requests, grind)) : Append(requests, grind)[i] = grind
  BY <1>1
<1>3. ASSUME requests # <<>> PROVE Head(requests) = grind
  BY <1>1, <1>3
<1>4. ASSUME requests # <<>> PROVE \A i \in 1..Len(Tail(requests)) : Tail(requests)[i] = grind
  BY <1>1, <1>4
<1> QED  BY <1>1, <1>2, <1>3, <1>4 DEF Enqueue

LEMMA SessionStep ==
    ASSUME LogTypeOK, QueueInv, SessionInv, [Next]_vars PROVE SessionInv'
<1> USE DEF Going
<1>1. CASE StartGrind
  BY <1>1 DEF StartGrind, EndFlagReset, SessionInv
<1>2. CASE BeginSession
  BY <1>2 DEF BeginSession, ClearEntries, SessionInv
<1>3. CASE OpenSession
  <2>1. ASSUME Calm' PROVE requests' = <<>>
    <3>1. Calm /\ ~Going
      BY <1>3, <2>1 DEF OpenSession, past, Calm, Turn
    <3> QED  BY <1>3, <3>1 DEF OpenSession, QueueInv, Busy
  <2> QED  BY <1>3, <2>1 DEF OpenSession, SessionInv
<1>4. CASE Record
  <2>1. entries' = entries \cup {grind} /\ UNCHANGED <<stage, grind, endQueued, requests, current, hurried>>
    BY <1>4 DEF Record, control, past
  <2> QED  BY <2>1 DEF SessionInv, Calm, Turn
<1>5. CASE FinishGrind \/ ExtendGrind
  BY <1>5 DEF FinishGrind, ExtendGrind, memory, past, SessionInv, Calm, Turn
<1>6. CASE QueueEnd
  <2>1. Going /\ stage' = stage /\ grind' = grind /\ requests' = Enqueue(grind) /\ (Calm' => Calm)
    BY <1>6 DEF QueueEnd, past, Calm, Turn
  <2> QED  BY <1>6, <2>1, SameRequests DEF QueueEnd, memory, SessionInv
<1>7. CASE DismissGrind \/ StopGrind
  BY <1>7 DEF DismissGrind, StopGrind, SessionInv
<1>8. CASE TakeRequest
  <2>1. current'.of = current.of
    BY <1>8 DEF TakeRequest, EnterResult, LogTypeOK
  <2>2. UNCHANGED <<stage, grind, endQueued, entries>> /\ requests # <<>> /\ requests' = Tail(requests)
        /\ (Calm' => Calm)
    BY <1>8 DEF TakeRequest, control, past, Calm, Turn
  <2> QED  BY <2>1, <2>2, SameRequests DEF SessionInv
<1>9. CASE OpenFile \/ WriteFile \/ FailToWrite \/ CleanUp
  BY <1>9 DEF OpenFile, WriteFile, FailToWrite, CleanUp, control, memory, past, SessionInv, Calm, Turn
<1>10. CASE ClearSession
  BY <1>10 DEF ClearSession, control, past, SessionInv, Calm, Turn
<1>11. CASE ToggleLogging \/ PurgeLogs \/ UNCHANGED vars
  BY <1>11 DEF ToggleLogging, PurgeLogs, vars, control, memory, past, SessionInv, Calm, Turn
<1>12. CASE FactoryReset \/ PowerFails
  BY <1>12 DEF FactoryReset, PowerFails, Reboot, SessionInv
<1> QED
  BY <1>1, <1>2, <1>3, <1>4, <1>5, <1>6, <1>7, <1>8, <1>9, <1>10, <1>11, <1>12
  DEF Next, Controller, FileTask, Menu

LEMMA WriterStep ==
    ASSUME LogTypeOK, QueueInv, SessionInv, WriterInv, [Next]_vars PROVE WriterInv'
<1>1. CASE TakeRequest
  <2>1. step = "none" /\ step' # "write" /\ (step' = "open" => current'.result = Head(requests))
        /\ UNCHANGED <<stage, grind, draft, hurried>>
    BY <1>1 DEF TakeRequest, EnterResult, LogTypeOK, control, past
  <2>2. ASSUME Calm' PROVE Head(requests) = grind
    <3>1. Calm /\ Busy /\ requests # <<>>
      BY <1>1, <2>1, <2>2 DEF TakeRequest, Calm, Turn, Busy
    <3> QED  BY <3>1, SameRequests DEF QueueInv
  <2> QED  BY <2>1, <2>2 DEF WriterInv
<1>2. CASE OpenFile
  <2>1. /\ draft'.of = current.of /\ draft'.result = current.result
        /\ draft'.data = entries /\ draft'.whole = FALSE /\ step = "open"
    BY <1>2 DEF OpenFile
  <2>2. UNCHANGED <<current, stage, grind, hurried>>
    BY <1>2 DEF OpenFile, control, memory, past
  <2>3. ASSUME Calm' PROVE current.of = grind /\ current.result = grind /\ entries \subseteq {grind}
    <3>1. Calm /\ Busy
      BY <2>1, <2>2, <2>3 DEF Calm, Turn, Busy
    <3> QED  BY <2>1, <3>1 DEF QueueInv, SessionInv, WriterInv, Going
  <2> QED  BY <2>1, <2>2, <2>3 DEF WriterInv
<1>3. CASE WriteFile \/ FailToWrite \/ CleanUp \/ ClearSession
  BY <1>3 DEF WriteFile, FailToWrite, CleanUp, ClearSession, WriterInv
<1>4. CASE FactoryReset \/ PowerFails
  BY <1>4 DEF FactoryReset, PowerFails, Reboot, NoFile, WriterInv
<1>5. CASE StartGrind \/ BeginSession
  <2>1. UNCHANGED <<step, draft>> /\ ~Going
    BY <1>5 DEF StartGrind, BeginSession, writer, Going
  <2>2. Calm' = Calm
    BY <1>5, SameTurn DEF StartGrind, BeginSession, DismissGrind, StopGrind, FactoryReset, PowerFails,
       Reboot
  <2>3. Calm => step = "none"
    BY <2>1 DEF QueueInv, Busy
  <2> QED  BY <2>1, <2>2, <2>3 DEF WriterInv
<1>6. CASE DismissGrind \/ StopGrind
  <2>1. UNCHANGED <<step, draft, current, grind>> /\ stage # "idle" /\ stage' = "idle" /\ Leave
    BY <1>6 DEF DismissGrind, StopGrind, memory, writer
  <2>2. Calm' => step = "none"
    BY <2>1, Leaving DEF Busy
  <2> QED  BY <2>1, <2>2 DEF WriterInv
<1>7. CASE OpenSession \/ Record \/ FinishGrind \/ QueueEnd \/ ExtendGrind \/ ToggleLogging \/ PurgeLogs
           \/ UNCHANGED vars
  <2>1. UNCHANGED <<step, draft, current, grind, hurried>> /\ (stage' = "idle" <=> stage = "idle")
    BY <1>7 DEF OpenSession, Record, FinishGrind, QueueEnd, ExtendGrind, ToggleLogging,
       PurgeLogs, vars, control, memory, writer, past
  <2> QED  BY <2>1 DEF WriterInv, Calm, Turn
<1> QED
  BY <1>1, <1>2, <1>3, <1>4, <1>5, <1>6, <1>7 DEF Next, Controller, FileTask, Menu

LEMMA FilesStep ==
    ASSUME LogTypeOK, QueueInv, SessionInv, WriterInv, FileHoldsOneGrind, [Next]_vars
    PROVE  FileHoldsOneGrind'
<1>0. hurried \subseteq hurried'
  BY SameTurn
<1>1. CASE WriteFile
  <2>1. PICK session \in {draft, current}, data \in {draft.data, entries, draft.data \cup entries} :
            files' = Others(draft.id) \cup {Written(session, data)}
    BY <1>1 DEF WriteFile
  <2>2. ASSUME Calm PROVE session.of = grind /\ session.result = grind /\ data \subseteq {grind}
    BY <1>1, <2>2 DEF WriteFile, Busy, Going, QueueInv, SessionInv, WriterInv
  <2>3. ASSUME ~Calm PROVE session.of \in hurried
    BY <1>1, <2>3 DEF WriteFile, Busy, QueueInv
  <2>4. /\ Written(session, data).of = session.of /\ Written(session, data).result = session.result
        /\ Written(session, data).data = data
    BY DEF Written, LogTypeOK, SessionFile
  <2>5. Written(session, data).of \notin hurried' =>
            /\ Written(session, data).result = Written(session, data).of
            /\ Written(session, data).data \subseteq {Written(session, data).of}
    BY <1>0, <2>2, <2>3, <2>4
  <2>6. \A f \in files' : f \in files \/ f = Written(session, data)
    BY <2>1 DEF Others
  <2> QED  BY <1>0, <2>5, <2>6 DEF FileHoldsOneGrind
<1>2. CASE FactoryReset \/ PowerFails
  <2>1. \A f \in files' : f \in files \/ f = [draft EXCEPT !.data = {}]
    BY <1>2 DEF FactoryReset, PowerFails, Reboot, Others
  <2>2. [draft EXCEPT !.data = {}].whole = FALSE
    BY DEF WriterInv, LogTypeOK, SessionFile
  <2> QED  BY <1>0, <2>1, <2>2 DEF FileHoldsOneGrind
<1>3. CASE OpenFile \/ CleanUp \/ PurgeLogs
  <2>1. files' \subseteq files
    BY <1>3 DEF OpenFile, CleanUp, PurgeLogs, Others
  <2> QED  BY <1>0, <2>1 DEF FileHoldsOneGrind
<1>4. CASE Controller \/ TakeRequest \/ FailToWrite \/ ClearSession \/ ToggleLogging \/ UNCHANGED vars
  <2>1. files' = files
    BY <1>4 DEF Controller, StartGrind, BeginSession, OpenSession, Record, FinishGrind, QueueEnd,
       ExtendGrind, DismissGrind, StopGrind, TakeRequest, FailToWrite, ClearSession, ToggleLogging, vars
  <2> QED  BY <1>0, <2>1 DEF FileHoldsOneGrind
<1> QED
  BY <1>1, <1>2, <1>3, <1>4 DEF Next, FileTask, Menu

LEMMA FilesInit == Init => QueueInv /\ SessionInv /\ WriterInv /\ FileHoldsOneGrind
BY DEF Init, QueueInv, SessionInv, WriterInv, FileHoldsOneGrind, Going, Busy, NoFile

\* Every file describes one grind, its settings, its result and its entries, for any
\* number of grinds and any size of the queue, whatever the file task is interrupted
\* by (end_grind_session()); only the grinds that overlapped with it are excepted,
\* and they do not spoil the file of another one.
THEOREM FilesHoldOneGrind == Spec => []FileHoldsOneGrind
<1> DEFINE All == LogTypeOK /\ QueueInv /\ SessionInv /\ WriterInv /\ FileHoldsOneGrind
<1>1. Init => All
  BY TypeInit, FilesInit
<1>2. All /\ [Next]_vars => All'
  BY TypeStep, QueueStep, SessionStep, WriterStep, FilesStep
<1>3. All => FileHoldsOneGrind
  OBVIOUS
<1> QED  BY <1>1, <1>2, <1>3, PTL DEF Spec

-----------------------------------------------------------------------------
\* Names begin again with every restart; from one restart to the next they go up
\* with the grinds.

\* The end of a grind is requested once: a request is either queued or worked on.
RequestInv == Calm => requests = <<>> \/ (Len(requests) = 1 /\ step = "none")

\* Until the file task takes its request, a grind is being logged.
LoggedInv == Going /\ Calm /\ (endQueued = FALSE \/ requests # <<>>) => logging = TRUE

\* The file of the grind that is there is not written yet.
Unwritten ==
    /\ Calm
    /\ \/ stage = "opening"
       \/ Going /\ (endQueued = FALSE \/ requests # <<>> \/ step \in {"open", "write"})

\* The session being written is the one that is being recorded, or one before it.
SameSession  == draft.id = current.id /\ draft.of = current.of
OlderSession == draft.id < current.id /\ draft.of < current.of

\* The session is one of this power cycle, and so is the file being written.
CycleInv ==
    /\ booted <= grind /\ (stage # "idle" => booted < grind)
    /\ current.of <= grind /\ (stage = "preparing" => current.of < grind)
    /\ logging = TRUE \/ step # "none" => booted < current.of
    /\ current.id < nextId
    /\ step = "write" => booted < draft.of /\ (SameSession \/ OlderSession)

\* A session is not younger than those whose names are higher, unless it was mixed
\* with the one after it.
Below(f, id, of) == f.id < id /\ f.of \notin hurried => f.of < of

\* The files of this power cycle.
New(f) == f \in files /\ booted < f.of
OrderInv ==
    /\ \A f \in files : f.of <= grind /\ (step = "write" => f.id # draft.id)
    /\ \A f \in files : New(f) =>
           /\ f.of <= current.of /\ f.id <= current.id /\ (f.id = current.id => f.of = current.of)
           /\ Below(f, current.id, current.of)
           /\ step = "write" => Below(f, draft.id, draft.of)
           /\ Unwritten => f.id # current.id
    /\ \A f, h \in files : New(f) /\ New(h) => Below(f, h.id, h.of)

LEMMA RequestStep ==
    ASSUME LogTypeOK, QueueInv, RequestInv, [Next]_vars PROVE RequestInv'
<1>1. CASE QueueEnd
  <2>1. stage = "over" /\ endQueued = FALSE /\ UNCHANGED <<step, stage, grind, hurried>>
    BY <1>1 DEF QueueEnd, writer, past, LogTypeOK
  <2>2. ASSUME Calm' PROVE requests = <<>> /\ step = "none"
    BY <2>1, <2>2 DEF QueueInv, Busy, Calm, Turn
  <2>3. ASSUME requests = <<>> PROVE Len(requests') = 1
    <3>1. requests' = Append(<<>>, grind)
      BY <1>1, <2>3, StoreAssumption DEF QueueEnd, Enqueue
    <3> QED  BY <3>1
  <2> QED  BY <2>1, <2>2, <2>3 DEF RequestInv
<1>2. CASE TakeRequest
  <2>1. requests # <<>> /\ requests' = Tail(requests) /\ (Calm' => Calm)
    BY <1>2 DEF TakeRequest, control, past, Calm, Turn
  <2>2. ASSUME Calm PROVE Tail(requests) = <<>>
    <3>1. Len(requests) = 1 /\ requests \in Seq(0..MaxGrinds)
      BY <2>1, <2>2 DEF RequestInv, LogTypeOK
    <3> QED  BY <3>1, <2>1
  <2> QED  BY <2>1, <2>2 DEF RequestInv
<1>3. CASE OpenFile \/ WriteFile \/ FailToWrite \/ CleanUp \/ ClearSession
  <2>1. step # "none" /\ requests' = requests /\ (Calm' => Calm)
    BY <1>3 DEF OpenFile, WriteFile, FailToWrite, CleanUp, ClearSession, control, past, Calm, Turn
  <2> QED  BY <2>1 DEF RequestInv
<1>4. CASE FactoryReset \/ PowerFails
  BY <1>4 DEF FactoryReset, PowerFails, Reboot, RequestInv
<1>5. CASE DismissGrind \/ StopGrind
  <2>1. UNCHANGED <<requests, grind>> /\ stage # "idle" /\ stage' = "idle" /\ Leave
    BY <1>5 DEF DismissGrind, StopGrind
  <2> QED  BY <2>1, Leaving DEF RequestInv, Busy
<1>6. CASE StartGrind \/ BeginSession \/ OpenSession \/ Record \/ FinishGrind \/ ExtendGrind
           \/ ToggleLogging \/ PurgeLogs \/ UNCHANGED vars
  <2>1. UNCHANGED <<requests, step>>
    BY <1>6 DEF StartGrind, BeginSession, OpenSession, Record, FinishGrind, ExtendGrind,
       ToggleLogging, PurgeLogs, vars, writer
  <2>2. Calm' = Calm
    BY <1>6, SameTurn DEF StartGrind, BeginSession, OpenSession, Record, FinishGrind, ExtendGrind,
       ToggleLogging, PurgeLogs, vars, control, past, Calm, Turn
  <2> QED  BY <2>1, <2>2 DEF RequestInv
<1> QED
  BY <1>1, <1>2, <1>3, <1>4, <1>5, <1>6 DEF Next, Controller, FileTask, Menu

LEMMA LoggedStep ==
    ASSUME LogTypeOK, QueueInv, RequestInv, LoggedInv, [Next]_vars
    PROVE  LoggedInv'
<1>1. CASE OpenSession
  BY <1>1 DEF OpenSession, LoggedInv
<1>2. CASE QueueEnd
  BY <1>2 DEF QueueEnd, memory, LoggedInv, LogTypeOK
<1>3. CASE TakeRequest
  <2>1. requests # <<>> /\ requests' = Tail(requests) /\ (Calm' => Calm) /\ endQueued' = endQueued
    BY <1>3 DEF TakeRequest, control, past, Calm, Turn
  <2>2. ASSUME Calm PROVE requests' = <<>> /\ endQueued' = TRUE
    <3>1. Len(requests) = 1 /\ requests \in Seq(0..MaxGrinds)
      BY <2>1, <2>2 DEF RequestInv, LogTypeOK
    <3> QED  BY <2>1, <2>2, <3>1 DEF QueueInv, Busy
  <2> QED  BY <2>1, <2>2 DEF LoggedInv
<1>4. CASE OpenFile \/ WriteFile \/ FailToWrite \/ CleanUp \/ ClearSession
  <2>1. step # "none" /\ UNCHANGED <<requests, endQueued>> /\ (Calm' => Calm)
    BY <1>4 DEF OpenFile, WriteFile, FailToWrite, CleanUp, ClearSession, control, past, Calm, Turn
  <2>2. Calm => requests = <<>> /\ endQueued = TRUE
    BY <2>1 DEF QueueInv, Busy, RequestInv
  <2> QED  BY <2>1, <2>2 DEF LoggedInv
<1>5. CASE StartGrind \/ BeginSession \/ DismissGrind \/ StopGrind \/ FactoryReset \/ PowerFails
  BY <1>5 DEF StartGrind, BeginSession, DismissGrind, StopGrind, FactoryReset, PowerFails, Reboot,
     LoggedInv, Going
<1>6. CASE Record \/ FinishGrind \/ ExtendGrind \/ ToggleLogging \/ PurgeLogs \/ UNCHANGED vars
  <2>1. UNCHANGED <<endQueued, requests, logging>> /\ (Going' => Going) /\ (Going' /\ Calm' => Calm)
    BY <1>6 DEF Record, FinishGrind, ExtendGrind, ToggleLogging, PurgeLogs, vars, control, memory, past,
       Going, Calm, Turn
  <2> QED  BY <2>1 DEF LoggedInv
<1> QED
  BY <1>1, <1>2, <1>3, <1>4, <1>5, <1>6 DEF Next, Controller, FileTask, Menu

LEMMA Numbers ==
    ASSUME LogTypeOK
    PROVE  /\ grind \in Nat /\ booted \in Nat /\ nextId \in Nat
           /\ current.of \in Nat /\ current.id \in Nat /\ draft.of \in Nat /\ draft.id \in Nat
           /\ \A f \in files : f.of \in Nat /\ f.id \in Nat
BY RunAssumption DEF LogTypeOK, SessionFile

LEMMA CycleStep ==
    ASSUME LogTypeOK, SessionInv, CycleInv, [Next]_vars PROVE CycleInv'
<1>0. grind \in Nat /\ booted \in Nat /\ nextId \in Nat /\ current.of \in Nat /\ current.id \in Nat
      /\ draft.of \in Nat /\ draft.id \in Nat
  BY Numbers
<1>1. CASE StartGrind
  <2>1. /\ stage = "idle" /\ stage' = "preparing" /\ grind' = grind + 1
        /\ UNCHANGED <<booted, current, logging, nextId, step, draft>>
    BY <1>1 DEF StartGrind, memory, ids, writer, past
  <2> QED  BY <1>0, <2>1 DEF CycleInv, SameSession, OlderSession
<1>2. CASE BeginSession
  <2>1. /\ stage = "preparing" /\ stage' = "opening" /\ current'.of = grind /\ current'.id = nextId
        /\ nextId' = nextId + 1 /\ UNCHANGED <<grind, booted, logging, step, draft>>
    BY <1>2 DEF BeginSession, writer, past
  <2> QED  BY <1>0, <2>1 DEF CycleInv, SameSession, OlderSession
<1>3. CASE OpenSession
  <2>1. /\ stage = "opening" /\ stage' = "running" /\ UNCHANGED <<grind, booted, current, nextId, step, draft>>
    BY <1>3 DEF OpenSession, ids, writer, past
  <2>2. current.of = grind
    BY <2>1 DEF SessionInv
  <2> QED  BY <2>1, <2>2 DEF CycleInv, SameSession, OlderSession
<1>4. CASE Record \/ FinishGrind \/ QueueEnd \/ ExtendGrind \/ ToggleLogging \/ PurgeLogs \/ UNCHANGED vars
  <2>1. UNCHANGED <<grind, booted, current, logging, nextId, step, draft>>
    BY <1>4 DEF Record, FinishGrind, QueueEnd, ExtendGrind, ToggleLogging, PurgeLogs, vars, control,
       memory, ids, writer, past
  <2>2. (stage' = "idle" <=> stage = "idle") /\ (stage' = "preparing" => stage = "preparing")
    BY <1>4 DEF Record, FinishGrind, QueueEnd, ExtendGrind, ToggleLogging, PurgeLogs, vars, control
  <2> QED  BY <2>1, <2>2 DEF CycleInv, SameSession, OlderSession
<1>5. CASE DismissGrind \/ StopGrind
  <2>1. /\ UNCHANGED <<grind, booted, current, nextId, step, draft>> /\ stage' = "idle"
        /\ logging' = TRUE => logging = TRUE
    BY <1>5 DEF DismissGrind, StopGrind, Leave, memory, ids, writer
  <2> QED  BY <2>1 DEF CycleInv, SameSession, OlderSession
<1>6. CASE FileTask
  <2>1. UNCHANGED <<stage, grind, booted, nextId>> /\ (logging' = TRUE => logging = TRUE)
    BY <1>6 DEF FileTask, TakeRequest, OpenFile, WriteFile, FailToWrite, CleanUp, ClearSession, control,
       memory, ids, past
  <2>2. current'.of = current.of /\ current'.id = current.id
    <3>1. CASE TakeRequest
      BY <3>1 DEF TakeRequest, EnterResult, LogTypeOK
    <3> QED  BY <1>6, <3>1 DEF FileTask, OpenFile, WriteFile, FailToWrite, CleanUp, ClearSession, memory
  <2>3. step' # "none" => logging = TRUE \/ step # "none"
    BY <1>6 DEF FileTask, TakeRequest, EnterResult, OpenFile, WriteFile, FailToWrite, CleanUp,
       ClearSession, LogTypeOK
  <2>4. step' = "write" => draft'.of = current.of /\ draft'.id = current.id /\ step = "open"
    BY <1>6 DEF FileTask, TakeRequest, EnterResult, OpenFile, WriteFile, FailToWrite, CleanUp,
       ClearSession
  <2>5. (booted <= grind /\ (stage # "idle" => booted < grind))'
    BY <2>1 DEF CycleInv
  <2>6. (current.of <= grind /\ (stage = "preparing" => current.of < grind) /\ current.id < nextId)'
    BY <2>1, <2>2 DEF CycleInv
  <2>7. (logging = TRUE \/ step # "none" => booted < current.of)'
    BY <2>1, <2>2, <2>3 DEF CycleInv
  <2>8. (step = "write" => booted < draft.of /\ (SameSession \/ OlderSession))'
    BY <2>1, <2>2, <2>4 DEF CycleInv, SameSession
  <2> QED  BY <2>5, <2>6, <2>7, <2>8 DEF CycleInv
<1>7. CASE FactoryReset \/ PowerFails
  <2>1. /\ stage' = "idle" /\ step' = "none" /\ logging' = FALSE /\ booted' = grind /\ grind' = grind
        /\ current'.of = 0 /\ current'.id = 0
    BY <1>7 DEF FactoryReset, PowerFails, Reboot
  <2>2. nextId' > 0
    BY <1>7 DEF FactoryReset, PowerFails, LogTypeOK
  <2> QED  BY <1>0, <2>1, <2>2 DEF CycleInv
<1> QED
  BY <1>1, <1>2, <1>3, <1>4, <1>5, <1>6, <1>7 DEF Next, Controller, Menu

\* What adds no file and begins no session leaves the order.
LEMMA FewerFiles ==
    ASSUME OrderInv, files' \subseteq files, grind <= grind', UNCHANGED booted, LogTypeOK, LogTypeOK',
           current'.id = current.id, current'.of = current.of, hurried \subseteq hurried',
           step' = "write" => step = "write" /\ draft' = draft,
           Unwritten' => Unwritten
    PROVE  OrderInv'
<1>1. grind \in Nat /\ grind' \in Nat /\ \A f \in files : f.of \in Nat
  BY Numbers, RunAssumption DEF LogTypeOK
<1>2. ASSUME NEW f \in files' PROVE f.of <= grind' /\ (step' = "write" => f.id # draft'.id)
  <2>1. f \in files /\ f.of <= grind /\ (step = "write" => f.id # draft.id)
    BY <1>2 DEF OrderInv
  <2> QED  BY <1>1, <2>1
<1>3. \A f \in files' : New(f)' => New(f)
  BY DEF New
<1>4. ASSUME NEW f \in files', New(f)
      PROVE  /\ f.of <= current'.of /\ f.id <= current'.id /\ (f.id = current'.id => f.of = current'.of)
             /\ Below(f, current.id, current.of)'
             /\ step' = "write" => Below(f, draft.id, draft.of)'
             /\ Unwritten' => f.id # current'.id
  BY <1>4 DEF OrderInv, Below
<1>5. ASSUME NEW f \in files', NEW h \in files', New(f), New(h) PROVE Below(f, h.id, h.of)'
  BY <1>5 DEF OrderInv, Below
<1> QED  BY <1>2, <1>3, <1>4, <1>5 DEF OrderInv

\* A restart leaves no file of the new power cycle.
LEMMA RestartOrder ==
    ASSUME LogTypeOK, CycleInv, OrderInv, FactoryReset \/ PowerFails PROVE OrderInv'
<1>1. step' = "none" /\ booted' = grind /\ grind' = grind
  BY DEF FactoryReset, PowerFails, Reboot
<1>2. ASSUME NEW f \in files' PROVE f.of <= grind
  <2>1. f \in files \/ (step = "write" /\ f = [draft EXCEPT !.data = {}])
    BY <1>2 DEF FactoryReset, PowerFails, Reboot, Others
  <2>2. [draft EXCEPT !.data = {}].of = draft.of
    BY DEF LogTypeOK, SessionFile
  <2>3. step = "write" => draft.of <= grind
    BY Numbers DEF CycleInv, SameSession, OlderSession
  <2> QED  BY <2>1, <2>2, <2>3 DEF OrderInv
<1>3. \A f \in files' : ~New(f)'
  <2> SUFFICES ASSUME NEW f \in files', grind < f.of PROVE FALSE
    BY <1>1 DEF New
  <2>1. f.of \in Nat /\ grind \in Nat
    <3>1. files' \subseteq SessionFile
      BY RebootTypes DEF FactoryReset, PowerFails
    <3> QED  BY <3>1, Numbers DEF SessionFile
  <2> QED  BY <1>2, <2>1
<1> QED  BY <1>1, <1>2, <1>3 DEF OrderInv

LEMMA WriteOrder ==
    ASSUME LogTypeOK, QueueInv, SessionInv, WriterInv, RequestInv, CycleInv, OrderInv, WriteFile
    PROVE  OrderInv'
<1>1. PICK session \in {draft, current}, data \in {draft.data, entries, draft.data \cup entries} :
          files' = Others(draft.id) \cup {Written(session, data)}
  BY DEF WriteFile
<1> DEFINE new == Written(session, data)
<1>2. new.of = session.of /\ new.id = draft.id
  BY DEF Written, LogTypeOK, SessionFile
<1>3. /\ step = "write" /\ step' = "clean"
      /\ UNCHANGED <<stage, grind, endQueued, requests, current, booted, hurried>>
  BY DEF WriteFile, control, memory, past
<1>4. \A f \in files' : f \in files \/ f = new
  BY <1>1 DEF Others
<1> HIDE DEF new
<1>5. /\ grind \in Nat /\ booted \in Nat /\ current.of \in Nat /\ current.id \in Nat
      /\ draft.of \in Nat /\ draft.id \in Nat /\ \A f \in files : f.of \in Nat /\ f.id \in Nat
  BY Numbers
<1>6. booted < draft.of /\ current.of <= grind /\ (SameSession \/ OlderSession)
  BY <1>3 DEF CycleInv
<1>7. /\ new.of \in Nat /\ new.id = draft.id /\ draft.of <= new.of /\ new.of <= current.of
      /\ new.id <= current.id /\ (new.id = current.id => new.of = current.of)
  BY <1>2, <1>5, <1>6 DEF SameSession, OlderSession
<1>8. Busy
  BY <1>3 DEF Busy
<1>9. ASSUME new.of \notin hurried PROVE new.id = current.id
  <2>1. Calm
    BY <1>2, <1>3, <1>8, <1>9 DEF QueueInv
  <2>2. draft.of = grind /\ current.of = grind
    BY <1>3, <1>8, <2>1 DEF QueueInv, SessionInv, WriterInv, Going
  <2> QED  BY <1>5, <1>6, <1>7, <2>2 DEF SameSession, OlderSession
<1>10. ~Unwritten'
  <2>1. Calm => Going /\ endQueued = TRUE /\ requests = <<>>
    BY <1>3, <1>8 DEF QueueInv, RequestInv
  <2> QED  BY <1>3, <2>1 DEF Unwritten, Going, Calm, Turn
<1>11. ASSUME NEW f \in files, New(f)
       PROVE  /\ f.of <= current.of /\ f.id <= current.id /\ (f.id = current.id => f.of = current.of)
              /\ Below(f, current.id, current.of) /\ Below(f, draft.id, draft.of)
  BY <1>3, <1>11 DEF OrderInv
<1>12. ASSUME NEW f \in files' PROVE f.of <= grind' /\ (step' = "write" => f.id # draft'.id)
  <2>1. f \in files => f.of <= grind
    BY DEF OrderInv
  <2>2. new.of <= grind
    BY <1>5, <1>6, <1>7
  <2> QED  BY <1>3, <1>4, <2>1, <2>2
<1>13. ASSUME NEW f \in files', New(f)'
       PROVE  /\ f.of <= current'.of /\ f.id <= current'.id /\ (f.id = current'.id => f.of = current'.of)
              /\ Below(f, current.id, current.of)'
  <2>1. CASE f \in files
    <3>1. New(f)
      BY <1>3, <1>13, <2>1 DEF New
    <3> QED  BY <1>3, <1>11, <2>1, <3>1 DEF Below
  <2>2. CASE f = new
    BY <1>3, <1>5, <1>7, <1>9, <2>2 DEF Below
  <2> QED  BY <1>4, <2>1, <2>2
<1>14. ASSUME NEW f \in files', NEW h \in files', New(f)', New(h)' PROVE Below(f, h.id, h.of)'
  <2>0. (f \in files => New(f)) /\ (h \in files => New(h))
    BY <1>3, <1>14 DEF New
  <2>1. CASE f \in files /\ h \in files
    BY <1>3, <2>0, <2>1 DEF OrderInv, Below
  <2>2. CASE f \in files /\ h = new
    <3>1. Below(f, draft.id, draft.of)
      BY <1>11, <2>0, <2>2
    <3> QED  BY <1>3, <1>5, <1>7, <2>2, <3>1 DEF Below
  <2>3. CASE f = new /\ h \in files
    <3>1. h.id <= current.id
      BY <1>11, <2>0, <2>3
    <3> QED  BY <1>3, <1>5, <1>9, <2>3, <3>1 DEF Below
  <2>4. CASE f = new /\ h = new
    BY <1>5, <1>7, <2>4 DEF Below
  <2> QED  BY <1>4, <2>1, <2>2, <2>3, <2>4
<1> QED  BY <1>3, <1>10, <1>12, <1>13, <1>14 DEF OrderInv

\* A session that begins has a name no file of this power cycle has, or a higher one.
LEMMA BeginOrder ==
    ASSUME LogTypeOK, CycleInv, OrderInv, BeginSession PROVE OrderInv'
<1>1. /\ stage = "preparing" /\ current'.id = nextId /\ current'.of = grind
      /\ UNCHANGED <<grind, files, step, draft, booted, hurried>>
  BY DEF BeginSession, writer, past
<1>2. current.id < nextId /\ current.of < grind
  BY <1>1 DEF CycleInv
<1>3. ASSUME NEW f \in files, New(f)
      PROVE  f.of < grind /\ f.id < nextId /\ (step = "write" => Below(f, draft.id, draft.of))
  <2>1. f.of <= current.of /\ f.id <= current.id /\ (step = "write" => Below(f, draft.id, draft.of))
    BY <1>3 DEF OrderInv
  <2> QED  BY <1>2, <2>1, Numbers
<1>4. ASSUME NEW f \in files', New(f)'
      PROVE  /\ f.of <= current'.of /\ f.id <= current'.id /\ (f.id = current'.id => f.of = current'.of)
             /\ Below(f, current.id, current.of)'
             /\ step' = "write" => Below(f, draft.id, draft.of)'
             /\ Unwritten' => f.id # current'.id
  <2>1. f \in files /\ New(f)
    BY <1>1, <1>4 DEF New
  <2> QED  BY <1>1, <1>3, <2>1, Numbers DEF Below
<1>5. (\A f \in files : f.of <= grind /\ (step = "write" => f.id # draft.id))'
  BY <1>1 DEF OrderInv
<1>6. (\A f, h \in files : New(f) /\ New(h) => Below(f, h.id, h.of))'
  BY <1>1 DEF OrderInv, New, Below
<1> QED  BY <1>4, <1>5, <1>6 DEF OrderInv

\* The name under which the session is opened belongs to no other file any more.
LEMMA OpenOrder ==
    ASSUME LogTypeOK, QueueInv, OrderInv, OpenFile PROVE OrderInv'
<1>1. /\ step = "open" /\ files' = Others(current.id) /\ draft'.id = current.id /\ draft'.of = current.of
      /\ UNCHANGED <<stage, grind, endQueued, requests, current, booted, hurried>>
  BY DEF OpenFile, control, memory, past
<1>2. \A f \in files' : f \in files /\ f.id # current.id
  BY <1>1 DEF Others
<1>3. ASSUME NEW f \in files', New(f)'
      PROVE  /\ f.of <= current'.of /\ f.id <= current'.id /\ (f.id = current'.id => f.of = current'.of)
             /\ Below(f, current.id, current.of)'
             /\ step' = "write" => Below(f, draft.id, draft.of)'
             /\ Unwritten' => f.id # current'.id
  <2>1. New(f)
    BY <1>1, <1>2, <1>3 DEF New
  <2> QED  BY <1>1, <1>2, <2>1 DEF OrderInv, Below
<1>4. (\A f \in files : f.of <= grind /\ (step = "write" => f.id # draft.id))'
  BY <1>1, <1>2 DEF OrderInv
<1>5. (\A f, h \in files : New(f) /\ New(h) => Below(f, h.id, h.of))'
  BY <1>1, <1>2 DEF OrderInv, New, Below
<1> QED  BY <1>3, <1>4, <1>5 DEF OrderInv

LEMMA OrderStep ==
    ASSUME LogTypeOK, QueueInv, SessionInv, WriterInv, RequestInv, CycleInv, OrderInv, [Next]_vars
    PROVE  OrderInv'
<1>0. LogTypeOK' /\ hurried \subseteq hurried' /\ grind \in Nat
  BY TypeStep, SameTurn, Numbers
<1>1. CASE StartGrind \/ DismissGrind \/ StopGrind
  <2>1. /\ UNCHANGED <<files, current, booted, step, draft>> /\ grind <= grind'
        /\ stage' \in {"idle", "preparing"}
    BY <1>0, <1>1 DEF StartGrind, DismissGrind, StopGrind, Leave, memory, writer, past
  <2>2. ~Unwritten'
    BY <2>1 DEF Unwritten, Going
  <2> QED  BY <1>0, <2>1, <2>2, FewerFiles
<1>2. CASE OpenSession \/ Record \/ FinishGrind \/ QueueEnd \/ ExtendGrind \/ ToggleLogging \/ PurgeLogs
           \/ UNCHANGED vars
  <2>1. UNCHANGED <<grind, current, booted, hurried, step, draft>> /\ files' \subseteq files
    BY <1>2 DEF OpenSession, Record, FinishGrind, QueueEnd, ExtendGrind, ToggleLogging, PurgeLogs, vars,
       control, memory, writer, past
  <2>2. Unwritten' => Unwritten
    <3>1. CASE OpenSession
      BY <3>1 DEF OpenSession, past, Unwritten, Calm, Turn
    <3>2. CASE QueueEnd
      BY <3>2 DEF QueueEnd, past, Unwritten, Going, Calm, Turn, LogTypeOK
    <3>3. CASE Record \/ FinishGrind \/ ExtendGrind \/ ToggleLogging \/ PurgeLogs \/ UNCHANGED vars
      BY <3>3 DEF Record, FinishGrind, ExtendGrind, ToggleLogging, PurgeLogs, vars, control, writer, past,
         Unwritten, Going, Calm, Turn
    <3> QED  BY <1>2, <3>1, <3>2, <3>3
  <2> QED  BY <1>0, <2>1, <2>2, FewerFiles
<1>3. CASE TakeRequest \/ FailToWrite \/ CleanUp \/ ClearSession
  <2>1. /\ UNCHANGED <<stage, grind, endQueued, booted, hurried>> /\ files' \subseteq files
        /\ step' # "write"
    BY <1>3 DEF TakeRequest, EnterResult, FailToWrite, CleanUp, ClearSession, control, past
  <2>2. current'.id = current.id /\ current'.of = current.of
    BY <1>3 DEF TakeRequest, EnterResult, FailToWrite, CleanUp, ClearSession, memory, LogTypeOK
  <2>3. Unwritten' => Unwritten
    <3>1. CASE TakeRequest
      BY <2>1, <3>1 DEF TakeRequest, Unwritten, Going, Calm, Turn
    <3>2. CASE FailToWrite \/ CleanUp \/ ClearSession
      <4>1. requests' = requests /\ step' \in {"clear", "none"}
        BY <3>2 DEF FailToWrite, CleanUp, ClearSession
      <4> QED  BY <2>1, <4>1 DEF Unwritten, Going, Calm, Turn
    <3> QED  BY <1>3, <3>1, <3>2
  <2> QED  BY <1>0, <2>1, <2>2, <2>3, FewerFiles
<1>4. CASE BeginSession \/ OpenFile \/ WriteFile \/ FactoryReset \/ PowerFails
  BY <1>4, BeginOrder, OpenOrder, WriteOrder, RestartOrder
<1> QED
  BY <1>1, <1>2, <1>3, <1>4 DEF Next, Controller, FileTask, Menu

LEMMA OrderInit == Init => RequestInv /\ LoggedInv /\ CycleInv /\ OrderInv
BY RunAssumption DEF Init, RequestInv, LoggedInv, CycleInv, OrderInv, Going

-----------------------------------------------------------------------------
\* Every finished grind is saved, and files make room in order.

\* What has become of the request for the grind that is there: its file was written,
\* did not fit, or was the first to go.
Saved    == \E f \in files : f.of = grind /\ f.whole = TRUE /\ f.id = current.id
OldAbove == {f \in files : f.of <= booted /\ f.id > current.id}
Ousted   == Cardinality(OldAbove) >= MaxStored
SavedInv ==
    /\ IsFiniteSet(files)
    /\ Going /\ Calm /\ endQueued = TRUE /\ enabled = TRUE =>
           \/ requests # <<>> \/ step \in {"open", "write"}
           \/ step = "clean" /\ Saved
           \/ step \in {"none", "clear"} /\ (Saved \/ full = TRUE \/ Ousted)

\* A cleanup that removes a file leaves MaxStored files above it: take the removed
\* file above it, or itself, with the fewest above; none of these is removed.
LEMMA CleanUpLeavesEnough ==
    ASSUME IsFiniteSet(files), files \subseteq SessionFile, NEW e \in Excess
    PROVE  \E U \in SUBSET (Higher(e) \ Excess) : IsFiniteSet(U) /\ Cardinality(U) >= MaxStored
<1> DEFINE Above == {f \in Excess : f.id >= e.id}
           T == {Higher(f) : f \in Above}
<1>0. \A f \in files : f.id \in Nat
  BY DEF SessionFile
<1>1. \A f \in files : IsFiniteSet(Higher(f)) /\ Higher(f) \in SUBSET files
  <2> SUFFICES ASSUME NEW f \in files PROVE IsFiniteSet(Higher(f)) /\ Higher(f) \in SUBSET files
    OBVIOUS
  <2>1. Higher(f) \in SUBSET files
    BY DEF Higher
  <2> QED  BY <2>1, FS_Subset
<1>2. T \subseteq FiniteSubsetsOf(files) /\ T # {}
  <2>1. e \in Above /\ Above \subseteq files
    BY <1>0 DEF Excess
  <2> QED  BY <1>1, <2>1 DEF FiniteSubsetsOf
<1>3. \E U \in T : \A V \in T : <<V, U>> \notin StrictSubsetOrdering(files)
  <2>1. IsWellFoundedOn(StrictSubsetOrdering(files), FiniteSubsetsOf(files))
    BY FS_StrictSubsetOrderingWellFounded
  <2> HIDE DEF T
  <2> QED  BY <1>2, <2>1, WFMin
<1>4. PICK f \in Above : \A g \in Above : <<Higher(g), Higher(f)>> \notin StrictSubsetOrdering(files)
  BY <1>3
<1>5. f \in files /\ e \in files /\ f.id >= e.id /\ Cardinality(Higher(f)) >= MaxStored
  BY DEF Excess
<1>6. Higher(f) \subseteq Higher(e) \ Excess
  <2> SUFFICES ASSUME NEW h \in Higher(f) PROVE h \in Higher(e) /\ h \notin Excess
    OBVIOUS
  <2>1. h \in files /\ h.id > f.id
    BY DEF Higher
  <2>2. h \in Higher(e)
    BY <1>0, <1>5, <2>1 DEF Higher
  <2>3. ASSUME h \in Excess PROVE FALSE
    <3>1. h \in Above
      BY <1>0, <1>5, <2>1, <2>3
    <3>2. Higher(h) \subseteq Higher(f) /\ h \notin Higher(h)
      BY <1>0, <1>5, <2>1 DEF Higher
    <3>3. Higher(h) \in SUBSET files /\ Higher(f) \in SUBSET files /\ Higher(h) # Higher(f)
      BY <1>1, <1>5, <2>1, <3>2
    <3>4. <<Higher(h), Higher(f)>> \in StrictSubsetOrdering(files)
      BY <3>2, <3>3 DEF StrictSubsetOrdering
    <3> QED  BY <1>4, <3>1, <3>4
  <2> QED  BY <2>2, <2>3
<1>7. Higher(f) \in SUBSET (Higher(e) \ Excess) /\ IsFiniteSet(Higher(f))
  BY <1>1, <1>5, <1>6
<1> QED  BY <1>5, <1>7

\* A larger set is enough as well.
LEMMA EnoughIsMore ==
    ASSUME NEW S, NEW U \in SUBSET S, IsFiniteSet(S), Cardinality(U) >= MaxStored
    PROVE  Cardinality(S) >= MaxStored
<1> DEFINE a == Cardinality(U)
           b == Cardinality(S)
<1>1. a \in Nat /\ b \in Nat /\ a <= b /\ a >= MaxStored
  BY FS_Subset, FS_CardinalityType
<1> HIDE DEF a, b
<1>2. b >= MaxStored
  BY <1>1, StoreAssumption
<1> QED  BY <1>2 DEF b

LEMMA NoneIsEmpty ==
    ASSUME NEW S, NEW s \in Seq(S), NEW e \in S, NEW n \in Nat \ {0}
    PROVE  Append(s, e) # <<>> /\ (~(Len(s) < n) => s # <<>>)
<1>1. Len(Append(s, e)) = Len(s) + 1 /\ Len(s) \in Nat
  OBVIOUS
<1>2. Len(<<>>) = 0
  OBVIOUS
<1>3. ASSUME Append(s, e) = <<>> PROVE FALSE
  <2>1. Len(Append(s, e)) = 0
    BY <1>2, <1>3
  <2> QED  BY <1>1, <2>1
<1>4. ASSUME ~(Len(s) < n), s = <<>> PROVE FALSE
  <2>1. Len(s) = 0
    BY <1>2, <1>4
  <2> QED  BY <1>4, <2>1
<1> QED  BY <1>3, <1>4

LEMMA SomeRequest == ASSUME LogTypeOK PROVE Enqueue(grind) # <<>>
BY NoneIsEmpty, StoreAssumption DEF Enqueue, LogTypeOK

LEMMA SavedStep ==
    ASSUME LogTypeOK, QueueInv, RequestInv, LoggedInv, SessionInv, WriterInv, CycleInv, OrderInv,
           SavedInv, [Next]_vars
    PROVE  SavedInv'
<1>0. IsFiniteSet(files) /\ files \subseteq SessionFile
  BY DEF SavedInv, LogTypeOK
<1>1. CASE OpenSession
  <2>1. endQueued' = FALSE /\ files' = files
    BY <1>1 DEF OpenSession, SessionInv
  <2> QED  BY <2>1 DEF SavedInv
<1>2. CASE QueueEnd
  <2>1. Enqueue(grind) # <<>>
    BY SomeRequest
  <2>2. requests' # <<>> /\ files' = files
    BY <1>2, <2>1 DEF QueueEnd
  <2> QED  BY <2>2 DEF SavedInv
<1>3. CASE TakeRequest
  <2>1. requests # <<>> /\ UNCHANGED <<stage, grind, endQueued, files, enabled, hurried>>
    BY <1>3 DEF TakeRequest, control, past
  <2>2. (Going' => Going) /\ (Calm' => Calm)
    BY <2>1 DEF Going, Calm, Turn
  <2>3. Going /\ Calm => logging = TRUE
    BY <2>1 DEF LoggedInv
  <2>4. logging = TRUE /\ enabled = TRUE => step' = "open"
    BY <1>3 DEF TakeRequest, EnterResult
  <2> QED  BY <2>1, <2>2, <2>3, <2>4 DEF SavedInv
<1>4. CASE OpenFile
  <2>1. step' = "write" /\ files' \in SUBSET files
    BY <1>4 DEF OpenFile, Others
  <2>2. IsFiniteSet(files')
    BY <1>0, <2>1, FS_Subset
  <2> QED  BY <2>1, <2>2 DEF SavedInv
<1>5. CASE WriteFile
  <2>1. PICK session \in {draft, current}, data \in {draft.data, entries, draft.data \cup entries} :
            files' = Others(draft.id) \cup {Written(session, data)}
    BY <1>5 DEF WriteFile
  <2>2. /\ step = "write" /\ step' = "clean" /\ Busy
        /\ UNCHANGED <<stage, grind, current, hurried>>
    BY <1>5 DEF WriteFile, Busy, control, memory, past
  <2>3. /\ Written(session, data).of = session.of /\ Written(session, data).whole = TRUE
        /\ Written(session, data).id = draft.id
    BY DEF Written, LogTypeOK, SessionFile
  <2>4. ASSUME Calm' PROVE Saved'
    <3>1. Calm
      BY <2>2, <2>4 DEF Calm, Turn
    <3>2. draft.of = grind /\ current.of = grind
      BY <2>2, <3>1 DEF QueueInv, SessionInv, WriterInv, Going
    <3>3. SameSession
      BY <2>2, <3>2, Numbers DEF CycleInv, OlderSession
    <3>4. session.of = grind /\ draft.id = current.id
      BY <3>2, <3>3 DEF SameSession
    <3> QED  BY <2>1, <2>2, <2>3, <3>4 DEF Saved
  <2>5. IsFiniteSet(files')
    <3>1. Others(draft.id) \in SUBSET files
      BY DEF Others
    <3>2. IsFiniteSet(Others(draft.id))
      BY <1>0, <3>1, FS_Subset
    <3> QED  BY <2>1, <3>2, FS_AddElement
  <2> QED  BY <2>2, <2>4, <2>5 DEF SavedInv
<1>6. CASE FailToWrite
  BY <1>6 DEF FailToWrite, control, past, SavedInv
<1>7. CASE CleanUp
  <2>1. /\ files' = files \ Excess /\ step = "clean" /\ step' = "clear"
        /\ UNCHANGED <<stage, grind, endQueued, requests, current, enabled, booted, hurried>>
    BY <1>7 DEF CleanUp, control, memory, past
  <2>2. IsFiniteSet(files')
    BY <1>0, <2>1, FS_Difference
  <2>3. SUFFICES ASSUME Going', Calm', endQueued' = TRUE, enabled' = TRUE
                 PROVE  requests' # <<>> \/ Saved' \/ Ousted'
    BY <2>1, <2>2 DEF SavedInv
  <2>4. Going /\ Calm /\ endQueued = TRUE /\ enabled = TRUE
    BY <2>1, <2>3 DEF Going, Calm, Turn
  <2>5. SUFFICES ASSUME Saved PROVE Saved' \/ Ousted'
    BY <2>1, <2>4 DEF SavedInv
  <2>6. PICK f \in files : f.of = grind /\ f.whole = TRUE /\ f.id = current.id
    BY <2>5 DEF Saved
  <2>7. CASE f \notin Excess
    BY <2>1, <2>6, <2>7 DEF Saved
  <2>8. CASE f \in Excess
    <3>1. PICK U \in SUBSET (Higher(f) \ Excess) : IsFiniteSet(U) /\ Cardinality(U) >= MaxStored
      BY <1>0, <2>8, CleanUpLeavesEnough
    <3>2. ASSUME NEW h \in Higher(f) PROVE h.of <= booted /\ h.id > current.id
      <4>1. h \in files /\ h.id > f.id /\ h.of <= grind
        BY DEF Higher, OrderInv
      <4>2. f.of \notin hurried /\ booted < f.of
        BY <2>4, <2>6 DEF Calm, Turn, Going, CycleInv
      <4>3. ~(booted < h.of)
        <5> SUFFICES ASSUME booted < h.of PROVE FALSE
          OBVIOUS
        <5>1. Below(f, h.id, h.of)
          BY <4>1, <4>2 DEF OrderInv, New
        <5>2. f.of < h.of
          BY <4>1, <4>2, <5>1, Numbers DEF Below
        <5> QED  BY <2>6, <4>1, <5>2, Numbers
      <4> QED  BY <2>6, <4>1, <4>3, Numbers
    <3>3. Higher(f) \subseteq files
      BY DEF Higher
    <3>4. U \in SUBSET OldAbove'
      BY <2>1, <3>1, <3>2, <3>3 DEF OldAbove
    <3>5. OldAbove' \in SUBSET files'
      BY DEF OldAbove
    <3>6. IsFiniteSet(OldAbove')
      BY <2>2, <3>5, FS_Subset
    <3>7. Cardinality(OldAbove') >= MaxStored
      BY <3>1, <3>4, <3>6, EnoughIsMore
    <3> QED  BY <3>7 DEF Ousted
  <2> QED  BY <2>7, <2>8
<1>8. CASE ClearSession
  <2>1. /\ step = "clear" /\ step' = "none"
        /\ UNCHANGED <<stage, grind, endQueued, requests, current, enabled, full, files, booted, hurried>>
    BY <1>8 DEF ClearSession, control, past
  <2> QED  BY <2>1 DEF SavedInv, Saved, Ousted, OldAbove, Going, Calm, Turn
<1>9. CASE StartGrind \/ BeginSession \/ DismissGrind \/ StopGrind \/ ToggleLogging \/ PurgeLogs
  <2>1. ~Going' /\ files' \in {files, {}}
    BY <1>9 DEF StartGrind, BeginSession, DismissGrind, StopGrind, ToggleLogging, PurgeLogs, Going,
       control
  <2> QED  BY <2>1, FS_EmptySet DEF SavedInv
<1>10. CASE FactoryReset \/ PowerFails
  <2>1. ~Going' /\ (files' = files \/ files' = Others(draft.id) \cup {[draft EXCEPT !.data = {}]})
    BY <1>10 DEF FactoryReset, PowerFails, Reboot, Going
  <2>2. Others(draft.id) \in SUBSET files
    BY DEF Others
  <2>3. IsFiniteSet(Others(draft.id))
    BY <1>0, <2>2, FS_Subset
  <2>4. IsFiniteSet(files')
    BY <1>0, <2>1, <2>3, FS_AddElement
  <2> QED  BY <2>1, <2>4 DEF SavedInv
<1>11. CASE Record \/ FinishGrind \/ ExtendGrind \/ UNCHANGED vars
  <2>1. /\ UNCHANGED <<grind, endQueued, requests, current, enabled, step, full, files, booted, hurried>>
        /\ (Going' => Going) /\ (Going' /\ Calm' => Calm)
    BY <1>11 DEF Record, FinishGrind, ExtendGrind, vars, control, memory, writer, past, Going, Calm, Turn
  <2> QED  BY <2>1 DEF SavedInv, Saved, Ousted, OldAbove
<1> QED
  BY <1>1, <1>2, <1>3, <1>4, <1>5, <1>6, <1>7, <1>8, <1>9, <1>10, <1>11
  DEF Next, Controller, FileTask, Menu

\* A file that goes was purged, or has lost its name, or has enough files above it.
LEMMA RotationStep ==
    ASSUME LogTypeOK, QueueInv, SessionInv, CycleInv, SavedInv, OrderInv, [Next]_vars,
           NEW f \in files, f \notin files'
    PROVE  \/ files' = {}
           \/ f.id = current.id /\ (f.of <= booted \/ f.of \in hurried)
           \/ Cardinality({h \in Higher(f) : h.of > f.of \/ h.of <= booted \/ f.of \in hurried})
                  >= MaxStored
<1>0. /\ (\A h \in files : h.of \in Nat /\ h.id \in Nat) /\ current.id \in Nat /\ booted \in Nat
      /\ (step = "write" => f.id # draft.id)
  BY Numbers DEF OrderInv
<1>1. CASE CleanUp
  <2> DEFINE Pushing == {h \in Higher(f) : h.of > f.of \/ h.of <= booted \/ f.of \in hurried}
  <2>1. f \in Excess
    BY <1>1 DEF CleanUp
  <2>2. ASSUME NEW h \in Higher(f) PROVE h.of > f.of \/ h.of <= booted \/ f.of \in hurried
    <3>1. h \in files /\ h.id > f.id
      BY DEF Higher
    <3> SUFFICES ASSUME ~(h.of <= booted), f.of \notin hurried PROVE h.of > f.of
      OBVIOUS
    <3>2. booted < h.of
      BY <1>0, <3>1
    <3>3. CASE booted < f.of
      <4>1. Below(f, h.id, h.of)
        BY <3>1, <3>2, <3>3 DEF OrderInv, New
      <4> QED  BY <1>0, <3>1, <4>1 DEF Below
    <3>4. CASE ~(booted < f.of)
      BY <1>0, <3>1, <3>2, <3>4
    <3> QED  BY <3>3, <3>4
  <2>3. Pushing = Higher(f)
    BY <2>2
  <2>4. Cardinality(Higher(f)) >= MaxStored
    BY <2>1 DEF Excess
  <2> QED  BY <2>3, <2>4
<1>2. CASE OpenFile
  <2>1. step = "open" /\ f.id = current.id
    BY <1>2 DEF OpenFile, Others
  <2>2. CASE ~(booted < f.of)
    BY <1>0, <2>1, <2>2
  <2>3. CASE booted < f.of
    <3>1. f.of = current.of /\ ~Unwritten
      BY <2>1, <2>3 DEF OrderInv, New
    <3>2. ~Calm
      BY <2>1, <3>1 DEF Unwritten, QueueInv, Busy
    <3>3. current.of \in hurried
      BY <2>1, <3>2 DEF QueueInv, Busy
    <3> QED  BY <2>1, <3>1, <3>3
  <2> QED  BY <2>2, <2>3
<1>3. CASE WriteFile
  BY <1>0, <1>3 DEF WriteFile, Others
<1>4. CASE PowerFails \/ FactoryReset
  BY <1>0, <1>4 DEF PowerFails, FactoryReset, Reboot, Others
<1>5. CASE PurgeLogs
  BY <1>5 DEF PurgeLogs
<1>6. CASE Controller \/ TakeRequest \/ FailToWrite \/ ClearSession \/ ToggleLogging \/ UNCHANGED vars
  BY <1>6 DEF Controller, StartGrind, BeginSession, OpenSession, Record, FinishGrind, QueueEnd,
     ExtendGrind, DismissGrind, StopGrind, TakeRequest, FailToWrite, ClearSession, ToggleLogging, vars
<1> QED
  BY <1>1, <1>2, <1>3, <1>4, <1>5, <1>6 DEF Next, FileTask, Menu

\* All of it.
LogInv ==
    /\ LogTypeOK /\ QueueInv /\ SessionInv /\ WriterInv
    /\ RequestInv /\ LoggedInv /\ CycleInv /\ OrderInv /\ SavedInv

LEMMA LogInvInit == Init => LogInv
<1>1. Init => SavedInv
  BY FS_EmptySet DEF Init, SavedInv, Going
<1> QED  BY <1>1, TypeInit, FilesInit, OrderInit DEF LogInv

LEMMA LogInvStep == LogInv /\ [Next]_vars => LogInv'
BY TypeStep, QueueStep, SessionStep, WriterStep, RequestStep, LoggedStep, CycleStep, OrderStep, SavedStep
DEF LogInv

\* Every grind that is over and whose end was worked off has its file, unless logging
\* is off, the flash full, or MaxStored files from before the restart have higher
\* names; however many sessions have to make room, however often the power fails,
\* and whenever the user leaves a grind.  The exception are grinds that came upon one
\* that was left while the file task was busy: their request may be lost, or worked off
\* for the wrong one (queue_flash_operation(), end_grind_session(),
\* cleanup_old_session_files()).
THEOREM FinishedGrindsAreSaved == Spec => []FinishedGrindIsSaved
<1>1. LogInv => FinishedGrindIsSaved
  <2> SUFFICES ASSUME LogInv, stage = "over", SessionEnded, enabled, ~full, grind \notin hurried
               PROVE  \/ \E f \in files : f.of = grind /\ f.whole
                      \/ Cardinality({f \in files : f.of <= booted /\ f.id > current.id}) >= MaxStored
    BY DEF FinishedGrindIsSaved
  <2>1. requests = <<>> /\ step = "none" /\ enabled = TRUE /\ full = FALSE /\ Going /\ Calm
    BY DEF SessionEnded, Busy, LogInv, LogTypeOK, Going, Calm, Turn
  <2>2. endQueued = TRUE
    BY <2>1 DEF SessionEnded, LogInv, LoggedInv, LogTypeOK
  <2>3. Saved \/ Ousted
    BY <2>1, <2>2 DEF LogInv, SavedInv
  <2> QED  BY <2>3 DEF Saved, Ousted, OldAbove
<1> QED  BY LogInvInit, LogInvStep, <1>1, PTL DEF Spec

\* A whole file goes when the user purges the log, when a session of a later power cycle
\* gets its name again, or for MaxStored files with higher names, which are of later grinds
\* or from before the restart; however often the power fails, whatever it interrupts, and
\* whenever the user leaves a grind (write_individual_session_file(),
\* cleanup_old_session_files()).
THEOREM RotationIsInOrder == Spec => RotationKeepsNewest
<1>1. LogInv /\ [Next]_vars =>
          [ \A f \in files : f.whole /\ f \notin files' =>
                \/ files' = {}
                \/ f.id = current.id /\ (f.of <= booted \/ f.of \in hurried)
                \/ Cardinality({h \in Higher(f) : h.of > f.of \/ h.of <= booted \/ f.of \in hurried})
                       >= MaxStored ]_vars
  BY RotationStep DEF LogInv
<1> QED  BY <1>1, LogInvInit, LogInvStep, PTL DEF Spec, RotationKeepsNewest

=============================================================================
