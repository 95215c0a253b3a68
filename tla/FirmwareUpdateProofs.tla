------------------------- MODULE FirmwareUpdateProofs -------------------------
(***************************************************************************)
(* Proofs about FirmwareUpdate, for any set of firmware and any length of  *)
(* a patch.                                                                *)
(***************************************************************************)
EXTENDS FirmwareUpdate, TLAPS

\* A callback that is under way, like an update, has a client, unless a
\* disable() did not see the START; one that is not through yet will not either.
\* A patch is applied with the touch panel off, so that nobody switches
\* Bluetooth on again under it.
LinkInv ==
    /\ updating \/ callback # "none" => connected \/ unseen
    /\ updating \/ callback = "erasing" => leaving = {} \/ unseen
    /\ connected => enabled
    /\ callback \in {"none", "erasing", "applying"}
    /\ callback = "erasing" => ~updating
    /\ callback = "applying" => updating /\ ~touch /\ (enabled => connected)

\* What the main loop is about to do when the tasks are not in the state the
\* update asks for.  While the partition is erased, the main loop may only
\* have resumed the tasks on account of the update before.
TasksInv ==
    /\ {updating, suspended, mainSuspended} \subseteq BOOLEAN
    /\ mainSaw \in {"none", "idle", "active"}
    /\ updating /\ ~suspended /\ mainSaw # "idle" => ~mainSuspended
    /\ ~updating /\ suspended /\ callback = "none" /\ mainSaw # "active" => mainSuspended
    /\ callback = "erasing" /\ ~suspended => mainSaw # "active" /\ ~mainSuspended

-----------------------------------------------------------------------------
LEMMA LinkStep == LinkInv /\ [Next]_vars => LinkInv'
<1> SUFFICES ASSUME LinkInv, [Next]_vars PROVE LinkInv'
  OBVIOUS
<1> USE DEF LinkInv
<1>1. ASSUME NEW f, Boot(f) PROVE LinkInv'
  BY <1>1 DEF Boot
<1>2. CASE Connect  BY <1>2 DEF Connect, transfer, device
<1>3. CASE BeginStart  BY <1>3 DEF BeginStart, Listening, link, device
<1>4. CASE StartSucceeds  BY <1>4 DEF StartSucceeds, link, device
<1>5. CASE StartFails  BY <1>5 DEF StartFails, link, transfer, device
<1>6. CASE ReceiveChunk  BY <1>6 DEF ReceiveChunk, Listening, link, device
<1>7. CASE BeginComplete  BY <1>7 DEF BeginComplete, Listening, link, transfer
<1>8. CASE GiveUp  BY <1>8 DEF GiveUp, link, device
<1>9. CASE ReceiveAbort  BY <1>9 DEF ReceiveAbort, Abort, Listening, link, device
<1>10. CASE Disconnect  BY <1>10 DEF Disconnect, Abort, Listening, device
<1>11. ASSUME NEW task, BeginDisable(task), ~connected \/ touch PROVE LinkInv'
  BY <1>11 DEF BeginDisable, Abort, device
<1>12. CASE touch /\ Enable  BY <1>12 DEF Enable, transfer, device
<1>13. ASSUME NEW task, EndDisable(task) PROVE LinkInv'
  BY <1>13 DEF EndDisable, transfer, device
<1>14. CASE Main \/ ShowUpdate \/ Control \/ StartGrind \/ UserGoesOn \/ UserStopsGrind
  BY <1>14 DEF Main, MainLooks, MainActs, ShowUpdate, Control, ControlEndsGrind, ControlHoldsGrind,
     StartGrind, UserGoesOn, UserStopsGrind, link, transfer, device
<1>15. CASE UNCHANGED vars  BY <1>15 DEF vars, link, transfer, device
<1> QED
  BY <1>1, <1>2, <1>3, <1>4, <1>5, <1>6, <1>7, <1>8, <1>9, <1>10, <1>11, <1>12, <1>13, <1>14, <1>15
  DEF Next, Stack, User, Leaves, ApplyPatch, PowerFails, DisableByTimeout, ToggleBluetooth

LEMMA TasksStep == LinkInv /\ TasksInv /\ [Next]_vars => TasksInv'
<1> SUFFICES ASSUME LinkInv, TasksInv, [Next]_vars PROVE TasksInv'
  OBVIOUS
<1> USE DEF LinkInv, TasksInv
<1>1. ASSUME NEW f, Boot(f) PROVE TasksInv'
  BY <1>1 DEF Boot
<1>2. CASE Connect  BY <1>2 DEF Connect, transfer, tasks
<1>3. CASE BeginStart  BY <1>3 DEF BeginStart, Listening, link
<1>4. CASE StartSucceeds  BY <1>4 DEF StartSucceeds, link, tasks
<1>5. CASE StartFails  BY <1>5 DEF StartFails, link, transfer
<1>6. CASE ReceiveChunk  BY <1>6 DEF ReceiveChunk, link, tasks
<1>7. CASE BeginComplete  BY <1>7 DEF BeginComplete, Listening, link, transfer, tasks
<1>8. CASE GiveUp  BY <1>8 DEF GiveUp, link
<1>9. CASE ReceiveAbort  BY <1>9 DEF ReceiveAbort, Abort, Listening, link
<1>10. CASE Disconnect  BY <1>10 DEF Disconnect, Abort, Listening
<1>11. ASSUME NEW task, BeginDisable(task), ~connected \/ touch PROVE TasksInv'
  BY <1>11 DEF BeginDisable, Abort
<1>12. CASE Enable \/ Leaves  BY <1>12 DEF Enable, Leaves, EndDisable, transfer, tasks
<1>13. CASE MainLooks  BY <1>13 DEF MainLooks, link, transfer
<1>14. CASE MainActs  BY <1>14 DEF MainActs, link, transfer
<1>15. CASE ShowUpdate \/ Control \/ StartGrind \/ UserGoesOn \/ UserStopsGrind
  BY <1>15 DEF ShowUpdate, Control, ControlEndsGrind, ControlHoldsGrind,
     StartGrind, UserGoesOn, UserStopsGrind, link, transfer, tasks
<1>16. CASE UNCHANGED vars  BY <1>16 DEF vars, link, transfer, tasks
<1> QED
  BY <1>1, <1>2, <1>3, <1>4, <1>5, <1>6, <1>7, <1>8, <1>9, <1>10, <1>11, <1>12, <1>13, <1>14,
     <1>15, <1>16
  DEF Next, Stack, Main, User, ApplyPatch, PowerFails, DisableByTimeout, ToggleBluetooth

LEMMA UpdateInit == Init => LinkInv /\ TasksInv
BY DEF Init, LinkInv, TasksInv

\* Neither invariant is ever broken.
THEOREM UpdateInvariance == Spec => [](LinkInv /\ TasksInv)
<1>1. LinkInv /\ TasksInv /\ [Next]_vars => (LinkInv /\ TasksInv)'
  BY LinkStep, TasksStep
<1> QED  BY UpdateInit, <1>1, PTL DEF Spec

\* An update never outlives the connection it came over (abort_ota() in
\* onDisconnect() and disable()), except for one whose START a disable() was too
\* early to see.
THEOREM UpdatesHaveClients == Spec => []UpdateHasClient
<1>1. LinkInv /\ TasksInv => UpdateHasClient
  BY DEF LinkInv, UpdateHasClient
<1> QED  BY UpdateInvariance, <1>1, PTL

\* However the main loop and the callbacks interleave, the tasks are suspended
\* exactly during an update once the main loop has caught up.
THEOREM TasksFollowUpdates == Spec => []SuspensionFollowsUpdate
<1>1. LinkInv /\ TasksInv => SuspensionFollowsUpdate
  BY DEF TasksInv, SuspensionFollowsUpdate
<1> QED  BY UpdateInvariance, <1>1, PTL

-----------------------------------------------------------------------------
\* A patch in which every chunk sent so far was written has no gap.
FirstChunks(n) == [i \in 1..n |-> i]

PatchInv ==
    /\ size \in Nat /\ sent \in Nat /\ received \in Nat
    /\ callback = "erasing" => sent = 0 /\ received = 0
    /\ updating => /\ patch \in Seq(Nat) /\ Len(patch) = received
                   /\ received <= sent /\ sent <= size
                   /\ received = sent => patch = FirstChunks(sent)

LEMMA NoChunks == <<>> \in Seq(Nat) /\ Len(<<>>) = 0 /\ <<>> = FirstChunks(0)
BY DEF FirstChunks

LEMMA OneMoreChunk ==
    ASSUME NEW n \in Nat PROVE Append(FirstChunks(n), n + 1) = FirstChunks(n + 1)
<1>1. FirstChunks(n) \in Seq(Nat) /\ Len(FirstChunks(n)) = n
  BY DEF FirstChunks
<1>2. \A i \in 1..(n + 1) : Append(FirstChunks(n), n + 1)[i] = i
  BY <1>1 DEF FirstChunks
<1> QED  BY <1>1, <1>2 DEF FirstChunks

LEMMA PatchStep == LinkInv /\ PatchInv /\ [Next]_vars => PatchInv'
<1> SUFFICES ASSUME LinkInv, PatchInv, [Next]_vars PROVE PatchInv'
  OBVIOUS
<1> USE UpdateAssumption
<1>1. ASSUME NEW f, Boot(f) PROVE PatchInv'
  BY <1>1 DEF Boot, PatchInv
<1>2. CASE BeginStart
  BY <1>2 DEF BeginStart, ResetReceived, link, LinkInv, PatchInv
<1>3. CASE StartSucceeds
  BY <1>3, NoChunks DEF StartSucceeds, PatchInv
<1>4. CASE StartFails
  BY <1>4 DEF StartFails, transfer, LinkInv, PatchInv
<1>5. CASE ReceiveChunk
  <2>1. callback' = callback /\ updating /\ updating' = updating /\ size' = size
    BY <1>5 DEF ReceiveChunk
  <2>2. sent' = sent + 1 /\ sent' <= size /\ callback' # "erasing"
    BY <1>5 DEF ReceiveChunk, Listening, PatchInv
  <2>3. CASE patch' = Append(patch, sent') /\ received' = received + 1
    <3>1. patch' \in Seq(Nat) /\ Len(patch') = received'
      BY <2>1, <2>2, <2>3 DEF PatchInv
    <3>2. ASSUME received' = sent' PROVE patch' = FirstChunks(sent')
      <4>1. received = sent /\ sent \in Nat
        BY <2>2, <2>3, <3>2 DEF PatchInv
      <4>2. patch = FirstChunks(sent)
        BY <2>1, <4>1 DEF PatchInv
      <4>3. Append(FirstChunks(sent), sent + 1) = FirstChunks(sent + 1)
        BY <4>1, OneMoreChunk
      <4> QED  BY <2>2, <2>3, <4>2, <4>3
    <3> QED  BY <2>1, <2>2, <2>3, <3>1, <3>2 DEF PatchInv
  <2>4. CASE UNCHANGED <<patch, received>>
    BY <2>1, <2>2, <2>4 DEF PatchInv
  <2> QED  BY <1>5, <2>3, <2>4 DEF ReceiveChunk
<1>6. CASE BeginComplete  BY <1>6 DEF BeginComplete, transfer, PatchInv
<1>7. CASE GiveUp  BY <1>7 DEF GiveUp, PatchInv
<1>8. CASE ReceiveAbort  BY <1>8 DEF ReceiveAbort, Abort, PatchInv
<1>9. CASE Disconnect  BY <1>9 DEF Disconnect, Abort, PatchInv
<1>10. ASSUME NEW task, BeginDisable(task) PROVE PatchInv'
  BY <1>10 DEF BeginDisable, Abort, PatchInv
<1>11. CASE UNCHANGED <<callback, transfer>>  BY <1>11 DEF transfer, PatchInv
<1>12. CASE Connect \/ Enable \/ Leaves \/ Main \/ ShowUpdate \/ Control \/ StartGrind \/ UserGoesOn
               \/ UserStopsGrind \/ UNCHANGED vars
  <2> UNCHANGED <<callback, transfer>>
    BY <1>12 DEF Connect, Enable, Leaves, EndDisable, Main, MainLooks, MainActs, ShowUpdate, Control, ControlEndsGrind,
       ControlHoldsGrind, StartGrind, UserGoesOn, UserStopsGrind, vars
  <2> QED  BY <1>11
<1> QED
  BY <1>1, <1>2, <1>3, <1>4, <1>5, <1>6, <1>7, <1>8, <1>9, <1>10, <1>12
  DEF Next, Stack, User, ApplyPatch, PowerFails, DisableByTimeout, ToggleBluetooth

\* Only ApplyPatch installs a firmware.
LEMMA Installs == [Next]_vars /\ running' # running => callback = "applying" /\ SizeMatches
<1> SUFFICES ASSUME [Next]_vars, running' # running PROVE callback = "applying" /\ SizeMatches
  OBVIOUS
<1>1. CASE ApplyPatch  BY <1>1 DEF ApplyPatch
<1>2. CASE PowerFails  BY <1>2 DEF PowerFails, Boot
<1>3. CASE Connect \/ BeginStart \/ StartSucceeds \/ StartFails \/ ReceiveChunk \/ BeginComplete
             \/ GiveUp \/ ReceiveAbort \/ Disconnect \/ Leaves \/ Enable
  BY <1>3 DEF Connect, BeginStart, StartSucceeds, StartFails, ReceiveChunk, BeginComplete,
     GiveUp, ReceiveAbort, Disconnect, Leaves, EndDisable, Enable
<1>4. CASE Main \/ ShowUpdate \/ Control \/ StartGrind \/ UserGoesOn
             \/ UserStopsGrind \/ UNCHANGED vars
  BY <1>4 DEF Main, MainLooks, MainActs, ShowUpdate, Control, ControlEndsGrind, ControlHoldsGrind,
     StartGrind, UserGoesOn, UserStopsGrind, vars
<1>5. ASSUME NEW task, BeginDisable(task) PROVE FALSE
  BY <1>5 DEF BeginDisable
<1> QED
  BY <1>1, <1>2, <1>3, <1>4, <1>5
  DEF Next, Stack, User, DisableByTimeout, ToggleBluetooth

\* A firmware is installed only from a patch that has every chunk, in order
\* (process_data_chunk(), finalize_update()).
THEOREM WholePatches == Spec => OnlyWholePatchIsApplied
<1>1. Init => PatchInv
  BY DEF Init, PatchInv
<1>2. LinkInv /\ TasksInv /\ PatchInv /\ [Next]_vars =>
          (running' # running => updating /\ patch = [i \in 1..size |-> i])
  <2> SUFFICES ASSUME LinkInv, PatchInv, [Next]_vars, running' # running
               PROVE  updating /\ patch = [i \in 1..size |-> i]
    OBVIOUS
  <2>1. callback = "applying" /\ received = size
    BY Installs DEF SizeMatches
  <2>2. updating
    BY <2>1 DEF LinkInv
  <2>3. sent = size
    BY <2>1, <2>2 DEF PatchInv
  <2> QED  BY <2>1, <2>2, <2>3 DEF PatchInv, FirstChunks
<1>3. [Next]_vars /\ (running' # running => updating /\ patch = [i \in 1..size |-> i])
          => [running' # running => updating /\ patch = [i \in 1..size |-> i]]_vars
  OBVIOUS
<1>4. Spec => []PatchInv
  <2>1. (LinkInv /\ TasksInv) /\ PatchInv /\ [Next]_vars => PatchInv'
    BY PatchStep
  <2> QED  BY <1>1, <2>1, UpdateInvariance, PTL DEF Spec
<1> QED
  BY <1>2, <1>3, <1>4, UpdateInvariance, PTL DEF Spec, OnlyWholePatchIsApplied

=============================================================================
