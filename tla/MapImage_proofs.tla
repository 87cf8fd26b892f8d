---------------------------- MODULE MapImage_proofs ----------------------------
(***************************************************************************)
(* What MapImage guarantees for any maps, visits, taps and faults.         *)
(***************************************************************************)
EXTENDS MapImage, SequenceTheorems, TLAPS

\* A thread belongs to a tap, a tap to a visit, and a visit that has had a tap has
\* a current map; a loader has a map to load.
NoThreadAhead ==
  \A k \in Taps : k > taps => waiter[k] = "none" /\ loader[k] = "none" /\ target[k] = NoMap

TapsAreOwned ==
  \A k \in 1 .. taps :
    /\ owner[k] \in 1 .. visit /\ row[k] \in Maps
    /\ waiter[k] # "none" /\ loader[k] # "none"
    /\ currentMap[owner[k]] \in Maps /\ currentView[owner[k]] \in Maps

TargetsAreMaps ==
  \A k \in Taps :
    loader[k] \in {"check", "connect", "open", "write"} \/ attached[k] => target[k] \in Maps

MessagesAreOwned == \A i \in 1 .. Len(ui) : ui[i].tap <= taps

\* A dialog is on the screen that shows it.
DialogIsShown ==
  /\ \A v \in Visits : dialog[v] => v = visit /\ screen = "list"
  /\ screen = "list" => visit > 0

Linked == NoThreadAhead /\ TapsAreOwned /\ TargetsAreMaps /\ MessagesAreOwned /\ DialogIsShown

\* The loader that opened a file last has all it wrote in it.
LastOpener ==
  /\ \A k \in Taps : attached[k] => loader[k] \in {"write", "ended", "failed"}
  /\ \A k \in Taps : attached[k] /\ loader[k] = "ended" => off[k] = Chunks
  /\ \A m \in exists :
       \E k \in Taps : attached[k] /\ target[k] = m /\ 1 .. off[k] \subseteq pieces[m]

-----------------------------------------------------------------------------
(* While no map is tried twice in a visit *)

\* The dialog of the visit is on the screen.
Covered == screen = "list" /\ dialog[visit]

Untapped(v, m) == \A k \in 1 .. taps : owner[k] = v => row[k] # m

\* What the last tap has come to, as the load state of its map tells.
LastState == loadState[visit][row[taps]]

LastLoad ==
  /\ loader[taps] \in {"start", "check"} => LastState = 0 /\ row[taps] \notin exists
  /\ loader[taps] \in {"connect", "open", "write"} => LastState = 3
  /\ loader[taps] = "write" =>
       attached[taps] /\ row[taps] \in exists /\ pieces[row[taps]] = 1 .. off[taps]
  /\ loader[taps] = "ended" => LastState = 1 /\ Complete(row[taps])
  /\ loader[taps] = "failed" => LastState = 2
  /\ loader[taps] \notin {"none", "start"} => target[taps] = row[taps]
  /\ waiter[taps] = "loading" => LastState # 0
  /\ waiter[taps] \in {"switch", "ended"} => LastState \in {1, 2}

LastTap ==
  /\ taps > 0 /\ owner[taps] = visit
  /\ currentMap[visit] = row[taps] /\ currentView[visit] = row[taps]
  /\ LastLoad

\* The one runnable that may be posted is the last tap's, and tells its state.
LastMessage ==
  ui # <<>> =>
    /\ Len(ui) = 1 /\ ui[1].tap = taps
    /\ Covered /\ waiter[taps] = "ended"
    /\ LastState = (IF ui[1].kind = "mark" THEN 1 ELSE 2)

\* No thread runs but those of the last tap, under its dialog.
OnlyLastRuns == \A k \in Taps : Running(k) => k = taps /\ Covered

OwnTargets == \A k \in Taps : target[k] \in {NoMap, row[k]}

NewObjects == \A v \in Visits, m \in Maps : v >= visit /\ Untapped(v, m) => loadState[v][m] = 0

FirstFacts ==
  ~crashed /\ OnlyLastRuns /\ (Covered => LastTap) /\ LastMessage /\ OwnTargets /\ NewObjects

FirstInv == FirstTries => FirstFacts

ImageInv == TypeOK /\ Linked /\ LastOpener /\ FirstInv

-----------------------------------------------------------------------------
(* The runnables *)

Messages == [kind : {"mark", "error"}, tap : Taps]

\* The first runnable, and those that are left without it.
LEMMA FirstMessage ==
  ASSUME ui \in Seq(Messages), ui # <<>>
  PROVE  /\ Len(ui) \in Nat \ {0} /\ Head(ui) = ui[1] /\ ui[1] \in Messages
         /\ Tail(ui) \in Seq(Messages) /\ Len(Tail(ui)) = Len(ui) - 1
         /\ \A i \in 1 .. Len(Tail(ui)) : Tail(ui)[i] = ui[i + 1]
<1>1. Len(ui) \in Nat \ {0}
  BY EmptySeq
<1>2. ui[1] \in Messages
  BY <1>1, ElementOfSeq
<1>3. Head(ui) = ui[1]
  BY <1>1
<1>4. QED
  BY <1>1, <1>2, <1>3, HeadTailProperties

\* A waiter's last step leaves the runnables alone, or posts one of its own.
LEMMA SwitchPosts ==
  ASSUME ui \in Seq(Messages), NEW k \in Taps, WaitSwitch(k)
  PROVE  \/ UNCHANGED ui /\ StateSeen(k) \notin {1, 2}
         \/ /\ ui' \in Seq(Messages) /\ Len(ui') = Len(ui) + 1
            /\ \A i \in 1 .. Len(ui) : ui'[i] = ui[i]
            /\ ui'[Len(ui')].tap = k
            /\ \/ StateSeen(k) = 1 /\ ui'[Len(ui')].kind = "mark"
               \/ StateSeen(k) = 2 /\ ui'[Len(ui')].kind = "error"
<1>1. ASSUME NEW kind \in {"mark", "error"}, ui' = Append(ui, [kind |-> kind, tap |-> k])
      PROVE  /\ ui' \in Seq(Messages) /\ Len(ui') = Len(ui) + 1
             /\ \A i \in 1 .. Len(ui) : ui'[i] = ui[i]
             /\ ui'[Len(ui')] = [kind |-> kind, tap |-> k]
  <2>1. [kind |-> kind, tap |-> k] \in Messages
    BY DEF Messages
  <2>2. QED
    BY <1>1, <2>1, AppendProperties
<1>2. CASE StateSeen(k) = 1
  BY <1>1, <1>2 DEF WaitSwitch
<1>3. CASE StateSeen(k) = 2
  BY <1>1, <1>3 DEF WaitSwitch
<1>4. CASE StateSeen(k) \notin {1, 2}
  BY <1>4 DEF WaitSwitch
<1>5. QED
  BY <1>2, <1>3, <1>4

-----------------------------------------------------------------------------
(* Types *)

LEMMA TypeStep ==
  ASSUME TypeOK, Linked, [Next]_vars
  PROVE  TypeOK'
<1> USE DEF TypeOK
<1>1. CASE OpenScreen
  BY <1>1, ImageAssumption DEF OpenScreen, diskVars, tapVars, threadVars, IsDownloaded
<1>2. CASE LeaveScreen
  BY <1>2 DEF LeaveScreen, diskVars, tapVars, threadVars
<1>3. CASE ClearFiles
  BY <1>3 DEF ClearFiles, screenVars, tapVars
<1>4. ASSUME NEW m \in Maps, TapDownloaded(m) PROVE TypeOK'
  BY <1>4 DEF TapDownloaded, diskVars, tapVars, threadVars
<1>5. ASSUME NEW m \in Maps, Tap(m) PROVE TypeOK'
  <2>1. taps' \in 0 .. MaxTaps
    BY <1>5, ImageAssumption DEF Tap
  <2>2. QED
    BY <1>5, <2>1 DEF Tap, diskVars
<1> ui \in Seq(Messages)
  BY DEF Messages
<1>6. ASSUME ui # <<>> PROVE Head(ui).tap \in 1 .. taps /\ Tail(ui) \in Seq(Messages)
  BY <1>6, FirstMessage DEF Linked, MessagesAreOwned, Messages, Taps
<1>7. CASE RunMark
  <2>1. currentView[owner[Head(ui).tap]] \in Maps
    BY <1>6, <1>7 DEF RunMark, Linked, TapsAreOwned
  <2>2. QED
    BY <1>6, <1>7, <2>1 DEF RunMark, Messages, diskVars, tapVars, threadVars
<1>8. CASE RunError
  BY <1>6, <1>8 DEF RunError, Messages, diskVars, tapVars, threadVars
<1>9. CASE Kill
  BY <1>9 DEF Kill, diskVars, tapVars
<1>10. ASSUME NEW k \in Taps, Waiter(k) PROVE TypeOK'
  <2>1. ui' \in Seq(Messages)
    BY <1>10, SwitchPosts DEF Waiter, WaitKnown, WaitLoaded
  <2>2. QED
    BY <1>10, <2>1 DEF Messages, Waiter, WaitKnown, WaitLoaded, WaitSwitch, WaiterMoves, diskVars,
                       screenVars, tapVars
<1>11. ASSUME NEW k \in Taps, Loader(k) PROVE TypeOK'
  <2>1. ASSUME NEW s \in 0 .. 3, SetState(k, target[k], s)
        PROVE  loadState' \in [Visits -> [Maps -> 0 .. 3]]
    BY <2>1 DEF SetState
  <2>2. CASE LoadStart(k)
    <3>1. currentMap[owner[k]] \in Maps
      BY <2>2 DEF LoadStart, LoaderMoves, Linked, NoThreadAhead, TapsAreOwned, Taps
    <3>2. QED
      BY <2>2, <3>1 DEF LoadStart, LoaderMoves, screenVars, tapVars, diskVars
  <2>3. CASE LoadFound(k) \/ LoadMissing(k) \/ LoadFinish(k) \/ LoadFail(k)
    <3>1. loadState' \in [Visits -> [Maps -> 0 .. 3]]
      BY <2>1, <2>3 DEF LoadFound, LoadMissing, LoadFinish, LoadFail
    <3>2. \E to \in {"connect", "ended", "failed"} : LoaderMoves(k, loader[k], to)
      BY <2>3 DEF LoadFound, LoadMissing, LoadFinish, LoadFail, LoaderMoves
    <3>3. UNCHANGED <<diskVars, target, attached, off>>
      BY <2>3 DEF LoadFound, LoadMissing, LoadFinish, LoadFail
    <3>4. QED
      BY <3>1, <3>2, <3>3 DEF LoaderMoves, screenVars, tapVars, diskVars
  <2>4. CASE LoadConnect(k)
    BY <2>4 DEF LoadConnect, LoaderMoves, screenVars, tapVars, diskVars
  <2>5. CASE LoadOpen(k)
    <3>1. target[k] \in Maps
      BY <2>5 DEF LoadOpen, LoaderMoves, Linked, TargetsAreMaps
    <3>2. QED
      BY <2>5, <3>1, ImageAssumption DEF LoadOpen, LoaderMoves, screenVars, tapVars
  <2>6. CASE LoadWrite(k)
    <3>1. off[k] + 1 \in 1 .. Chunks
      BY <2>6, ImageAssumption DEF LoadWrite
    <3>2. pieces' \in [Maps -> SUBSET (1 .. Chunks)]
      BY <2>6, <3>1 DEF LoadWrite
    <3>3. QED
      BY <2>6, <3>1, <3>2 DEF LoadWrite, LoaderMoves, screenVars, tapVars
  <2>7. QED
    BY <1>11, <2>2, <2>3, <2>4, <2>5, <2>6 DEF Loader
<1>12. CASE UNCHANGED vars
  BY <1>12 DEF vars, diskVars, screenVars, threadVars, tapVars
<1>13. QED
  BY <1>1, <1>2, <1>3, <1>4, <1>5, <1>7, <1>8, <1>9, <1>10, <1>11, <1>12
     DEF Next, UserStep, UiThread

-----------------------------------------------------------------------------
(* What no order of taps, threads and visits breaks *)

\* A runnable that was run is gone, and those that are left are known.
LEMMA RunsOwned ==
  ASSUME TypeOK, MessagesAreOwned, ui # <<>>, ui' = Tail(ui), taps' = taps
  PROVE  MessagesAreOwned'
<1>1. ui \in Seq(Messages)
  BY DEF TypeOK, Messages
<1>2. \A i \in 1 .. Len(ui') : i + 1 \in 1 .. Len(ui) /\ ui'[i] = ui[i + 1]
  BY <1>1, FirstMessage
<1>3. QED
  BY <1>2 DEF MessagesAreOwned

\* So is one that a waiter posts.
LEMMA PostsOwned ==
  ASSUME TypeOK, MessagesAreOwned, NEW k \in Taps, k <= taps, WaitSwitch(k), taps' = taps
  PROVE  MessagesAreOwned'
<1>1. ui \in Seq(Messages)
  BY DEF TypeOK, Messages
<1>2. Len(ui) \in Nat
  BY <1>1, LenProperties
<1>3. QED
  BY <1>1, <1>2, SwitchPosts DEF MessagesAreOwned

LEMMA LinkedStep ==
  ASSUME TypeOK, Linked, [Next]_vars
  PROVE  Linked'
<1> USE DEF Linked
<1>1. CASE OpenScreen
  BY <1>1 DEF OpenScreen, tapVars, threadVars, TypeOK, NoThreadAhead, TapsAreOwned, TargetsAreMaps,
              MessagesAreOwned, DialogIsShown
<1>2. CASE LeaveScreen
  BY <1>2 DEF LeaveScreen, tapVars, threadVars, TypeOK, Visits, NoThreadAhead, TapsAreOwned,
              TargetsAreMaps, MessagesAreOwned, DialogIsShown
<1>3. CASE ClearFiles
  BY <1>3 DEF ClearFiles, screenVars, tapVars, TypeOK, NoThreadAhead, TapsAreOwned, TargetsAreMaps,
              MessagesAreOwned, DialogIsShown
<1>4. ASSUME NEW m \in Maps, TapDownloaded(m) PROVE Linked'
  BY <1>4 DEF TapDownloaded, tapVars, threadVars, TypeOK, Visits, NoThreadAhead, TapsAreOwned,
              TargetsAreMaps, MessagesAreOwned, DialogIsShown
<1>5. ASSUME NEW m \in Maps, Tap(m) PROVE Linked'
  <2>1. taps' = taps + 1 /\ taps' \in Taps /\ visit \in Visits
    BY <1>5, ImageAssumption DEF Tap, TypeOK, Taps, Visits, DialogIsShown
  <2>2. NoThreadAhead'
    BY <1>5, <2>1 DEF Tap, NoThreadAhead, TypeOK, Taps
  <2>3. ASSUME NEW k \in 1 .. taps'
        PROVE  /\ owner'[k] \in 1 .. visit' /\ row'[k] \in Maps
               /\ waiter'[k] # "none" /\ loader'[k] # "none"
               /\ currentMap'[owner'[k]] \in Maps /\ currentView'[owner'[k]] \in Maps
    <3>1. CASE k = taps'
      BY <1>5, <2>1, <3>1 DEF Tap, TypeOK, Visits, Taps
    <3>2. CASE k # taps'
      BY <1>5, <2>1, <2>3, <3>2 DEF Tap, TypeOK, Visits, Taps, TapsAreOwned
    <3>3. QED
      BY <3>1, <3>2
  <2>4. TargetsAreMaps'
    BY <1>5, <2>1 DEF Tap, TargetsAreMaps, TypeOK
  <2>5. MessagesAreOwned' /\ DialogIsShown'
    <3>1. MessagesAreOwned'
      <4>1. Len(ui) \in Nat /\ \A i \in 1 .. Len(ui) : ui[i].tap \in Taps
        <5>1. ui \in Seq(Messages)
          BY DEF TypeOK, Messages
        <5>2. Len(ui) \in Nat /\ \A i \in 1 .. Len(ui) : ui[i] \in Messages
          BY <5>1, LenProperties, ElementOfSeq
        <5>3. QED
          BY <5>2 DEF Messages
      <4>2. ui' = ui /\ taps' = taps + 1 /\ taps \in Nat
        BY <1>5, <2>1 DEF Tap, TypeOK
      <4>3. \A i \in 1 .. Len(ui) : ui[i].tap \in Int /\ ui[i].tap <= taps
        BY <4>1 DEF MessagesAreOwned, Taps
      <4>4. QED
        BY <4>1, <4>2, <4>3 DEF MessagesAreOwned
    <3>2. DialogIsShown'
      BY <1>5, <2>1 DEF Tap, DialogIsShown, TypeOK
    <3>3. QED
      BY <3>1, <3>2
  <2>6. QED
    BY <2>2, <2>3, <2>4, <2>5 DEF TapsAreOwned
<1>6. CASE RunMark \/ RunError
  <2>1. MessagesAreOwned'
    BY <1>6, RunsOwned DEF RunMark, RunError, tapVars
  <2>2. QED
    BY <1>6, <2>1 DEF RunMark, RunError, tapVars, threadVars, TypeOK, NoThreadAhead, TapsAreOwned,
                      TargetsAreMaps, DialogIsShown
<1>7. CASE Kill
  <2>1. NoThreadAhead'
    BY <1>7 DEF Kill, tapVars, TypeOK, Taps, Loading, NoThreadAhead
  <2>5. TapsAreOwned'
    <3>1. 1 .. taps \subseteq Taps
      BY ImageAssumption DEF TypeOK, Taps
    <3>2. QED
      BY <1>7, <3>1 DEF Kill, tapVars, Loading, TapsAreOwned
  <2>2. TargetsAreMaps'
    BY <1>7 DEF Kill, TypeOK, Loading, TargetsAreMaps
  <2>3. MessagesAreOwned' /\ DialogIsShown'
    BY <1>7 DEF Kill, MessagesAreOwned, DialogIsShown
  <2>4. QED
    BY <2>1, <2>2, <2>3, <2>5
<1>8. ASSUME NEW k \in Taps, Waiter(k) PROVE Linked'
  <2>1. waiter[k] # "none" /\ \E to \in {"loading", "switch", "ended"} : WaiterMoves(k, waiter[k], to)
    BY <1>8 DEF Waiter, WaitKnown, WaitLoaded, WaitSwitch, WaiterMoves
  <2>2. k <= taps
    BY <2>1 DEF NoThreadAhead, TypeOK, Taps
  <2>3. MessagesAreOwned'
    BY <1>8, <2>1, <2>2, PostsOwned
       DEF Waiter, WaitKnown, WaitLoaded, WaiterMoves, MessagesAreOwned, tapVars
  <2>4. NoThreadAhead' /\ TapsAreOwned'
    BY <2>1, <2>2 DEF WaiterMoves, NoThreadAhead, TapsAreOwned, TypeOK, screenVars, tapVars
  <2>5. TargetsAreMaps' /\ DialogIsShown'
    BY <2>1 DEF WaiterMoves, TargetsAreMaps, DialogIsShown, screenVars
  <2>6. QED
    BY <2>3, <2>4, <2>5
<1>9. ASSUME NEW k \in Taps, Loader(k) PROVE Linked'
  <2>1. loader[k] # "none" /\ \E to \in {"check", "connect", "open", "write", "ended", "failed"} :
                                LoaderMoves(k, loader[k], to)
    BY <1>9 DEF Loader, LoadStart, LoadFound, LoadMissing, LoadConnect, LoadOpen, LoadWrite,
                LoadFinish, LoadFail, LoaderMoves
  <2>2. k \in 1 .. taps
    BY <2>1 DEF NoThreadAhead, TypeOK, Taps
  <2>3. target' = [target EXCEPT ![k] = target'[k]] /\ target'[k] \in Maps
    <3>1. CASE LoadStart(k)
      BY <2>2, <3>1 DEF LoadStart, TypeOK, TapsAreOwned
    <3>2. CASE target' = target /\ loader[k] \in {"check", "connect", "open", "write"}
      BY <3>2 DEF TypeOK, TargetsAreMaps
    <3>3. QED
      BY <1>9, <3>1, <3>2 DEF Loader, LoadFound, LoadMissing, LoadConnect, LoadOpen, LoadWrite,
                LoadFinish, LoadFail, LoaderMoves
  <2>4. \A j \in Taps \ {k} : attached'[j] = attached[j]
    BY <1>9 DEF Loader, LoadStart, LoadFound, LoadMissing, LoadConnect, LoadOpen, LoadWrite,
                LoadFinish, LoadFail, TypeOK
  <2>5. NoThreadAhead' /\ TapsAreOwned'
    BY <2>1, <2>2, <2>3 DEF LoaderMoves, NoThreadAhead, TapsAreOwned, TypeOK, screenVars, tapVars
  <2>6. TargetsAreMaps'
    BY <2>1, <2>3, <2>4 DEF LoaderMoves, TargetsAreMaps, TypeOK
  <2>7. MessagesAreOwned' /\ DialogIsShown'
    BY <2>1 DEF LoaderMoves, MessagesAreOwned, DialogIsShown, screenVars, tapVars
  <2>8. QED
    BY <2>5, <2>6, <2>7
<1>10. CASE UNCHANGED vars
  BY <1>10 DEF vars, screenVars, threadVars, tapVars, NoThreadAhead, TapsAreOwned, TargetsAreMaps,
               MessagesAreOwned, DialogIsShown
<1>11. QED
  BY <1>1, <1>2, <1>3, <1>4, <1>5, <1>6, <1>7, <1>8, <1>9, <1>10 DEF Next, UserStep, UiThread

\* Whichever loader opens or writes a file, one of those that have it open has all
\* it wrote in it: the one that opened it last.
LEMMA LastOpenerStep ==
  ASSUME TypeOK, Linked, LastOpener, [Next]_vars
  PROVE  LastOpener'
<1> USE DEF LastOpener
<1>1. CASE UNCHANGED <<diskVars, loader, target, attached, off>>
  BY <1>1 DEF diskVars
<1>2. CASE ClearFiles
  BY <1>2 DEF ClearFiles
<1>3. CASE Kill
  BY <1>3 DEF Kill, diskVars, Loading, TypeOK
<1>4. ASSUME NEW m \in Maps, Tap(m) PROVE LastOpener'
  <2>1. taps' = taps + 1 /\ taps' \in Taps
    BY <1>4, ImageAssumption DEF Tap, TypeOK, Taps
  <2>2. ~attached[taps']
    <3>1. taps' > taps
      BY <2>1, ImageAssumption DEF TypeOK
    <3>2. loader[taps'] = "none"
      BY <2>1, <3>1 DEF Linked, NoThreadAhead
    <3>3. QED
      BY <2>1, <3>2
  <2>3. \A k \in Taps : attached[k] => loader'[k] = loader[k]
    BY <1>4, <2>2 DEF Tap, TypeOK
  <2>4. QED
    BY <1>4, <2>3 DEF Tap, diskVars
<1>5. ASSUME NEW k \in Taps, Loader(k) PROVE LastOpener'
  <2>1. CASE LoadOpen(k)
    <3>1. target[k] \in Maps
      BY <2>1 DEF LoadOpen, LoaderMoves, Linked, TargetsAreMaps
    <3>2. /\ attached'[k] /\ loader'[k] = "write" /\ off'[k] = 0 /\ target' = target
          /\ \A j \in Taps \ {k} : attached'[j] = attached[j] /\ loader'[j] = loader[j] /\ off'[j] = off[j]
      BY <2>1 DEF LoadOpen, LoaderMoves, TypeOK
    <3>3. ASSUME NEW m \in exists'
          PROVE  \E j \in Taps : attached'[j] /\ target'[j] = m /\ 1 .. off'[j] \subseteq pieces'[m]
      <4>1. CASE m = target[k]
        BY <3>2, <4>1
      <4>2. CASE m # target[k]
        <5>1. m \in exists /\ pieces'[m] = pieces[m]
          BY <2>1, <3>3, <4>2 DEF LoadOpen, TypeOK
        <5>2. PICK j \in Taps : attached[j] /\ target[j] = m /\ 1 .. off[j] \subseteq pieces[m]
          BY <5>1
        <5>3. j # k
          BY <2>1, <5>2 DEF LoadOpen, LoaderMoves
        <5>4. QED
          BY <3>2, <5>1, <5>2, <5>3
      <4>3. QED
        BY <4>1, <4>2
    <3>4. QED
      BY <3>2, <3>3
  <2>2. CASE LoadWrite(k)
    <3>1. /\ loader' = loader /\ off'[k] = off[k] + 1 /\ off[k] \in Nat
          /\ UNCHANGED <<exists, target, attached>>
          /\ \A j \in Taps \ {k} : off'[j] = off[j]
      BY <2>2 DEF LoadWrite, LoaderMoves, TypeOK
    <3>2. /\ \A m \in Maps : pieces[m] \subseteq pieces'[m]
          /\ attached[k] /\ target[k] \in Maps => off[k] + 1 \in pieces'[target[k]]
      BY <2>2 DEF LoadWrite, TypeOK
    <3>3. ASSUME NEW m \in exists
          PROVE  \E j \in Taps : attached[j] /\ target[j] = m /\ 1 .. off'[j] \subseteq pieces'[m]
      <4>1. PICK j \in Taps : attached[j] /\ target[j] = m /\ 1 .. off[j] \subseteq pieces[m]
        OBVIOUS
      <4>2. m \in Maps
        BY DEF TypeOK
      <4>3. 1 .. off'[j] \subseteq pieces'[m]
        BY <3>1, <3>2, <4>1, <4>2
      <4>4. QED
        BY <4>1, <4>3
    <3>4. QED
      BY <2>2, <3>1, <3>3 DEF LoadWrite, LoaderMoves
  <2>3. CASE LoadFinish(k)
    BY <2>3 DEF LoadFinish, LoaderMoves, diskVars, TypeOK
  <2>4. CASE LoadStart(k) \/ LoadFound(k) \/ LoadMissing(k) \/ LoadConnect(k)
    <3>1. ~attached[k] /\ UNCHANGED <<exists, pieces, attached, off>>
      BY <2>4 DEF LoadStart, LoadFound, LoadMissing, LoadConnect, LoaderMoves, diskVars
    <3>2. \A j \in Taps \ {k} : loader'[j] = loader[j] /\ target'[j] = target[j]
      BY <2>4 DEF LoadStart, LoadFound, LoadMissing, LoadConnect, LoaderMoves, TypeOK
    <3>3. QED
      BY <3>1, <3>2
  <2>5. CASE LoadFail(k)
    BY <2>5 DEF LoadFail, LoaderMoves, diskVars, TypeOK
  <2>6. QED
    BY <1>5, <2>1, <2>2, <2>3, <2>4, <2>5 DEF Loader
<1>6. QED
  BY <1>1, <1>2, <1>3, <1>4, <1>5
     DEF Next, UserStep, UiThread, Waiter, OpenScreen, LeaveScreen, TapDownloaded, RunMark,
         RunError, WaitKnown, WaitLoaded, WaitSwitch, WaiterMoves, vars, threadVars

-----------------------------------------------------------------------------
(* While no map is tried twice in a visit *)

\* What was tapped stays tapped.
LEMMA TriesGrow ==
  ASSUME TypeOK, [Next]_vars, FirstTries'
  PROVE  FirstTries
<1>1. CASE UNCHANGED tapVars
  BY <1>1 DEF FirstTries, tapVars
<1>2. ASSUME NEW m \in Maps, Tap(m) PROVE FirstTries
  <2>1. taps' = taps + 1 /\ taps \in Nat
    BY <1>2, ImageAssumption DEF Tap, TypeOK
  <2>2. \A k \in 1 .. taps : k \in 1 .. taps' /\ owner'[k] = owner[k] /\ row'[k] = row[k]
    BY <1>2, <2>1 DEF Tap, TypeOK, Taps
  <2>3. QED
    BY <2>2 DEF FirstTries
<1>3. QED
  BY <1>1, <1>2
     DEF Next, UserStep, UiThread, Waiter, Loader, OpenScreen, LeaveScreen, ClearFiles, TapDownloaded,
         RunMark, RunError, Kill, WaitKnown, WaitLoaded, WaitSwitch, WaiterMoves, LoadStart, LoadFound,
         LoadMissing, LoadConnect, LoadOpen, LoadWrite, LoadFinish, LoadFail, LoaderMoves, vars

\* A step that leaves no dialog, no thread and no runnable leaves little to go wrong.
LEMMA QuietStep ==
  ASSUME FirstFacts, ~Covered', ui' = <<>>, ~crashed', \A k \in Taps : ~Running(k)',
         UNCHANGED <<loadState, target, row, owner, taps>>, visit' >= visit,
         visit \in Nat, visit' \in Nat
  PROVE  FirstFacts'
<1>1. NewObjects'
  BY DEF FirstFacts, NewObjects, Untapped, Visits
<1>2. OnlyLastRuns' /\ LastMessage' /\ OwnTargets'
  BY DEF FirstFacts, OnlyLastRuns, LastMessage, OwnTargets
<1>3. QED
  BY <1>1, <1>2 DEF FirstFacts

\* A user who can act has no thread and no runnable behind him.
LEMMA UserIsAlone ==
  ASSUME TypeOK, FirstFacts, ~Covered
  PROVE  ui = <<>> /\ \A k \in Taps : ~Running(k)
BY DEF FirstFacts, LastMessage, OnlyLastRuns

\* A tap on a map that is new in this visit: its object is at load state 0.
LEMMA TapStep ==
  ASSUME TypeOK, Linked, FirstFacts, FirstTries', NEW m \in Maps, Tap(m)
  PROVE  FirstFacts'
<1>1. /\ taps' = taps + 1 /\ taps' \in Taps /\ taps \in Nat /\ visit \in Visits /\ visit' = visit
      /\ ~Covered /\ ui' = <<>> /\ loadState' = loadState /\ target' = target
  <2>1. taps' = taps + 1 /\ taps' \in Taps /\ taps \in Nat
    BY ImageAssumption DEF Tap, TypeOK, Taps
  <2>2. visit \in Visits
    BY ImageAssumption DEF Tap, TypeOK, Visits, Linked, DialogIsShown
  <2>3. ~Covered
    BY DEF Tap, Covered
  <2>4. QED
    BY <2>1, <2>2, <2>3, UserIsAlone DEF Tap
<1>2. /\ owner'[taps'] = visit /\ row'[taps'] = m
      /\ waiter'[taps'] = "known" /\ loader'[taps'] = "start"
      /\ \A k \in Taps \ {taps'} : /\ owner'[k] = owner[k] /\ row'[k] = row[k]
                                   /\ waiter'[k] = waiter[k] /\ loader'[k] = loader[k]
  BY <1>1 DEF Tap, TypeOK
<1>3. 1 .. taps \subseteq Taps \ {taps'}
  BY <1>1, ImageAssumption DEF Taps
<1>4. Untapped(visit, m)
  BY <1>1, <1>2, <1>3 DEF FirstTries, Untapped, Taps
<1>5. OnlyLastRuns'
  <2>1. Covered'
    BY <1>1 DEF Tap, Covered, TypeOK
  <2>2. \A k \in Taps \ {taps'} : ~Running(k)'
    BY <1>1, <1>2, UserIsAlone DEF Running, Waiting, Loading
  <2>3. QED
    BY <2>1, <2>2 DEF OnlyLastRuns
<1>6. LastTap'
  <2>1. LastState' = 0 /\ m \notin exists'
    BY <1>1, <1>2, <1>4 DEF LastState, FirstFacts, NewObjects, Tap, diskVars, IsDownloaded, Visits
  <2>2. currentMap'[visit] = m /\ currentView'[visit] = m
    BY <1>1 DEF Tap, TypeOK
  <2>3. QED
    BY <1>1, <1>2, <2>1, <2>2 DEF LastTap, LastLoad
<1>7. LastMessage' /\ ~crashed'
  BY <1>1 DEF LastMessage, FirstFacts, Tap
<1>8. OwnTargets'
  <2>1. target[taps'] = NoMap
    BY <1>1 DEF Linked, NoThreadAhead
  <2>2. QED
    BY <1>1, <1>2, <2>1 DEF FirstFacts, OwnTargets
<1>9. NewObjects'
  <2>1. ASSUME NEW v \in Visits, NEW n \in Maps, Untapped(v, n)' PROVE Untapped(v, n)
    <3>1. \A k \in 1 .. taps : k \in 1 .. taps' /\ owner'[k] = owner[k] /\ row'[k] = row[k]
      BY <1>1, <1>2, <1>3
    <3>2. QED
      BY <2>1, <3>1 DEF Untapped
  <2>2. QED
    BY <1>1, <2>1 DEF FirstFacts, NewObjects
<1>10. QED
  BY <1>5, <1>6, <1>7, <1>8, <1>9 DEF FirstFacts

\* The one runnable there is ends the dialog, and its alert has a screen to be on.
LEMMA RunStep ==
  ASSUME TypeOK, Linked, FirstFacts, RunMark \/ RunError
  PROVE  FirstFacts'
<1>1. ui # <<>> /\ Len(ui) = 1 /\ ui[1].tap = taps /\ Covered /\ waiter[taps] = "ended" /\ LastTap
  BY DEF RunMark, RunError, FirstFacts, LastMessage
<1>2. ui \in Seq(Messages)
  BY DEF TypeOK, Messages
<1>3. ui' = <<>> /\ Head(ui).tap = taps
  <2>1. Head(ui) = ui[1] /\ Tail(ui) \in Seq(Messages) /\ Len(Tail(ui)) = 0
    BY <1>1, <1>2, FirstMessage
  <2>2. Tail(ui) = <<>>
    BY <2>1, EmptySeq
  <2>3. QED
    BY <1>1, <2>1, <2>2 DEF RunMark, RunError
<1>4. visit \in Visits /\ taps \in Taps /\ owner[taps] = visit
  BY <1>1, ImageAssumption DEF TypeOK, Visits, Taps, LastTap, Covered, Linked, DialogIsShown
<1>5. ~crashed' /\ ~Covered'
  BY <1>1, <1>3, <1>4 DEF RunMark, RunError, Covered, FirstFacts, TypeOK
<1>6. \A k \in Taps : ~Running(k)'
  <2>1. ~Running(taps)
    BY <1>1, <1>4 DEF LastTap, LastLoad, Running, Waiting, Loading, TypeOK
  <2>2. \A k \in Taps : ~Running(k)
    BY <2>1 DEF FirstFacts, OnlyLastRuns
  <2>3. QED
    BY <2>2 DEF RunMark, RunError, threadVars, Running, Waiting, Loading
<1>7. QED
  BY <1>3, <1>4, <1>5, <1>6, QuietStep DEF RunMark, RunError, tapVars, threadVars, Visits

\* The waiter looks at the map that was tapped.
LEMMA WaiterSees ==
  ASSUME FirstFacts, NEW k \in Taps, waiter[k] \in {"known", "loading", "switch"}
  PROVE  /\ k = taps /\ Covered /\ LastTap /\ StateSeen(k) = LastState
         /\ ui = <<>>
BY DEF FirstFacts, OnlyLastRuns, Running, Waiting, LastTap, LastState, StateSeen, LastMessage

LEMMA WaiterStep ==
  ASSUME TypeOK, Linked, FirstFacts, NEW k \in Taps, Waiter(k)
  PROVE  FirstFacts'
<1>1. waiter[k] \in {"known", "loading", "switch"}
  BY DEF Waiter, WaitKnown, WaitLoaded, WaitSwitch, WaiterMoves
<1>2. k = taps /\ Covered /\ LastTap /\ StateSeen(k) = LastState /\ ui = <<>>
  BY <1>1, WaiterSees
<1>3. /\ UNCHANGED <<diskVars, screenVars, loadState, crashed, tapVars, loader, target, attached, off>>
      /\ \A j \in Taps \ {k} : waiter'[j] = waiter[j]
  BY DEF Waiter, WaitKnown, WaitLoaded, WaitSwitch, WaiterMoves, TypeOK
<1>4. Covered' /\ LastState' = LastState /\ ~crashed'
  BY <1>2, <1>3 DEF Covered, LastState, screenVars, tapVars, FirstFacts
<1>5. OnlyLastRuns' /\ OwnTargets' /\ NewObjects'
  BY <1>2, <1>3, <1>4 DEF FirstFacts, OnlyLastRuns, OwnTargets, NewObjects, Untapped, Running, Waiting,
                          Loading, screenVars, tapVars
<1>6. /\ waiter'[k] \in {"loading", "switch", "ended"} /\ LastState # 0
      /\ waiter'[k] \in {"switch", "ended"} => LastState \in {1, 2}
  <2>1. LastState \in 0 .. 3
    BY <1>2, ImageAssumption DEF LastState, LastTap, TypeOK, Covered, Linked, DialogIsShown, Visits,
                                 TapsAreOwned
  <2>2. QED
    BY <1>2, <2>1 DEF Waiter, WaitKnown, WaitLoaded, WaitSwitch, WaiterMoves, LastTap, LastLoad, TypeOK
<1>7. LastTap'
  BY <1>2, <1>3, <1>4, <1>6 DEF LastTap, LastLoad, Complete, diskVars, screenVars, tapVars
<1>8. LastMessage'
  <2>1. CASE UNCHANGED ui
    BY <1>2, <2>1 DEF LastMessage
  <2>2. CASE WaitSwitch(k)
    <3>1. ui \in Seq(Messages) /\ Len(ui) = 0
      BY <1>2, EmptySeq
    <3>2. waiter'[k] = "ended" /\ taps' = taps
      BY <1>3, <2>2 DEF WaitSwitch, WaiterMoves, TypeOK, tapVars
    <3>3. QED
      BY <1>2, <1>4, <2>2, <3>1, <3>2, SwitchPosts DEF LastMessage
  <2>3. QED
    BY <2>1, <2>2 DEF Waiter, WaitKnown, WaitLoaded
<1>9. QED
  BY <1>4, <1>5, <1>7, <1>8 DEF FirstFacts

\* A loader loads the map that was tapped, and no waiter is ahead of it.
LEMMA LoaderStep ==
  ASSUME TypeOK, Linked, FirstFacts, NEW k \in Taps, Loader(k)
  PROVE  FirstFacts'
<1>1. Loading(k)
  BY DEF Loader, LoadStart, LoadFound, LoadMissing, LoadConnect, LoadOpen, LoadWrite, LoadFinish,
         LoadFail, LoaderMoves, Loading
<1>2. k = taps /\ Covered /\ LastTap /\ ui = <<>> /\ waiter[k] \notin {"switch", "ended"}
  BY <1>1 DEF FirstFacts, OnlyLastRuns, Running, Loading, LastTap, LastLoad, LastMessage
<1>3. /\ visit \in Visits /\ owner[k] = visit /\ row[k] \in Maps /\ currentMap[visit] = row[k]
      /\ loader[k] # "start" => target[k] = row[k]
  BY <1>1, <1>2, ImageAssumption DEF LastTap, LastLoad, TypeOK, Covered, Linked, DialogIsShown, Visits,
     Loading, TapsAreOwned, Taps
<1>4. /\ UNCHANGED <<screenVars, ui, crashed, tapVars, waiter>>
      /\ \A j \in Taps \ {k} : loader'[j] = loader[j] /\ target'[j] = target[j]
      /\ target'[k] = row[k]
  BY <1>3 DEF Loader, LoadStart, LoadFound, LoadMissing, LoadConnect, LoadOpen, LoadWrite, LoadFinish,
              LoadFail, LoaderMoves, TypeOK
<1>5. Covered' /\ ~crashed' /\ LastMessage'
  BY <1>2, <1>4 DEF Covered, FirstFacts, LastMessage, screenVars
<1>6. OnlyLastRuns' /\ OwnTargets'
  BY <1>2, <1>4, <1>5 DEF FirstFacts, OnlyLastRuns, OwnTargets, Running, Waiting, Loading, tapVars
<1>7. \A v \in Visits, m \in Maps : v # visit \/ m # row[k] => loadState'[v][m] = loadState[v][m]
  BY <1>3 DEF Loader, LoadStart, LoadFound, LoadMissing, LoadConnect, LoadOpen, LoadWrite, LoadFinish,
              LoadFail, LoaderMoves, TypeOK, SetState
<1>8. NewObjects'
  <2>1. ~Untapped(visit, row[k])
    BY <1>2, <1>3 DEF Untapped, LastTap, Taps, TypeOK
  <2>2. QED
    BY <1>4, <1>7, <2>1 DEF FirstFacts, NewObjects, Untapped, screenVars, tapVars
<1>9. LastLoad'
  <2>1. LastState' = loadState'[visit][row[k]] /\ taps' = k /\ row'[k] = row[k] /\ waiter'[k] = waiter[k]
    BY <1>2, <1>4 DEF LastState, screenVars, tapVars
  <2>2. ASSUME NEW s \in 0 .. 3, SetState(k, row[k], s) PROVE LastState' = s
    BY <1>3, <2>1, <2>2 DEF SetState, TypeOK
  <2>3. LastLoad
    BY <1>2 DEF LastTap
  <2>4. CASE LoadStart(k)
    BY <1>2, <1>4, <2>1, <2>3, <2>4 DEF LoadStart, LoaderMoves, LastLoad, LastState, diskVars, TypeOK
  <2>5. CASE LoadFound(k)
    BY <1>2, <1>3, <2>3, <2>5 DEF LoadFound, LoaderMoves, LastLoad
  <2>6. CASE LoadMissing(k)
    <3>1. LastState' = 3 /\ loader'[k] = "connect"
      BY <1>3, <2>2, <2>6 DEF LoadMissing, LoaderMoves, TypeOK
    <3>2. QED
      BY <1>2, <1>4, <2>1, <3>1 DEF LastLoad
  <2>7. CASE LoadConnect(k)
    <3>1. LastState' = 3 /\ loader'[k] = "open"
      BY <1>2, <2>1, <2>3, <2>7 DEF LoadConnect, LoaderMoves, LastLoad, LastState, TypeOK
    <3>2. QED
      BY <1>2, <1>4, <2>1, <3>1 DEF LastLoad
  <2>8. CASE LoadOpen(k)
    <3>1. LastState' = 3 /\ loader'[k] = "write"
      BY <1>2, <2>1, <2>3, <2>8 DEF LoadOpen, LoaderMoves, LastLoad, LastState, TypeOK
    <3>2. attached'[k] /\ off'[k] = 0 /\ row[k] \in exists' /\ pieces'[row[k]] = {}
      BY <1>3, <2>8 DEF LoadOpen, LoaderMoves, TypeOK
    <3>3. QED
      BY <1>2, <1>4, <2>1, <3>1, <3>2 DEF LastLoad
  <2>9. CASE LoadWrite(k)
    <3>1. /\ LastState' = 3 /\ loader'[k] = "write" /\ attached[k] /\ target[k] = row[k]
          /\ row[k] \in exists /\ pieces[row[k]] = 1 .. off[k]
      BY <1>2, <2>1, <2>3, <2>9 DEF LoadWrite, LoaderMoves, LastLoad, LastState, TypeOK
    <3>2. /\ attached'[k] /\ row[k] \in exists' /\ off[k] \in Nat /\ off'[k] = off[k] + 1
          /\ pieces'[row[k]] = pieces[row[k]] \cup {off[k] + 1}
      BY <1>3, <2>9, <3>1, ImageAssumption DEF LoadWrite, LoaderMoves, TypeOK
    <3>3. pieces'[row[k]] = 1 .. off'[k]
      BY <3>1, <3>2
    <3>4. QED
      BY <1>2, <1>4, <2>1, <3>1, <3>2, <3>3 DEF LastLoad
  <2>10. CASE LoadFinish(k)
    <3>1. LastState' = 1 /\ loader'[k] = "ended"
      BY <1>3, <2>2, <2>10 DEF LoadFinish, LoaderMoves, TypeOK
    <3>2. Complete(row[k])'
      BY <1>2, <1>4, <2>3, <2>10 DEF LoadFinish, LoaderMoves, LastLoad, Complete, diskVars, tapVars
    <3>3. QED
      BY <1>2, <1>4, <2>1, <3>1, <3>2 DEF LastLoad
  <2>11. CASE LoadFail(k)
    <3>1. LastState' = 2 /\ loader'[k] = "failed"
      BY <1>3, <2>2, <2>11 DEF LoadFail, LoaderMoves, TypeOK
    <3>2. QED
      BY <1>2, <1>4, <2>1, <3>1 DEF LastLoad
  <2>12. QED
    BY <2>4, <2>5, <2>6, <2>7, <2>8, <2>9, <2>10, <2>11 DEF Loader
<1>10. LastTap'
  BY <1>2, <1>4, <1>9 DEF LastTap, screenVars, tapVars
<1>11. QED
  BY <1>5, <1>6, <1>8, <1>10 DEF FirstFacts

LEMMA FirstStep ==
  ASSUME TypeOK, Linked, FirstInv, [Next]_vars
  PROVE  FirstInv'
<1> SUFFICES ASSUME FirstTries'
             PROVE  FirstFacts'
  BY DEF FirstInv
<1>1. FirstFacts
  BY TriesGrow DEF FirstInv
<1>2. visit \in Nat
  BY ImageAssumption DEF TypeOK
<1>3. CASE OpenScreen
  <2>1. ~Covered
    BY <1>3 DEF OpenScreen, Covered
  <2>2. visit' \in Visits /\ visit' > visit
    BY <1>2, <1>3, ImageAssumption DEF OpenScreen, Visits, TypeOK
  <2>3. ~Covered'
    BY <1>3, <2>2 DEF OpenScreen, Covered, Linked, DialogIsShown
  <2>4. QED
    BY <1>1, <1>2, <1>3, <2>1, <2>2, <2>3, UserIsAlone, QuietStep
       DEF OpenScreen, tapVars, threadVars, Running, Waiting, Loading, FirstFacts, Visits
<1>4. CASE LeaveScreen \/ ClearFiles \/ \E m \in Maps : TapDownloaded(m)
  <2>1. ~Covered /\ ~Covered'
    BY <1>4 DEF LeaveScreen, ClearFiles, TapDownloaded, Covered, screenVars
  <2>2. ui' = <<>> /\ \A k \in Taps : ~Running(k)'
    BY <1>1, <1>4, <2>1, UserIsAlone DEF LeaveScreen, ClearFiles, TapDownloaded, threadVars, Running,
       Waiting, Loading
  <2>3. QED
    BY <1>1, <1>2, <1>4, <2>1, <2>2, QuietStep
       DEF LeaveScreen, ClearFiles, TapDownloaded, tapVars, threadVars, screenVars, FirstFacts
<1>5. ASSUME NEW m \in Maps, Tap(m) PROVE FirstFacts'
  BY <1>1, <1>5, TapStep
<1>6. CASE RunMark \/ RunError
  BY <1>1, <1>6, RunStep
<1>7. CASE Kill
  <2>1. ~Covered' /\ ui' = <<>> /\ \A k \in Taps : ~Running(k)'
    BY <1>7 DEF Kill, Covered, Running, Waiting, Loading, TypeOK
  <2>2. QED
    BY <1>1, <1>2, <1>7, <2>1, QuietStep DEF Kill, tapVars, FirstFacts
<1>8. ASSUME NEW k \in Taps, Waiter(k) \/ Loader(k) PROVE FirstFacts'
  BY <1>1, <1>8, WaiterStep, LoaderStep
<1>9. CASE UNCHANGED vars
  BY <1>1, <1>9 DEF vars, diskVars, screenVars, tapVars, threadVars, FirstFacts, OnlyLastRuns, Covered,
     LastTap, LastLoad, LastState, LastMessage, OwnTargets, NewObjects, Untapped, Running, Waiting,
     Loading, Complete
<1>10. QED
  BY <1>3, <1>4, <1>5, <1>6, <1>7, <1>8, <1>9 DEF Next, UserStep, UiThread

-----------------------------------------------------------------------------
(* The theorems *)

LEMMA ImageInit == Init => ImageInv
<1> SUFFICES ASSUME Init PROVE ImageInv
  OBVIOUS
<1>1. TypeOK
  <2>1. visit \in 0 .. MaxVisits /\ taps \in 0 .. MaxTaps /\ 0 \in 0 .. Chunks
    BY ImageAssumption DEF Init
  <2>2. ui \in Seq([kind : {"mark", "error"}, tap : Taps])
    BY DEF Init
  <2>3. loadState \in [Visits -> [Maps -> 0 .. 3]]
    BY DEF Init
  <2>4. off \in [Taps -> 0 .. Chunks] /\ owner \in [Taps -> 0 .. MaxVisits]
    BY <2>1, ImageAssumption DEF Init
  <2>5. /\ waiter \in [Taps -> {"none", "known", "loading", "switch", "ended"}]
        /\ loader \in [Taps -> {"none", "start", "check", "connect", "open", "write",
                                "ended", "failed"}]
    BY DEF Init
  <2>6. QED
    BY <2>1, <2>2, <2>3, <2>4, <2>5 DEF Init, TypeOK
<1>2. Linked
  BY ImageAssumption DEF Init, Linked, NoThreadAhead, TapsAreOwned, TargetsAreMaps, MessagesAreOwned,
     DialogIsShown
<1>3. LastOpener
  BY DEF Init, LastOpener
<1>4. FirstInv
  BY DEF Init, FirstInv, FirstFacts, OnlyLastRuns, Covered, LastMessage, OwnTargets, NewObjects, Running,
         Waiting, Loading
<1>5. QED
  BY <1>1, <1>2, <1>3, <1>4 DEF ImageInv

\* The inductive invariant: for any number of maps, visits and taps, and whatever fails.
THEOREM ImageInvariant == Spec => []ImageInv
<1>1. ImageInv /\ [Next]_vars => ImageInv'
  BY TypeStep, LinkedStep, LastOpenerStep, FirstStep DEF ImageInv
<1>2. QED
  BY ImageInit, <1>1, PTL DEF Spec

\* Two loaders that write one file through each other leave it whole when all that
\* opened it have come to their end.
THEOREM PictureIsWhole == Spec => []AllEndedMeansComplete
<1>1. ImageInv => AllEndedMeansComplete
  <2> SUFFICES ASSUME ImageInv, NEW m \in exists,
                      \A k \in Taps : attached[k] /\ target[k] = m => loader[k] = "ended"
               PROVE  Complete(m)
    BY DEF AllEndedMeansComplete
  <2>1. PICK k \in Taps : attached[k] /\ target[k] = m /\ 1 .. off[k] \subseteq pieces[m]
    BY DEF ImageInv, LastOpener
  <2>2. 1 .. Chunks \subseteq pieces[m]
    BY <2>1 DEF ImageInv, LastOpener
  <2>3. QED
    BY <2>2 DEF ImageInv, TypeOK, Complete
<1>2. QED
  BY ImageInvariant, <1>1, PTL

\* The modal dialog is enough to guard the fields the threads share, as long as no
\* map is tried twice in a visit.
THEOREM DialogAlwaysProtects == Spec => []DialogProtects
<1>1. ImageInv => DialogProtects
  <2> SUFFICES ASSUME ImageInv PROVE DialogProtects
    OBVIOUS
  <2>1. DialogCoversThreads
    BY DEF ImageInv, FirstInv, FirstFacts, OnlyLastRuns, LastTap, Covered, DialogCoversThreads
  <2>2. LoadsTheTapped /\ NoCrash
    BY DEF ImageInv, FirstInv, FirstFacts, OwnTargets, LoadsTheTapped, NoCrash
  <2>3. QED
    BY <2>1, <2>2 DEF ImageInv, DialogProtects
<1>2. QED
  BY ImageInvariant, <1>1, PTL

\* The user is told the truth about a first try: an error, when its loader has failed;
\* a tick, when its picture is whole.
THEOREM MessagesAreAlwaysTrue == Spec => MessagesAreTrue
<1>1. ImageInv => ErrorMeansFailed
  <2> SUFFICES ASSUME ImageInv, FirstTries, NEW i \in 1 .. Len(ui), ui[i].kind = "error"
               PROVE  loader[ui[i].tap] = "failed"
    BY DEF ErrorMeansFailed
  <2>1. FirstFacts
    BY DEF ImageInv, FirstInv
  <2>2. ui # <<>>
    BY EmptySeq
  <2>3. i = 1 /\ ui[1].tap = taps /\ LastTap /\ LastState = 2
    <3>1. Len(ui) = 1 /\ ui[1].tap = taps /\ Covered
      BY <2>1, <2>2 DEF FirstFacts, LastMessage
    <3>2. i = 1
      BY <3>1
    <3>3. LastState = 2
      BY <2>1, <2>2, <3>2 DEF FirstFacts, LastMessage
    <3>4. QED
      BY <2>1, <3>1, <3>2, <3>3 DEF FirstFacts
  <2>4. taps \in Taps
    BY <2>3, ImageAssumption DEF ImageInv, TypeOK, Taps, LastTap
  <2>5. loader[taps] # "none"
    BY <2>3, <2>4, ImageAssumption DEF ImageInv, Linked, TapsAreOwned, Taps, LastTap
  <2>6. QED
    BY <2>3, <2>4, <2>5 DEF LastTap, LastLoad, ImageInv, TypeOK
<1>2. ImageInv /\ [Next]_vars =>
        [FirstTries => \A m \in marks' \ marks : visit' = visit => Complete(m)]_vars
  <2> SUFFICES ASSUME ImageInv, Next, FirstTries, NEW m \in marks' \ marks, visit' = visit
               PROVE  Complete(m)
    OBVIOUS
  <2>1. RunMark
    <3>1. ~OpenScreen
      BY DEF OpenScreen, ImageInv, TypeOK
    <3>2. ASSUME NEW k \in Taps PROVE ~Waiter(k) /\ ~Loader(k)
      BY DEF Waiter, WaitKnown, WaitLoaded, WaitSwitch, WaiterMoves, Loader, LoaderMoves, LoadStart,
             LoadFound, LoadMissing, LoadConnect, LoadOpen, LoadWrite, LoadFinish, LoadFail, screenVars
    <3>3. ~UserStep
      BY <3>1 DEF UserStep, LeaveScreen, ClearFiles, TapDownloaded, Tap, screenVars
    <3>4. ~RunError /\ ~Kill
      BY DEF RunError, Kill
    <3>5. QED
      BY <3>2, <3>3, <3>4 DEF Next, UiThread
  <2>2. FirstFacts /\ ui # <<>> /\ ui \in Seq(Messages)
    BY <2>1 DEF RunMark, ImageInv, FirstInv, TypeOK, Messages
  <2>3. ui[1].tap = taps /\ ui[1].kind = "mark" /\ Covered
    BY <2>1, <2>2, FirstMessage DEF RunMark, FirstFacts, LastMessage
  <2>4. LastTap /\ LastState = 1
    BY <2>2, <2>3 DEF FirstFacts, LastMessage
  <2>5. m = row[taps]
    BY <2>1, <2>2, <2>3, <2>4, FirstMessage DEF RunMark, LastTap
  <2>6. taps \in 1 .. taps /\ taps \in Taps
    BY <2>4, ImageAssumption DEF ImageInv, TypeOK, Taps, LastTap
  <2>7. loader[taps] = "ended"
    <3>1. loader[taps] # "none"
      BY <2>6 DEF ImageInv, Linked, TapsAreOwned
    <3>2. QED
      BY <2>4, <2>6, <3>1 DEF LastTap, LastLoad, ImageInv, TypeOK
  <2>8. QED
    BY <2>4, <2>5, <2>7 DEF LastTap, LastLoad
<1>3. QED
  BY ImageInvariant, <1>1, <1>2, PTL DEF Spec, MessagesAreTrue, TickMeansComplete
=============================================================================
