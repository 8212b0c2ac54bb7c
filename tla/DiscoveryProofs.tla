--------------------------- MODULE DiscoveryProofs ---------------------------
(***************************************************************************)
(* What the watcher reports, for any number of keys, moves and failures.   *)
(*                                                                         *)
(* That an application's view follows the snapshot is almost inductive.    *)
(* That a key at rest is not reported is not: it needs to be known, at     *)
(* every step of a capture, which of the keys the ids collected so far and *)
(* the snapshot before still speak the truth about, and by which kind of   *)
(* id, as an enumeration that failed may have missed any of them.          *)
(***************************************************************************)
EXTENDS Discovery, TLAPS

\* Does ids say of k what the HID and bootloader listings would say now?
HidTrue(ids, k) ==
    where[k] = "regular" => (<<"hid", path[k]>> \in ids <=> hidShown)
UsbTrue(ids, k) == where[k] = "boot" => <<"usb", path[k]>> \in ids

\* ... but for the kinds of which an enumeration failed.
TrueOf(ids, k, fails) ==
    /\ "hid" \notin fails => HidTrue(ids, k)
    /\ "usb" \notin fails => UsbTrue(ids, k)

\* Callbacks are left only while refresh makes them.
PendingInv ==
    /\ wpc # "tell" => toAdd = {} /\ toRemove = {}
    /\ wpc \in {"rest", "tell"} => purpose = "poll"

\* The first enumeration of a capture is true of the keys at rest since it
\* began, ...
SeenInv ==
    wpc = "boot" /\ "hid" \notin failed => \A k \in calm : HidTrue(seen, k)

\* ... the snapshot is true of the keys at rest since its own capture began,
\* and so it is during the next capture.
SnapshotInv ==
    /\ purpose = "list" \/ wpc \in {"rest", "tell"} =>
           \A k \in calm : TrueOf(snapshot, k, failed)
    /\ purpose = "poll" /\ wpc \in {"regular", "boot"} =>
           \A k \in calmBefore : TrueOf(snapshot, k, failedBefore)

IInv ==
    /\ TypeOK /\ PendingInv /\ SeenInv /\ SnapshotInv
    /\ ViewIsSnapshot /\ NoFalseAlarm
-----------------------------------------------------------------------------
\* An id by path is a pair.
LEMMA IdsArePairs ==
    \A d \in Ids : d = <<d[1], d[2]>>
  BY DEF Ids

\* The regular listing is true of every key.
LEMMA RegularListingTrue ==
    ASSUME NEW k \in Keys
    PROVE  HidTrue(RegularListing, k)
<1>1. <<"hid", path[k]>> \notin CcidListing
  BY DEF CcidListing
<1>2. HidTrue(HidListing, k)
  BY DEF HidTrue, HidListing, Found, In
<1> QED BY <1>1, <1>2 DEF HidTrue, RegularListing

THEOREM Initially == Init => IInv
<1> SUFFICES ASSUME Init PROVE IInv OBVIOUS
<1>1. TypeOK BY DiscoveryAssumption DEF Init, TypeOK, Places
<1> QED
  BY <1>1 DEF Init, IInv, PendingInv, SeenInv, SnapshotInv, ViewIsSnapshot,
              NoFalseAlarm
-----------------------------------------------------------------------------
\* A key that moves is no longer at rest; of the others the ids stay true.
LEMMA MovePreserves ==
    ASSUME IInv, NEW k \in Keys, Move(k)
    PROVE  IInv'
<1>1. /\ calm' = calm \ {k} /\ calmBefore' = calmBefore \ {k}
      /\ UNCHANGED <<hidShown, ccid, wpc, purpose, seen, snapshot, toAdd,
                     toRemove, view, agreed, failed, failedBefore, faults>>
  BY DEF Move, watcher, app
<1>2. \A j \in Keys \ {k} : where'[j] = where[j] /\ path'[j] = path[j]
  BY DEF Move, IInv, TypeOK
<1>3. TypeOK'
  <2>1. /\ where' \in [Keys -> Places] /\ path' \in [Keys -> Paths]
        /\ moves' \in 0..MaxMoves
    BY DiscoveryAssumption DEF Move, IInv, TypeOK
  <2> QED BY <1>1, <2>1 DEF IInv, TypeOK
<1>4. SeenInv'
  BY <1>1, <1>2 DEF IInv, TypeOK, SeenInv, HidTrue
<1>5. SnapshotInv'
  BY <1>1, <1>2 DEF IInv, TypeOK, SnapshotInv, TrueOf, HidTrue, UsbTrue
<1>6. PendingInv' /\ ViewIsSnapshot'
  BY <1>1 DEF IInv, PendingInv, ViewIsSnapshot
<1>7. NoFalseAlarm'
  BY <1>1, <1>2 DEF IInv, TypeOK, NoFalseAlarm, Names
<1> QED BY <1>3, <1>4, <1>5, <1>6, <1>7 DEF IInv

\* The first enumeration: true of all keys, or recorded as one that failed.
LEMMA ListRegularPreserves ==
    ASSUME IInv, ListRegular
    PROVE  IInv'
<1>1. /\ wpc = "regular" /\ wpc' = "boot"
      /\ UNCHANGED <<where, path, hidShown, ccid, moves, purpose, snapshot,
                     toAdd, toRemove, view, agreed>>
  BY DEF ListRegular, bus, app
<1>2. PICK ids \in SUBSET Ids :
         Enumerates("hid", RegularListing, RegularTroubled, ids) /\ seen' = ids
  BY DEF ListRegular
<1>3. /\ UNCHANGED <<calm, calmBefore, failedBefore>>
      /\ \/ ids = RegularListing /\ UNCHANGED <<faults, failed>>
         \/ /\ faults' = faults + 1 /\ faults < MaxFaults
            /\ failed' = failed \cup {"hid"}
  BY <1>2 DEF Enumerates, ghost
<1>4. TypeOK'
  <2>1. faults' \in 0..MaxFaults
    BY <1>3, DiscoveryAssumption DEF IInv, TypeOK
  <2>2. failed' \subseteq {"hid", "usb"}
    BY <1>3 DEF IInv, TypeOK
  <2> QED BY <1>1, <1>2, <1>3, <2>1, <2>2 DEF IInv, TypeOK
<1>5. SeenInv'
  <2>1. CASE ids = RegularListing
    BY <2>1, <1>1, <1>2, <1>3, RegularListingTrue
       DEF SeenInv, HidTrue, IInv, TypeOK
  <2>2. CASE failed' = failed \cup {"hid"}
    BY <2>2 DEF SeenInv
  <2> QED BY <1>3, <2>1, <2>2
<1>6. SnapshotInv'
  BY <1>1, <1>3 DEF IInv, SnapshotInv, TrueOf, HidTrue, UsbTrue
<1>7. PendingInv' /\ ViewIsSnapshot' /\ NoFalseAlarm'
  BY <1>1, <1>3 DEF IInv, PendingInv, ViewIsSnapshot, NoFalseAlarm, Names
<1> QED BY <1>4, <1>5, <1>6, <1>7 DEF IInv

\* The second enumeration completes the capture: it is true of the keys at rest
\* since the capture began.
LEMMA CaptureTrue ==
    ASSUME IInv, wpc = "boot", NEW ids,
           Enumerates("usb", Found("usb", "boot"), {{}}, ids),
           NEW k \in calm
    PROVE  TrueOf(seen \cup ids, k, failed')
<1>1. \/ ids = Found("usb", "boot") /\ failed' = failed
      \/ ids = {} /\ failed' = failed \cup {"usb"}
  BY DEF Enumerates, ghost
<1>2. k \in Keys /\ ("hid" \notin failed' => HidTrue(seen, k))
  BY <1>1 DEF IInv, TypeOK, SeenInv
<1>3. <<"hid", path[k]>> \notin ids
  BY <1>1 DEF Found
<1>4. where[k] = "boot" /\ "usb" \notin failed' => <<"usb", path[k]>> \in ids
  BY <1>1, <1>2 DEF Found, In
<1> QED BY <1>2, <1>3, <1>4 DEF TrueOf, HidTrue, UsbTrue

LEMMA ListBootloadersPreserves ==
    ASSUME IInv, ListBootloaders
    PROVE  IInv'
<1>1. PICK ids \in SUBSET Ids :
         /\ Enumerates("usb", Found("usb", "boot"), {{}}, ids)
         /\ Takes(seen \cup ids)
  BY DEF ListBootloaders
<1> DEFINE all == seen \cup ids
<1>2. /\ wpc = "boot" /\ seen' = {}
      /\ UNCHANGED <<where, path, hidShown, ccid, moves>>
  BY DEF ListBootloaders, bus
<1>3. /\ faults' \in 0..MaxFaults /\ failed' \subseteq {"hid", "usb"}
      /\ failed \subseteq failed'
      /\ UNCHANGED <<calm, calmBefore, failedBefore>>
  <2>1. /\ UNCHANGED <<calm, calmBefore, failedBefore>>
        /\ \/ UNCHANGED <<faults, failed>>
           \/ /\ faults' = faults + 1 /\ faults < MaxFaults
              /\ failed' = failed \cup {"usb"}
    BY <1>1 DEF Enumerates, ghost
  <2>2. faults' \in 0..MaxFaults
    BY <2>1, DiscoveryAssumption DEF IInv, TypeOK
  <2>3. failed' \subseteq {"hid", "usb"} /\ failed \subseteq failed'
    BY <2>1 DEF IInv, TypeOK
  <2> QED BY <2>1, <2>2, <2>3
<1>4. all \subseteq Ids BY <1>1 DEF IInv, TypeOK
<1>5. toAdd = {} /\ toRemove = {} BY <1>2 DEF IInv, PendingInv
<1>6. \A k \in calm : TrueOf(all, k, failed')
  BY <1>1, <1>2, CaptureTrue
<1>7. CASE purpose = "watch"
  <2>1. /\ snapshot' = all /\ purpose' = "list" /\ wpc' = "regular"
        /\ UNCHANGED <<toAdd, toRemove, view, agreed>>
    BY <1>1, <1>7 DEF Takes, app
  <2>2. TypeOK'
    BY <2>1, <1>2, <1>3, <1>4, <1>5 DEF IInv, TypeOK
  <2>3. SnapshotInv'
    BY <2>1, <1>2, <1>3, <1>6 DEF SnapshotInv, TrueOf, HidTrue, UsbTrue
  <2> QED
    BY <2>1, <2>2, <2>3, <1>5
       DEF IInv, PendingInv, SeenInv, ViewIsSnapshot, NoFalseAlarm
<1>8. CASE purpose = "list"
  <2>1. /\ view' = all /\ agreed' = (all = snapshot)
        /\ purpose' = "poll" /\ wpc' = "rest"
        /\ UNCHANGED <<snapshot, toAdd, toRemove>>
    BY <1>1, <1>8 DEF Takes
  <2>2. TypeOK'
    BY <2>1, <1>2, <1>3, <1>4, <1>5 DEF IInv, TypeOK
  <2>3. SnapshotInv'
    BY <2>1, <1>2, <1>3, <1>8
       DEF IInv, SnapshotInv, TrueOf, HidTrue, UsbTrue
  <2> QED
    BY <2>1, <2>2, <2>3, <1>5
       DEF IInv, PendingInv, SeenInv, ViewIsSnapshot, NoFalseAlarm
<1>9. CASE purpose = "poll"
  <2>1. /\ toAdd' = all \ snapshot /\ toRemove' = snapshot \ all
        /\ snapshot' = all /\ wpc' = "tell"
        /\ UNCHANGED <<purpose, view, agreed>>
    BY <1>1, <1>9 DEF Takes, New, Lost, app
  <2>2. TypeOK'
    BY <2>1, <1>2, <1>3, <1>4 DEF IInv, TypeOK
  <2>3. SnapshotInv'
    BY <2>1, <1>2, <1>3, <1>6, <1>9 DEF SnapshotInv, TrueOf, HidTrue, UsbTrue
  <2>4. ViewIsSnapshot'
    BY <2>1, <1>5, <1>9 DEF IInv, ViewIsSnapshot
  <2>5. NoFalseAlarm'
    <3> SUFFICES ASSUME NEW d \in toAdd' \cup toRemove', NEW k \in calmBefore,
                        d[1] \in {"hid", "usb"} \ (failed' \cup failedBefore),
                        Names(d, k)'
                 PROVE  FALSE
      BY <1>3 DEF NoFalseAlarm
    <3>1. d \in Ids /\ (d \in all <=> d \notin snapshot)
      BY <2>1, <1>4 DEF IInv, TypeOK
    <3>2. d = <<d[1], path[k]>> /\ Names(d, k)
      BY <1>2, <3>1, IdsArePairs DEF Names
    <3>3. TrueOf(snapshot, k, failedBefore)
      BY <1>2, <1>9 DEF IInv, SnapshotInv
    <3>4. TrueOf(all, k, failed') BY <1>6 DEF IInv, TypeOK
    <3>5. CASE d[1] = "hid"
      <4>1. where[k] = "regular" /\ d = <<"hid", path[k]>>
        BY <3>2, <3>5 DEF Names
      <4>2. HidTrue(snapshot, k) /\ HidTrue(all, k)
        BY <3>3, <3>4, <3>5 DEF TrueOf
      <4> QED BY <3>1, <4>1, <4>2 DEF HidTrue
    <3>6. CASE d[1] = "usb"
      <4>1. where[k] = "boot" /\ d = <<"usb", path[k]>>
        BY <3>2, <3>6 DEF Names
      <4>2. UsbTrue(snapshot, k) /\ UsbTrue(all, k)
        BY <3>3, <3>4, <3>6 DEF TrueOf
      <4> QED BY <3>1, <4>1, <4>2 DEF UsbTrue
    <3> QED BY <3>5, <3>6
  <2> QED
    BY <2>1, <2>2, <2>3, <2>4, <2>5, <1>9 DEF IInv, PendingInv, SeenInv
<1> QED BY <1>7, <1>8, <1>9 DEF IInv, TypeOK
-----------------------------------------------------------------------------
\* A new capture: what was at rest so far is what the snapshot is true of.
LEMMA RefreshPreserves ==
    ASSUME IInv, Refresh
    PROVE  IInv'
<1>1. /\ wpc = "rest" /\ wpc' = "regular" /\ calmBefore' = calm
      /\ calm' = Keys /\ failedBefore' = failed /\ failed' = {}
      /\ UNCHANGED <<where, path, hidShown, ccid, moves, purpose, seen,
                     snapshot, toAdd, toRemove, view, agreed, faults>>
  BY DEF Refresh, bus, app
<1>2. toAdd = {} /\ toRemove = {} /\ purpose = "poll"
  BY <1>1 DEF IInv, PendingInv
<1>3. TypeOK' BY <1>1 DEF IInv, TypeOK
<1>4. SnapshotInv'
  BY <1>1, <1>2 DEF IInv, SnapshotInv, TrueOf, HidTrue, UsbTrue
<1> QED
  BY <1>1, <1>2, <1>3, <1>4
     DEF IInv, PendingInv, SeenInv, ViewIsSnapshot, NoFalseAlarm

\* The callbacks and the end of refresh touch neither bus nor snapshot.
LEMMA TellPreserves ==
    ASSUME IInv, NEW d,
           OnAdded(d) \/ OnRemoved(d) \/ RefreshReturns \/ CallbackRaises
    PROVE  IInv'
<1>1. /\ wpc = "tell" /\ wpc' \in {"tell", "rest"}
      /\ toAdd' \subseteq toAdd /\ toRemove' \subseteq toRemove
      /\ UNCHANGED <<where, path, hidShown, ccid, moves, purpose, seen,
                     snapshot, calm, calmBefore, failed, failedBefore>>
  BY DEF OnAdded, OnRemoved, RefreshReturns, CallbackRaises, bus, app, ghost
<1>2. PendingInv' /\ SeenInv' /\ SnapshotInv' /\ NoFalseAlarm'
  <2>1. wpc' = "rest" => toAdd' = {} /\ toRemove' = {}
    BY <1>1 DEF OnAdded, OnRemoved, RefreshReturns, CallbackRaises
  <2> QED
    BY <1>1, <2>1
       DEF IInv, PendingInv, SeenInv, SnapshotInv, TrueOf, HidTrue, UsbTrue,
           NoFalseAlarm, Names
<1>3. TypeOK'
  <2>1. view' \subseteq Ids /\ agreed' \in BOOLEAN /\ faults' \in 0..MaxFaults
    <3>1. CASE OnAdded(d) BY <3>1 DEF OnAdded, IInv, TypeOK
    <3>2. CASE OnRemoved(d) BY <3>2 DEF OnRemoved, IInv, TypeOK
    <3>3. CASE RefreshReturns BY <3>3 DEF RefreshReturns, app, IInv, TypeOK
    <3>4. CASE CallbackRaises
      <4>1. /\ view' = view /\ agreed' = FALSE
            /\ faults < MaxFaults /\ faults' = faults + 1
        BY <3>4 DEF CallbackRaises
      <4>2. faults \in 0..MaxFaults /\ MaxFaults \in Nat /\ view \subseteq Ids
        BY DiscoveryAssumption DEF IInv, TypeOK
      <4>3. agreed' \in BOOLEAN BY <4>1, Zenon
      <4>4. faults' \in 0..MaxFaults BY <4>1, <4>2
      <4> QED BY <4>1, <4>2, <4>3, <4>4
    <3> QED BY <3>1, <3>2, <3>3, <3>4
  <2> QED BY <1>1, <2>1 DEF IInv, TypeOK
<1>4. ViewIsSnapshot'
  <2>1. CASE OnAdded(d)
    BY <2>1, <1>1 DEF OnAdded, IInv, TypeOK, ViewIsSnapshot
  <2>2. CASE OnRemoved(d)
    BY <2>2, <1>1 DEF OnRemoved, IInv, TypeOK, ViewIsSnapshot
  <2>3. CASE RefreshReturns
    BY <2>3, <1>1 DEF RefreshReturns, app, IInv, ViewIsSnapshot
  <2>4. CASE CallbackRaises
    BY <2>4 DEF CallbackRaises, ViewIsSnapshot
  <2> QED BY <2>1, <2>2, <2>3, <2>4
<1> QED BY <1>2, <1>3, <1>4 DEF IInv

\* Every step of the watcher, the application, the user and the keys keeps what
\* is known of the snapshot and of the capture under way.
THEOREM NextPreserves == IInv /\ [Next]_vars => IInv'
<1> SUFFICES ASSUME IInv, [Next]_vars PROVE IInv' OBVIOUS
<1>1. CASE ListRegular BY <1>1, ListRegularPreserves
<1>2. CASE ListBootloaders BY <1>2, ListBootloadersPreserves
<1>3. CASE Refresh BY <1>3, RefreshPreserves
<1>4. CASE RefreshReturns BY <1>4, TellPreserves
<1>5. CASE \E d \in Ids : OnAdded(d) \/ OnRemoved(d)
  BY <1>5, TellPreserves
<1>6. CASE CallbackRaises
  BY <1>6, TellPreserves
<1>7. CASE \E k \in Keys : Move(k)
  BY <1>7, MovePreserves
<1>8. CASE UNCHANGED vars
  BY <1>8
     DEF vars, bus, watcher, app, ghost, IInv, TypeOK, PendingInv, SeenInv,
         SnapshotInv, TrueOf, HidTrue, UsbTrue, ViewIsSnapshot, NoFalseAlarm,
         Names
<1> QED
  BY <1>1, <1>2, <1>3, <1>4, <1>5, <1>6, <1>7, <1>8 DEF Next, WatcherStep

\* The invariant holds in every reachable state.
THEOREM Invariance == Spec => []IInv
<1>1. Init => IInv BY Initially
<1>2. IInv /\ [Next]_vars => IInv' BY NextPreserves
<1> QED BY <1>1, <1>2, PTL DEF Spec

\* Every state is well typed: an event is never reported both ways.
THEOREM TypeCorrect == Spec => []TypeOK
<1>1. IInv => TypeOK BY DEF IInv
<1> QED BY <1>1, Invariance, PTL

\* An application told of everything by its callbacks shows the watcher's
\* snapshot, whatever moved or failed during a capture.
THEOREM ViewCorrect == Spec => []ViewIsSnapshot
<1>1. IInv => ViewIsSnapshot BY DEF IInv
<1> QED BY <1>1, Invariance, PTL

\* No key at rest is reported by its HID path or bus address, for any number of
\* keys that come, go and reboot between the two enumerations, unless an
\* enumeration of that kind failed in the capture or the one before.
THEOREM NoFalseAlarmCorrect == Spec => []NoFalseAlarm
<1>1. IInv => NoFalseAlarm BY DEF IInv
<1> QED BY <1>1, Invariance, PTL
=============================================================================
