------------------------------ MODULE Discovery ------------------------------
(***************************************************************************)
(* The device watcher (discovery.py) and an application that shows the     *)
(* keys it reports.  A capture is two enumerations, regular keys and then  *)
(* bootloaders, and keys come, go and reboot at any time, between the two  *)
(* as well.                                                                *)
(***************************************************************************)
EXTENDS Naturals, Sequences, FiniteSets

CONSTANTS
    Keys,          \* Solo 2 keys
    Readers,       \* the keys, in the order the smart card service lists them
    Paths,         \* HID paths and bus addresses a key can be found under
    MaxMoves,      \* bound on how often a key changes place
    MaxFaults      \* bound on the enumerations that fail

ASSUME DiscoveryAssumption ==
    /\ Readers \in Seq(Keys) /\ \A k \in Keys : \E i \in DOMAIN Readers :
           Readers[i] = k
    /\ MaxMoves \in Nat /\ MaxFaults \in Nat

VARIABLES
    where,      \* of each key: "gone", "regular" or "boot"
    path,       \* of each key that is not gone: the path it is found under
    hidShown,   \* does the system let this user enumerate FIDO HID devices?
    ccid,       \* should_prefer_ccid()
    wpc,        \* the watcher's next step
    purpose,    \* of a capture: "watch", "list" or "poll"
    seen,       \* the capture's first enumeration
    snapshot,   \* _snapshot's ids
    toAdd,      \* callbacks of refresh still to come
    toRemove,
    view,       \* the ids the application shows
    agreed,     \* did it start from the snapshot, and has no callback raised?
    calm,       \* the keys nothing happened to since this capture began
    calmBefore, \* ... and since the capture before it
    failed,     \* kinds of ids for which an enumeration of it failed
    failedBefore,
    moves, faults

bus     == <<where, path, hidShown, ccid, moves>>
watcher == <<wpc, purpose, seen, snapshot, toAdd, toRemove>>
app     == <<view, agreed>>
ghost   == <<calm, calmBefore, failed, failedBefore>>
vars    == <<bus, watcher, app, ghost, faults>>

Places == {"gone", "regular", "boot"}

\* Ids: by HID path, bus-address of a bootloader, by UUID and by reader name.
Ids == ({"hid", "usb"} \X Paths) \cup ({"uuid", "ccid"} \X Keys)

Here == {k \in Keys : where[k] # "gone"}

\* No two keys are found under one path.
Apart == \A j, k \in Here : path[j] = path[k] => j = k

Init ==
    /\ where \in [Keys -> {"gone", "regular"}]
    /\ path \in [Keys -> Paths]
    /\ \A j, k \in Keys : path[j] = path[k] => j = k
    /\ hidShown \in BOOLEAN /\ ccid \in BOOLEAN
    /\ wpc = "regular" /\ purpose = "watch" /\ seen = {}
    /\ snapshot = {} /\ toAdd = {} /\ toRemove = {}
    /\ view = {} /\ agreed = TRUE
    /\ calm = Keys /\ calmBefore = {}
    /\ failed = {} /\ failedBefore = {}
    /\ moves = 0 /\ faults = 0

TypeOK ==
    /\ where \in [Keys -> Places] /\ path \in [Keys -> Paths]
    /\ hidShown \in BOOLEAN /\ ccid \in BOOLEAN
    /\ wpc \in {"regular", "boot", "rest", "tell"}
    /\ purpose \in {"watch", "list", "poll"}
    /\ seen \subseteq Ids /\ snapshot \subseteq Ids /\ view \subseteq Ids
    /\ toAdd \subseteq snapshot /\ toRemove \subseteq Ids \ snapshot
    /\ agreed \in BOOLEAN
    /\ calm \subseteq Keys /\ calmBefore \subseteq calm
    /\ failed \subseteq {"hid", "usb"} /\ failedBefore \subseteq {"hid", "usb"}
    /\ moves \in 0..MaxMoves /\ faults \in 0..MaxFaults

In(place) == {k \in Keys : where[k] = place}

\* The ids the keys in a place are found under.
Found(kind, place) == {<<kind, path[k]>> : k \in In(place)}

\* The user plugs a key in or out, or a key reboots; it comes back under any
\* path that is free, one that another key had before perhaps.
Move(k) ==
    /\ moves < MaxMoves /\ moves' = moves + 1
    /\ \E p \in Places \ {where[k]} : where' = [where EXCEPT ![k] = p]
    /\ \E q \in Paths : path' = [path EXCEPT ![k] = q]
    /\ where'[k] = "gone" => path' = path
    /\ Apart'
    /\ calm' = calm \ {k} /\ calmBefore' = calmBefore \ {k}
    /\ UNCHANGED <<hidShown, ccid, watcher, app, failed, failedBefore, faults>>

\* _list_ccid_regular_descriptors: every candidate opens the first reader whose
\* admin applet answers, whatever reader it was made for, and what comes out
\* twice is dropped.
CcidListing ==
    LET up == {i \in DOMAIN Readers : where[Readers[i]] = "regular"}
    IN {<<"uuid", Readers[i]>> : i \in {j \in up : \A h \in up : j <= h}}

\* ... and what it lists when readers fail, or only the UUID does: of each
\* candidate nothing, the UUID of a key that answered or its own reader's name.
\* One key may so be listed twice.
CcidTroubled ==
    {ids \in SUBSET ({"uuid", "ccid"} \X In("regular")) :
        Cardinality(ids) <= Cardinality(In("regular"))}

HidListing == IF hidShown THEN Found("hid", "regular") ELSE {}

\* list_regular_descriptors, nothing failing.
RegularListing ==
    IF HidListing = {} /\ ccid THEN CcidListing ELSE HidListing

\* HID enumeration passes over a key it cannot ask; an enumeration that raises
\* counts as one that found nothing.
RegularTroubled ==
    (SUBSET HidListing \ {{}}) \cup IF ccid THEN CcidTroubled ELSE {{}}

Enumerates(kind, found, troubled, result) ==
    \/ result = found /\ UNCHANGED <<faults, ghost>>
    \/ /\ faults < MaxFaults /\ faults' = faults + 1
       /\ result \in troubled
       /\ failed' = failed \cup {kind}
       /\ UNCHANGED <<calm, calmBefore, failedBefore>>

ListRegular ==
    /\ wpc = "regular"
    /\ \E ids \in SUBSET Ids :
         /\ Enumerates("hid", RegularListing, RegularTroubled, ids)
         /\ seen' = ids
    /\ wpc' = "boot"
    /\ UNCHANGED <<bus, purpose, snapshot, toAdd, toRemove, app>>

\* Mutant: every poll reports all there is.
ReportsAll(old, new) == new

New(old, new) == new \ old

\* Mutant: what is gone is not reported when something else came.
AddedOnly(old, new) == IF new \ old = {} THEN old \ new ELSE {}

\* Mutant: what is still there is reported gone as well.
AllGone(old, new) == old

Lost(old, new) == old \ new

\* The capture is complete; what it is for decides who takes it: the watcher's
\* constructor, list_devices called by the application, or poll.
Takes(ids) ==
    \/ /\ purpose = "watch" /\ purpose' = "list" /\ wpc' = "regular"
       /\ snapshot' = ids
       /\ UNCHANGED <<toAdd, toRemove, app>>
    \/ /\ purpose = "list" /\ purpose' = "poll" /\ wpc' = "rest"
       /\ view' = ids /\ agreed' = (ids = snapshot)
       /\ UNCHANGED <<snapshot, toAdd, toRemove>>
    \/ /\ purpose = "poll" /\ wpc' = "tell"
       /\ toAdd' = New(snapshot, ids) /\ toRemove' = Lost(snapshot, ids)
       /\ snapshot' = ids
       /\ UNCHANGED <<purpose, app>>

ListBootloaders ==
    /\ wpc = "boot"
    /\ \E ids \in SUBSET Ids :
         /\ Enumerates("usb", Found("usb", "boot"), {{}}, ids)
         /\ Takes(seen \cup ids)
    /\ seen' = {}
    /\ UNCHANGED bus

Refresh ==
    /\ wpc = "rest" /\ wpc' = "regular"
    /\ calmBefore' = calm /\ calm' = Keys
    /\ failedBefore' = failed /\ failed' = {}
    /\ UNCHANGED <<bus, purpose, seen, snapshot, toAdd, toRemove, app, faults>>

OnAdded(d) ==
    /\ wpc = "tell" /\ d \in toAdd
    /\ view' = view \cup {d} /\ toAdd' = toAdd \ {d}
    /\ UNCHANGED <<bus, wpc, purpose, seen, snapshot, toRemove, agreed, ghost,
                   faults>>

OnRemoved(d) ==
    /\ wpc = "tell" /\ toAdd = {} /\ d \in toRemove
    /\ view' = view \ {d} /\ toRemove' = toRemove \ {d}
    /\ UNCHANGED <<bus, wpc, purpose, seen, snapshot, toAdd, agreed, ghost,
                   faults>>

RefreshReturns ==
    /\ wpc = "tell" /\ toAdd = {} /\ toRemove = {} /\ wpc' = "rest"
    /\ UNCHANGED <<bus, purpose, seen, snapshot, toAdd, toRemove, app, ghost,
                   faults>>

\* A callback raises: refresh is over, its snapshot is already replaced.
CallbackRaises ==
    /\ wpc = "tell" /\ toAdd \cup toRemove # {}
    /\ faults < MaxFaults /\ faults' = faults + 1
    /\ toAdd' = {} /\ toRemove' = {} /\ agreed' = FALSE /\ wpc' = "rest"
    /\ UNCHANGED <<bus, purpose, seen, snapshot, view, ghost>>

WatcherStep ==
    \/ ListRegular \/ ListBootloaders \/ Refresh \/ RefreshReturns
    \/ \E d \in Ids : OnAdded(d) \/ OnRemoved(d)

Next == WatcherStep \/ CallbackRaises \/ \E k \in Keys : Move(k)

\* The application polls for ever.
Spec == Init /\ [][Next]_vars /\ WF_vars(WatcherStep)

\* What the application shows is the watcher's snapshot but for the events it
\* has not been told yet: no key is shown for ever that is gone, and none is
\* missing for ever, whatever moved or failed during a capture - provided that
\* it started from the snapshot and no callback raised.
ViewIsSnapshot ==
    purpose = "poll" /\ agreed => view = (snapshot \ toAdd) \cup toRemove

\* The key that an id by path says something about.
Names(d, k) ==
    /\ where[k] = (IF d[1] = "hid" THEN "regular" ELSE "boot")
    /\ d[2] = path[k]

\* A key to which nothing happened since the capture before began is reported
\* neither added nor removed under its HID path or bus address, unless an
\* enumeration of that kind failed in this capture or the one before.  By CCID
\* another key that is plugged in or out takes its place in the listing.
NoFalseAlarm ==
    \A d \in toAdd \cup toRemove, k \in calmBefore :
        d[1] \in {"hid", "usb"} \ (failed \cup failedBefore) => ~ Names(d, k)

\* Once keys stay where they are and enumerations succeed, the application
\* comes to show, for good, every key that can be listed and nothing else.
Listable == RegularListing \cup Found("usb", "boot")

ViewConverges == <>[](agreed => view = Listable)
=============================================================================
