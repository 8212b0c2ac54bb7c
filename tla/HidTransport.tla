---------------------------- MODULE HidTransport ----------------------------
(***************************************************************************)
(* A Solo2Device handle over CTAPHID (device.py): how it finds its key     *)
(* again for every command while keys are unplugged and plugged back in.   *)
(*                                                                         *)
(* The operating system names a plugged key by a path.  A key comes back   *)
(* under any path that is free, possibly one that named another key.  The  *)
(* handle knows its key by that path and, once it has read it, by UUID.    *)
(***************************************************************************)
EXTENDS Naturals, FiniteSets

CONSTANTS
    Keys,          \* Solo 2 keys; a key stands for its UUID
    Paths,         \* HID paths the system hands out
    None,          \* Python's None
    MaxFaults,     \* bound on the calls that fail
    MaxUnplugs     \* bound on the unplug events

ASSUME HidAssumption ==
    /\ None \notin Keys /\ None \notin Paths
    /\ MaxFaults \in Nat /\ MaxUnplugs \in Nat

VARIABLES
    at,         \* the path of each key; None when it is unplugged
    pc,         \* "closed", "listed", "ready", or the step of a command
    hidPath,    \* _hid_path
    uuid,       \* _device_uuid
    idPath,     \* the path in a "hid:..." id; None for a "uuid:..." id
    dev,        \* the key open for the command; None once it is gone
    retries,    \* of the call's loop: 1 in _call_hid_command, 2 in send_apdu
    attempt,    \* attempt of the loop
    answered,   \* the key whose answer the last command returned, or None
    usurper,    \* the other key, if any, that was plugged in under hidPath
    faults, unplugs

bus    == <<at, unplugs>>
handle == <<hidPath, uuid, idPath>>
call   == <<dev, retries, attempt, answered>>
vars   == <<bus, handle, call, usurper, pc, faults>>

Present == {k \in Keys : at[k] # None}

Fault == faults < MaxFaults /\ faults' = faults + 1
-----------------------------------------------------------------------------
(***************************************************************************)
(* The bus.                                                                *)
(***************************************************************************)
Plug(k, p) ==
    /\ k \notin Present /\ \A j \in Present : at[j] # p
    /\ at' = [at EXCEPT ![k] = p]
    /\ usurper' = IF p = hidPath /\ uuid # None /\ k # uuid THEN k ELSE usurper
    /\ UNCHANGED <<unplugs, handle, call, pc, faults>>

\* An open connection does not survive, wherever the key comes back.
Unplug(k) ==
    /\ k \in Present /\ unplugs < MaxUnplugs
    /\ unplugs' = unplugs + 1
    /\ at' = [at EXCEPT ![k] = None]
    /\ dev' = IF dev = k THEN None ELSE dev
    /\ usurper' = IF usurper = k THEN None ELSE usurper
    /\ UNCHANGED <<handle, retries, attempt, answered, pc, faults>>
-----------------------------------------------------------------------------
(***************************************************************************)
(* open_hid_device                                                         *)
(***************************************************************************)

\* list_ctap_hid_devices skips a key it cannot open, and a key whose UUID or
\* version cannot be read matches nothing: both cost a fault.
Sees(seen) ==
    \/ seen = Present /\ UNCHANGED faults
    \/ seen # Present /\ Fault

\* Mutant: a path the handle still remembers is all it goes by.
MatchesByPathFirst(k) ==
    IF hidPath # None THEN at[k] = hidPath
    ELSE IF uuid # None THEN k = uuid
    ELSE idPath # None /\ at[k] = idPath

\* _matches_hid_device
Matches(k) ==
    \/ hidPath # None /\ at[k] = hidPath
    \/ uuid # None /\ k = uuid
    \/ uuid = None /\ idPath # None /\ at[k] = idPath

\* Mutant: a handle that knows its UUID falls back like any other.
AlwaysFallback(u) == TRUE

MayFallback(u) == u = None

\* The key open_hid_device would return.  Keys are enumerated in any order.
Opens(k, seen) ==
    /\ k \in seen
    /\ \/ Matches(k)
       \/ MayFallback(uuid) /\ \A j \in seen : ~ Matches(j)

\* A fallback key lends the handle its UUID, when it can be read.
Adopted(k) == IF uuid = None /\ ~ Matches(k) THEN {k, None} ELSE {uuid}
-----------------------------------------------------------------------------
(***************************************************************************)
(* list_regular_descriptors, open_device and connect                       *)
(***************************************************************************)
List(k) ==
    /\ pc \in {"closed", "ready"} /\ k \in Present
    /\ pc' = "listed"
    /\ hidPath' = at[k] /\ idPath' = at[k] /\ uuid' = None
    /\ dev' = None /\ retries' = 1 /\ attempt' = 0
    /\ answered' = None /\ usurper' = None
    /\ UNCHANGED <<bus, faults>>

\* Reads the UUID itself, for the new id, from whatever key it was given.
ConnectTo(k, seen) ==
    /\ Opens(k, seen)
    /\ \/ Sees(seen) /\ uuid' = k /\ idPath' = None
       \/ seen = Present /\ Fault /\ uuid' = None /\ idPath' = at[k]
    /\ hidPath' = at[k] /\ usurper' = None
    /\ pc' = "ready"

ConnectFails(seen) ==
    /\ Sees(seen) /\ \A k \in Keys : ~ Opens(k, seen)
    /\ pc' = IF pc = "listed" THEN "closed" ELSE pc
    /\ UNCHANGED <<handle, usurper>>

Connect ==
    /\ pc \in {"listed", "ready"}
    /\ \E seen \in SUBSET Present :
         \/ \E k \in Keys : ConnectTo(k, seen)
         \/ ConnectFails(seen)
    /\ answered' = None
    /\ UNCHANGED <<bus, dev, retries, attempt>>

Disconnect ==
    /\ pc = "ready"
    /\ hidPath' = None /\ usurper' = None
    /\ UNCHANGED <<bus, uuid, idPath, call, pc, faults>>
-----------------------------------------------------------------------------
(***************************************************************************)
(* _call_hid_command, with one retry, and the legacy DeviceTransport's     *)
(* send_apdu, with two                                                     *)
(***************************************************************************)
Call(n) ==
    /\ pc = "ready"
    /\ retries' = n
    /\ pc' = "open" /\ attempt' = 0 /\ answered' = None
    /\ UNCHANGED <<bus, handle, dev, usurper, faults>>

Returns(k) == pc' = "ready" /\ answered' = k /\ dev' = None

\* A path the handle forgets, or replaces, can mislead it no longer.
Remembers(path) ==
    /\ hidPath' = path
    /\ usurper' = IF path = hidPath THEN usurper ELSE None

Open ==
    /\ pc = "open"
    /\ \E seen \in SUBSET Present :
         /\ Sees(seen)
         /\ \/ \E k \in Keys :
                 /\ Opens(k, seen)
                 /\ uuid' \in Adopted(k)
                 /\ Remembers(at[k]) /\ dev' = k
                 /\ pc' = "exchange" /\ UNCHANGED answered
            \/ /\ \A k \in Keys : ~ Opens(k, seen)
               /\ Returns(None) /\ UNCHANGED <<hidPath, uuid, usurper>>
    /\ UNCHANGED <<bus, idPath, retries, attempt>>

ExchangeOk ==
    /\ pc = "exchange" /\ dev # None
    /\ Returns(dev)
    /\ UNCHANGED <<bus, handle, usurper, retries, attempt, faults>>

\* Mutant: one retry too many.
RetriesOnceMore(a) == a <= retries

MayRetry(a) == a < retries

\* Busy, or a wrong channel: search again and send again, _call_hid_command
\* without the path it remembered.
ExchangeRetry ==
    /\ pc = "exchange" /\ dev # None /\ MayRetry(attempt)
    /\ Fault
    /\ attempt' = attempt + 1 /\ dev' = None /\ pc' = "open"
    /\ Remembers(IF retries = 1 THEN None ELSE hidPath)
    /\ UNCHANGED <<bus, uuid, idPath, retries, answered>>

\* The connection is gone, or an answer is lost.
ExchangeFails ==
    /\ pc = "exchange"
    /\ \/ dev = None /\ UNCHANGED faults
       \/ dev # None /\ Fault
    /\ Returns(None)
    /\ UNCHANGED <<bus, handle, usurper, retries, attempt>>

CallStep == Open \/ ExchangeOk \/ ExchangeRetry \/ ExchangeFails
-----------------------------------------------------------------------------
Init ==
    /\ at = [k \in Keys |-> None] /\ pc = "closed"
    /\ hidPath = None /\ uuid = None /\ idPath = None
    /\ dev = None /\ retries = 1 /\ attempt = 0
    /\ answered = None /\ usurper = None
    /\ faults = 0 /\ unplugs = 0

Next ==
    \/ \E k \in Keys, p \in Paths : Plug(k, p)
    \/ \E k \in Keys : Unplug(k) \/ List(k)
    \/ Connect \/ Disconnect
    \/ \E n \in 1..2 : Call(n)
    \/ CallStep

Spec == Init /\ [][Next]_vars

\* A command runs to its end, and the caller does not stop sending commands.
FairSpec == Spec /\ WF_vars(CallStep) /\ WF_vars(\E n \in 1..2 : Call(n))
-----------------------------------------------------------------------------
\* The type invariant; two keys never share a path, and a command is sent once
\* and at most as often again as its loop allows.
TypeOK ==
    /\ at \in [Keys -> Paths \cup {None}]
    /\ \A j, k \in Present : at[j] = at[k] => j = k
    /\ pc \in {"closed", "listed", "ready", "open", "exchange"}
    /\ {hidPath, idPath} \subseteq Paths \cup {None}
    /\ {uuid, dev, answered, usurper} \subseteq Keys \cup {None}
    /\ retries \in 1..2 /\ attempt \in 0..retries
    /\ faults \in 0..MaxFaults /\ unplugs \in 0..MaxUnplugs

\* A handle that has learned its UUID has no key open for a command but that
\* key, by whatever path it comes back and however often a command is sent
\* again.  The one other key is the usurper: it was plugged in under the very
\* path the handle still remembers, and is there still.
SameDevice ==
    pc = "exchange" /\ uuid # None => dev \in {uuid, usurper, None}

\* A known key that stays plugged in answers again: moving to another path, a
\* stale path in the handle or a lost connection never locks the handle out,
\* as long as no usurper sits at the path it remembers.
ComesBack ==
    []<>(\/ pc \in {"closed", "listed"}
         \/ uuid = None \/ uuid \notin Present
         \/ usurper # None
         \/ answered = uuid)
=============================================================================
