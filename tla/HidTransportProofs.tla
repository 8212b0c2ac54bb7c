------------------------- MODULE HidTransportProofs -------------------------
(***************************************************************************)
(* Proofs about HidTransport, for any keys, paths and bounds: the type     *)
(* invariant, and that a handle that knows its UUID is never misled but by *)
(* a key that was plugged in under the path it remembers.                  *)
(***************************************************************************)
EXTENDS HidTransport, TLAPS

\* A key is held open for the length of one exchange only, and then at the
\* path the handle remembers.
OpenInv ==
    /\ pc # "exchange" => dev = None
    /\ dev # None => dev \in Present /\ at[dev] = hidPath

\* What the handle goes by agrees with its UUID.
KnowsInv ==
    uuid # None =>
        /\ \A k \in Present : at[k] = hidPath => k \in {uuid, usurper}
        /\ dev \in {uuid, usurper, None}

IInv == TypeOK /\ OpenInv /\ KnowsInv
-----------------------------------------------------------------------------
\* A step that may see fewer keys keeps the fault count within its bound.
LEMMA SeesType ==
    ASSUME TypeOK, NEW seen, Sees(seen)
    PROVE  faults' \in 0..MaxFaults
BY HidAssumption DEF TypeOK, Sees, Fault

\* open_hid_device returns a key that is plugged in.
LEMMA OpensPresent ==
    ASSUME NEW k, NEW seen \in SUBSET Present, Opens(k, seen)
    PROVE  k \in Keys /\ k \in Present /\ at[k] # None
BY DEF Opens, Present

\* A handle that knows its UUID opens its own key, or the usurper at the path
\* it remembers.
LEMMA OpensOwn ==
    ASSUME IInv, NEW k, NEW seen \in SUBSET Present, Opens(k, seen),
           uuid # None
    PROVE  k = uuid \/ (k = usurper /\ at[k] = hidPath)
<1>1. k \in Present BY OpensPresent
<1>2. Matches(k) BY DEF Opens, MayFallback
<1>3. CASE hidPath # None /\ at[k] = hidPath
  BY <1>1, <1>3 DEF IInv, KnowsInv
<1>4. CASE ~ (hidPath # None /\ at[k] = hidPath)
  BY <1>2, <1>4 DEF Matches
<1> QED BY <1>3, <1>4
-----------------------------------------------------------------------------
\* A key that is plugged in takes a path no other key has; at the path the
\* handle remembers it is its own key or the usurper.
LEMMA PlugStep ==
    ASSUME IInv, NEW k \in Keys, NEW p \in Paths, Plug(k, p)
    PROVE  IInv'
<1> USE HidAssumption
<1>0. /\ at' \in [Keys -> Paths \cup {None}]
      /\ at'[k] = p
      /\ \A j \in Keys \ {k} : at'[j] = at[j]
  BY DEF IInv, TypeOK, Plug
<1>1. \A j \in Present' :
        j = k \/ (j \in Present /\ at'[j] = at[j] /\ at[j] # p)
  BY <1>0 DEF Plug, Present
<1>2. UNCHANGED <<unplugs, handle, call, pc, faults>>
  BY DEF Plug
<1>3. TypeOK'
  <2>1. \A i, j \in Present' : at'[i] = at'[j] => i = j
    BY <1>0, <1>1 DEF IInv, TypeOK
  <2>2. usurper' \in Keys \cup {None}
    BY DEF IInv, TypeOK, Plug
  <2> QED BY <1>0, <1>2, <2>1, <2>2 DEF IInv, TypeOK, handle, call
<1>4. \A j \in Present : j \in Present' /\ at'[j] = at[j] /\ at[j] # p
  BY <1>0 DEF Plug, Present
<1>5. OpenInv' BY <1>2, <1>4 DEF IInv, OpenInv, handle, call
<1>6. KnowsInv'
  <2> SUFFICES ASSUME uuid # None PROVE
         /\ \A j \in Present' : at'[j] = hidPath => j \in {uuid, usurper'}
         /\ dev \in {uuid, usurper', None}
    BY <1>2 DEF KnowsInv, handle, call
  <2>1. CASE p = hidPath
    <3>1. dev = None
      BY <1>4, <2>1 DEF IInv, OpenInv
    <3>2. k \in {uuid, usurper'}
      BY <2>1 DEF Plug
    <3> QED BY <1>1, <2>1, <3>1, <3>2
  <2>2. CASE p # hidPath
    <3>1. usurper' = usurper BY <2>2 DEF Plug
    <3> QED BY <1>0, <1>1, <2>2, <3>1 DEF IInv, KnowsInv
  <2> QED BY <2>1, <2>2
<1> QED BY <1>3, <1>5, <1>6 DEF IInv

\* Unplugging a key frees its path and ends its connection.
LEMMA UnplugStep ==
    ASSUME IInv, NEW k \in Keys, Unplug(k)
    PROVE  IInv'
<1> USE HidAssumption
<1>0. /\ at' \in [Keys -> Paths \cup {None}]
      /\ \A j \in Present' : j \in Present /\ at'[j] = at[j] /\ j # k
      /\ \A j \in Present : j # k => j \in Present' /\ at'[j] = at[j]
  BY DEF IInv, TypeOK, Unplug, Present
<1>1. /\ dev' = IF dev = k THEN None ELSE dev
      /\ usurper' = IF usurper = k THEN None ELSE usurper
      /\ UNCHANGED <<handle, retries, attempt, answered, pc, faults>>
  BY DEF Unplug
<1>2. UNCHANGED <<hidPath, uuid, idPath>>
  BY <1>1 DEF handle
<1>3. TypeOK'
  <2>1. \A i, j \in Present' : at'[i] = at'[j] => i = j
    BY <1>0 DEF IInv, TypeOK
  <2>2. unplugs' \in 0..MaxUnplugs BY DEF IInv, TypeOK, Unplug
  <2> QED BY <1>0, <1>1, <1>2, <2>1, <2>2 DEF IInv, TypeOK
<1>4. OpenInv'
  BY <1>0, <1>1, <1>2 DEF IInv, OpenInv
<1>5. KnowsInv'
  BY <1>0, <1>1, <1>2 DEF IInv, KnowsInv, OpenInv
<1> QED BY <1>3, <1>4, <1>5 DEF IInv
-----------------------------------------------------------------------------
\* Nothing but plugging and unplugging disturbs what the paths mean.
LEMMA BusKept ==
    ASSUME IInv, UNCHANGED bus
    PROVE  /\ at' = at
           /\ Present' = Present
           /\ at' \in [Keys -> Paths \cup {None}]
           /\ \A j, k \in Present' : at'[j] = at'[k] => j = k
           /\ unplugs' \in 0..MaxUnplugs
BY DEF IInv, TypeOK, bus, Present

\* Listing starts a handle that knows no UUID.
LEMMA ListStep ==
    ASSUME IInv, NEW k \in Keys, List(k)
    PROVE  IInv'
<1>1. at[k] \in Paths \cup {None} BY DEF IInv, TypeOK
<1>2. UNCHANGED bus BY DEF List
<1>3. TypeOK' BY <1>1, <1>2, BusKept DEF IInv, TypeOK, List
<1>4. OpenInv' /\ KnowsInv' BY DEF OpenInv, KnowsInv, List
<1> QED BY <1>3, <1>4 DEF IInv

\* connect takes the UUID from the very key whose path it keeps.
LEMMA ConnectStep ==
    ASSUME IInv, Connect
    PROVE  IInv'
<1> USE HidAssumption
<1>1. UNCHANGED bus BY DEF Connect
<1>2. PICK seen \in SUBSET Present :
        (\E k \in Keys : ConnectTo(k, seen)) \/ ConnectFails(seen)
  BY DEF Connect
<1>3. pc \in {"listed", "ready"} /\ dev = None /\ dev' = None
  BY DEF IInv, OpenInv, Connect
<1>4. UNCHANGED <<dev, retries, attempt>> /\ answered' = None
  BY DEF Connect
<1>5. CASE \E k \in Keys : ConnectTo(k, seen)
  <2>1. PICK k \in Keys : ConnectTo(k, seen) BY <1>5
  <2>2. k \in Present /\ at[k] # None BY <2>1, OpensPresent DEF ConnectTo
  <2>3. at[k] \in Paths BY <2>2 DEF IInv, TypeOK
  <2>5. faults' \in 0..MaxFaults
    BY <2>1, SeesType DEF IInv, TypeOK, ConnectTo, Fault
  <2>6. /\ hidPath' = at[k] /\ usurper' = None /\ pc' = "ready"
        /\ \/ uuid' = k /\ idPath' = None
           \/ uuid' = None /\ idPath' = at[k]
    BY <2>1 DEF ConnectTo
  <2>8. TypeOK'
    BY <1>1, <1>4, <2>3, <2>5, <2>6, BusKept DEF IInv, TypeOK
  <2>9. \A j \in Present' : at'[j] = hidPath' => j = k
    BY <1>1, <2>2, <2>6, BusKept
  <2>10. OpenInv' /\ KnowsInv'
    BY <1>3, <2>6, <2>9 DEF OpenInv, KnowsInv
  <2> QED BY <2>8, <2>10 DEF IInv
<1>6. CASE ConnectFails(seen)
  <2>1. faults' \in 0..MaxFaults BY <1>6, SeesType DEF IInv, ConnectFails
  <2>2. /\ UNCHANGED <<hidPath, uuid, idPath, usurper>>
        /\ pc' \in {"closed", "ready"}
    BY <1>3, <1>6 DEF Connect, ConnectFails, handle
  <2>3. TypeOK' BY <1>1, <1>4, <2>1, <2>2, BusKept DEF IInv, TypeOK
  <2>4. OpenInv' /\ KnowsInv'
    BY <1>1, <1>3, <2>2, BusKept DEF IInv, OpenInv, KnowsInv
  <2> QED BY <2>3, <2>4 DEF IInv
<1> QED BY <1>2, <1>5, <1>6

\* Opening a key for a command, or finding none.
LEMMA OpenStep ==
    ASSUME IInv, Open
    PROVE  IInv'
<1> USE HidAssumption
<1>1. UNCHANGED <<idPath, retries, attempt>> /\ pc = "open" /\ dev = None
  BY DEF IInv, OpenInv, Open
<1>2. UNCHANGED bus BY DEF Open
<1>3. PICK seen \in SUBSET Present :
        /\ Sees(seen)
        /\ \/ \E k \in Keys :
                /\ Opens(k, seen)
                /\ uuid' \in Adopted(k)
                /\ Remembers(at[k]) /\ dev' = k
                /\ pc' = "exchange" /\ UNCHANGED answered
           \/ Returns(None) /\ UNCHANGED <<hidPath, uuid, usurper>>
  BY DEF Open
<1>4. faults' \in 0..MaxFaults BY <1>3, SeesType DEF IInv
<1>5. CASE Returns(None) /\ UNCHANGED <<hidPath, uuid, usurper>>
  <2>1. TypeOK' BY <1>1, <1>2, <1>4, <1>5, BusKept DEF IInv, TypeOK, Returns
  <2>2. OpenInv' /\ KnowsInv'
    BY <1>2, <1>5, BusKept DEF IInv, OpenInv, KnowsInv, Returns
  <2> QED BY <2>1, <2>2 DEF IInv
<1>6. ASSUME NEW k \in Keys, Opens(k, seen), uuid' \in Adopted(k),
             Remembers(at[k]), dev' = k, pc' = "exchange", UNCHANGED answered
      PROVE  IInv'
  <2>1. k \in Present /\ at[k] # None BY <1>6, OpensPresent
  <2>2. at[k] \in Paths BY <2>1 DEF IInv, TypeOK
  <2>3. uuid' = uuid \/ (uuid = None /\ uuid' = k)
    BY <1>6 DEF Adopted
  <2>4. uuid # None => k = uuid \/ (k = usurper /\ at[k] = hidPath)
    BY <1>6, OpensOwn
  <2>5. uuid' \in Keys \cup {None} BY <2>3 DEF IInv, TypeOK
  <2>6. /\ hidPath' = at[k] /\ usurper' \in Keys \cup {None}
        /\ at[k] = hidPath => usurper' = usurper
    BY <1>6 DEF Remembers, IInv, TypeOK
  <2>7. TypeOK'
    BY <1>1, <1>2, <1>4, <1>6, <2>2, <2>5, <2>6, BusKept DEF IInv, TypeOK
  <2>8. uuid' # None => k \in {uuid', usurper'}
    BY <2>3, <2>4, <2>6
  <2>9. \A j \in Present' : at'[j] = hidPath' => j = k
    BY <1>2, <2>1, <2>6, BusKept
  <2>10. KnowsInv' BY <1>6, <2>8, <2>9 DEF KnowsInv
  <2>11. OpenInv' BY <1>2, <1>6, <2>1, <2>6, BusKept DEF OpenInv
  <2> QED BY <2>7, <2>10, <2>11 DEF IInv
<1> QED BY <1>3, <1>5, <1>6

\* A command ends or is sent again; a path that is forgotten misleads no more.
LEMMA ExchangeStep ==
    ASSUME IInv, ExchangeOk \/ ExchangeRetry \/ ExchangeFails
    PROVE  IInv'
<1> USE HidAssumption
<1>1. /\ UNCHANGED bus /\ UNCHANGED <<uuid, idPath, retries>>
      /\ \/ hidPath' = hidPath /\ usurper' = usurper
         \/ hidPath' = None /\ usurper' \in {usurper, None}
      /\ dev' = None /\ answered' \in {answered, dev, None}
      /\ attempt' = attempt \/ (attempt < retries /\ attempt' = attempt + 1)
      /\ faults' \in 0..MaxFaults
      /\ pc' \in {"ready", "open"}
  BY DEF IInv, TypeOK, ExchangeOk, ExchangeRetry, ExchangeFails, Returns,
         Fault, MayRetry, handle, Remembers
<1>2. TypeOK' BY <1>1, BusKept DEF IInv, TypeOK
<1>3. OpenInv' BY <1>1 DEF OpenInv
<1>4. \A k \in Present : at[k] # None
  BY DEF Present
<1>5. KnowsInv'
  BY <1>1, <1>4, BusKept DEF IInv, KnowsInv
<1> QED BY <1>2, <1>3, <1>5 DEF IInv
-----------------------------------------------------------------------------
\* The inductive invariant: what a handle remembers agrees with its UUID.
THEOREM Invariance == Spec => []IInv
<1> USE HidAssumption
<1>1. Init => IInv
  BY DEF Init, IInv, TypeOK, OpenInv, KnowsInv, Present
<1>2. IInv /\ [Next]_vars => IInv'
  <2> SUFFICES ASSUME IInv, [Next]_vars PROVE IInv' OBVIOUS
  <2>1. CASE \E k \in Keys, p \in Paths : Plug(k, p) BY <2>1, PlugStep
  <2>2. CASE \E k \in Keys : Unplug(k) BY <2>2, UnplugStep
  <2>3. CASE \E k \in Keys : List(k) BY <2>3, ListStep
  <2>4. CASE Connect BY <2>4, ConnectStep
  <2>5. CASE Disconnect
    <3>1. UNCHANGED bus BY <2>5 DEF Disconnect
    <3>2. TypeOK' BY <2>5, <3>1, BusKept DEF IInv, TypeOK, Disconnect, call
    <3>3. \A k \in Present : at[k] # None BY DEF Present
    <3>4. dev = None BY <2>5 DEF IInv, OpenInv, Disconnect
    <3>5. OpenInv' /\ KnowsInv'
      BY <2>5, <3>1, <3>3, <3>4, BusKept
      DEF IInv, OpenInv, KnowsInv, Disconnect, call
    <3> QED BY <3>2, <3>5 DEF IInv
  <2>6. CASE \E n \in 1..2 : Call(n)
    <3>1. UNCHANGED bus BY <2>6 DEF Call
    <3>2. TypeOK' BY <2>6, <3>1, BusKept DEF IInv, TypeOK, Call, handle
    <3>3. OpenInv' /\ KnowsInv'
      BY <2>6, <3>1, BusKept DEF IInv, OpenInv, KnowsInv, Call, handle
    <3> QED BY <3>2, <3>3 DEF IInv
  <2>7. CASE CallStep BY <2>7, OpenStep, ExchangeStep DEF CallStep
  <2>8. CASE UNCHANGED vars
    BY <2>8 DEF IInv, TypeOK, OpenInv, KnowsInv, Present, vars, bus,
                handle, call
  <2> QED BY <2>1, <2>2, <2>3, <2>4, <2>5, <2>6, <2>7, <2>8 DEF Next
<1> QED BY <1>1, <1>2, PTL DEF Spec

\* Every state is well typed: two keys never share a path, and no command is
\* sent again more often than its loop allows: once by _call_hid_command,
\* twice by send_apdu.
THEOREM TypeCorrect == Spec => []TypeOK
<1>1. IInv => TypeOK BY DEF IInv
<1> QED BY <1>1, Invariance, PTL

\* A handle that knows its UUID sends commands to that key alone, unless
\* another was plugged in under the path it remembers.
THEOREM SameDeviceCorrect == Spec => []SameDevice
<1>1. IInv => SameDevice BY DEF IInv, KnowsInv, SameDevice
<1> QED BY <1>1, Invariance, PTL
=============================================================================
