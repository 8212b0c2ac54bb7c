---------------------------- MODULE SecretsStore ----------------------------
(***************************************************************************)
(* One SecretsSession (secrets.py) and the credentials on the device.  A   *)
(* label stands for two device names, the label itself and its             *)
(* "__solo_pw__:" twin for a password-only entry.  An operation is a       *)
(* sequence of APDUs; the transports below may lose a reply, or send an    *)
(* APDU twice after a busy channel or a 6F00.                              *)
(***************************************************************************)
EXTENDS Naturals, Sequences, FiniteSets

CONSTANTS
    Labels,        \* credential labels
    Slot,          \* the one that is the name of the HMAC slot
    Secrets,       \* HMAC secrets
    Absent,        \* no credential under a name
    Guards,        \* what updates do of {"keep", "on", "off"} to the guard
    Capacity,      \* entries the device has room for (50 in the code)
    MaxFaults      \* bound on the APDUs that go wrong on the way

ASSUME SecretsAssumption ==
    /\ Slot \in Labels /\ Guards \subseteq {"keep", "on", "off"}
    /\ Capacity \in Nat /\ MaxFaults \in Nat

VARIABLES
    store,      \* device: the entry under each name
    pc,         \* the next APDU of the operation, or "idle"
    op,         \* the operation under way, or a deletion or configuration
                \* that was the last to end
    left,       \* names still to try, for an operation by name
    result,     \* how the operation ended: what it returned or raised
    removed,    \* names that lost their entry in it
    troubled,   \* did an APDU go wrong in it?
    faults      \* APDUs that went wrong so far

ghost == <<removed, troubled>>
vars  == <<store, pc, op, left, result, ghost, faults>>

Plain(l) == <<l, "plain">>
Twin(l)  == <<l, "pw">>
Names    == Labels \X {"plain", "pw"}

\* An entry: guarded if it may ask for a touch or the PIN, safe if it has
\* password-safe data.  An OTP, a password or a slot.
Other(g, d) ==
    [kind |-> "other", secret |-> Absent, guarded |-> g, safe |-> d]
Hmac(s) ==
    [kind |-> "hmac", secret |-> s, guarded |-> FALSE, safe |-> FALSE]

Entries ==
    [kind : {"hmac", "other"}, secret : Secrets \cup {Absent},
     guarded : BOOLEAN, safe : BOOLEAN]

ASSUME AbsentAssumption == Absent \notin Entries

Addable == {Other(g, d) : g, d \in BOOLEAN} \cup {Hmac(s) : s \in Secrets}

IsHmac(e) == e # Absent /\ e.kind = "hmac"

\* Mutant: a twin is tried even of a name that has the prefix.
AlwaysTwice(n) == <<n, <<n, "pw">>>>

\* _name_candidates, for a name given as a string.
Candidates(n) == IF n[2] = "pw" THEN <<n>> ELSE <<n, Twin(n[1])>>
-----------------------------------------------------------------------------
(***************************************************************************)
(* The device: what an APDU of kind k on name n makes of the store s and   *)
(* what it answers; e is the entry to put or the change to make.  A        *)
(* guarded entry may ask for a touch or the PIN, here "touch", and so may  *)
(* the app before it lists or puts; PUT and UPDATE to a name in use may    *)
(* replace the entry or refuse, and a full store takes no new one.         *)
(***************************************************************************)
\* A change: the new name, the property bits sent if any, whether login,
\* password or metadata come with it; pw is of the client, see UpdateListed.
Changed(x, c) ==
    [x EXCEPT !.guarded = IF c.guard = "keep" THEN @ ELSE c.guard = "on",
              !.safe = @ \/ c.data]

Effect(k, n, e, s) ==
    CASE k = "delete" -> [s EXCEPT ![n] = Absent]
      [] k = "put"    -> [s EXCEPT ![n] = e]
      [] k = "update" -> [s EXCEPT ![n] = Absent, ![e.to] = Changed(s[n], e)]
      [] k \in {"get", "list"} -> s

Used(s) == {n \in Names : s[n] # Absent}
Full(s) == Cardinality(Used(s)) >= Capacity

Replies(k, n, e, s) ==
    CASE k = "list" -> {"ok", "touch"}
      [] k = "put" ->
           {"touch"} \cup IF s[n] # Absent THEN {"ok", "refused"}
                          ELSE IF Full(s) THEN {"refused"} ELSE {"ok"}
      [] k \in {"delete", "get"} ->
           IF s[n] = Absent THEN {"notfound"}
           ELSE IF s[n].guarded THEN {"ok", "touch"} ELSE {"ok"}
      [] k = "update" ->
           IF s[n] = Absent THEN {"notfound"}
           ELSE {"ok"} \cup (IF s[n].guarded THEN {"touch"} ELSE {})
                \cup (IF e.to # n /\ s[e.to] # Absent THEN {"refused"} ELSE {})

Answers(k, n, e, s) ==
    {[reply |-> r, store |-> IF r = "ok" THEN Effect(k, n, e, s) ELSE s] :
        r \in Replies(k, n, e, s)}

\* Lost before or after the device acted on it, or acted on twice.
Troubles(k, n, e) ==
    UNION {{[reply |-> "transport", store |-> store],
            [reply |-> "transport", store |-> a.store]}
           \cup Answers(k, n, e, a.store) : a \in Answers(k, n, e, store)}

\* The APDU is sent and a is what comes of it.
Sent(a, k, n, e) ==
    /\ \/ a \in Answers(k, n, e, store) /\ UNCHANGED <<troubled, faults>>
       \/ /\ a \in Troubles(k, n, e)
          /\ faults < MaxFaults /\ faults' = faults + 1 /\ troubled' = TRUE
    /\ store' = a.store
    /\ removed' = removed \cup
           {m \in Names : store[m] # Absent /\ a.store[m] # store[m]}

Outcomes(k, n, e) == Answers(k, n, e, store) \cup Troubles(k, n, e)
-----------------------------------------------------------------------------
\* arg is the secret to configure, the entry to add or the change to make.
Op(k, n, x, ow) == [kind |-> k, name |-> n, arg |-> x, overwrite |-> ow]

Forgotten == Op("none", Plain(Slot), Absent, FALSE)

Ends(r)  == pc' = "idle" /\ result' = r /\ left' = <<>>
Over(r)  == Ends(r) /\ op' = Forgotten
Goto(p)  == pc' = p /\ UNCHANGED <<result, left>>

Start(p, o, names) ==
    /\ pc = "idle"
    /\ pc' = p /\ op' = o /\ left' = names /\ result' = "none"
    /\ removed' = {} /\ troubled' = FALSE
    /\ UNCHANGED <<store, faults>>

\* delete_credential and get_credential, by label or by the credential itself.
ByName(k, n, names) == Start(k, Op(k, n, Absent, FALSE), names)

DeleteByLabel(n) == ByName("delete", n, Candidates(n))
DeleteExactly(n) == ByName("delete", n, <<n>>)
GetByLabel(n)    == ByName("get", n, Candidates(n))

\* password_only, of a credential with that name and has_password_safe.
PasswordOnly(n, d) == d /\ n[2] = "pw"

\* Mutant: the prefix alone makes it a password-only name, safe or not.
RenamedByPrefix(n, d, l) == IF l = Absent THEN n ELSE <<l, n[2]>>

\* The name an entry gets that the caller holds under n, with has_password_safe
\* as in d, and renames to l, if to any.
Renamed(n, d, l) ==
    IF l = Absent THEN n ELSE IF PasswordOnly(n, d) THEN Twin(l) ELSE Plain(l)

\* update_credential, of a listed credential; pw says that it was listed as
\* password-only.
UpdateListed(n, d, l, g, data) ==
    Start("update",
          Op("update", n,
             [to |-> Renamed(n, d, l), guard |-> g, data |-> data,
              pw |-> PasswordOnly(n, d)], FALSE), <<>>)

\* update_password_entry: get_credential by label, then update_credential of
\* what that returned.
EditEntry(n, l, g, data) ==
    Start("get",
          Op("edit", n, [to |-> l, guard |-> g, data |-> data, pw |-> FALSE],
             FALSE), Candidates(n))

Add(n, e) == Start("add", Op("add", n, e, FALSE), <<>>)

\* configure_hmac_slot and delete_hmac_slot
Configure(s, ow) == Start("list", Op("configure", Plain(Slot), s, ow), <<>>)
DeleteSlot ==
    Start("relist", Op("unslot", Plain(Slot), Absent, FALSE), <<>>)

\* Mutant: a deletion that worked goes on to the twin.
GoesOnAfterOk(r) == Len(left) > 1

\* Any error at all makes the loop over the candidates go on.
GoesOn(r) == r # "ok" /\ Len(left) > 1

DeleteStep ==
    /\ pc = "delete"
    /\ LET n == Head(left) IN
         \E a \in Outcomes("delete", n, Absent) :
             /\ Sent(a, "delete", n, Absent)
             /\ \/ /\ GoesOn(a.reply)
                   /\ left' = Tail(left) /\ UNCHANGED <<pc, result>>
                \/ /\ ~ GoesOn(a.reply) /\ a.reply # "ok"
                   /\ Ends(a.reply)
                \/ /\ ~ GoesOn(a.reply) /\ a.reply = "ok"
                   /\ IF op.kind = "configure" THEN Goto("put")
                                               ELSE Ends("deleted")
    /\ UNCHANGED op

\* The update that follows a GET that found n: its reply may or may not name
\* the entry, and the credential that is made of it has no password-safe flag.
Edits(n) ==
    {[op EXCEPT !.name = m, !.arg.to = Renamed(m, FALSE, op.arg.to)] :
        m \in {op.name, n}}

GetStep ==
    /\ pc = "get"
    /\ LET n == Head(left) IN
         \E a \in Outcomes("get", n, Absent) :
             /\ Sent(a, "get", n, Absent)
             /\ \/ /\ a.reply # "ok" /\ Len(left) > 1
                   /\ left' = Tail(left) /\ UNCHANGED <<pc, op, result>>
                \/ /\ a.reply # "ok" /\ Len(left) = 1
                   /\ Over(a.reply)
                \/ /\ a.reply = "ok" /\ op.kind = "get"
                   /\ Over("got")
                \/ /\ a.reply = "ok" /\ op.kind = "edit"
                   /\ pc' = "update" /\ op' \in Edits(n)
                   /\ left' = <<>> /\ UNCHANGED result

UpdateStep ==
    /\ pc = "update"
    /\ \E a \in Outcomes("update", op.name, op.arg) :
         /\ Sent(a, "update", op.name, op.arg)
         /\ Over(IF a.reply = "ok" THEN "updated" ELSE a.reply)

AddStep ==
    /\ pc = "add"
    /\ \E a \in Outcomes("put", op.name, op.arg) :
         /\ Sent(a, "put", op.name, op.arg)
         /\ Over(IF a.reply = "ok" THEN "added" ELSE a.reply)

\* get_hmac_slot, for configure_hmac_slot, and the branch taken on it.
\* It finds the slot under either name.
Configured == \E n \in {Plain(Slot), Twin(Slot)} : IsHmac(store[n])

\* Mutant: overwrite is not asked for.
OverwritesAlways == "relist"

AfterConfigured == IF op.overwrite THEN "relist" ELSE "exists"

\* Mutant: with overwrite, the old slot is deleted without a look whether there
\* is one.
DeletesFirst == IF op.overwrite THEN "relist" ELSE "put"

AfterUnconfigured == "put"

ListStep ==
    /\ pc = "list"
    /\ \E a \in Outcomes("list", op.name, Absent) :
         /\ Sent(a, "list", op.name, Absent)
         /\ \/ a.reply # "ok" /\ Ends(a.reply)
            \/ a.reply = "ok" /\ ~ Configured /\ Goto(AfterUnconfigured)
            \/ /\ a.reply = "ok" /\ Configured
               /\ IF AfterConfigured = "exists" THEN Ends("exists")
                                                ELSE Goto(AfterConfigured)
    /\ UNCHANGED op

\* delete_hmac_slot looks again, and deletes by label.
RelistStep ==
    /\ pc = "relist"
    /\ \E a \in Outcomes("list", op.name, Absent) :
         /\ Sent(a, "list", op.name, Absent)
         /\ \/ a.reply # "ok" /\ Ends(a.reply)
            \/ a.reply = "ok" /\ ~ Configured /\ Ends("unconfigured")
            \/ /\ a.reply = "ok" /\ Configured
               /\ pc' = "delete" /\ left' = Candidates(Plain(Slot))
               /\ UNCHANGED result
    /\ UNCHANGED op

\* Mutant: a PUT that is refused passes for done.
PutIgnoresStatus(r) == "check"

AfterPut(r) == IF r = "ok" THEN "check" ELSE "raise"

PutStep ==
    /\ pc = "put"
    /\ \E a \in Outcomes("put", op.name, Hmac(op.arg)) :
         /\ Sent(a, "put", op.name, Hmac(op.arg))
         /\ IF AfterPut(a.reply) = "check"
              THEN Goto("check")
              ELSE Ends(a.reply)
    /\ UNCHANGED op

CheckStep ==
    /\ pc = "check"
    /\ \E a \in Outcomes("list", op.name, Absent) :
         /\ Sent(a, "list", op.name, Absent)
         /\ Ends(IF a.reply = "ok" THEN "configured" ELSE a.reply)
    /\ UNCHANGED op
-----------------------------------------------------------------------------
Init ==
    /\ store = [n \in Names |-> Absent]
    /\ pc = "idle" /\ left = <<>> /\ result = "none"
    /\ op = Forgotten
    /\ removed = {} /\ troubled = FALSE /\ faults = 0

Step ==
    \/ DeleteStep \/ GetStep \/ AddStep \/ UpdateStep
    \/ ListStep \/ RelistStep \/ PutStep \/ CheckStep

Calls ==
    \/ \E n \in Names : DeleteByLabel(n) \/ GetByLabel(n) \/ DeleteExactly(n)
    \/ \E n \in Names, e \in Addable : Add(n, e)
    \/ \E n \in Names, l \in Labels \cup {Absent}, g \in Guards,
          data \in BOOLEAN :
            \/ EditEntry(n, l, g, data)
            \/ \E d \in BOOLEAN : UpdateListed(n, d, l, g, data)
    \/ \E s \in Secrets, ow \in BOOLEAN : Configure(s, ow)
    \/ DeleteSlot

Next == Calls \/ Step

Spec == Init /\ [][Next]_vars

\* An operation runs to its end; a caller bent on a slot tries and tries.
FairSpec ==
    /\ Spec
    /\ WF_vars(Step)
    /\ SF_vars(\E s \in Secrets : Configure(s, TRUE))
-----------------------------------------------------------------------------
\* The type invariant; in particular an operation only tries names there can
\* be on the device.
TypeOK ==
    /\ store \in [Names -> Entries \cup {Absent}]
    /\ pc \in {"idle", "delete", "get", "add", "list", "relist", "put",
              "check", "update"}
    /\ op.kind \in {"none", "delete", "get", "add", "configure", "unslot",
                   "update", "edit"}
    /\ op.name \in Names /\ op.overwrite \in BOOLEAN
    /\ left \in Seq(Names) /\ Len(left) <= 2
    /\ result \in {"none", "deleted", "got", "added", "updated", "exists",
                   "configured", "unconfigured", "touch", "notfound",
                   "refused", "transport"}
    /\ removed \subseteq Names /\ troubled \in BOOLEAN
    /\ faults \in 0..MaxFaults

\* A slot reported configured holds the secret the caller gave, whatever was
\* there before and however often an APDU was carried out.
ConfiguredExactly ==
    result = "configured" => store[Plain(Slot)] = Hmac(op.arg)

\* Without overwrite, no APDU of configure_hmac_slot, lost or repeated, touches
\* the entry of a slot that is configured.
KeepsSlot ==
    [][op'.kind = "configure" /\ ~ op'.overwrite /\ Configured =>
         store'[Plain(Slot)] = store[Plain(Slot)]]_vars

\* A deletion that returns took an entry of that label from the device, and
\* only one of the two when no APDU went wrong.
DeletesOne ==
    result = "deleted" =>
        /\ removed # {}
        /\ removed \subseteq {Plain(op.name[1]), Twin(op.name[1])}
        /\ ~ troubled => Cardinality(removed) = 1

\* An update of a listed entry, lost or carried out twice, keeps the number of
\* entries and that of the password-only ones: update_credential renames by the
\* listed flag, which has to agree with the device's, and the new name must be
\* free.  Password-safe data alone can make an entry under a prefixed name a
\* password-only one.
Safe(s, n) == s[n] # Absent /\ s[n].safe
PasswordOnlys(s) == {n \in Names : PasswordOnly(n, Safe(s, n))}

ListedWell == op.arg.pw = PasswordOnly(op.name, Safe(store, op.name))
NameFree   == op.arg.to = op.name \/ store[op.arg.to] = Absent
KindStays  ==
    op.arg.to # op.name \/ Safe(store, op.name) \/ ~ op.arg.data

RenameKeepsKind ==
    [][pc = "update" /\ op.kind = "update"
         /\ ListedWell /\ NameFree /\ KindStays =>
           /\ Cardinality(Used(store')) = Cardinality(Used(store))
           /\ Cardinality(PasswordOnlys(store')) =
                Cardinality(PasswordOnlys(store))]_vars

\* A caller that repeats configure_hmac_slot with overwrite gets its slot, even
\* when an attempt stopped between the deletion and the PUT.  In its way are an
\* answer that asks for a touch or the PIN and is raised, an entry under the
\* slot's name that is of another kind or guarded (whose refusal the deletion
\* by label turns into something else), and a store that is full.
SlotConverges ==
    []<>(\/ op.kind = "configure" /\ result \in {"configured", "touch"}
         \/ /\ store[Plain(Slot)] # Absent
            /\ ~ IsHmac(store[Plain(Slot)]) \/ store[Plain(Slot)].guarded
         \/ Full(store) /\ ~ Configured)
=============================================================================
