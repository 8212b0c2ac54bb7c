------------------------------- MODULE Fido2Pin -------------------------------
(***************************************************************************)
(* A Fido2Session (fido2.py) and the PIN of its key.  The key counts wrong *)
(* PINs: after MaxTries of them it is locked for good, after MaxStreak in  *)
(* a row until it is replugged.  Another program may change the PIN or get *)
(* itself a token, which takes the session's away.                         *)
(***************************************************************************)
EXTENDS Naturals

CONSTANTS
    Pins,          \* PINs a user may enter
    None,          \* Python's None; also: no PIN is set
    MaxTries,      \* 8 in CTAP2
    MaxStreak,     \* 3 in CTAP2
    Permissions,   \* 2 if python-fido2 knows PERSISTENT_CREDENTIAL_MGMT, or 1
    MaxFaults,     \* bound on the requests that fail
    MaxForeign     \* bound on what the other program does

ASSUME Fido2Assumption ==
    /\ None \notin Pins /\ MaxTries \in Nat \ {0} /\ MaxStreak \in Nat \ {0}
    /\ Permissions \in 1..2 /\ MaxFaults \in Nat /\ MaxForeign \in Nat

VARIABLES
    pin, tries, streak,   \* the key's PIN, tries left, wrong ones in a row
    token,      \* whose token is valid: "none", "full", "reads" or "other"
    handle,     \* _ctap2 and what is built on it: "none", "live" or "dead"
    cached,     \* _pin
    spc,        \* "idle", "auth" or "command"
    kind,       \* of the call under way: "list" or "modify"
    tried,      \* the PIN it authenticates with
    attempt,    \* permissions it has tried
    result,     \* how the last call ended
    verified,   \* has the key accepted or been given cached, and kept it?
    wrong,      \* calls with a wrong PIN since the tries were full
    counted,    \* is the call under way one of them?
    faults, foreign

key     == <<pin, tries, streak, token>>
session == <<handle, cached, spc, kind, tried, attempt, result>>
ghost   == <<verified, wrong, counted>>
vars    == <<key, session, ghost, faults, foreign>>

Init ==
    /\ pin \in Pins \cup {None} /\ tries = MaxTries /\ streak = 0
    /\ token = "none"
    /\ handle = "none" /\ cached \in Pins \cup {None}
    /\ spc = "idle" /\ kind = "list" /\ tried = None /\ attempt = 0
    /\ result = "none"
    /\ verified = FALSE /\ wrong = 0 /\ counted = FALSE
    /\ faults = 0 /\ foreign = 0

TypeOK ==
    /\ pin \in Pins \cup {None} /\ tries \in 0..MaxTries
    /\ streak \in 0..MaxStreak
    /\ token \in {"none", "full", "reads", "other"}
    /\ handle \in {"none", "live", "dead"} /\ cached \in Pins \cup {None}
    /\ spc \in {"idle", "auth", "command"} /\ kind \in {"list", "modify"}
    /\ tried \in Pins \cup {None} /\ attempt \in 0..(Permissions - 1)
    /\ result \in {"none", "ok", "error"}
    /\ verified \in BOOLEAN /\ wrong \in Nat /\ counted \in BOOLEAN
    /\ faults \in 0..MaxFaults /\ foreign \in 0..MaxForeign

Blocked == tries = 0 \/ streak = MaxStreak

\* The key checks the PIN p, and refuses to when it is blocked or has none.
Accepts(p) == ~ Blocked /\ pin # None /\ p = pin
Rejects(p) == ~ Blocked /\ pin # None /\ p # pin

\* What a checked PIN does to the key's counters; again: is the call already
\* counted as one with a wrong PIN?
Counts(p, again) ==
    \/ /\ Accepts(p) /\ tries' = MaxTries /\ streak' = 0
       /\ wrong' = 0 /\ counted' = FALSE
    \/ /\ Rejects(p) /\ tries' = tries - 1 /\ streak' = streak + 1
       /\ wrong' = IF again THEN wrong ELSE wrong + 1
       /\ counted' = TRUE
    \/ /\ ~ Accepts(p) /\ ~ Rejects(p)
       /\ UNCHANGED <<tries, streak, wrong, counted>>

\* How a request fares: it never reaches the key, it does but the reply is
\* lost, or all is well.
Fares(how) ==
    \/ how = "unsent" /\ handle = "dead" /\ UNCHANGED faults
    \/ /\ how \in {"unsent", "lost"} /\ (how = "unsent" \/ handle # "dead")
       /\ faults < MaxFaults /\ faults' = faults + 1
    \/ how = "answered" /\ handle # "dead" /\ UNCHANGED faults

\* _get_ctap2 opens the key once and keeps what it opened; whether it could
\* before an "unsent" is left open.
Opens(how) ==
    handle' \in IF handle # "none" THEN {handle}
                ELSE IF how = "unsent" THEN {"none", "live"} ELSE {"live"}

Ends(r) ==
    /\ spc' = "idle" /\ result' = r
    /\ attempt' = 0 /\ tried' = None /\ kind' = "list"

\* list_credentials, delete_credential and rename_credential (p is None if the
\* caller passes no PIN).
Call(k, p) ==
    /\ spc = "idle" /\ attempt' = 0 /\ counted' = FALSE
    /\ tried' = IF p # None THEN p ELSE cached
    /\ IF tried' = None
         THEN spc' = "idle" /\ kind' = "list" /\ result' = "error"
         ELSE spc' = "auth" /\ kind' = k /\ result' = "none"
    /\ UNCHANGED <<key, handle, cached, verified, wrong, faults, foreign>>

\* Mutant: one more round of the loop.
OneMore == Permissions + 1

Rounds == Permissions

\* Mutant: the PIN is kept whether or not it was accepted.
KeepsAny(p, ok) == p

CachedAfter(p, ok) == IF ok THEN p ELSE cached

\* One round of _ensure_authenticated's loop, which catches every exception.
Authenticate ==
    /\ spc = "auth"
    /\ \E how \in {"unsent", "lost", "answered"} :
        LET ok == how = "answered" /\ Accepts(tried)
        IN /\ Fares(how) /\ Opens(how)
           /\ IF how = "unsent"
                THEN UNCHANGED <<tries, streak, wrong, counted, token>>
                ELSE /\ Counts(tried, counted)
                     /\ token' = IF ~ Accepts(tried) THEN token
                                 ELSE IF attempt = 0 THEN "full" ELSE "reads"
           /\ cached' = CachedAfter(tried, ok)
           /\ verified' = (ok \/ verified)
           /\ IF ok
                THEN /\ spc' = "command"
                     /\ UNCHANGED <<kind, tried, attempt, result>>
                ELSE IF attempt + 1 = Rounds
                  THEN Ends("error")
                  ELSE /\ attempt' = attempt + 1
                       /\ UNCHANGED <<spc, kind, tried, result>>
    /\ UNCHANGED <<pin, foreign>>

\* The call's own requests, under the token it just got.
Command ==
    /\ spc = "command"
    /\ \E how \in {"unsent", "lost", "answered"} :
         /\ Fares(how)
         /\ Ends(IF how = "answered"
                    /\ token \in IF kind = "list" THEN {"full", "reads"}
                                                  ELSE {"full"}
                 THEN "ok" ELSE "error")
    /\ UNCHANGED <<key, handle, cached, ghost, foreign>>

\* Mutant: change_pin and set_pin leave the cached PIN as it is.
KeepsOld(new) == cached

GivenAfter(new) == new

\* set_pin (cur is None) and change_pin: one request, no second try.
ChangePin(cur, new) ==
    /\ spc = "idle"
    /\ \E how \in {"unsent", "lost", "answered"} :
        LET changes == how # "unsent" /\
                       IF cur = None THEN pin = None ELSE Accepts(cur)
            ok      == how = "answered" /\ changes
        IN /\ Fares(how) /\ Opens(how)
           /\ pin' = IF changes THEN new ELSE pin
           /\ token' = IF changes THEN "none" ELSE token
           /\ IF cur = None \/ how = "unsent"
                THEN UNCHANGED <<tries, streak, wrong>> /\ counted' = FALSE
                ELSE Counts(cur, FALSE)
           /\ cached' = IF ok THEN GivenAfter(new) ELSE cached
           /\ verified' = (ok \/ (verified /\ ~ changes))
           /\ result' = IF ok THEN "ok" ELSE "error"
    /\ UNCHANGED <<spc, kind, tried, attempt, foreign>>

\* get_pin_status and get_pin_retries, which the command line calls before it
\* asks for the PIN, change nothing but may open the key.
Status ==
    /\ spc = "idle"
    /\ \E how \in {"unsent", "lost", "answered"} : Fares(how) /\ Opens(how)
    /\ UNCHANGED <<key, cached, spc, kind, tried, attempt, result, ghost,
                   foreign>>

\* set_pin_value, and a new session on the same key.
NewPin(p) ==
    /\ spc = "idle" /\ cached' = p /\ verified' = FALSE
    /\ UNCHANGED <<key, handle, spc, kind, tried, attempt, result, wrong,
                   counted, faults, foreign>>

\* Mutant: the new session takes over what the old one had opened.
TakenOver == handle

NothingOpen == "none"

NewSession(p) ==
    /\ spc = "idle" /\ cached' = p /\ verified' = FALSE
    /\ handle' = NothingOpen
    /\ UNCHANGED <<key, spc, kind, tried, attempt, result, wrong, counted,
                   faults, foreign>>

\* The other program.
OtherChangesPin(new) ==
    /\ foreign < MaxForeign /\ foreign' = foreign + 1
    /\ tries > 0
    /\ pin' = new /\ tries' = MaxTries /\ streak' = 0 /\ token' = "none"
    /\ verified' = FALSE /\ wrong' = 0 /\ counted' = FALSE
    /\ UNCHANGED <<session, faults>>

OtherTakesToken ==
    /\ foreign < MaxForeign /\ foreign' = foreign + 1
    /\ pin # None /\ ~ Blocked
    /\ tries' = MaxTries /\ streak' = 0 /\ token' = "other"
    /\ wrong' = 0 /\ counted' = FALSE
    /\ UNCHANGED <<pin, session, verified, faults>>

\* The user replugs the key, now and then or because it says it is blocked:
\* what the session has open stays dead.
Replug ==
    /\ \/ spc = "idle" /\ streak = MaxStreak /\ UNCHANGED foreign
       \/ foreign < MaxForeign /\ foreign' = foreign + 1
    /\ streak' = 0 /\ token' = "none"
    /\ handle' = IF handle = "live" THEN "dead" ELSE handle
    /\ UNCHANGED <<pin, tries, cached, spc, kind, tried, attempt, result,
                   ghost, faults>>

Step == Authenticate \/ Command

Next ==
    \/ Step \/ Status \/ Replug \/ OtherTakesToken
    \/ \E k \in {"list", "modify"}, p \in Pins \cup {None} : Call(k, p)
    \/ \E cur \in Pins \cup {None}, new \in Pins : ChangePin(cur, new)
    \/ \E p \in Pins \cup {None} : NewPin(p) \/ NewSession(p)
    \/ \E new \in Pins : OtherChangesPin(new)

\* A call under way goes on; a user who knows the PIN keeps passing it, replugs
\* a key that says it is blocked and starts a new session on one that was
\* replugged.
Spec ==
    /\ Init /\ [][Next]_vars
    /\ WF_vars(Step)
    /\ SF_vars(pin # None /\ Call("modify", pin))
    /\ SF_vars(streak = MaxStreak /\ Replug)
    /\ SF_vars(handle = "dead" /\ \E p \in Pins \cup {None} : NewSession(p))

\* The PIN a session keeps is the key's once the key has accepted it or taken
\* it as its new one, whatever calls with other PINs fail, are retried or get
\* lost: calls without a PIN argument spend no try of the few.
CachedIsCurrent == verified => cached = pin

\* A call with a wrong PIN costs at most one try per permission that the loop
\* tries: the key is never locked for good by fewer than MaxTries/Permissions
\* such calls, and calls with the right PIN and failed requests cost nothing.
TriesBudget == MaxTries - tries <= Permissions * wrong

\* Unless the key has no PIN or is locked for good, a user who knows the PIN
\* gets through again and again.
Serves ==
    <>[](pin = None \/ tries = 0) \/ []<>(result = "ok")
=============================================================================
