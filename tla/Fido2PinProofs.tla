---------------------------- MODULE Fido2PinProofs ----------------------------
(***************************************************************************)
(* The PIN a session keeps and the tries it spends, for any number of PINs *)
(* and tries, failed requests and foreign programs.                        *)
(*                                                                         *)
(* CachedIsCurrent is inductive.  TriesBudget is not: in the middle of a   *)
(* call with a wrong PIN the budget holds with the rounds the call has     *)
(* made so far, and only with those.                                       *)
(***************************************************************************)
EXTENDS Fido2Pin, TLAPS

BudgetInv ==
    /\ TriesBudget
    /\ spc = "auth" /\ counted = TRUE =>
           MaxTries - tries <= Permissions * wrong - Permissions + attempt

IInv == TypeOK /\ CachedIsCurrent /\ BudgetInv

THEOREM Initially == Init => IInv
<1> SUFFICES ASSUME Init PROVE IInv OBVIOUS
<1>1. TypeOK
  <2>1. verified \in BOOLEAN /\ counted \in BOOLEAN BY Zenon DEF Init
  <2>2. /\ tries \in 0..MaxTries /\ streak \in 0..MaxStreak
        /\ attempt \in 0..(Permissions - 1) /\ wrong \in Nat
        /\ faults \in 0..MaxFaults /\ foreign \in 0..MaxForeign
    BY Fido2Assumption DEF Init
  <2> QED BY <2>1, <2>2 DEF Init, TypeOK
<1>2. BudgetInv
  <2>1. Permissions * 0 = 0 BY Fido2Assumption
  <2> QED BY <2>1, Fido2Assumption DEF Init, BudgetInv, TriesBudget
<1> QED BY <1>1, <1>2 DEF Init, IInv, CachedIsCurrent
-----------------------------------------------------------------------------
\* What a checked PIN does to the counters: a new wrong call, one more try of
\* the same call, or nothing left to pay.
LEMMA CountsSpends ==
    ASSUME TypeOK, NEW p, NEW again \in BOOLEAN, Counts(p, again)
    PROVE  /\ tries' \in 0..MaxTries /\ streak' \in 0..MaxStreak
           /\ wrong' \in Nat
           /\ \/ tries' = MaxTries /\ wrong' = 0 /\ counted' = FALSE
              \/ /\ tries' = tries - 1 /\ counted' = TRUE
                 /\ wrong' = IF again = TRUE THEN wrong ELSE wrong + 1
                 /\ Rejects(p)
              \/ UNCHANGED <<tries, wrong, counted>>
<1>1. CASE Accepts(p)
  BY <1>1, Fido2Assumption DEF Counts, Accepts, Rejects, TypeOK
<1>2. CASE Rejects(p)
  BY <1>2, Fido2Assumption DEF Counts, Accepts, Rejects, Blocked, TypeOK
<1>3. CASE ~ Accepts(p) /\ ~ Rejects(p)
  BY <1>3, Fido2Assumption DEF Counts, TypeOK
<1> QED BY <1>1, <1>2, <1>3

LEMMA Product ==
    ASSUME NEW n \in Nat
    PROVE  /\ Permissions * n \in Nat /\ Permissions * 0 = 0
           /\ Permissions * (n + 1) = Permissions * n + Permissions
<1>1. CASE Permissions = 1 BY <1>1
<1>2. CASE Permissions = 2 BY <1>2
<1> QED BY <1>1, <1>2, Fido2Assumption

LEMMA CountsTyped ==
    ASSUME counted \in BOOLEAN, NEW p, NEW again, Counts(p, again)
    PROVE  counted' \in BOOLEAN
  BY Zenon DEF Counts

\* So a checked PIN keeps within the budget, with one more round of the call
\* under way.
LEMMA CountsInBudget ==
    ASSUME IInv, NEW p, NEW again \in BOOLEAN, Counts(p, again),
           IF spc = "auth" THEN again = counted ELSE again = FALSE
    PROVE  /\ TriesBudget'
           /\ spc = "auth" /\ counted' = TRUE =>
                  MaxTries - tries' <=
                      Permissions * wrong' - Permissions + attempt + 1
<1>1. /\ MaxTries \in Nat /\ Permissions \in Nat /\ tries \in Nat
      /\ wrong \in Nat /\ attempt \in 0..(Permissions - 1)
      /\ Permissions * wrong \in Nat
      /\ MaxTries - tries <= Permissions * wrong
  BY Product, Fido2Assumption DEF IInv, TypeOK, BudgetInv, TriesBudget
<1>2. CASE tries' = MaxTries /\ wrong' = 0 /\ counted' = FALSE
  BY <1>1, <1>2, Product DEF TriesBudget
<1>3. CASE tries' = tries - 1 /\ again = TRUE /\ wrong' = wrong
  <2>1. MaxTries - tries <= Permissions * wrong - Permissions + attempt
    BY <1>3 DEF IInv, BudgetInv
  <2> QED BY <2>1, <1>1, <1>3 DEF TriesBudget
<1>4. CASE tries' = tries - 1 /\ wrong' = wrong + 1
  <2>1. CASE Permissions = 1 BY <2>1, <1>1, <1>4 DEF TriesBudget
  <2>2. CASE Permissions = 2 BY <2>2, <1>1, <1>4 DEF TriesBudget
  <2>3. Permissions = 1 \/ Permissions = 2 BY Fido2Assumption
  <2> QED BY <2>1, <2>2, <2>3
<1>5. CASE UNCHANGED <<tries, wrong, counted>>
  BY <1>1, <1>5 DEF IInv, BudgetInv, TriesBudget
<1>6. \/ tries' = MaxTries /\ wrong' = 0 /\ counted' = FALSE
      \/ /\ tries' = tries - 1 /\ counted' = TRUE
         /\ wrong' = IF again = TRUE THEN wrong ELSE wrong + 1
      \/ UNCHANGED <<tries, wrong, counted>>
  BY CountsSpends DEF IInv
<1> QED BY <1>2, <1>3, <1>4, <1>5, <1>6
-----------------------------------------------------------------------------
LEMMA FaresTyped ==
    ASSUME TypeOK, NEW how, Fares(how)
    PROVE  faults' \in 0..MaxFaults
  BY Fido2Assumption DEF TypeOK, Fares

LEMMA OpensTyped ==
    ASSUME TypeOK, NEW how, Opens(how)
    PROVE  handle' \in {"none", "live", "dead"}
  BY DEF TypeOK, Opens

\* One round: an accepted PIN becomes the cached one, a wrong one costs a try.
LEMMA AuthenticatePreserves ==
    ASSUME IInv, Authenticate
    PROVE  IInv'
<1>1. PICK how \in {"unsent", "lost", "answered"} :
        LET ok == how = "answered" /\ Accepts(tried)
        IN /\ Fares(how) /\ Opens(how)
           /\ IF how = "unsent"
                THEN UNCHANGED <<tries, streak, wrong, counted, token>>
                ELSE /\ Counts(tried, counted)
                     /\ token' = IF ~ Accepts(tried) THEN token
                                 ELSE IF attempt = 0 THEN "full" ELSE "reads"
           /\ cached' = CachedAfter(tried, ok)
           /\ verified' = (ok \/ verified)
           /\ IF ok
                THEN /\ spc' = "command"
                     /\ UNCHANGED <<kind, tried, attempt, result>>
                ELSE IF attempt + 1 = Rounds
                  THEN Ends("error")
                  ELSE /\ attempt' = attempt + 1
                       /\ UNCHANGED <<spc, kind, tried, result>>
  BY DEF Authenticate
<1>2. spc = "auth" /\ UNCHANGED <<pin, foreign>> BY DEF Authenticate
<1>3. /\ tries' \in 0..MaxTries /\ streak' \in 0..MaxStreak /\ wrong' \in Nat
      /\ TriesBudget'
      /\ counted' = TRUE => MaxTries - tries' <=
             Permissions * wrong' - Permissions + attempt + 1
  <2>1. CASE how = "unsent"
    <3>1. UNCHANGED <<tries, streak, wrong, counted>> BY <1>1, <2>1
    <3>2. Permissions * wrong \in Nat BY Product DEF IInv, TypeOK
    <3> QED
      BY <1>2, <3>1, <3>2, Fido2Assumption
         DEF IInv, TypeOK, BudgetInv, TriesBudget
  <2>2. CASE how # "unsent"
    <3>1. Counts(tried, counted) BY <1>1, <2>2
    <3>2. counted \in BOOLEAN BY DEF IInv, TypeOK
    <3> QED BY <3>1, <3>2, <1>2, CountsSpends, CountsInBudget DEF IInv
  <2> QED BY <2>1, <2>2
<1>4. token' \in {"none", "full", "reads", "other"}
  BY <1>1 DEF IInv, TypeOK
<1>5. \/ /\ spc' = "command"
         /\ UNCHANGED <<kind, tried, attempt, result>>
      \/ /\ spc' = "idle" /\ kind' = "list" /\ tried' = None
         /\ attempt' = 0 /\ result' = "error"
      \/ /\ attempt' = attempt + 1 /\ attempt + 1 # Permissions
         /\ UNCHANGED <<spc, kind, tried, result>>
  BY <1>1 DEF Ends, Rounds
<1>6. \/ cached' = tried /\ tried = pin /\ verified' = TRUE
      \/ cached' = cached /\ verified' = verified
  <2>1. CASE how = "answered" /\ Accepts(tried)
    BY <1>1, <2>1 DEF CachedAfter, Accepts
  <2>2. CASE ~ (how = "answered" /\ Accepts(tried))
    <3>1. verified \in BOOLEAN BY DEF IInv, TypeOK
    <3> QED BY <1>1, <2>2, <3>1 DEF CachedAfter
  <2> QED BY <2>1, <2>2
<1>7. TypeOK'
  <2>1. attempt' \in 0..(Permissions - 1)
    BY <1>5, Fido2Assumption DEF IInv, TypeOK
  <2>2. /\ spc' \in {"idle", "auth", "command"} /\ kind' \in {"list", "modify"}
        /\ tried' \in Pins \cup {None} /\ result' \in {"none", "ok", "error"}
    BY <1>5 DEF IInv, TypeOK
  <2>3. cached' \in Pins \cup {None} BY <1>6 DEF IInv, TypeOK
  <2>4. verified' \in BOOLEAN BY <1>6, Zenon DEF IInv, TypeOK
  <2>5. faults' \in 0..MaxFaults /\ handle' \in {"none", "live", "dead"}
    BY <1>1, FaresTyped, OpensTyped DEF IInv
  <2>6. counted' \in BOOLEAN
    BY <1>1, CountsTyped, Zenon DEF IInv, TypeOK
  <2> QED
    BY <1>2, <1>3, <1>4, <2>1, <2>2, <2>3, <2>4, <2>5, <2>6 DEF IInv, TypeOK
<1>8. CachedIsCurrent'
  <2>1. pin' = pin BY <1>2
  <2>2. CASE cached' = tried /\ tried = pin
    BY <2>1, <2>2, Zenon DEF CachedIsCurrent
  <2>3. CASE cached' = cached /\ verified' = verified
    BY <2>1, <2>3, Zenon DEF IInv, CachedIsCurrent
  <2> QED BY <1>6, <2>2, <2>3
<1>9. BudgetInv'
  <2>1. Permissions * wrong' \in Nat BY <1>3, Product
  <2>2. attempt \in Nat /\ Permissions \in Nat
    BY Fido2Assumption DEF IInv, TypeOK
  <2> QED BY <1>2, <1>3, <1>5, <2>1, <2>2 DEF BudgetInv
<1> QED BY <1>7, <1>8, <1>9 DEF IInv
-----------------------------------------------------------------------------
\* The steps that check no PIN leave the budget as it is or, like the other
\* program, start it afresh.
LEMMA NoPinChecked ==
    ASSUME IInv,
           \/ spc' # "auth" \/ counted' = FALSE
           \/ UNCHANGED <<spc, attempt>>,
           \/ UNCHANGED <<tries, wrong>> /\ counted' \in {counted, FALSE}
           \/ tries' = MaxTries /\ wrong' = 0 /\ counted' = FALSE
    PROVE  BudgetInv'
<1>1. Permissions * 0 = 0 BY Product
<1>2. CASE UNCHANGED <<tries, wrong>> /\ counted' \in {counted, FALSE}
  BY <1>2 DEF IInv, BudgetInv, TriesBudget
<1>3. CASE tries' = MaxTries /\ wrong' = 0 /\ counted' = FALSE
  BY <1>1, <1>3, Fido2Assumption DEF BudgetInv, TriesBudget
<1> QED BY <1>2, <1>3

LEMMA CommandPreserves ==
    ASSUME IInv, Command
    PROVE  IInv'
<1>1. /\ spc' = "idle" /\ kind' = "list" /\ tried' = None /\ attempt' = 0
      /\ result' \in {"ok", "error"} /\ faults' \in 0..MaxFaults
      /\ UNCHANGED <<pin, tries, streak, token, handle, cached, verified,
                     wrong, counted, foreign>>
  BY FaresTyped DEF Command, Ends, key, ghost, IInv
<1>2. TypeOK' BY <1>1, Fido2Assumption DEF IInv, TypeOK
<1>3. CachedIsCurrent' BY <1>1 DEF IInv, CachedIsCurrent
<1>4. BudgetInv' BY <1>1, NoPinChecked
<1> QED BY <1>2, <1>3, <1>4 DEF IInv

LEMMA CallPreserves ==
    ASSUME IInv, NEW k \in {"list", "modify"}, NEW p \in Pins \cup {None},
           Call(k, p)
    PROVE  IInv'
<1>1. /\ attempt' = 0 /\ counted' = FALSE
      /\ tried' \in {p, cached} /\ spc' \in {"idle", "auth"}
      /\ kind' \in {"list", "modify"} /\ result' \in {"none", "error"}
      /\ UNCHANGED <<pin, tries, streak, token, handle, cached, verified,
                     wrong, faults, foreign>>
  BY DEF Call, key
<1>2. TypeOK'
  <2>1. counted' \in BOOLEAN BY <1>1, Zenon
  <2> QED BY <1>1, <2>1, Fido2Assumption DEF IInv, TypeOK
<1>3. CachedIsCurrent' BY <1>1 DEF IInv, CachedIsCurrent
<1>4. BudgetInv' BY <1>1, NoPinChecked
<1> QED BY <1>2, <1>3, <1>4 DEF IInv

LEMMA ChangePinPreserves ==
    ASSUME IInv, NEW cur \in Pins \cup {None}, NEW new \in Pins,
           ChangePin(cur, new)
    PROVE  IInv'
<1>1. PICK how \in {"unsent", "lost", "answered"} :
        LET changes == how # "unsent" /\
                       IF cur = None THEN pin = None ELSE Accepts(cur)
            ok      == how = "answered" /\ changes
        IN /\ Fares(how) /\ Opens(how)
           /\ pin' = IF changes THEN new ELSE pin
           /\ token' = IF changes THEN "none" ELSE token
           /\ IF cur = None \/ how = "unsent"
                THEN UNCHANGED <<tries, streak, wrong>> /\ counted' = FALSE
                ELSE Counts(cur, FALSE)
           /\ cached' = IF ok THEN GivenAfter(new) ELSE cached
           /\ verified' = (ok \/ (verified /\ ~ changes))
           /\ result' = IF ok THEN "ok" ELSE "error"
  BY DEF ChangePin
<1>2. spc = "idle" /\ UNCHANGED <<spc, kind, tried, attempt, foreign>>
  BY DEF ChangePin
<1>3. /\ tries' \in 0..MaxTries /\ streak' \in 0..MaxStreak /\ wrong' \in Nat
      /\ counted' \in BOOLEAN /\ BudgetInv'
  <2>1. CASE cur = None \/ how = "unsent"
    <3>1. UNCHANGED <<tries, streak, wrong>> /\ counted' = FALSE
      BY <1>1, <2>1
    <3>2. counted' \in BOOLEAN BY <3>1, Zenon
    <3>3. BudgetInv' BY <3>1, NoPinChecked
    <3> QED BY <3>1, <3>2, <3>3 DEF IInv, TypeOK
  <2>2. CASE ~ (cur = None \/ how = "unsent")
    <3>1. Counts(cur, FALSE) BY <1>1, <2>2
    <3>2. counted' \in BOOLEAN BY <3>1, CountsTyped DEF IInv, TypeOK
    <3>3. TriesBudget' BY <3>1, <1>2, CountsInBudget
    <3>4. BudgetInv' BY <3>3, <1>2 DEF BudgetInv
    <3> QED BY <3>1, <3>2, <3>4, CountsSpends DEF IInv
  <2> QED BY <2>1, <2>2
<1>4. \/ cached' = new /\ pin' = new
      \/ cached' = cached /\ verified' = FALSE /\ pin' = new
      \/ cached' = cached /\ verified' = verified /\ pin' = pin
  <2> DEFINE changes == how # "unsent" /\
                        IF cur = None THEN pin = None ELSE Accepts(cur)
  <2>1. CASE how = "answered" /\ changes BY <1>1, <2>1 DEF GivenAfter
  <2>2. CASE how # "answered" /\ changes BY <1>1, <2>2
  <2>3. CASE ~ changes
    <3>1. verified \in BOOLEAN BY DEF IInv, TypeOK
    <3> QED BY <1>1, <2>3, <3>1
  <2> QED BY <2>1, <2>2, <2>3
<1>5. TypeOK'
  <2>1. verified' \in BOOLEAN BY <1>1, Zenon
  <2>2. faults' \in 0..MaxFaults /\ handle' \in {"none", "live", "dead"}
    BY <1>1, FaresTyped, OpensTyped DEF IInv
  <2>3. /\ token' \in {"none", "full", "reads", "other"}
        /\ result' \in {"none", "ok", "error"}
    BY <1>1 DEF IInv, TypeOK
  <2>4. cached' \in Pins \cup {None} /\ pin' \in Pins \cup {None}
    BY <1>4 DEF IInv, TypeOK
  <2> QED BY <1>2, <1>3, <2>1, <2>2, <2>3, <2>4 DEF IInv, TypeOK
<1>6. CachedIsCurrent'
  <2>1. CASE cached' = pin' BY <2>1 DEF CachedIsCurrent
  <2>2. CASE verified' = FALSE BY <2>2, Zenon DEF CachedIsCurrent
  <2>3. CASE cached' = cached /\ verified' = verified /\ pin' = pin
    BY <2>3, Zenon DEF IInv, CachedIsCurrent
  <2> QED BY <1>4, <2>1, <2>2, <2>3
<1> QED BY <1>3, <1>5, <1>6 DEF IInv

\* Steps that check no PIN, forget the cached one or are another program's.
LEMMA OthersPreserve ==
    ASSUME IInv,
           \/ Status \/ Replug \/ OtherTakesToken
           \/ \E p \in Pins \cup {None} : NewPin(p) \/ NewSession(p)
           \/ \E new \in Pins : OtherChangesPin(new)
           \/ UNCHANGED vars
    PROVE  IInv'
<1>1. /\ UNCHANGED <<spc, kind, tried, attempt, result>>
      /\ \/ UNCHANGED <<pin, cached, verified>>
         \/ cached' \in Pins \cup {None} /\ pin' = pin /\ verified' = FALSE
         \/ pin' \in Pins /\ cached' = cached /\ verified' = FALSE
      /\ \/ UNCHANGED <<tries, wrong, counted>>
         \/ tries' = MaxTries /\ wrong' = 0 /\ counted' = FALSE
      /\ streak' \in {streak, 0}
      /\ token' \in {token, "none", "other"}
  BY DEF Status, Replug, OtherTakesToken, NewPin, NewSession,
         OtherChangesPin, vars, key, session, ghost
<1>2. /\ handle' \in {"none", "live", "dead"}
      /\ faults' \in 0..MaxFaults /\ foreign' \in 0..MaxForeign
  <2>1. CASE Status BY <2>1, FaresTyped, OpensTyped DEF Status, IInv, TypeOK
  <2>2. CASE Replug BY <2>2, Fido2Assumption DEF Replug, IInv, TypeOK
  <2>3. CASE OtherTakesToken
    BY <2>3, Fido2Assumption DEF OtherTakesToken, session, IInv, TypeOK
  <2>4. CASE \E p \in Pins \cup {None} : NewPin(p) \/ NewSession(p)
    BY <2>4 DEF NewPin, NewSession, NothingOpen, IInv, TypeOK
  <2>5. CASE \E new \in Pins : OtherChangesPin(new)
    BY <2>5, Fido2Assumption DEF OtherChangesPin, session, IInv, TypeOK
  <2>6. CASE UNCHANGED vars BY <2>6 DEF vars, session, IInv, TypeOK
  <2> QED BY <2>1, <2>2, <2>3, <2>4, <2>5, <2>6
<1>3. TypeOK'
  <2>1. verified' \in BOOLEAN /\ counted' \in BOOLEAN
    BY <1>1, Zenon DEF IInv, TypeOK
  <2>2. tries' \in 0..MaxTries /\ wrong' \in Nat /\ streak' \in 0..MaxStreak
    BY <1>1, Fido2Assumption DEF IInv, TypeOK
  <2> QED BY <1>1, <1>2, <2>1, <2>2 DEF IInv, TypeOK
<1>4. CachedIsCurrent'
  <2>1. CASE UNCHANGED <<pin, cached, verified>>
    BY <2>1 DEF IInv, CachedIsCurrent
  <2>2. CASE verified' = FALSE BY <2>2, Zenon DEF CachedIsCurrent
  <2> QED BY <1>1, <2>1, <2>2
<1>5. BudgetInv'
  <2>1. CASE UNCHANGED <<tries, wrong, counted>>
    BY <1>1, <2>1 DEF IInv, BudgetInv, TriesBudget
  <2>2. CASE tries' = MaxTries /\ wrong' = 0 /\ counted' = FALSE
    BY <1>1, <2>2, NoPinChecked
  <2> QED BY <1>1, <2>1, <2>2
<1> QED BY <1>3, <1>4, <1>5 DEF IInv

\* Every call, whatever becomes of its requests, and everything others do to
\* the key keeps the PIN cached and the budget.
THEOREM NextPreserves == IInv /\ [Next]_vars => IInv'
<1> SUFFICES ASSUME IInv, [Next]_vars PROVE IInv' OBVIOUS
<1>1. CASE Authenticate BY <1>1, AuthenticatePreserves
<1>2. CASE Command BY <1>2, CommandPreserves
<1>3. CASE \E k \in {"list", "modify"}, p \in Pins \cup {None} : Call(k, p)
  BY <1>3, CallPreserves
<1>4. CASE \E cur \in Pins \cup {None}, new \in Pins : ChangePin(cur, new)
  BY <1>4, ChangePinPreserves
<1>5. CASE \/ Status \/ Replug \/ OtherTakesToken
           \/ \E p \in Pins \cup {None} : NewPin(p) \/ NewSession(p)
           \/ \E new \in Pins : OtherChangesPin(new)
           \/ UNCHANGED vars
  BY <1>5, OthersPreserve
<1> QED BY <1>1, <1>2, <1>3, <1>4, <1>5 DEF Next, Step

\* The invariant holds in every reachable state.
THEOREM Invariance == Spec => []IInv
<1>1. Init => IInv BY Initially
<1>2. IInv /\ [Next]_vars => IInv' BY NextPreserves
<1> QED BY <1>1, <1>2, PTL DEF Spec

\* Every state is well typed: the counters of the key stay within their limits
\* and no call makes more rounds than there are permissions.
THEOREM TypeCorrect == Spec => []TypeOK
<1>1. IInv => TypeOK BY DEF IInv
<1> QED BY <1>1, Invariance, PTL

\* The PIN a session keeps is the key's once the key has taken it, whatever is
\* lost.
THEOREM CachedCorrect == Spec => []CachedIsCurrent
<1>1. IInv => CachedIsCurrent BY DEF IInv
<1> QED BY <1>1, Invariance, PTL

\* Calls with a wrong PIN cost at most one try per permission each, and nothing
\* else costs any.
THEOREM BudgetCorrect == Spec => []TriesBudget
<1>1. IInv => TriesBudget BY DEF IInv, BudgetInv
<1> QED BY <1>1, Invariance, PTL
=============================================================================
