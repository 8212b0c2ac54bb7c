--------------------------- MODULE PcscConnection ---------------------------
(***************************************************************************)
(* One Solo2PcscConnection (pcsc.py): admin and secrets calls over a       *)
(* connection that remembers which applet it selected.                     *)
(***************************************************************************)
EXTENDS SmartCard

ASSUME NoneAssumption == None \notin Applets

VARIABLES
    cpc,          \* "closed", "open", or the next APDU of a call
    remembered,   \* _selected_aid
    want,         \* the command of the call
    resent,       \* is this the attempt after a 6F00?
    got,          \* pieces of the reply so far
    cresult,      \* how the last call ended
    doneBy,       \* the applet that got the command
    unsure,       \* did an APDU fail without the AID being forgotten?
    crossed       \* has the other client taken the card since our SELECT?

conn  == <<cpc, remembered, want, resent, got, cresult>>
ghost == <<doneBy, unsure, crossed>>

Commands == {"lock", "list", "update"}
AidOf(k) == MeantFor(Request(k))

ConnInit ==
    /\ cpc = "closed" /\ remembered = None /\ want = "lock"
    /\ resent = FALSE /\ got = 0 /\ cresult = "none"
    /\ doneBy = "none" /\ unsure = FALSE /\ crossed = FALSE

ConnTypeOK ==
    /\ cpc \in {"closed", "open", "select", "send", "more"}
    /\ remembered \in Applets \cup {None}
    /\ want \in Commands /\ resent \in BOOLEAN /\ got \in 0..2
    /\ cresult \in {"none", "ok", "error"}
    /\ doneBy \in Applets \cup {"none"}
    /\ unsure \in BOOLEAN /\ crossed \in BOOLEAN

\* The SELECT of aid is answered with sw; select() raises before it notes aid.
Selected(aid, sw) ==
    /\ remembered' = IF sw = "ok" THEN aid ELSE remembered
    /\ unsure' = (sw = "lost" \/ (unsure /\ sw # "ok"))
    /\ crossed' = (crossed /\ sw # "ok")

CRaises == cpc' = "open" /\ cresult' = "error"

\* open_pcsc_connection and list_pcsc_descriptors: connect and try the applet;
\* on an error the connection is closed again.
COpen(aid) ==
    /\ cpc = "closed"
    /\ \E r \in Outcomes(Select(aid)) :
         /\ Answered(Select(aid), r)
         /\ IF r.sw = "ok"
              THEN Selected(aid, r.sw) /\ cpc' = "open" /\ card' = r.card
              ELSE /\ card' \in PoweredDown(r.card)
                   /\ UNCHANGED <<cpc, remembered, unsure, crossed>>
    /\ cresult' = "none"
    /\ UNCHANGED <<want, resent, got, doneBy>>

\* Nothing is left of a connection that is closed.
Forgotten ==
    /\ cpc' = "closed" /\ remembered' = None /\ want' = "lock"
    /\ resent' = FALSE /\ got' = 0 /\ cresult' = "none"
    /\ doneBy' = "none" /\ unsure' = FALSE /\ crossed' = FALSE

CClose ==
    /\ cpc = "open"
    /\ card' \in PoweredDown(card)
    /\ Forgotten /\ UNCHANGED faults

\* call_admin and call_secrets, to _transmit_selected.
CCall(k) ==
    /\ cpc = "open"
    /\ want' = k /\ resent' = FALSE /\ got' = 0 /\ cresult' = "none"
    /\ cpc' = IF remembered # AidOf(k) THEN "select" ELSE "send"
    /\ UNCHANGED <<card, faults, remembered, ghost>>

CSelect ==
    /\ cpc = "select"
    /\ \E r \in Outcomes(Select(AidOf(want))) :
         /\ Answered(Select(AidOf(want)), r) /\ card' = r.card
         /\ Selected(AidOf(want), r.sw)
         /\ IF r.sw = "ok" THEN cpc' = "send" /\ UNCHANGED cresult
                           ELSE CRaises
    /\ UNCHANGED <<want, resent, got, doneBy>>

\* Mutant: it resends without selecting again.
ResendsAtOnce == "send"

AfterTransient == "select"

\* Mutant: GET RESPONSE is not followed up.
TakesPartial(sw) == sw \in {"ok", "more"}

Succeeded(sw) == sw = "ok"

\* What _transmit_all and its caller do with the status of an answer.
CTakes(sw) ==
    \/ /\ Succeeded(sw)
       /\ cpc' = "open" /\ cresult' = "ok"
       /\ UNCHANGED <<remembered, resent, unsure>>
    \/ /\ sw = "more" /\ ~ Succeeded(sw)
       /\ cpc' = "more" /\ UNCHANGED <<cresult, remembered, resent, unsure>>
    \/ /\ sw = "6f00" /\ ~ resent
       /\ cpc' = AfterTransient /\ resent' = TRUE /\ remembered' = None
       /\ UNCHANGED <<cresult, unsure>>
    \/ /\ sw \in {"refused", "lost"} \/ (sw = "6f00" /\ resent)
       /\ CRaises /\ unsure' = (unsure \/ sw # "refused")
       /\ UNCHANGED <<remembered, resent>>

\* Mutant: what came before a 6F00 is kept when the command is sent again.
KeepsPieces(n) == n + 1

StartsOver(n) == 1

CSend ==
    /\ cpc = "send"
    /\ \E r \in Outcomes(Request(want)) :
         /\ Answered(Request(want), r) /\ card' = r.card
         /\ CTakes(r.sw)
         /\ got' = StartsOver(got)
    /\ doneBy' = card.applet
    /\ UNCHANGED <<want, crossed>>

\* GET RESPONSE; a 6F00 here, too, has the whole command sent again.
CMore ==
    /\ cpc = "more"
    /\ \E r \in Outcomes(Request("get")) :
         /\ Answered(Request("get"), r) /\ card' = r.card
         /\ CTakes(r.sw)
         /\ got' = IF r.sw = "ok" THEN got + 1 ELSE got
    /\ UNCHANGED <<want, doneBy, crossed>>

ConnStep == CSelect \/ CSend \/ CMore

ConnNext ==
    \/ \E aid \in {"admin", "secrets"} : COpen(aid)
    \/ \E k \in Commands : CCall(k)
    \/ CClose \/ ConnStep
=============================================================================
