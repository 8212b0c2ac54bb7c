----------------------------- MODULE CardClients -----------------------------
(***************************************************************************)
(* Two clients of one card: a ProvisionerSession, and a PC/SC connection   *)
(* of this process or another - the device watcher's listing, a second     *)
(* command.  APDUs of the two interleave; neither takes the card for       *)
(* itself.                                                                 *)
(***************************************************************************)
EXTENDS PcscConnection, Provisioner

CONSTANTS MaxUses     \* bound on the connection's opens and calls

ASSUME UseAssumption == MaxUses \in Nat

VARIABLES uses        \* opens and calls so far

vars == <<card, faults, conn, ghost, prov, uses>>

Init == CardInit /\ ConnInit /\ ProvInit /\ uses = 0

Use ==
    /\ uses < MaxUses /\ uses' = uses + 1
    /\ \/ \E aid \in {"admin", "secrets"} : COpen(aid)
       \/ \E k \in Commands : CCall(k)
    /\ UNCHANGED prov

Proceed == ConnStep /\ UNCHANGED <<prov, uses>>

Close == CClose /\ UNCHANGED <<prov, uses>>

\* The provisioner takes the card away from an open connection.
Crosses ==
    crossed' = (crossed \/ (cpc # "closed" /\ card'.applet # card.applet))

Provision ==
    /\ ProvCalls \/ ProvStep
    /\ Crosses /\ UNCHANGED <<conn, doneBy, unsure, uses>>

\* The user unplugs the key between calls and plugs it in again; whoever held
\* a connection has to open a new one.
Replug ==
    /\ ppc = "idle" /\ cpc \in {"closed", "open"}
    /\ card' = Restarted(card)
    /\ Forgotten /\ UNCHANGED <<faults, prov, uses>>

Next == Use \/ Proceed \/ Close \/ Provision \/ Replug

\* A call under way goes on.  The user keeps asking for the file and, between
\* calls that failed, now and then replugs the key.
Fairness ==
    /\ WF_vars(Proceed)
    /\ WF_vars(ProvStep /\ Provision)
    /\ SF_vars(Provision /\ \E p \in FilePaths, d \in Contents :
                   PWriteFile(p, d))
    /\ SF_vars(Replug /\ presult = "error")

Spec == Init /\ [][Next]_vars /\ Fairness

TypeOK ==
    /\ CardTypeOK /\ ConnTypeOK /\ ProvTypeOK /\ uses \in 0..MaxUses

Exact == card.stored = [name |-> <<path>>, data |-> contents]

\* A write_file that returns has written the file it was given under the path
\* it was given - whatever the other client did to the card meanwhile - unless
\* an earlier call left something in the buffers, which nothing in the code
\* empties.
WritesGiven == presult = "written" => Exact \/ onTop

\* Once APDUs stop failing and the other client is quiet, files come out
\* exact again for good, and write_file keeps returning: what failed calls
\* left in the buffers does not stay there for ever if the user replugs.
WriteConverges ==
    <>[](presult = "written" => Exact) /\ []<>(presult = "written")

\* A command goes to its own applet, or the other client has taken the card
\* since it was selected, or an APDU failed and the connection kept the AID it
\* remembered.
SendsToSelected ==
    cpc = "send" => card.applet = AidOf(want) \/ crossed \/ unsure

\* A call that succeeds has the whole reply, from the applet that was asked,
\* even if another SELECT came between the command and GET RESPONSE.
WholeReply ==
    cresult = "ok" => got = Pieces(want) /\ (doneBy = AidOf(want) \/ crossed)
=============================================================================
