------------------------------ MODULE SmartCard ------------------------------
(***************************************************************************)
(* The applets of one Solo 2 behind its PC/SC reader, as far as pcsc.py    *)
(* and provisioner.py rely on them.  All the connections to a reader talk  *)
(* to the same card: it has one selected applet and one unfinished reply,  *)
(* whoever selected or asked.                                              *)
(*                                                                         *)
(* The provisioner collects WRITE BINARY payloads in a buffer for the path *)
(* and one for the contents until WriteFile commits them.                  *)
(***************************************************************************)
EXTENDS Naturals, Sequences

CONSTANTS
    FilePaths,     \* paths of files; each fits one WRITE BINARY
    Chunks,        \* 250-byte pieces of file contents
    NameCap,       \* paths the filename buffer holds
    DataCap,       \* chunks the contents buffer holds
    MaxFaults,     \* bound on the APDUs that fail
    None           \* Python's None

ASSUME CardAssumption ==
    /\ NameCap \in Nat \ {0} /\ DataCap \in Nat /\ MaxFaults \in Nat

VARIABLES
    card,      \* applet, pending, name, data, active; stored: the file that
               \* the provisioner's client has written in its present call
    faults     \* APDUs that failed so far

Applets == {"admin", "secrets", "provisioner"}

NoFile == [name |-> <<>>, data |-> <<>>]

CardInit ==
    /\ faults = 0
    /\ card = [applet |-> "none", pending |-> 0, name |-> <<>>,
               data |-> <<>>, active |-> "none", stored |-> NoFile]

Files == [name : Seq(FilePaths), data : Seq(Chunks)]

Cards ==
    [applet : Applets \cup {"none"}, pending : 0..1, name : Seq(FilePaths),
     data : Seq(Chunks), active : {"none", "name", "data"}, stored : Files]

CardTypeOK ==
    /\ faults \in 0..MaxFaults /\ card \in Cards
    /\ Len(card.name) <= NameCap /\ Len(card.data) <= DataCap

\* The applet an APDU is meant for.
MeantFor(a) ==
    CASE a.kind = "select" -> a.aid
      [] a.kind = "lock" -> "admin"
      [] a.kind \in {"list", "update"} -> "secrets"
      [] a.kind \in {"buffer", "write", "commit", "key", "alias", "format"} ->
           "provisioner"

\* Secrets' UPDATE_CREDENTIAL and GET_CREDENTIAL ("update") have the INS bytes
\* of the provisioner's GEN_X25519 and STORE_T1_PUBKEY ("alias"): 0xB7, 0xB5.
Understands(applet, a) ==
    \/ applet = MeantFor(a)
    \/ applet = "provisioner" /\ a.kind = "update"
    \/ applet = "secrets" /\ a.kind = "alias"

\* A list of credentials takes two pieces, everything else one.
Pieces(kind) == IF kind = "list" THEN 2 ELSE 1

Written(c, x) ==
    IF c.active = "name" THEN [c EXCEPT !.name = Append(c.name, x)]
                         ELSE [c EXCEPT !.data = Append(c.data, x)]

Fits(c) ==
    \/ c.active = "name" /\ Len(c.name) < NameCap
    \/ c.active = "data" /\ Len(c.data) < DataCap

Committed(c) ==
    [c EXCEPT !.stored = [name |-> c.name, data |-> c.data],
              !.name = <<>>, !.data = <<>>]

Reply(sw, c) == [sw |-> sw, card |-> c]

\* What an applet that understands the APDU a makes of it.
Handle(a, c) ==
    LET d == [c EXCEPT !.pending = Pieces(a.kind) - 1]
        ok(e) == Reply(IF e.pending > 0 THEN "more" ELSE "ok", e)
    IN CASE a.kind \in {"lock", "list", "update", "key", "alias"} -> ok(d)
         [] a.kind = "format" -> ok([d EXCEPT !.stored = NoFile])
         [] a.kind = "buffer" -> ok([d EXCEPT !.active = a.id])
         [] a.kind = "commit" -> ok(Committed(d))
         [] a.kind = "write" ->
              IF Fits(c) THEN ok(Written(d, a.chunk)) ELSE Reply("refused", d)

\* What the card makes of the APDU a.
Execute(a, c) ==
    CASE a.kind = "select" ->
           Reply("ok", [c EXCEPT !.applet = a.aid, !.pending = 0])
      [] a.kind = "get" ->
           IF c.pending > 0 THEN Reply("ok", [c EXCEPT !.pending = 0])
                            ELSE Reply("refused", c)
      [] OTHER ->
           IF Understands(c.applet, a) THEN Handle(a, c)
           ELSE Reply("refused", [c EXCEPT !.pending = 0])

\* disconnect() asks for the card to be powered down; the service may keep it
\* up for the others.
PoweredDown(c) == {c, [c EXCEPT !.applet = "none", !.pending = 0]}

\* Or it goes wrong: 6F00, after which the applet may have to be selected
\* again, or an exception that leaves open whether the card acted.
Trouble(a, c) ==
    {Reply("6f00", [d EXCEPT !.pending = 0]) :
        d \in IF a.kind = "select" THEN {c} ELSE PoweredDown(c)}
    \cup {Reply("lost", c), Reply("lost", Execute(a, c).card)}

Outcomes(a) == {Execute(a, card)} \cup Trouble(a, card)

\* The APDU a is answered with r.
Answered(a, r) ==
    \/ r = Execute(a, card) /\ UNCHANGED faults
    \/ /\ r \in Trouble(a, card)
       /\ faults < MaxFaults /\ faults' = faults + 1

\* Unplugging the key and plugging it in again empties the buffers.
Restarted(c) ==
    [c EXCEPT !.applet = "none", !.pending = 0, !.active = "none",
              !.name = <<>>, !.data = <<>>]

Select(aid)  == [kind |-> "select", aid |-> aid]
Request(k)   == [kind |-> k]
Buffer(id)   == [kind |-> "buffer", id |-> id]
Write(chunk) == [kind |-> "write", chunk |-> chunk]
=============================================================================
