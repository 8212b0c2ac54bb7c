------------------------------- MODULE McuBoot -------------------------------
(***************************************************************************)
(* One BootloaderSession of bootloader.py: commands, data packets and      *)
(* responses as HID reports in two FIFO pipes.  Reports carry no sequence  *)
(* number, so the host takes whatever report comes next for the answer to  *)
(* its last command; the id below is only there to say whose it really is. *)
(***************************************************************************)
EXTENDS Naturals, Sequences

CONSTANTS
    Packets,        \* data packets in a transfer
    MaxCalls,       \* bound on the commands of a behaviour
    MaxLate,        \* bound on reads that time out with the answer to come
    LateReads       \* where read_memory may fail with its answer to come

ASSUME McuBootAssumption ==
    /\ Packets \in Nat \ {0} /\ MaxCalls \in Nat /\ MaxLate \in Nat
    /\ LateReads \subseteq {"command", "initial", "collect", "drain"}

VARIABLES
    toDev,      \* reports on their way to the device
    toHost,     \* reports the host has not read yet
    dev,        \* device: idle, or receiving or sending packets of a command
    pc,         \* host: what it waits for; "retry" after a failed read in an
                \* open session, "closed" without a session
    op,         \* host: the command under way or last ended
    got,        \* host: packets sent or received for it
    calls,      \* commands issued so far, the id of the last one
    used,       \* ids of the reports the host took for answers to it
    effect,     \* what the device has done of it
    verdict,    \* how it ended
    late        \* timeouts so far with the answer still to come

pipes == <<toDev, toHost>>
host  == <<pc, op, got, calls, used, verdict, late>>
vars  == <<pipes, dev, host, effect>>

Ops == {"erase", "read", "write"}
Resting == [mode |-> "idle", id |-> 0, left |-> 0]

Command(o, n) == [kind |-> "command", op |-> o, id |-> n]
Packet(n)     == [kind |-> "packet", op |-> "none", id |-> n]
Generic(ok, n)     == [kind |-> "generic", ok |-> ok, id |-> n]
ReadResponse(ok, n) == [kind |-> "read", ok |-> ok, id |-> n]
Data(n)            == [kind |-> "data", ok |-> TRUE, id |-> n]
-----------------------------------------------------------------------------
(***************************************************************************)
(* The device carries out one command after the other.                     *)
(***************************************************************************)
Sends(r) == toHost' = Append(toHost, r)

\* The outcome of a command the host has given up on concerns nobody.
Outcome(id, e) == effect' = IF id = calls THEN e ELSE effect

DevErase(c) ==
    \E ok \in BOOLEAN :
        /\ Sends(Generic(ok, c.id))
        /\ Outcome(c.id, IF ok THEN "done" ELSE "failed")
        /\ dev' = Resting

DevStartRead(c) ==
    \/ /\ Sends(ReadResponse(TRUE, c.id))
       /\ dev' = [mode |-> "send", id |-> c.id, left |-> Packets]
       /\ UNCHANGED effect
    \/ /\ Sends(ReadResponse(FALSE, c.id))        \* a Secure part
       /\ Outcome(c.id, "failed")
       /\ dev' = Resting

DevStartWrite(c) ==
    \/ /\ Sends(Generic(TRUE, c.id))
       /\ dev' = [mode |-> "recv", id |-> c.id, left |-> Packets]
       /\ UNCHANGED effect
    \/ /\ Sends(Generic(FALSE, c.id))
       /\ Outcome(c.id, "failed")
       /\ dev' = Resting

DevTake ==
    /\ dev = Resting /\ toDev # <<>>
    /\ toDev' = Tail(toDev)
    /\ LET c == Head(toDev) IN
         \/ c.op = "erase" /\ DevErase(c)
         \/ c.op = "read" /\ DevStartRead(c)
         \/ c.op = "write" /\ DevStartWrite(c)
         \/ /\ c.kind = "packet"              \* no data phase: dropped
            /\ UNCHANGED <<toHost, dev, effect>>
    /\ UNCHANGED host

DevReceive ==
    /\ dev.mode = "recv" /\ toDev # <<>>
    /\ toDev' = Tail(toDev)
    /\ \/ /\ dev.left > 1
          /\ dev' = [dev EXCEPT !.left = @ - 1]
          /\ UNCHANGED <<toHost, effect>>
       \/ /\ dev.left = 1
          /\ Sends(Generic(TRUE, dev.id)) /\ Outcome(dev.id, "done")
          /\ dev' = Resting
       \/ /\ Sends(Generic(FALSE, dev.id))        \* flash error, or abort
          /\ Outcome(dev.id, "failed")
          /\ dev' = Resting
    /\ UNCHANGED host

DevSend ==
    /\ dev.mode = "send"
    /\ \/ /\ dev.left > 0
          /\ Sends(Data(dev.id))
          /\ dev' = [dev EXCEPT !.left = @ - 1]
          /\ IF dev.left = 1 THEN Outcome(dev.id, "done") ELSE UNCHANGED effect
       \/ /\ dev.left = 0
          /\ Sends(Generic(TRUE, dev.id))
          /\ dev' = Resting /\ UNCHANGED effect
       \/ /\ dev.left > 0                         \* gives up half way
          /\ Sends(Generic(FALSE, dev.id)) /\ Outcome(dev.id, "failed")
          /\ dev' = Resting
    /\ UNCHANGED <<toDev, host>>
-----------------------------------------------------------------------------
(***************************************************************************)
(* The host.                                                               *)
(***************************************************************************)
Success == pc' = "idle" /\ verdict' = "success"

\* Mutant: a command that raises leaves the session open for any other.
RaiseKeepsSession == pc' = "idle" /\ verdict' = "error"

\* The caller leaves its "with _Bootloader()" block on any error but one:
\* disable_secure_boot goes on, in the same session, from a failed read of the
\* flash to the read of the CMPA.
Raise ==
    /\ pc' \in IF op = "read" THEN {"retry", "closed"} ELSE {"closed"}
    /\ verdict' = "error"

Takes == /\ toHost' = Tail(toHost)
         /\ used' = used \cup {Head(toHost).id}

Call(o) ==
    /\ pc = "idle" \/ (pc = "retry" /\ o = "read")
    /\ calls < MaxCalls
    /\ calls' = calls + 1
    /\ pc' = "command" /\ op' = o /\ got' = 0 /\ used' = {}
    /\ effect' = "none" /\ verdict' = "none"
    /\ UNCHANGED <<pipes, dev, late>>

Outgoing == IF pc = "command" THEN Command(op, calls) ELSE Packet(calls)

SendCommand ==
    /\ pc = "command"
    /\ toDev' = Append(toDev, Outgoing)
    /\ pc' = "initial"
    /\ UNCHANGED <<toHost, dev, op, got, calls, used, effect, verdict, late>>

\* _write_report raises; whether the device got the report nobody knows.
WriteFails ==
    /\ pc \in {"command", "sending"}
    /\ \/ UNCHANGED toDev
       \/ /\ op = "read" => pc \in LateReads
          /\ toDev' = Append(toDev, Outgoing)
    /\ Raise
    /\ UNCHANGED <<toHost, dev, op, got, calls, used, effect, late>>

\* Mutant: erase and write go by the report id alone.
AcceptsAnyStatus(r, o) == r.kind # "data"

\* _send_command and the tag tests; read_memory looks at the status only.
Accepts(r, o) == /\ r.kind # "data" /\ r.ok
                 /\ o = "read" \/ r.kind = "generic"

AfterInitial(o) == CASE o = "write" -> "sending" [] o = "read" -> "collect"

GetInitial ==
    /\ pc = "initial" /\ toHost # <<>>
    /\ Takes
    /\ \/ /\ Accepts(Head(toHost), op) /\ op = "erase"
          /\ Success
       \/ /\ Accepts(Head(toHost), op) /\ op # "erase"
          /\ pc' = AfterInitial(op) /\ UNCHANGED verdict
       \/ ~ Accepts(Head(toHost), op) /\ Raise
    /\ UNCHANGED <<toDev, dev, op, got, calls, effect, late>>

\* Mutant: the data goes out with one packet too many.
OnePastLast(n) == n > Packets

AllSent(n) == n = Packets

SendPacket ==
    /\ pc = "sending"
    /\ toDev' = Append(toDev, Outgoing)
    /\ got' = got + 1
    /\ pc' = IF AllSent(got + 1) THEN "final" ELSE "sending"
    /\ UNCHANGED <<toHost, dev, op, calls, used, effect, verdict, late>>

\* _expect_final_generic_success
GetFinal ==
    /\ pc = "final" /\ toHost # <<>>
    /\ Takes
    /\ IF Accepts(Head(toHost), op) THEN Success ELSE Raise
    /\ UNCHANGED <<toDev, dev, op, got, calls, effect, late>>

\* Mutant: read_memory returns without draining the final response.
EndCollectNoDrain(n) == IF n = Packets THEN Success ELSE Raise

EndCollect(n) == pc' = "drain" /\ UNCHANGED verdict

\* Data packets, until there are enough or something else turns up.
Collect ==
    /\ pc = "collect" /\ toHost # <<>>
    /\ Takes
    /\ \/ /\ Head(toHost).kind = "data"
          /\ got' = got + 1
          /\ IF got + 1 = Packets THEN EndCollect(got + 1)
                                  ELSE UNCHANGED <<pc, verdict>>
       \/ /\ Head(toHost).kind # "data"
          /\ UNCHANGED got
          /\ EndCollect(got)
    /\ UNCHANGED <<toDev, dev, op, calls, effect, late>>

EndRead == IF got = Packets THEN Success ELSE Raise

\* read_memory reads one more report and ignores what it is.
Drain ==
    /\ pc = "drain" /\ toHost # <<>>
    /\ Takes
    /\ EndRead
    /\ UNCHANGED <<toDev, dev, op, got, calls, effect, late>>

\* hid read() gives up: for good reason when the device has nothing to say.
Quiet == dev = Resting /\ toDev = <<>>

Timeout ==
    /\ pc \in {"initial", "final", "collect", "drain"} /\ toHost = <<>>
    /\ \/ Quiet /\ UNCHANGED late
       \/ /\ ~ Quiet /\ late < MaxLate
          /\ op = "read" => pc \in LateReads
          /\ late' = late + 1
    /\ \/ pc \in {"initial", "final"} /\ Raise
       \/ pc = "collect" /\ EndCollect(got)
       \/ pc = "drain" /\ EndRead
    /\ UNCHANGED <<pipes, dev, op, got, calls, used, effect>>

\* The next session is assumed to find the device power-cycled.
Reopen ==
    /\ pc = "closed"
    /\ pc' = "idle" /\ toDev' = <<>> /\ toHost' = <<>> /\ dev' = Resting
    /\ UNCHANGED <<op, got, calls, used, effect, verdict, late>>
-----------------------------------------------------------------------------
Init ==
    /\ toDev = <<>> /\ toHost = <<>> /\ dev = Resting
    /\ pc = "idle" /\ op = "erase" /\ got = 0 /\ calls = 0 /\ used = {}
    /\ effect = "none" /\ verdict = "none" /\ late = 0

Device == DevTake \/ DevReceive \/ DevSend

HostStep ==
    \/ SendCommand \/ GetInitial \/ SendPacket \/ WriteFails
    \/ GetFinal \/ Collect \/ Drain \/ Timeout

Next == Device \/ HostStep \/ (\E o \in Ops : Call(o)) \/ Reopen

Spec == Init /\ [][Next]_vars
-----------------------------------------------------------------------------
Requests ==
    [kind : {"command", "packet"}, op : Ops \cup {"none"}, id : 1..MaxCalls]

Reports ==
    [kind : {"generic", "read", "data"}, ok : BOOLEAN, id : 1..MaxCalls]

\* The type invariant; a session never counts more packets than a transfer has.
TypeOK ==
    /\ toDev \in Seq(Requests) /\ toHost \in Seq(Reports)
    /\ dev \in [mode : {"idle", "recv", "send"}, id : 0..MaxCalls,
                left : 0..Packets]
    /\ pc \in {"idle", "command", "initial", "sending", "final", "collect",
              "drain", "retry", "closed"}
    /\ op \in Ops /\ got \in 0..Packets /\ calls \in 0..MaxCalls
    /\ used \subseteq 1..MaxCalls
    /\ effect \in {"none", "done", "failed"}
    /\ verdict \in {"none", "success", "error"}
    /\ late \in 0..MaxLate

\* A command that returns went by reports the device sent for that command:
\* none of them answered an earlier command of the session.
RepliesAreOwn == verdict = "success" => used = {calls}

\* A command that returns leaves nothing of itself in the pipes for the next
\* command to trip over, even though every report is read one at a time.
DrainedOnSuccess ==
    pc = "idle" /\ verdict = "success" => toHost = <<>> /\ Quiet

\* lpc55_isp.py goes by what a command returned: "CMPA = 0xFF after erase_all".
\* What returned was carried out.
ReturnedWasDone == verdict = "success" => effect = "done"

\* The session implements the command interface SecureBoot relies on: what is
\* reported as done was done, for this call and not for another.
Isp == INSTANCE IspCommand WITH
    phase <- IF pc \in {"idle", "retry", "closed"} THEN "idle" ELSE "busy",
    effect <- IF verdict = "error" THEN "none" ELSE effect

ImplementsIsp == Isp!Spec
=============================================================================
