---------------------------- MODULE McuBootProofs ----------------------------
(***************************************************************************)
(* Proofs about McuBoot, for transfers of any length and any number of     *)
(* commands and timeouts: the types, whatever times out; and, on the       *)
(* condition that no read fails with its answer still to come (LateReads   *)
(* is empty), that replies are taken for the command they answer, that a   *)
(* session is drained by what succeeded, and that it implements            *)
(* IspCommand.  bootloader.py does not see to the condition itself: what   *)
(* it costs when a read does fail so is the violation of ReturnedWasDone.  *)
(***************************************************************************)
EXTENDS McuBoot, SequenceTheorems, TLAPS

Busy == {"command", "initial", "sending", "final", "collect", "drain"}

\* The type invariant and what its proof needs of the device and the host.
TypeInv ==
    /\ TypeOK
    /\ dev.mode # "idle" => dev.id > 0
    /\ pc \in {"command", "initial"} => got = 0
    /\ pc \in {"sending", "collect"} => got < Packets
    /\ pc \in Busy => calls > 0

\* The reports a command may be answered with.
Yes(n)     == Generic(TRUE, n)
No(n)      == Generic(FALSE, n)
Opens(n)   == ReadResponse(TRUE, n)
Refuses(n) == ReadResponse(FALSE, n)

\* Nothing is under way between host and device.
Empty == toDev = <<>> /\ toHost = <<>> /\ dev = Resting

\* The command has not reached the device.
Asked ==
    /\ toDev = <<Command(op, calls)>> /\ toHost = <<>> /\ dev = Resting
    /\ effect = "none"

\* It did what it was asked, or not, and said so in one report.
Answered(yes, no) ==
    /\ toDev = <<>> /\ dev = Resting
    /\ \/ toHost = <<yes>> /\ effect = "done"
       \/ toHost = <<no>> /\ effect = "failed"

\* It takes packets: those on their way and those received are the ones sent.
Receiving ==
    /\ dev = [mode |-> "recv", id |-> calls, left |-> dev.left]
    /\ dev.left > 0 /\ toHost = <<>> /\ effect = "none"
    /\ Len(toDev) = got - (Packets - dev.left)

\* It takes no more packets, and has said so.
Aborted == dev = Resting /\ toHost = <<No(calls)>> /\ effect = "failed"

AllPackets == \A i \in 1..Len(toDev) : toDev[i] = Packet(calls)

\* It sends data, which the host has received got packets of; o reports of
\* another kind come before it.
Streaming(o) ==
    /\ dev = [mode |-> "send", id |-> calls, left |-> dev.left]
    /\ got <= Packets - dev.left
    /\ Len(toHost) = o + (Packets - dev.left) - got
    /\ \A i \in (o + 1)..Len(toHost) : toHost[i] = Data(calls)
    /\ effect = IF dev.left = 0 THEN "done" ELSE "none"

\* It has sent the data, all of it or not, and its last report says which.
Streamed(o) ==
    /\ dev = Resting /\ Len(toHost) > o
    /\ \A i \in (o + 1)..(Len(toHost) - 1) : toHost[i] = Data(calls)
    /\ \/ /\ toHost[Len(toHost)] = Yes(calls) /\ effect = "done"
          /\ Len(toHost) = o + Packets - got + 1
       \/ /\ toHost[Len(toHost)] = No(calls) /\ effect = "failed"
          /\ Len(toHost) < o + Packets - got + 1

Stream(o) == toDev = <<>> /\ (Streaming(o) \/ Streamed(o))

\* Before the first answer to a command is read.
InitialInv ==
    \/ Asked
    \/ op = "erase" /\ Answered(Yes(calls), No(calls))
    \/ /\ op = "read" /\ Stream(1)
       /\ toHost # <<>> /\ toHost[1] = Opens(calls)
    \/ /\ op = "read" /\ toDev = <<>> /\ dev = Resting
       /\ toHost = <<Refuses(calls)>> /\ effect = "failed"
    \/ /\ op = "write" /\ toDev = <<>> /\ toHost = <<Yes(calls)>>
       /\ dev = [mode |-> "recv", id |-> calls, left |-> Packets]
       /\ effect = "none"
    \/ op = "write" /\ toDev = <<>> /\ Aborted

\* While a transfer to the device is under way, and when it is over.
SendInv ==
    /\ op = "write" /\ AllPackets
    /\ \/ Receiving \/ Aborted
       \/ got = Packets /\ Answered(Yes(calls), No(calls))

\* While data is collected, and when there is enough or no more.
CollectInv ==
    /\ op = "read"
    /\ \/ Stream(0) /\ (pc = "drain" => got = Packets)
       \/ pc = "drain" /\ got < Packets /\ Empty

\* What is on its way at each control point of the host.
PipeInv ==
    /\ pc \in {"idle", "retry", "command"} => Empty
    /\ pc = "command" => effect = "none"
    /\ pc = "initial" => InitialInv
    /\ pc \in {"sending", "final"} => SendInv
    /\ pc \in {"collect", "drain"} => CollectInv

\* What the host has counted and taken for answers.
HostInv ==
    /\ pc = "final" => got = Packets
    /\ pc \in {"command", "initial"} => used = {}
    /\ pc \in {"sending", "final", "collect", "drain"} => used = {calls}
    /\ pc \in Busy => verdict = "none"
    /\ pc \in {"retry", "closed"} => verdict = "error"
    /\ verdict = "success" => used = {calls} /\ effect = "done"

IInv == TypeInv /\ PipeInv /\ HostInv
-----------------------------------------------------------------------------
(***************************************************************************)
(* Reports.                                                                *)
(***************************************************************************)
LEMMA ReportTypes ==
    ASSUME NEW n \in 1..MaxCalls
    PROVE  /\ Yes(n) \in Reports /\ No(n) \in Reports /\ Data(n) \in Reports
           /\ Opens(n) \in Reports /\ Refuses(n) \in Reports
           /\ \A o \in Ops : Command(o, n) \in Requests
           /\ Packet(n) \in Requests
BY DEF Yes, No, Data, Opens, Refuses, Generic, ReadResponse, Reports, Command,
       Packet, Requests

LEMMA ReportIds ==
    ASSUME NEW n
    PROVE  /\ Yes(n).id = n /\ No(n).id = n /\ Data(n).id = n
           /\ Opens(n).id = n /\ Refuses(n).id = n
BY DEF Yes, No, Data, Opens, Refuses, Generic, ReadResponse

LEMMA ReportKinds ==
    ASSUME NEW n
    PROVE  /\ Data(n).kind = "data"
           /\ Yes(n).kind = "generic" /\ No(n).kind = "generic"
           /\ Opens(n).kind = "read" /\ Refuses(n).kind = "read"
BY DEF Yes, No, Data, Opens, Refuses, Generic, ReadResponse

\* Which of them the host goes on from.
LEMMA Accepted ==
    ASSUME NEW n, NEW o
    PROVE  /\ Accepts(Yes(n), o) /\ ~ Accepts(No(n), o)
           /\ ~ Accepts(Refuses(n), o)
           /\ Accepts(Opens(n), "read")
<1>1. Accepts(Yes(n), o)
  BY DEF Accepts, Yes, Generic
<1>2. ~ Accepts(No(n), o)
  BY DEF Accepts, No, Generic
<1>3. ~ Accepts(Refuses(n), o)
  BY DEF Accepts, Refuses, ReadResponse
<1>4. Accepts(Opens(n), "read")
  BY DEF Accepts, Opens, ReadResponse
<1> QED
  BY <1>1, <1>2, <1>3, <1>4

LEMMA RequestShape ==
    ASSUME NEW n
    PROVE  /\ \A o \in Ops :
                /\ Command(o, n).kind = "command" /\ Command(o, n).op = o
                /\ Command(o, n).id = n
           /\ Packet(n).kind = "packet" /\ Packet(n).op = "none"
           /\ Packet(n).id = n
BY DEF Command, Packet

LEMMA RestingShape == Resting.mode = "idle"
BY DEF Resting

DevStates == [mode : {"idle", "recv", "send"}, id : 0..MaxCalls,
            left : 0..Packets]

LEMMA DeviceTypes ==
    /\ Resting \in DevStates
    /\ \A m \in {"recv", "send"}, n \in 1..MaxCalls, k \in 0..Packets :
         [mode |-> m, id |-> n, left |-> k] \in DevStates
BY McuBootAssumption DEF Resting, DevStates
-----------------------------------------------------------------------------
(***************************************************************************)
(* What the device does.                                                   *)
(***************************************************************************)
\* A report of the device, what it says of the command, and what it does next.
Tells(r, id, e, d) == Sends(r) /\ Outcome(id, e) /\ dev' = d

Begins(r, id, m) ==
    /\ Sends(r) /\ UNCHANGED effect
    /\ dev' = [mode |-> m, id |-> id, left |-> Packets]

\* A request taken from the pipe is carried out, begun, refused or dropped.
LEMMA TakeShape ==
    ASSUME DevTake, NEW c, c = Head(toDev)
    PROVE  /\ toDev # <<>> /\ dev = Resting /\ toDev' = Tail(toDev)
           /\ UNCHANGED host
           /\ \/ c.op = "erase" /\ Tells(Yes(c.id), c.id, "done", Resting)
              \/ c.op = "erase" /\ Tells(No(c.id), c.id, "failed", Resting)
              \/ c.op = "read" /\ Begins(Opens(c.id), c.id, "send")
              \/ c.op = "read" /\ Tells(Refuses(c.id), c.id, "failed", Resting)
              \/ c.op = "write" /\ Begins(Yes(c.id), c.id, "recv")
              \/ c.op = "write" /\ Tells(No(c.id), c.id, "failed", Resting)
              \/ c.kind = "packet" /\ UNCHANGED <<toHost, dev, effect>>
<1>1. /\ toDev # <<>> /\ dev = Resting /\ toDev' = Tail(toDev)
      /\ UNCHANGED host
  BY DEF DevTake
<1>2. CASE c.op = "erase" /\ DevErase(c)
  <2>1. PICK ok \in BOOLEAN :
          /\ Sends(Generic(ok, c.id))
          /\ Outcome(c.id, IF ok THEN "done" ELSE "failed")
          /\ dev' = Resting
    BY <1>2 DEF DevErase
  <2>2. CASE ok = TRUE
    BY <1>1, <1>2, <2>1, <2>2 DEF Tells, Yes
  <2>3. CASE ok = FALSE
    BY <1>1, <1>2, <2>1, <2>3 DEF Tells, No
  <2> QED
    BY <2>2, <2>3
<1>3. CASE c.op = "read" /\ DevStartRead(c)
  BY <1>1, <1>3 DEF DevStartRead, Tells, Begins, Opens, Refuses
<1>4. CASE c.op = "write" /\ DevStartWrite(c)
  BY <1>1, <1>4 DEF DevStartWrite, Tells, Begins, Yes, No
<1>5. CASE c.kind = "packet" /\ UNCHANGED <<toHost, dev, effect>>
  BY <1>1, <1>5
<1> QED
  BY <1>2, <1>3, <1>4, <1>5 DEF DevTake

\* A packet received is the last one, one of many, or one too many.
LEMMA ReceiveShape ==
    ASSUME DevReceive
    PROVE  /\ toDev # <<>> /\ toDev' = Tail(toDev) /\ dev.mode = "recv"
           /\ UNCHANGED host
           /\ \/ /\ dev.left > 1 /\ dev' = [dev EXCEPT !.left = @ - 1]
                 /\ UNCHANGED <<toHost, effect>>
              \/ dev.left = 1 /\ Tells(Yes(dev.id), dev.id, "done", Resting)
              \/ Tells(No(dev.id), dev.id, "failed", Resting)
BY DEF DevReceive, Tells, Yes, No

LEMMA SendShape ==
    ASSUME DevSend
    PROVE  /\ dev.mode = "send" /\ UNCHANGED <<toDev, host>>
           /\ \/ /\ dev.left > 0 /\ Sends(Data(dev.id))
                 /\ dev' = [dev EXCEPT !.left = @ - 1]
                 /\ IF dev.left = 1 THEN Outcome(dev.id, "done")
                                    ELSE UNCHANGED effect
              \/ /\ dev.left = 0 /\ Sends(Yes(dev.id)) /\ dev' = Resting
                 /\ UNCHANGED effect
              \/ /\ dev.left > 0
                 /\ Tells(No(dev.id), dev.id, "failed", Resting)
BY DEF DevSend, Tells, Yes, No
-----------------------------------------------------------------------------
(***************************************************************************)
(* The types, whatever times out.                                          *)
(***************************************************************************)
\* The state of the device, and what is on its way.
DevTypeOK ==
    /\ toDev \in Seq(Requests) /\ toHost \in Seq(Reports)
    /\ dev \in DevStates /\ (dev.mode # "idle" => dev.id > 0)
    /\ effect \in {"none", "done", "failed"}

\* The locals of the host.
HostTypeOK ==
    /\ pc \in Busy \cup {"idle", "retry", "closed"}
    /\ op \in Ops /\ got \in 0..Packets /\ calls \in 0..MaxCalls
    /\ used \subseteq 1..MaxCalls /\ late \in 0..MaxLate
    /\ verdict \in {"none", "success", "error"}
    /\ pc \in {"command", "initial"} => got = 0
    /\ pc \in {"sending", "collect"} => got < Packets
    /\ pc \in Busy => calls > 0

\* The types are those of the device and those of the host.
LEMMA TypeParts == TypeInv <=> DevTypeOK /\ HostTypeOK
BY DEF TypeInv, TypeOK, DevTypeOK, HostTypeOK, DevStates, Busy

LEMMA TypePartsNext == TypeInv' <=> DevTypeOK' /\ HostTypeOK'
BY DEF TypeInv, TypeOK, DevTypeOK, HostTypeOK, DevStates, Busy

LEMMA TellsType ==
    ASSUME DevTypeOK, NEW r \in Reports, NEW id, NEW e \in {"done", "failed"},
           Tells(r, id, e, Resting)
    PROVE  /\ toHost' \in Seq(Reports) /\ dev' \in DevStates
           /\ dev'.mode = "idle" /\ effect' \in {"none", "done", "failed"}
BY DeviceTypes, RestingShape DEF Tells, Sends, Outcome, DevTypeOK

LEMMA BeginsType ==
    ASSUME DevTypeOK, NEW r \in Reports, NEW id \in 1..MaxCalls,
           NEW m \in {"recv", "send"}, Begins(r, id, m)
    PROVE  /\ toHost' \in Seq(Reports) /\ dev' \in DevStates
           /\ dev'.id > 0 /\ effect' \in {"none", "done", "failed"}
<1>1. Packets \in 0..Packets
  BY McuBootAssumption
<1>2. PICK d : d = [mode |-> m, id |-> id, left |-> Packets]
  OBVIOUS
<1>3. d \in DevStates /\ d.id = id
  BY <1>1, <1>2, DeviceTypes
<1> QED
  BY <1>2, <1>3 DEF Begins, Sends, DevTypeOK

\* The device has one packet less to send or receive.
LEMMA OneLess ==
    ASSUME NEW d \in DevStates, d.left > 0,
           NEW e, e = [d EXCEPT !.left = @ - 1]
    PROVE  /\ e \in DevStates /\ e.mode = d.mode /\ e.id = d.id
           /\ e.left = d.left - 1
<1>1. d.left - 1 \in 0..Packets
  BY McuBootAssumption DEF DevStates
<1> QED
  BY <1>1 DEF DevStates

LEMMA DeviceType == ASSUME DevTypeOK, Device PROVE DevTypeOK'
<1>1. ASSUME toDev # <<>>, toDev' = Tail(toDev) PROVE toDev' \in Seq(Requests)
  BY <1>1 DEF DevTypeOK
<1>2. CASE DevTake
  <2>1. PICK c : c = Head(toDev)
    OBVIOUS
  <2>2. c \in Requests /\ toDev' \in Seq(Requests)
    BY <1>1, <1>2, <2>1, TakeShape DEF DevTypeOK
  <2>3. c.id \in 1..MaxCalls
    BY <2>2 DEF Requests
  <2>4. CASE UNCHANGED <<toHost, dev, effect>>
    BY <2>2, <2>4 DEF DevTypeOK
  <2>5. CASE \E r \in Reports, e \in {"done", "failed"} :
               Tells(r, c.id, e, Resting)
    BY <2>2, <2>5, TellsType DEF DevTypeOK
  <2>6. CASE \E r \in Reports, m \in {"recv", "send"} : Begins(r, c.id, m)
    BY <2>2, <2>3, <2>6, BeginsType DEF DevTypeOK
  <2> QED
    BY <1>2, <2>1, <2>3, <2>4, <2>5, <2>6, TakeShape, ReportTypes
<1>3. CASE DevReceive
  <2>1. dev \in DevStates /\ dev.mode = "recv" /\ dev.id \in 1..MaxCalls
    BY <1>3, ReceiveShape DEF DevTypeOK, DevStates
  <2>2. toDev' \in Seq(Requests)
    BY <1>1, <1>3, ReceiveShape
  <2>3. CASE dev.left > 1 /\ dev' = [dev EXCEPT !.left = @ - 1]
             /\ UNCHANGED <<toHost, effect>>
    <3>1. dev.left > 0
      BY <2>1, <2>3, McuBootAssumption DEF DevStates
    <3>2. dev' \in DevStates /\ dev'.id = dev.id
      BY <2>1, <2>3, <3>1, OneLess
    <3> QED
      BY <2>1, <2>2, <2>3, <3>2 DEF DevTypeOK
  <2>4. CASE \E r \in Reports, e \in {"done", "failed"} :
               Tells(r, dev.id, e, Resting)
    BY <2>2, <2>4, TellsType DEF DevTypeOK
  <2> QED
    BY <1>3, <2>1, <2>3, <2>4, ReceiveShape, ReportTypes
<1>4. CASE DevSend
  <2>1. dev \in DevStates /\ dev.mode = "send" /\ dev.id \in 1..MaxCalls
    BY <1>4, SendShape DEF DevTypeOK, DevStates
  <2>2. UNCHANGED toDev
    BY <1>4, SendShape
  <2>3. CASE /\ dev.left > 0 /\ Sends(Data(dev.id))
             /\ dev' = [dev EXCEPT !.left = @ - 1]
             /\ IF dev.left = 1 THEN Outcome(dev.id, "done")
                                ELSE UNCHANGED effect
    <3>1. dev' \in DevStates /\ dev'.id = dev.id
      BY <2>1, <2>3, OneLess
    <3>2. Data(dev.id) \in Reports
      BY <2>1, ReportTypes
    <3>3. toHost' \in Seq(Reports)
      BY <2>3, <3>2 DEF Sends, DevTypeOK
    <3>4. effect' \in {"none", "done", "failed"}
      BY <2>3 DEF Outcome, DevTypeOK
    <3> QED
      BY <2>1, <2>2, <3>1, <3>3, <3>4 DEF DevTypeOK
  <2>4. CASE Sends(Yes(dev.id)) /\ dev' = Resting /\ UNCHANGED effect
    <3>1. Yes(dev.id) \in Reports
      BY <2>1, ReportTypes
    <3>2. toHost' \in Seq(Reports)
      BY <2>4, <3>1 DEF Sends, DevTypeOK
    <3> QED
      BY <2>2, <2>4, <3>2, DeviceTypes, RestingShape DEF DevTypeOK
  <2>5. CASE Tells(No(dev.id), dev.id, "failed", Resting)
    <3>1. No(dev.id) \in Reports
      BY <2>1, ReportTypes
    <3> QED
      BY <2>2, <2>5, <3>1, TellsType DEF DevTypeOK
  <2> QED
    BY <1>4, <2>3, <2>4, <2>5, SendShape
<1> QED
  BY <1>2, <1>3, <1>4 DEF Device

LEMMA DeviceHost == ASSUME Device PROVE UNCHANGED host
BY DEF Device, DevTake, DevReceive, DevSend

\* A report the host takes is one the device sent.
LEMMA TakesType ==
    ASSUME TypeInv, toHost # <<>>, Takes
    PROVE  toHost' \in Seq(Reports) /\ used' \subseteq 1..MaxCalls
<1>1. Head(toHost) \in Reports /\ Tail(toHost) \in Seq(Reports)
  BY DEF TypeInv, TypeOK
<1>2. Head(toHost).id \in 1..MaxCalls
  BY <1>1 DEF Reports
<1> QED
  BY <1>1, <1>2 DEF Takes, TypeInv, TypeOK

\* How a command may end.
Ends == Success \/ Raise

LEMMA EndsType ==
    ASSUME Ends
    PROVE  /\ pc' \in {"idle", "retry", "closed"}
           /\ verdict' \in {"success", "error"}
BY DEF Ends, Success, Raise

\* What the host sends, or fails to send.
LEMMA OutgoingType ==
    ASSUME DevTypeOK, HostTypeOK, pc \in {"command", "sending"}
    PROVE  Outgoing \in Requests /\ Append(toDev, Outgoing) \in Seq(Requests)
<1>1. calls \in 1..MaxCalls /\ op \in Ops
  BY McuBootAssumption DEF HostTypeOK, Busy
<1>2. Outgoing \in Requests
  BY <1>1, ReportTypes DEF Outgoing
<1> QED
  BY <1>2 DEF DevTypeOK

LEMMA HostType ==
    ASSUME TypeInv, HostStep \/ (\E o \in Ops : Call(o)) \/ Reopen
    PROVE  TypeInv'
<1>0. DevTypeOK /\ HostTypeOK
  BY TypeParts
<1>1. ASSUME NEW o \in Ops, Call(o) PROVE TypeInv'
  <2>1. calls + 1 \in 1..MaxCalls
    BY <1>0, <1>1, McuBootAssumption DEF Call, HostTypeOK
  <2>2. DevTypeOK'
    BY <1>0, <1>1 DEF Call, DevTypeOK, pipes
  <2>3. HostTypeOK'
    BY <1>0, <1>1, <2>1, McuBootAssumption DEF Call, HostTypeOK, Busy
  <2> QED
    BY <2>2, <2>3, TypePartsNext
<1>2. CASE GetInitial
  <2>1. toHost' \in Seq(Reports) /\ used' \subseteq 1..MaxCalls
    BY <1>2, TakesType DEF GetInitial
  <2>2. DevTypeOK'
    BY <1>0, <1>2, <2>1 DEF GetInitial, DevTypeOK
  <2>3. pc = "initial" /\ UNCHANGED <<op, got, calls, late>>
    BY <1>2 DEF GetInitial
  <2>4. \/ Ends
        \/ /\ op # "erase" /\ pc' = AfterInitial(op) /\ UNCHANGED verdict
    BY <1>2 DEF GetInitial, Ends
  <2>5. CASE Ends
    BY <1>0, <2>1, <2>2, <2>3, <2>5, EndsType, TypePartsNext
    DEF HostTypeOK, Busy
  <2>6. CASE op # "erase" /\ pc' = AfterInitial(op) /\ UNCHANGED verdict
    <3>1. pc' \in {"sending", "collect"}
      BY <1>0, <2>6 DEF AfterInitial, HostTypeOK, Ops
    <3>2. got < Packets
      BY <1>0, <2>3, McuBootAssumption DEF HostTypeOK, Busy
    <3> QED
      BY <1>0, <2>1, <2>2, <2>3, <2>6, <3>1, <3>2, TypePartsNext
      DEF HostTypeOK, Busy
  <2> QED
    BY <2>4, <2>5, <2>6
<1>3. CASE SendPacket
  <2>1. got < Packets /\ calls \in 1..MaxCalls
    BY <1>0, <1>3 DEF SendPacket, HostTypeOK, Busy
  <2>5. DevTypeOK'
    BY <1>0, <1>3, OutgoingType DEF SendPacket, DevTypeOK
  <2>6. /\ got' = got + 1 /\ got' \in 0..Packets
        /\ pc' \in {"sending", "final"}
        /\ pc' = "sending" => got' # Packets
    BY <1>0, <1>3, <2>1, McuBootAssumption DEF SendPacket, HostTypeOK, AllSent
  <2>7. UNCHANGED <<op, calls, used, verdict, late>>
    BY <1>3 DEF SendPacket
  <2>8. got' < Packets \/ got' = Packets
    BY <2>6, McuBootAssumption
  <2>9. HostTypeOK'
    BY <1>0, <2>1, <2>6, <2>7, <2>8 DEF HostTypeOK, Busy
  <2> QED
    BY <2>5, <2>9, TypePartsNext
<1>4. CASE Collect
  <2>1. toHost' \in Seq(Reports) /\ used' \subseteq 1..MaxCalls
    BY <1>4, TakesType DEF Collect
  <2>2. DevTypeOK'
    BY <1>0, <1>4, <2>1 DEF Collect, DevTypeOK
  <2>3. pc = "collect" /\ UNCHANGED <<op, calls, late, verdict>>
    BY <1>4 DEF Collect, EndCollect
  <2>4. got < Packets /\ calls > 0
    BY <1>0, <2>3 DEF HostTypeOK, Busy
  <2>5. \/ got' = got /\ pc' = "drain"
        \/ got' = got + 1 /\ got + 1 = Packets /\ pc' = "drain"
        \/ got' = got + 1 /\ got + 1 # Packets /\ pc' = "collect"
    BY <1>4, <2>3 DEF Collect, EndCollect
  <2>6. /\ got' \in 0..Packets /\ pc' \in {"drain", "collect"}
        /\ pc' = "collect" => got' < Packets
    BY <1>0, <2>4, <2>5, McuBootAssumption DEF HostTypeOK
  <2>7. HostTypeOK'
    BY <1>0, <2>1, <2>3, <2>4, <2>6 DEF HostTypeOK, Busy
  <2> QED
    BY <2>2, <2>7, TypePartsNext
<1>5. CASE GetFinal \/ Drain
  <2>1. toHost' \in Seq(Reports) /\ used' \subseteq 1..MaxCalls
    BY <1>5, TakesType DEF GetFinal, Drain
  <2>2. DevTypeOK'
    BY <1>0, <1>5, <2>1 DEF GetFinal, Drain, DevTypeOK
  <2>3. UNCHANGED <<op, got, calls, late>> /\ Ends
    BY <1>5 DEF GetFinal, Drain, EndRead, Ends
  <2>4. HostTypeOK'
    BY <1>0, <2>1, <2>3, EndsType DEF HostTypeOK, Busy
  <2> QED
    BY <2>2, <2>4, TypePartsNext
<1>6. CASE Timeout
  <2>1. UNCHANGED <<toDev, toHost, dev, op, got, calls, used, effect>>
    BY <1>6 DEF Timeout, pipes
  <2>2. late' \in 0..MaxLate
    BY <1>0, <1>6, McuBootAssumption DEF Timeout, HostTypeOK
  <2>3. Ends \/ (pc = "collect" /\ pc' = "drain" /\ UNCHANGED verdict)
    BY <1>6 DEF Timeout, EndRead, EndCollect, Ends
  <2>4. DevTypeOK'
    BY <1>0, <2>1 DEF DevTypeOK
  <2>5. HostTypeOK'
    <3>1. CASE Ends
      BY <1>0, <2>1, <2>2, <3>1, EndsType DEF HostTypeOK, Busy
    <3>2. CASE pc = "collect" /\ pc' = "drain" /\ UNCHANGED verdict
      BY <1>0, <2>1, <2>2, <3>2 DEF HostTypeOK, Busy
    <3> QED
      BY <2>3, <3>1, <3>2
  <2> QED
    BY <2>4, <2>5, TypePartsNext
<1>7. CASE Reopen
  <2>1. DevTypeOK'
    BY <1>0, <1>7, DeviceTypes, RestingShape DEF Reopen, DevTypeOK
  <2>2. HostTypeOK'
    BY <1>0, <1>7 DEF Reopen, HostTypeOK, Busy
  <2> QED
    BY <2>1, <2>2, TypePartsNext
<1>8. CASE SendCommand
  <2>1. DevTypeOK'
    BY <1>0, <1>8, OutgoingType DEF SendCommand, DevTypeOK
  <2>2. HostTypeOK'
    BY <1>0, <1>8 DEF SendCommand, HostTypeOK, Busy
  <2> QED
    BY <2>1, <2>2, TypePartsNext
<1>9. CASE WriteFails
  <2>1. toDev' = toDev \/ toDev' = Append(toDev, Outgoing)
    BY <1>9 DEF WriteFails
  <2>2. toDev' \in Seq(Requests)
    BY <1>0, <1>9, <2>1, OutgoingType DEF WriteFails, DevTypeOK
  <2>3. DevTypeOK'
    BY <1>0, <1>9, <2>2 DEF WriteFails, DevTypeOK
  <2>4. Ends /\ UNCHANGED <<op, got, calls, used, late>>
    BY <1>9 DEF WriteFails, Ends
  <2>5. HostTypeOK'
    BY <1>0, <2>4, EndsType DEF HostTypeOK, Busy
  <2> QED
    BY <2>3, <2>5, TypePartsNext
<1> QED
  BY <1>1, <1>2, <1>3, <1>4, <1>5, <1>6, <1>7, <1>8, <1>9 DEF HostStep

LEMMA InitType == Init => TypeInv
<1> SUFFICES ASSUME Init PROVE TypeInv
  OBVIOUS
<1>1. DevTypeOK
  BY DeviceTypes, RestingShape DEF Init, DevTypeOK
<1>2. HostTypeOK
  BY McuBootAssumption DEF Init, HostTypeOK, Busy, Ops
<1> QED
  BY <1>1, <1>2, TypeParts

LEMMA NextType == TypeInv /\ [Next]_vars => TypeInv'
<1> SUFFICES ASSUME TypeInv, [Next]_vars PROVE TypeInv'
  OBVIOUS
<1>0. DevTypeOK /\ HostTypeOK
  BY TypeParts
<1>1. CASE Device
  <2>1. DevTypeOK'
    BY <1>0, <1>1, DeviceType
  <2>2. HostTypeOK'
    BY <1>0, <1>1, DeviceHost DEF host, HostTypeOK
  <2> QED
    BY <2>1, <2>2, TypePartsNext
<1>2. CASE HostStep \/ (\E o \in Ops : Call(o)) \/ Reopen
  BY <1>2, HostType
<1>3. CASE UNCHANGED vars
  BY <1>0, <1>3, TypePartsNext DEF vars, pipes, host, DevTypeOK, HostTypeOK
<1> QED
  BY <1>1, <1>2, <1>3 DEF Next

\* No session counts more packets than a transfer has, or takes a report of no
\* command, however late the answers come.
THEOREM TypeCorrect == Spec => []TypeOK
<1>1. TypeInv => TypeOK
  BY DEF TypeInv
<1> QED
  BY <1>1, InitType, NextType, PTL DEF Spec
-----------------------------------------------------------------------------
(***************************************************************************)
(* What is on its way.                                                     *)
(***************************************************************************)
\* What the device did of the command under way it does not do again.
EffectOnce ==
    effect' = effect \/ (effect = "none" /\ effect' \in {"done", "failed"})

\* A device that is asked nothing does nothing.
LEMMA NoDevice == ASSUME toDev = <<>>, dev = Resting PROVE ~ Device
BY RestingShape DEF Device, DevTake, DevReceive, DevSend

\* Queues of one report.
LEMMA OneReport ==
    ASSUME NEW x
    PROVE  /\ Append(<<>>, x) = <<x>> /\ Head(<<x>>) = x /\ Tail(<<x>>) = <<>>
           /\ <<x>> # <<>> /\ Len(<<x>>) = 1 /\ <<x>>[1] = x
OBVIOUS

\* The first and the other reports of a queue.
LEMMA QueueTail ==
    ASSUME NEW S, NEW q \in Seq(S), q # <<>>
    PROVE  /\ Len(q) \in Nat /\ Len(q) > 0 /\ Head(q) = q[1]
           /\ Tail(q) \in Seq(S) /\ Len(Tail(q)) = Len(q) - 1
           /\ \A i \in 1..(Len(q) - 1) : Tail(q)[i] = q[i + 1]
BY HeadTailProperties

LEMMA QueueAppend ==
    ASSUME NEW S, NEW q \in Seq(S), NEW x \in S
    PROVE  /\ Append(q, x) \in Seq(S) /\ Len(Append(q, x)) = Len(q) + 1
           /\ Append(q, x) # <<>>
           /\ \A i \in 1..Len(q) : Append(q, x)[i] = q[i]
           /\ Append(q, x)[Len(q) + 1] = x
BY AppendProperties

\* The device goes on sending data, or says that it has sent it.
LEMMA StreamSend ==
    ASSUME TypeInv, NEW o \in {0, 1}, Stream(o), Device
    PROVE  /\ Stream(o)' /\ EffectOnce
           /\ toHost # <<>> => toHost' # <<>> /\ toHost'[1] = toHost[1]
<1>1. toDev = <<>> /\ Streaming(o)
  BY NoDevice DEF Stream, Streamed
<1>2. dev = [mode |-> "send", id |-> calls, left |-> dev.left]
  BY <1>1 DEF Streaming
<1>3. /\ dev.mode = "send" /\ dev.id = calls
      /\ dev.left \in 0..Packets /\ calls \in 1..MaxCalls
      /\ got \in 0..Packets /\ toHost \in Seq(Reports)
  BY <1>2 DEF TypeInv, TypeOK
<1>4. Packets \in Nat \ {0}
  BY McuBootAssumption
<1>5. DevSend
  BY <1>1, <1>3 DEF Device, DevTake, DevReceive, Resting
<1>6. UNCHANGED <<toDev, got, calls>>
  BY <1>5, SendShape DEF host
<1>7. /\ Len(toHost) \in Nat /\ got <= Packets - dev.left
      /\ Len(toHost) = o + (Packets - dev.left) - got
      /\ \A i \in (o + 1)..Len(toHost) : toHost[i] = Data(calls)
      /\ effect = IF dev.left = 0 THEN "done" ELSE "none"
  BY <1>1, <1>3 DEF Streaming
<1>8. ASSUME NEW r \in Reports, Sends(r)
      PROVE  /\ Len(toHost') = Len(toHost) + 1 /\ toHost' # <<>>
             /\ \A i \in 1..Len(toHost) : toHost'[i] = toHost[i]
             /\ toHost'[Len(toHost) + 1] = r
             /\ toHost # <<>> => toHost'[1] = toHost[1]
  <2>1. toHost # <<>> => 1 \in 1..Len(toHost)
    BY <1>3
  <2> QED
    BY <1>3, <1>8, <2>1, QueueAppend DEF Sends
<1>9. /\ Data(calls) \in Reports /\ Yes(calls) \in Reports
      /\ No(calls) \in Reports
  BY <1>3, ReportTypes
<1>10. CASE /\ dev.left > 0 /\ Sends(Data(dev.id))
            /\ dev' = [dev EXCEPT !.left = @ - 1]
            /\ IF dev.left = 1 THEN Outcome(dev.id, "done")
                               ELSE UNCHANGED effect
  <2>1. /\ Len(toHost') = Len(toHost) + 1 /\ toHost' # <<>>
        /\ \A i \in 1..Len(toHost) : toHost'[i] = toHost[i]
        /\ toHost'[Len(toHost) + 1] = Data(calls)
        /\ toHost # <<>> => toHost'[1] = toHost[1]
    BY <1>3, <1>8, <1>9, <1>10
  <2>2. PICK k : k = dev.left - 1
    OBVIOUS
  <2>3. dev' = [mode |-> "send", id |-> calls, left |-> k] /\ dev'.left = k
    BY <1>2, <1>10, <2>2
  <2>4. k \in Nat /\ dev.left = k + 1
    BY <1>3, <1>4, <1>10, <2>2
  <2>5. /\ effect' = IF k = 0 THEN "done" ELSE "none"
        /\ effect = "none"
    BY <1>3, <1>6, <1>7, <1>10, <2>4 DEF Outcome
  <2>6. Len(toHost') = o + (Packets - k) - got /\ got <= Packets - k
    BY <1>3, <1>4, <1>7, <2>1, <2>4
  <2>7. \A i \in (o + 1)..Len(toHost') : toHost'[i] = Data(calls)
    BY <1>7, <2>1
  <2>8. Streaming(o)'
    BY <1>6, <2>3, <2>5, <2>6, <2>7 DEF Streaming
  <2> QED
    BY <1>1, <1>6, <2>1, <2>5, <2>8 DEF Stream, EffectOnce
<1>11. CASE /\ dev.left = 0 /\ Sends(Yes(dev.id)) /\ dev' = Resting
            /\ UNCHANGED effect
  <2>1. /\ Len(toHost') = Len(toHost) + 1 /\ toHost' # <<>>
        /\ \A i \in 1..Len(toHost) : toHost'[i] = toHost[i]
        /\ toHost'[Len(toHost) + 1] = Yes(calls)
        /\ toHost # <<>> => toHost'[1] = toHost[1]
    BY <1>3, <1>8, <1>9, <1>11
  <2>2. Len(toHost) >= o
    BY <1>3, <1>4, <1>7, <1>11, <2>1
  <2>3. \A i \in (o + 1)..(Len(toHost') - 1) : toHost'[i] = Data(calls)
    <3>1. Len(toHost') - 1 = Len(toHost)
      BY <1>7, <2>1
    <3>2. \A i \in (o + 1)..Len(toHost) : i \in 1..Len(toHost)
      BY <1>7
    <3> QED
      BY <1>7, <2>1, <3>1, <3>2
  <2>4. Len(toHost') > o /\ Len(toHost') = o + Packets - got + 1
    BY <1>3, <1>4, <1>7, <1>11, <2>1, <2>2
  <2>5. Streamed(o)'
    BY <1>6, <1>7, <1>11, <2>1, <2>3, <2>4 DEF Streamed
  <2> QED
    BY <1>1, <1>6, <1>11, <2>1, <2>5 DEF Stream, EffectOnce
<1>12. CASE dev.left > 0 /\ Tells(No(dev.id), dev.id, "failed", Resting)
  <2>1. /\ Len(toHost') = Len(toHost) + 1 /\ toHost' # <<>>
        /\ \A i \in 1..Len(toHost) : toHost'[i] = toHost[i]
        /\ toHost'[Len(toHost) + 1] = No(calls)
        /\ toHost # <<>> => toHost'[1] = toHost[1]
    BY <1>3, <1>8, <1>9, <1>12 DEF Tells
  <2>2. dev' = Resting /\ effect' = "failed" /\ effect = "none"
    BY <1>3, <1>6, <1>7, <1>12 DEF Tells, Outcome
  <2>3. \A i \in (o + 1)..(Len(toHost') - 1) : toHost'[i] = Data(calls)
    <3>1. Len(toHost') - 1 = Len(toHost)
      BY <1>7, <2>1
    <3>2. \A i \in (o + 1)..Len(toHost) : i \in 1..Len(toHost)
      BY <1>7
    <3> QED
      BY <1>7, <2>1, <3>1, <3>2
  <2>4. Len(toHost) < o + Packets - got /\ Len(toHost) >= o
    BY <1>3, <1>4, <1>7, <1>12
  <2>5. Streamed(o)'
    <3>1. /\ Len(toHost') > o /\ Len(toHost') < o + Packets - got + 1
          /\ toHost'[Len(toHost')] = No(calls)
      BY <1>3, <1>4, <1>7, <2>1, <2>4
    <3> QED
      BY <1>6, <2>2, <2>3, <3>1 DEF Streamed
  <2> QED
    BY <1>1, <1>6, <2>1, <2>2, <2>5 DEF Stream, EffectOnce
<1> QED
  BY <1>5, <1>10, <1>11, <1>12, SendShape

\* A request of the host begins an answer that is the command's own.
LEMMA TakeAsked ==
    ASSUME TypeInv, pc = "initial", Asked, Device
    PROVE  InitialInv' /\ EffectOnce
<1>1. PICK c : c = Command(op, calls)
  OBVIOUS
<1>2. /\ toDev = <<c>> /\ toHost = <<>> /\ dev = Resting /\ effect = "none"
      /\ op \in Ops /\ calls \in Nat /\ Packets \in Nat \ {0} /\ got = 0
  <2>1. toDev = <<c>> /\ toHost = <<>> /\ dev = Resting /\ effect = "none"
    BY <1>1 DEF Asked
  <2>2. op \in Ops /\ calls \in Nat
    BY DEF TypeInv, TypeOK
  <2>3. got = 0
    BY DEF TypeInv
  <2> QED
    BY <2>1, <2>2, <2>3, McuBootAssumption
<1>3. c.kind = "command" /\ c.op = op /\ c.id = calls
  BY <1>1 DEF Command
<1>4. DevTake
  BY <1>2, RestingShape DEF Device, DevReceive, DevSend
<1>5. c = Head(toDev) /\ Tail(toDev) = <<>>
  BY <1>2, OneReport
<1>6. toDev' = <<>> /\ UNCHANGED <<pc, op, got, calls>>
  BY <1>4, <1>5, TakeShape DEF host
<1>7. ASSUME NEW r, Sends(r) PROVE toHost' = <<r>>
  BY <1>2, <1>7, OneReport DEF Sends
<1>8. CASE op = "erase" /\ Tells(Yes(calls), calls, "done", Resting)
  BY <1>2, <1>6, <1>7, <1>8
  DEF Tells, Outcome, InitialInv, Answered, EffectOnce
<1>9. CASE op = "erase" /\ Tells(No(calls), calls, "failed", Resting)
  BY <1>2, <1>6, <1>7, <1>9
  DEF Tells, Outcome, InitialInv, Answered, EffectOnce
<1>10. CASE op = "read" /\ Begins(Opens(calls), calls, "send")
  <2>1. PICK r : r = Opens(calls)
    OBVIOUS
  <2>2. toHost' = <<r>>
    BY <1>7, <1>10, <2>1 DEF Begins
  <2>3. Len(toHost') = 1 /\ toHost' # <<>> /\ toHost'[1] = r
    BY <2>2, OneReport
  <2>4. /\ dev' = [mode |-> "send", id |-> calls, left |-> Packets]
        /\ dev'.left = Packets /\ effect' = "none"
    BY <1>2, <1>10 DEF Begins
  <2>5. Streaming(1)'
    BY <1>2, <1>6, <2>3, <2>4 DEF Streaming
  <2> QED
    BY <1>2, <1>6, <1>10, <2>1, <2>3, <2>4, <2>5
    DEF InitialInv, Stream, EffectOnce
<1>11. CASE op = "read" /\ Tells(Refuses(calls), calls, "failed", Resting)
  BY <1>2, <1>6, <1>7, <1>11 DEF Tells, Outcome, InitialInv, EffectOnce
<1>12. CASE op = "write" /\ Begins(Yes(calls), calls, "recv")
  BY <1>2, <1>6, <1>7, <1>12 DEF Begins, InitialInv, EffectOnce
<1>13. CASE op = "write" /\ Tells(No(calls), calls, "failed", Resting)
  BY <1>2, <1>6, <1>7, <1>13
  DEF Tells, Outcome, InitialInv, Aborted, EffectOnce
<1> QED
  BY <1>3, <1>4, <1>5, <1>8, <1>9, <1>10, <1>11, <1>12, <1>13, TakeShape

\* Packets are received or dropped, and the last one is answered.
LEMMA ReceiveSent ==
    ASSUME TypeInv, SendInv, Device
    PROVE  SendInv' /\ EffectOnce
<1>1. /\ op = "write" /\ AllPackets
      /\ toDev \in Seq(Requests) /\ got \in 0..Packets /\ calls \in 0..MaxCalls
      /\ Packets \in Nat \ {0}
  BY McuBootAssumption DEF SendInv, TypeInv, TypeOK
<1>2. UNCHANGED <<pc, op, got, calls>>
  BY DeviceHost DEF host
<1>3. ASSUME toDev # <<>>, toDev' = Tail(toDev)
      PROVE  /\ AllPackets' /\ Len(toDev') = Len(toDev) - 1
             /\ Len(toDev) \in Nat /\ Len(toDev) > 0
  <2>1. PICK t : t = Tail(toDev)
    OBVIOUS
  <2>2. /\ Len(t) = Len(toDev) - 1 /\ Len(toDev) \in Nat /\ Len(toDev) > 0
        /\ \A i \in 1..(Len(toDev) - 1) : t[i] = toDev[i + 1]
    BY <1>1, <1>3, <2>1, QueueTail
  <2>3. \A i \in 1..Len(t) : t[i] = Packet(calls)
    BY <1>1, <2>2 DEF AllPackets
  <2> QED
    BY <1>2, <1>3, <2>1, <2>2, <2>3 DEF AllPackets
<1>4. CASE Receiving
  <2>1. /\ dev = [mode |-> "recv", id |-> calls, left |-> dev.left]
        /\ dev.left > 0 /\ toHost = <<>> /\ effect = "none"
        /\ Len(toDev) = got - (Packets - dev.left)
    BY <1>4 DEF Receiving
  <2>2. dev.mode = "recv" /\ dev.id = calls /\ dev.left \in 0..Packets
    BY <2>1 DEF TypeInv, TypeOK
  <2>3. DevReceive
    BY <2>2, RestingShape DEF Device, DevTake, DevSend
  <2>4. toDev # <<>> /\ toDev' = Tail(toDev)
    BY <2>3, ReceiveShape
  <2>5. /\ AllPackets' /\ Len(toDev') = Len(toDev) - 1
        /\ Len(toDev) \in Nat /\ Len(toDev) > 0
    BY <1>3, <2>4
  <2>6. ASSUME NEW r, Sends(r) PROVE toHost' = <<r>>
    BY <2>1, <2>6, OneReport DEF Sends
  <2>7. CASE /\ dev.left > 1 /\ dev' = [dev EXCEPT !.left = @ - 1]
             /\ UNCHANGED <<toHost, effect>>
    <3>1. PICK k : k = dev.left - 1
      OBVIOUS
    <3>2. dev' = [mode |-> "recv", id |-> calls, left |-> k] /\ dev'.left = k
      BY <2>1, <2>7, <3>1
    <3>3. k > 0 /\ Len(toDev') = got - (Packets - k)
      BY <1>1, <2>1, <2>2, <2>5, <2>7, <3>1
    <3>4. Receiving'
      BY <1>2, <2>1, <2>7, <3>2, <3>3 DEF Receiving
    <3> QED
      BY <1>1, <1>2, <2>5, <2>7, <3>4 DEF SendInv, EffectOnce
  <2>8. CASE dev.left = 1 /\ Tells(Yes(calls), calls, "done", Resting)
    <3>1. got = Packets /\ Len(toDev') = 0
      BY <1>1, <2>1, <2>5, <2>8
    <3>2. toDev' = <<>>
      <4>1. toDev' \in Seq(Requests)
        BY <1>1, <2>4
      <4> QED
        BY <3>1, <4>1, EmptySeq
    <3>3. Answered(Yes(calls), No(calls))'
      BY <1>2, <2>6, <2>8, <3>2 DEF Tells, Outcome, Answered
    <3> QED
      BY <1>1, <1>2, <2>1, <2>5, <2>8, <3>1, <3>3
      DEF SendInv, EffectOnce, Tells, Outcome
  <2>9. CASE Tells(No(calls), calls, "failed", Resting)
    <3>1. Aborted'
      BY <1>2, <2>6, <2>9 DEF Tells, Outcome, Aborted
    <3> QED
      BY <1>1, <1>2, <2>1, <2>5, <2>9, <3>1
      DEF SendInv, EffectOnce, Tells, Outcome
  <2> QED
    BY <2>2, <2>3, <2>7, <2>8, <2>9, ReceiveShape
<1>5. CASE Aborted
  <2>1. dev = Resting
    BY <1>5 DEF Aborted
  <2>2. DevTake
    BY <2>1, RestingShape DEF Device, DevReceive, DevSend
  <2>3. PICK c : c = Head(toDev)
    OBVIOUS
  <2>4. toDev # <<>> /\ toDev' = Tail(toDev)
    BY <2>2, <2>3, TakeShape
  <2>5. Len(toDev) \in Nat /\ Len(toDev) > 0 /\ c = toDev[1]
    BY <1>1, <2>3, <2>4, QueueTail
  <2>6. c = Packet(calls)
    BY <1>1, <2>5 DEF AllPackets
  <2>7. c.op = "none"
    BY <2>6, RequestShape
  <2>8. UNCHANGED <<toHost, dev, effect>>
    BY <2>2, <2>3, <2>7, TakeShape
  <2>9. AllPackets'
    BY <1>3, <2>4
  <2> QED
    BY <1>1, <1>2, <1>5, <2>8, <2>9 DEF SendInv, Aborted, EffectOnce
<1>6. CASE Answered(Yes(calls), No(calls))
  BY <1>6, NoDevice DEF Answered
<1> QED
  BY <1>4, <1>5, <1>6 DEF SendInv

\* The device keeps what is on its way, and does nothing twice.
LEMMA DevicePipes ==
    ASSUME IInv, Device
    PROVE  PipeInv' /\ HostInv' /\ (pc # "closed" => EffectOnce)
<1>1. UNCHANGED <<pc, op, got, calls, used, verdict>>
  BY DeviceHost DEF host
<1>2. TypeInv /\ PipeInv /\ HostInv
  BY DEF IInv
<1>3. verdict = "success" => effect' = effect
  <2>1. CASE pc = "idle"
    BY <1>2, <2>1, NoDevice DEF PipeInv, Empty
  <2>2. CASE pc # "idle"
    BY <1>2, <2>2 DEF HostInv, TypeInv, TypeOK, Busy
  <2> QED
    BY <2>1, <2>2
<1>4. HostInv'
  BY <1>1, <1>2, <1>3 DEF HostInv
<1>5. CASE pc \in {"idle", "retry", "command"}
  BY <1>2, <1>5, NoDevice DEF PipeInv, Empty
<1>6. CASE pc = "closed"
  BY <1>1, <1>4, <1>6 DEF PipeInv
<1>7. CASE pc = "initial"
  <2>1. InitialInv
    BY <1>2, <1>7 DEF PipeInv
  <2>2. CASE Asked
    BY <1>1, <1>2, <1>4, <1>7, <2>2, TakeAsked DEF PipeInv
  <2>3. CASE /\ op = "read" /\ Stream(1)
             /\ toHost # <<>> /\ toHost[1] = Opens(calls)
    <3>1. /\ Stream(1)' /\ EffectOnce
          /\ toHost' # <<>> /\ toHost'[1] = toHost[1]
      BY <1>2, <2>3, StreamSend
    <3>2. InitialInv'
      BY <1>1, <2>3, <3>1 DEF InitialInv
    <3> QED
      BY <1>1, <1>4, <1>7, <3>1, <3>2 DEF PipeInv
  <2>4. CASE /\ op = "write" /\ toDev = <<>>
             /\ dev = [mode |-> "recv", id |-> calls, left |-> Packets]
    <3>1. dev.mode = "recv"
      BY <2>4
    <3> QED
      BY <2>4, <3>1, RestingShape
      DEF Device, DevTake, DevReceive, DevSend
  <2>5. CASE toDev = <<>> /\ dev = Resting
    BY <2>5, NoDevice
  <2> QED
    BY <2>1, <2>2, <2>3, <2>4, <2>5 DEF InitialInv, Answered, Aborted
<1>8. CASE pc \in {"sending", "final"}
  BY <1>1, <1>2, <1>4, <1>8, ReceiveSent DEF PipeInv
<1>9. CASE pc \in {"collect", "drain"}
  <2>1. CollectInv
    BY <1>2, <1>9 DEF PipeInv
  <2>2. CASE Empty
    BY <2>2, NoDevice DEF Empty
  <2>3. CASE Stream(0) /\ (pc = "drain" => got = Packets)
    <3>1. Stream(0)' /\ EffectOnce
      BY <1>2, <2>3, StreamSend
    <3>2. CollectInv'
      BY <1>1, <2>1, <2>3, <3>1 DEF CollectInv
    <3> QED
      BY <1>1, <1>4, <1>9, <3>1, <3>2 DEF PipeInv
  <2> QED
    BY <2>1, <2>2, <2>3 DEF CollectInv
<1> QED
  BY <1>2, <1>5, <1>6, <1>7, <1>8, <1>9 DEF TypeInv, TypeOK
-----------------------------------------------------------------------------
(***************************************************************************)
(* What the host does.                                                     *)
(***************************************************************************)
\* A command that succeeds has been done, and leaves nothing behind.
LEMMA SuccessEnds ==
    ASSUME Success, toDev' = <<>>, toHost' = <<>>, dev' = Resting,
           effect' = "done", used' = {calls'}
    PROVE  PipeInv' /\ HostInv'
<1>1. pc' = "idle" /\ verdict' = "success"
  BY DEF Success
<1>2. Empty'
  BY DEF Empty
<1>3. PipeInv'
  BY <1>1, <1>2 DEF PipeInv
<1>4. HostInv'
  BY <1>1 DEF HostInv, Busy
<1> QED
  BY <1>3, <1>4

\* A command that raises may leave something behind only if nothing follows it.
LEMMA RaiseEnds ==
    ASSUME Raise, op = "read" => Empty'
    PROVE  PipeInv' /\ HostInv'
<1>1. pc' \in {"retry", "closed"} /\ verdict' = "error"
  BY DEF Raise
<1>2. pc' = "retry" => Empty'
  BY DEF Raise
<1>3. PipeInv'
  BY <1>1, <1>2 DEF PipeInv
<1>4. HostInv'
  BY <1>1 DEF HostInv, Busy
<1> QED
  BY <1>3, <1>4

\* The only report there is is taken.
LEMMA TakeOne ==
    ASSUME NEW r, toHost = <<r>>, Takes
    PROVE  Head(toHost) = r /\ toHost' = <<>> /\ used' = used \cup {r.id}
BY OneReport DEF Takes

\* The next report of a stream is data, or the last one.
LEMMA StreamHead ==
    ASSUME TypeInv, Stream(0), toHost # <<>>
    PROVE  \/ /\ Head(toHost) = Data(calls) /\ got < Packets
              /\ Streaming(0) \/ Len(toHost) > 1
           \/ /\ dev = Resting /\ toHost = <<Yes(calls)>>
              /\ got = Packets /\ effect = "done"
           \/ /\ dev = Resting /\ toHost = <<No(calls)>>
              /\ got < Packets /\ effect = "failed"
<1>1. /\ toHost \in Seq(Reports) /\ got \in 0..Packets
      /\ dev.left \in 0..Packets
  BY DEF TypeInv, TypeOK
<1>2. Len(toHost) \in Nat /\ Len(toHost) > 0 /\ Head(toHost) = toHost[1]
  BY <1>1, QueueTail
<1>3. Packets \in Nat \ {0}
  BY McuBootAssumption
<1>4. CASE Streaming(0)
  <2>1. /\ Len(toHost) = 0 + (Packets - dev.left) - got
        /\ \A i \in (0 + 1)..Len(toHost) : toHost[i] = Data(calls)
    BY <1>4 DEF Streaming
  <2>2. toHost[1] = Data(calls) /\ got < Packets
    BY <1>1, <1>2, <1>3, <2>1
  <2> QED
    BY <1>2, <1>4, <2>2
<1>5. CASE Streamed(0)
  <2>1. /\ dev = Resting
        /\ \A i \in (0 + 1)..(Len(toHost) - 1) : toHost[i] = Data(calls)
        /\ \/ /\ toHost[Len(toHost)] = Yes(calls) /\ effect = "done"
              /\ Len(toHost) = 0 + Packets - got + 1
           \/ /\ toHost[Len(toHost)] = No(calls) /\ effect = "failed"
              /\ Len(toHost) < 0 + Packets - got + 1
    BY <1>5 DEF Streamed
  <2>2. CASE Len(toHost) > 1
    <3>1. toHost[1] = Data(calls)
      BY <1>2, <2>1, <2>2
    <3>2. got < Packets
      BY <1>1, <1>2, <1>3, <2>1, <2>2
    <3> QED
      BY <1>2, <2>2, <3>1, <3>2
  <2>3. CASE Len(toHost) = 1
    <3>1. toHost = <<toHost[1]>>
      BY <1>1, <2>3
    <3>2. CASE toHost[Len(toHost)] = Yes(calls) /\ effect = "done"
               /\ Len(toHost) = 0 + Packets - got + 1
      <4>1. got = Packets
        <5>1. 1 = 0 + Packets - got + 1
          BY <2>3, <3>2
        <5> QED
          BY <1>1, <1>3, <5>1
      <4> QED
        BY <2>1, <2>3, <3>1, <3>2, <4>1
    <3>3. CASE toHost[Len(toHost)] = No(calls) /\ effect = "failed"
               /\ Len(toHost) < 0 + Packets - got + 1
      <4>1. got < Packets
        BY <1>1, <1>3, <2>3, <3>3
      <4> QED
        BY <2>1, <2>3, <3>1, <3>3, <4>1
    <3>4. \/ /\ toHost[Len(toHost)] = Yes(calls) /\ effect = "done"
             /\ Len(toHost) = 0 + Packets - got + 1
          \/ /\ toHost[Len(toHost)] = No(calls) /\ effect = "failed"
             /\ Len(toHost) < 0 + Packets - got + 1
      BY <2>1
    <3> QED
      BY <3>2, <3>3, <3>4
  <2>4. Len(toHost) > 1 \/ Len(toHost) = 1
    <3>1. PICK n \in Nat : n = Len(toHost) /\ n > 0
      BY <1>2
    <3>2. n > 1 \/ n = 1
      BY <3>1
    <3> QED
      BY <3>1, <3>2
  <2> QED
    BY <2>2, <2>3, <2>4
<1> QED
  BY <1>4, <1>5 DEF Stream

\* What remains of a stream when its first report, the answer that opens it
\* or data, is taken.
LEMMA StreamTake ==
    ASSUME TypeInv, NEW o \in {0, 1}, Stream(o), toHost # <<>>,
           o = 0 => Head(toHost) = Data(calls)
                    /\ (Streaming(0) \/ Len(toHost) > 1),
           toHost' = Tail(toHost), UNCHANGED <<toDev, dev, calls, effect>>,
           got' = got + 1 - o
    PROVE  Stream(0)'
<1>1. /\ toHost \in Seq(Reports) /\ got \in 0..Packets
      /\ dev.left \in 0..Packets
  BY DEF TypeInv, TypeOK
<1>2. PICK t : t = Tail(toHost)
  OBVIOUS
<1>3. /\ Len(toHost) \in Nat /\ Len(toHost) > 0
      /\ Len(t) = Len(toHost) - 1
      /\ \A i \in 1..(Len(toHost) - 1) : t[i] = toHost[i + 1]
  BY <1>1, <1>2, QueueTail
<1>4. Packets \in Nat \ {0} /\ toHost' = t
  BY <1>2, McuBootAssumption
<1>5. toDev = <<>> /\ toDev' = <<>>
  BY DEF Stream
<1>6. CASE Streaming(o)
  <2>1. /\ dev = [mode |-> "send", id |-> calls, left |-> dev.left]
        /\ Len(toHost) = o + (Packets - dev.left) - got
        /\ \A i \in (o + 1)..Len(toHost) : toHost[i] = Data(calls)
        /\ effect = IF dev.left = 0 THEN "done" ELSE "none"
        /\ got <= Packets - dev.left
    BY <1>6 DEF Streaming
  <2>2. /\ Len(t) = 0 + (Packets - dev.left) - got'
        /\ got' <= Packets - dev.left
    BY <1>1, <1>3, <1>4, <2>1
  <2>3. \A i \in (0 + 1)..Len(t) : t[i] = Data(calls)
    <3>1. SUFFICES ASSUME NEW i \in 1..Len(t) PROVE t[i] = Data(calls)
      OBVIOUS
    <3>2. i + 1 \in (o + 1)..Len(toHost) /\ i \in 1..(Len(toHost) - 1)
      BY <1>3, <3>1
    <3> QED
      BY <1>3, <2>1, <3>2
  <2>4. Streaming(0)'
    BY <1>4, <2>1, <2>2, <2>3 DEF Streaming
  <2> QED
    BY <1>5, <2>4 DEF Stream
<1>7. CASE Streamed(o) /\ ~ Streaming(o)
  <2>1. /\ dev = Resting /\ Len(toHost) > o
        /\ \A i \in (o + 1)..(Len(toHost) - 1) : toHost[i] = Data(calls)
        /\ \/ /\ toHost[Len(toHost)] = Yes(calls) /\ effect = "done"
              /\ Len(toHost) = o + Packets - got + 1
           \/ /\ toHost[Len(toHost)] = No(calls) /\ effect = "failed"
              /\ Len(toHost) < o + Packets - got + 1
    BY <1>7 DEF Streamed
  <2>2. Len(toHost) > 1
    <3>1. CASE o = 0
      BY <1>7, <3>1
    <3>2. CASE o = 1
      BY <2>1, <3>2
    <3> QED
      BY <3>1, <3>2
  <2>3. \A i \in (0 + 1)..(Len(t) - 1) : t[i] = Data(calls)
    <3>1. SUFFICES ASSUME NEW i \in 1..(Len(t) - 1) PROVE t[i] = Data(calls)
      OBVIOUS
    <3>2. /\ i + 1 \in (o + 1)..(Len(toHost) - 1)
          /\ i \in 1..(Len(toHost) - 1)
      BY <1>3, <3>1
    <3> QED
      BY <1>3, <2>1, <3>2
  <2>4. t[Len(t)] = toHost[Len(toHost)] /\ Len(t) > 0
    <3>1. Len(toHost) - 1 \in 1..(Len(toHost) - 1)
      BY <1>3, <2>2
    <3>2. t[Len(toHost) - 1] = toHost[Len(toHost) - 1 + 1]
      BY <1>3, <3>1
    <3> QED
      BY <1>3, <2>2, <3>2
  <2>5. \/ /\ t[Len(t)] = Yes(calls) /\ effect = "done"
           /\ Len(t) = 0 + Packets - got' + 1
        \/ /\ t[Len(t)] = No(calls) /\ effect = "failed"
           /\ Len(t) < 0 + Packets - got' + 1
    <3>1. CASE toHost[Len(toHost)] = Yes(calls) /\ effect = "done"
               /\ Len(toHost) = o + Packets - got + 1
      <4>1. Len(t) = 0 + Packets - got' + 1
        BY <1>1, <1>3, <1>4, <3>1
      <4> QED
        BY <2>4, <3>1, <4>1
    <3>2. CASE toHost[Len(toHost)] = No(calls) /\ effect = "failed"
               /\ Len(toHost) < o + Packets - got + 1
      <4>1. Len(t) < 0 + Packets - got' + 1
        BY <1>1, <1>3, <1>4, <3>2
      <4> QED
        BY <2>4, <3>2, <4>1
    <3> QED
      BY <2>1, <3>1, <3>2
  <2>6. Streamed(0)'
    BY <1>4, <2>1, <2>3, <2>4, <2>5 DEF Streamed
  <2> QED
    BY <1>5, <2>6 DEF Stream
<1> QED
  BY <1>6, <1>7 DEF Stream

\* The first answer ends the command, or opens its transfer.
LEMMA GetInitialPipes ==
    ASSUME TypeInv, PipeInv, HostInv, GetInitial PROVE PipeInv' /\ HostInv'
<1>1. /\ pc = "initial" /\ toHost # <<>> /\ Takes
      /\ UNCHANGED <<toDev, dev, op, got, calls, effect>>
      /\ \/ Accepts(Head(toHost), op) /\ op = "erase" /\ Success
         \/ /\ Accepts(Head(toHost), op) /\ op # "erase"
            /\ pc' = AfterInitial(op) /\ UNCHANGED verdict
         \/ ~ Accepts(Head(toHost), op) /\ Raise
  BY DEF GetInitial
<1>2. InitialInv /\ used = {} /\ got = 0 /\ verdict = "none"
  BY <1>1 DEF PipeInv, HostInv, TypeInv, Busy
<1>3. Packets \in Nat \ {0}
  BY McuBootAssumption
<1>4. ASSUME NEW r, toHost = <<r>>, r.id = calls
      PROVE  Head(toHost) = r /\ toHost' = <<>> /\ used' = {calls}
  BY <1>1, <1>2, <1>4, TakeOne
<1>5. CASE Asked
  BY <1>1, <1>5 DEF Asked
<1>6. CASE op = "erase" /\ Answered(Yes(calls), No(calls))
  <2>1. toDev = <<>> /\ dev = Resting
    BY <1>6 DEF Answered
  <2>2. CASE toHost = <<Yes(calls)>> /\ effect = "done"
    <3>1. /\ Head(toHost) = Yes(calls) /\ toHost' = <<>>
          /\ used' = {calls}
      BY <1>4, <2>2, ReportIds
    <3>2. Success
      BY <1>1, <1>6, <3>1, Accepted
    <3> QED
      BY <1>1, <2>1, <2>2, <3>1, <3>2, SuccessEnds
  <2>3. CASE toHost = <<No(calls)>>
    <3>1. Head(toHost) = No(calls)
      BY <1>4, <2>3, ReportIds
    <3>2. Raise
      BY <1>1, <3>1, Accepted
    <3> QED
      BY <1>6, <3>2, RaiseEnds
  <2> QED
    BY <1>6, <2>2, <2>3 DEF Answered
<1>7. CASE /\ op = "read" /\ Stream(1)
           /\ toHost # <<>> /\ toHost[1] = Opens(calls)
  <2>1. Head(toHost) = Opens(calls)
    BY <1>7, QueueTail DEF TypeInv, TypeOK
  <2>2. pc' = "collect" /\ UNCHANGED verdict
    BY <1>1, <1>7, <2>1, Accepted DEF AfterInitial
  <2>3. toHost' = Tail(toHost) /\ used' = {calls}
    BY <1>1, <1>2, <2>1, ReportIds DEF Takes
  <2>4. got' = got + 1 - 1
    BY <1>1, <1>2
  <2>5. Stream(0)'
    BY <1>1, <1>7, <2>3, <2>4, StreamTake
  <2>6. PipeInv'
    BY <1>1, <1>7, <2>2, <2>5 DEF PipeInv, CollectInv
  <2>7. HostInv'
    BY <1>1, <1>2, <2>2, <2>3 DEF HostInv, Busy
  <2> QED
    BY <2>6, <2>7
<1>8. CASE /\ op = "read" /\ toDev = <<>> /\ dev = Resting
           /\ toHost = <<Refuses(calls)>>
  <2>1. Head(toHost) = Refuses(calls) /\ toHost' = <<>>
    BY <1>4, <1>8, ReportIds
  <2>2. Raise
    BY <1>1, <2>1, Accepted
  <2>3. Empty'
    BY <1>1, <1>8, <2>1 DEF Empty
  <2> QED
    BY <2>2, <2>3, RaiseEnds
<1>9. CASE /\ op = "write" /\ toDev = <<>> /\ toHost = <<Yes(calls)>>
           /\ dev = [mode |-> "recv", id |-> calls, left |-> Packets]
           /\ effect = "none"
  <2>1. /\ Head(toHost) = Yes(calls) /\ toHost' = <<>>
        /\ used' = {calls}
    BY <1>4, <1>9, ReportIds
  <2>2. pc' = "sending" /\ UNCHANGED verdict
    BY <1>1, <1>9, <2>1, Accepted DEF AfterInitial
  <2>3. dev' = [mode |-> "recv", id |-> calls, left |-> Packets]
        /\ dev'.left = Packets
    BY <1>1, <1>9
  <2>4. toDev' = <<>> /\ Len(toDev') = 0 /\ got' = 0 /\ effect' = "none"
        /\ calls' = calls
    BY <1>1, <1>2, <1>9
  <2>5. Receiving'
    BY <1>3, <2>1, <2>3, <2>4 DEF Receiving
  <2>6. AllPackets'
    BY <2>4 DEF AllPackets
  <2>7. PipeInv'
    BY <1>1, <1>9, <2>2, <2>5, <2>6 DEF PipeInv, SendInv
  <2>8. HostInv'
    BY <1>1, <1>2, <2>1, <2>2 DEF HostInv, Busy
  <2> QED
    BY <2>7, <2>8
<1>10. CASE op = "write" /\ toDev = <<>> /\ Aborted
  <2>1. Head(toHost) = No(calls)
    BY <1>4, <1>10, ReportIds DEF Aborted
  <2>2. Raise
    BY <1>1, <2>1, Accepted
  <2> QED
    BY <1>10, <2>2, RaiseEnds
<1> QED
  BY <1>2, <1>5, <1>6, <1>7, <1>8, <1>9, <1>10 DEF InitialInv

\* A packet more is on its way.
LEMMA SendPacketPipes ==
    ASSUME TypeInv, PipeInv, HostInv, SendPacket PROVE PipeInv' /\ HostInv'
<1>1. /\ pc = "sending" /\ got' = got + 1
      /\ pc' = IF got + 1 = Packets THEN "final" ELSE "sending"
      /\ UNCHANGED <<toHost, dev, op, calls, used, effect, verdict>>
  BY DEF SendPacket, AllSent
<1>2. /\ SendInv /\ used = {calls} /\ verdict = "none"
      /\ got \in 0..Packets /\ got < Packets /\ calls \in 1..MaxCalls
      /\ toDev \in Seq(Requests) /\ dev.left \in 0..Packets
  BY <1>1 DEF PipeInv, HostInv, TypeInv, TypeOK, Busy
<1>3. PICK p : p = Packet(calls)
  OBVIOUS
<1>4. p \in Requests
  BY <1>2, <1>3, ReportTypes
<1>5. toDev' = Append(toDev, p)
  BY <1>1, <1>3 DEF SendPacket, Outgoing
<1>6. /\ Len(toDev) \in Nat /\ Len(toDev') = Len(toDev) + 1
      /\ \A i \in 1..Len(toDev) : toDev'[i] = toDev[i]
      /\ toDev'[Len(toDev) + 1] = p
  BY <1>2, <1>4, <1>5, QueueAppend
<1>7. AllPackets'
  <2>1. \A i \in 1..Len(toDev) : toDev[i] = Packet(calls)
    BY <1>2 DEF SendInv, AllPackets
  <2>2. \A i \in 1..Len(toDev') : toDev'[i] = Packet(calls)
    BY <1>3, <1>6, <2>1
  <2> QED
    BY <1>1, <2>2 DEF AllPackets
<1>8. SendInv'
  <2>1. CASE Receiving
    <3>1. Len(toDev) = got - (Packets - dev.left)
      BY <2>1 DEF Receiving
    <3>2. Len(toDev') = got' - (Packets - dev.left)
      BY <1>1, <1>2, <1>6, <3>1, McuBootAssumption
    <3>3. Receiving'
      BY <1>1, <2>1, <3>2 DEF Receiving
    <3> QED
      BY <1>1, <1>2, <1>7, <3>3 DEF SendInv
  <2>2. CASE Aborted
    BY <1>1, <1>2, <1>7, <2>2 DEF SendInv, Aborted
  <2> QED
    BY <1>2, <2>1, <2>2, McuBootAssumption DEF SendInv
<1>9. PipeInv'
  BY <1>1, <1>8 DEF PipeInv
<1>10. HostInv'
  BY <1>1, <1>2 DEF HostInv, Busy
<1> QED
  BY <1>9, <1>10

\* The answer to a transfer ends the command.
LEMMA GetFinalPipes ==
    ASSUME TypeInv, PipeInv, HostInv, GetFinal PROVE PipeInv' /\ HostInv'
<1>1. /\ pc = "final" /\ toHost # <<>> /\ Takes
      /\ UNCHANGED <<toDev, dev, op, got, calls, effect>>
      /\ IF Accepts(Head(toHost), op) THEN Success ELSE Raise
  BY DEF GetFinal
<1>2. SendInv /\ used = {calls}
  BY <1>1 DEF PipeInv, HostInv
<1>3. op = "write"
  BY <1>2 DEF SendInv
<1>4. CASE toHost = <<No(calls)>>
  <2>1. Head(toHost) = No(calls)
    BY <1>1, <1>4, TakeOne
  <2>2. Raise
    BY <1>1, <2>1, Accepted
  <2> QED
    BY <1>3, <2>2, RaiseEnds
<1>5. CASE /\ toHost = <<Yes(calls)>> /\ effect = "done"
           /\ toDev = <<>> /\ dev = Resting
  <2>1. /\ Head(toHost) = Yes(calls) /\ toHost' = <<>>
        /\ used' = used \cup {Yes(calls).id}
    BY <1>1, <1>5, TakeOne
  <2>2. Success
    BY <1>1, <2>1, Accepted
  <2>3. used' = {calls}
    BY <1>2, <2>1, ReportIds
  <2> QED
    BY <1>1, <1>5, <2>1, <2>2, <2>3, SuccessEnds
<1> QED
  BY <1>1, <1>2, <1>4, <1>5 DEF SendInv, Receiving, Aborted, Answered

\* Data is collected until there is enough or no more.
LEMMA CollectPipes ==
    ASSUME TypeInv, PipeInv, HostInv, Collect PROVE PipeInv' /\ HostInv'
<1>1. /\ pc = "collect" /\ toHost # <<>> /\ Takes
      /\ UNCHANGED <<toDev, dev, op, calls, effect, verdict>>
      /\ \/ /\ Head(toHost).kind = "data" /\ got' = got + 1
            /\ IF got + 1 = Packets THEN pc' = "drain" ELSE pc' = pc
         \/ /\ Head(toHost).kind # "data" /\ got' = got /\ pc' = "drain"
  BY DEF Collect, EndCollect
<1>2. /\ CollectInv /\ used = {calls} /\ verdict = "none"
      /\ got < Packets /\ got \in 0..Packets /\ Packets \in Nat
  BY <1>1, McuBootAssumption DEF PipeInv, HostInv, TypeInv, TypeOK, Busy
<1>3. op = "read" /\ Stream(0) /\ toDev = <<>>
  BY <1>1, <1>2 DEF CollectInv, Stream
<1>4. ASSUME used' = {calls}, CollectInv', pc' \in {"collect", "drain"}
      PROVE  PipeInv' /\ HostInv'
  <2>1. PipeInv'
    BY <1>4 DEF PipeInv
  <2>2. HostInv'
    BY <1>1, <1>2, <1>4 DEF HostInv, Busy
  <2> QED
    BY <2>1, <2>2
<1>5. CASE Head(toHost) = Data(calls) /\ (Streaming(0) \/ Len(toHost) > 1)
  <2>1. Head(toHost).kind = "data"
    BY <1>5, ReportKinds
  <2>2. /\ got' = got + 1
        /\ pc' = IF got + 1 = Packets THEN "drain" ELSE "collect"
    BY <1>1, <2>1
  <2>3. got' = got + 1 - 0
    BY <1>2, <2>2
  <2>4. toHost' = Tail(toHost) /\ used' = {calls}
    BY <1>1, <1>2, <1>5, ReportIds DEF Takes
  <2>5. Stream(0)'
    BY <1>1, <1>3, <1>5, <2>3, <2>4, StreamTake
  <2>6. CollectInv'
    BY <1>1, <1>3, <2>2, <2>5 DEF CollectInv
  <2> QED
    BY <1>4, <2>2, <2>4, <2>6
<1>6. CASE dev = Resting /\ toHost = <<No(calls)>>
  <2>1. /\ Head(toHost) = No(calls) /\ toHost' = <<>>
        /\ used' = used \cup {No(calls).id}
    BY <1>1, <1>6, TakeOne
  <2>2. used' = {calls} /\ Head(toHost).kind # "data"
    BY <1>2, <2>1, ReportIds, ReportKinds
  <2>3. pc' = "drain" /\ got' < Packets /\ Empty'
    BY <1>1, <1>2, <1>3, <1>6, <2>1, <2>2 DEF Empty
  <2>4. CollectInv'
    BY <1>1, <1>3, <2>3 DEF CollectInv
  <2> QED
    BY <1>4, <2>2, <2>3, <2>4
<1> QED
  BY <1>1, <1>2, <1>3, <1>5, <1>6, StreamHead

\* The report that is drained is the last one, and of this command.
LEMMA DrainPipes ==
    ASSUME TypeInv, PipeInv, HostInv, Drain PROVE PipeInv' /\ HostInv'
<1>1. /\ pc = "drain" /\ toHost # <<>> /\ Takes
      /\ UNCHANGED <<toDev, dev, op, got, calls, effect>>
      /\ IF got = Packets THEN Success ELSE Raise
  BY DEF Drain, EndRead
<1>2. CollectInv /\ used = {calls}
  BY <1>1 DEF PipeInv, HostInv
<1>3. Stream(0) /\ got = Packets
  BY <1>1, <1>2 DEF CollectInv, Empty
<1>4. /\ toDev = <<>> /\ dev = Resting /\ toHost = <<Yes(calls)>>
      /\ effect = "done"
  <2>1. ~ (got < Packets)
    BY <1>3, McuBootAssumption
  <2>2. toDev = <<>>
    BY <1>3 DEF Stream
  <2> QED
    BY <1>1, <1>3, <2>1, <2>2, StreamHead
<1>5. toHost' = <<>> /\ used' = used \cup {Yes(calls).id}
  BY <1>1, <1>4, TakeOne
<1>6. used' = {calls}
  BY <1>2, <1>5, ReportIds
<1> QED
  BY <1>1, <1>3, <1>4, <1>5, <1>6, SuccessEnds

\* What fails to come is the answer to a command that closes the session, or
\* a report after the data that there is none of.
LEMMA TimeoutPipes ==
    ASSUME LateReads = {}, TypeInv, PipeInv, HostInv, Timeout
    PROVE  PipeInv' /\ HostInv'
<1>1. /\ pc \in {"initial", "final", "collect", "drain"} /\ toHost = <<>>
      /\ UNCHANGED <<toDev, toHost, dev, op, got, calls, used, effect>>
      /\ op = "read" => toDev = <<>> /\ dev = Resting
      /\ \/ pc \in {"initial", "final"} /\ Raise
         \/ pc = "collect"
         \/ pc = "drain" /\ IF got = Packets THEN Success ELSE Raise
  BY DEF Timeout, pipes, Quiet, EndRead
<1>2. ~ Stream(0) \/ op # "read"
  <2>1. SUFFICES ASSUME op = "read", Streaming(0) \/ Streamed(0) PROVE FALSE
    BY DEF Stream
  <2>2. dev.mode = "idle" /\ Len(toHost) = 0
    BY <1>1, <2>1, RestingShape
  <2>3. CASE Streaming(0)
    <3>1. dev = [mode |-> "send", id |-> calls, left |-> dev.left]
      BY <2>3 DEF Streaming
    <3>2. dev.mode = "send"
      BY <3>1
    <3> QED
      BY <2>2, <3>2
  <2>4. CASE Streamed(0)
    <3>1. Len(toHost) > 0
      BY <2>4 DEF Streamed
    <3> QED
      BY <2>2, <3>1
  <2> QED
    BY <2>1, <2>3, <2>4
<1>3. CASE pc = "initial"
  <2>1. InitialInv
    BY <1>3 DEF PipeInv
  <2>2. op # "read"
    BY <1>1, <2>1 DEF InitialInv, Asked
  <2>3. Raise
    BY <1>1, <1>3
  <2> QED
    BY <2>2, <2>3, RaiseEnds
<1>4. CASE pc = "final"
  <2>1. op = "write"
    BY <1>4 DEF PipeInv, SendInv
  <2>2. Raise
    BY <1>1, <1>4
  <2> QED
    BY <2>1, <2>2, RaiseEnds
<1>5. CASE pc \in {"collect", "drain"}
  <2>1. CollectInv
    BY <1>5 DEF PipeInv
  <2>2. pc = "drain" /\ got < Packets /\ Empty
    BY <1>2, <2>1 DEF CollectInv
  <2>3. got # Packets
    BY <2>2, McuBootAssumption
  <2>4. Raise
    BY <1>1, <2>2, <2>3
  <2>5. Empty'
    BY <1>1, <2>2 DEF Empty
  <2> QED
    BY <2>4, <2>5, RaiseEnds
<1> QED
  BY <1>1, <1>3, <1>4, <1>5

LEMMA CallPipes ==
    ASSUME TypeInv, PipeInv, NEW o \in Ops, Call(o)
    PROVE  PipeInv' /\ HostInv'
<1>1. Empty'
  BY DEF Call, PipeInv, Empty, pipes
<1>2. PipeInv'
  BY <1>1 DEF Call, PipeInv
<1>3. HostInv'
  BY DEF Call, HostInv, Busy
<1> QED
  BY <1>2, <1>3

LEMMA SendCommandPipes ==
    ASSUME PipeInv, HostInv, SendCommand PROVE PipeInv' /\ HostInv'
<1>1. Empty /\ effect = "none"
  BY DEF SendCommand, PipeInv
<1>2. PICK c : c = Command(op, calls)
  OBVIOUS
<1>3. toDev' = <<c>>
  BY <1>1, <1>2, OneReport DEF SendCommand, Outgoing, Empty
<1>4. Asked'
  BY <1>1, <1>2, <1>3 DEF SendCommand, Empty, Asked
<1>5. PipeInv'
  BY <1>4 DEF SendCommand, PipeInv, InitialInv
<1>6. HostInv'
  BY DEF SendCommand, HostInv, Busy
<1> QED
  BY <1>5, <1>6

\* A report that may have gone out closes the session, one of a read did not.
LEMMA WriteFailsPipes ==
    ASSUME LateReads = {}, TypeInv, PipeInv, HostInv, WriteFails
    PROVE  PipeInv' /\ HostInv'
<1>1. Raise /\ UNCHANGED <<toHost, dev>>
  BY DEF WriteFails
<1>2. op = "read" => pc = "command" /\ UNCHANGED toDev
  BY DEF WriteFails, PipeInv, SendInv
<1>3. op = "read" => Empty'
  BY <1>1, <1>2 DEF PipeInv, Empty
<1> QED
  BY <1>1, <1>3, RaiseEnds

LEMMA ReopenPipes ==
    ASSUME HostInv, Reopen PROVE PipeInv' /\ HostInv'
<1>1. Empty' /\ pc' = "idle"
  BY DEF Reopen, Empty
<1>2. PipeInv'
  BY <1>1 DEF PipeInv
<1>3. HostInv'
  BY DEF Reopen, HostInv, Busy
<1> QED
  BY <1>2, <1>3
-----------------------------------------------------------------------------
(***************************************************************************)
(* The invariant, where no read fails with its answer still to come.       *)
(***************************************************************************)
LEMMA InitInv == Init => IInv
<1> SUFFICES ASSUME Init PROVE IInv
  OBVIOUS
<1>1. TypeInv
  BY InitType
<1>2. PipeInv
  BY DEF Init, PipeInv, Empty
<1>3. HostInv
  BY DEF Init, HostInv, Busy
<1> QED
  BY <1>1, <1>2, <1>3 DEF IInv

LEMMA NextInv ==
    ASSUME LateReads = {}, IInv, [Next]_vars
    PROVE  IInv'
<1>1. TypeInv /\ PipeInv /\ HostInv
  BY DEF IInv
<1>2. TypeInv'
  BY <1>1, NextType
<1>3. CASE Device
  BY <1>2, <1>3, DevicePipes DEF IInv
<1>4. CASE HostStep
  BY <1>1, <1>2, <1>4, SendCommandPipes, GetInitialPipes, SendPacketPipes,
     WriteFailsPipes, GetFinalPipes, CollectPipes, DrainPipes, TimeoutPipes
  DEF IInv, HostStep
<1>5. CASE \E o \in Ops : Call(o)
  BY <1>1, <1>2, <1>5, CallPipes DEF IInv
<1>6. CASE Reopen
  BY <1>1, <1>2, <1>6, ReopenPipes DEF IInv
<1>7. CASE UNCHANGED vars
  <2>1. UNCHANGED <<toDev, toHost, dev, pc, op, got, calls, used, verdict>>
        /\ effect' = effect
    BY <1>7 DEF vars, pipes, host
  <2>2. PipeInv'
    BY <1>1, <2>1
    DEF PipeInv, Empty, InitialInv, Asked, Answered, Aborted, Stream,
        Streaming, Streamed, SendInv, AllPackets, Receiving, CollectInv
  <2>3. HostInv'
    BY <1>1, <2>1 DEF HostInv
  <2> QED
    BY <1>2, <2>2, <2>3 DEF IInv
<1> QED
  BY <1>3, <1>4, <1>5, <1>6, <1>7 DEF Next

\* What is between host and device is always of the command under way: a
\* session that a late answer could reach has been closed.
THEOREM Invariance == ASSUME LateReads = {} PROVE Spec => []IInv
<1>1. IInv /\ [Next]_vars => IInv'
  BY NextInv
<1> QED
  BY <1>1, InitInv, PTL DEF Spec

\* Reports carry no sequence number, and yet the host takes none for the answer
\* to another command than the one it answers.
THEOREM RepliesCorrect == ASSUME LateReads = {} PROVE Spec => []RepliesAreOwn
<1>1. IInv => RepliesAreOwn
  BY DEF IInv, HostInv, RepliesAreOwn
<1> QED
  BY <1>1, Invariance, PTL

\* The one report read after the data is the last there is: a read that
\* returned leaves the pipes empty, and so does every other command.
THEOREM DrainCorrect == ASSUME LateReads = {} PROVE Spec => []DrainedOnSuccess
<1>1. IInv => DrainedOnSuccess
  BY DEF IInv, PipeInv, Empty, Quiet, DrainedOnSuccess
<1> QED
  BY <1>1, Invariance, PTL

\* An erase, a read or a write that returned was carried out.
THEOREM ReturnCorrect == ASSUME LateReads = {} PROVE Spec => []ReturnedWasDone
<1>1. IInv => ReturnedWasDone
  BY DEF IInv, HostInv, ReturnedWasDone
<1> QED
  BY <1>1, Invariance, PTL
-----------------------------------------------------------------------------
(***************************************************************************)
(* The session implements the interface SecureBoot builds on.              *)
(***************************************************************************)
\* What the steps of the host within a command make of it.
LEMMA HostShape ==
    ASSUME TypeInv, HostStep
    PROVE  /\ pc \in Busy /\ UNCHANGED effect
           /\ Ends \/ (pc' \in Busy /\ UNCHANGED verdict)
<1>1. CASE GetInitial
  <2>1. op \in Ops
    BY DEF TypeInv, TypeOK
  <2>2. \/ Ends /\ pc = "initial"
        \/ /\ pc = "initial" /\ op # "erase"
           /\ pc' = AfterInitial(op) /\ UNCHANGED verdict
    BY <1>1 DEF GetInitial, Ends
  <2>3. op # "erase" => AfterInitial(op) \in {"sending", "collect"}
    BY <2>1 DEF AfterInitial, Ops
  <2> QED
    BY <1>1, <2>2, <2>3 DEF GetInitial, Busy
<1>2. CASE SendPacket \/ SendCommand
  BY <1>2 DEF SendPacket, SendCommand, Busy
<1>3. CASE GetFinal \/ Drain
  BY <1>3 DEF GetFinal, Drain, EndRead, Ends, Busy
<1>4. CASE Collect
  BY <1>4 DEF Collect, EndCollect, Busy
<1>5. CASE Timeout
  BY <1>5 DEF Timeout, EndCollect, EndRead, Ends, Busy
<1>6. CASE WriteFails
  BY <1>6 DEF WriteFails, Ends, Busy
<1> QED
  BY <1>1, <1>2, <1>3, <1>4, <1>5, <1>6 DEF HostStep

LEMMA IspInit == Init => Isp!Init
BY DEF Init, Isp!Init

\* A step of the device executes the command or goes on with it; a step of the
\* host ends the command or waits on.
LEMMA IspNext ==
    ASSUME IInv, IInv', [Next]_vars
    PROVE  [Isp!Next]_(Isp!vars)
<1>1. TypeInv /\ PipeInv /\ HostInv /\ HostInv'
  BY DEF IInv
<1>2. CASE Device
  <2>1. UNCHANGED <<pc, verdict>> /\ (pc # "closed" => EffectOnce)
    BY <1>2, DeviceHost, DevicePipes DEF host
  <2>2. CASE verdict = "error"
    BY <2>1, <2>2 DEF Isp!vars
  <2>3. CASE verdict # "error" /\ effect' = effect
    BY <2>1, <2>3 DEF Isp!vars
  <2>4. CASE verdict # "error" /\ effect' # effect
    <3>1. pc \notin {"closed", "retry"}
      BY <1>1, <2>4 DEF HostInv
    <3>2. pc # "idle"
      BY <1>1, <1>2, NoDevice DEF PipeInv, Empty
    <3>3. effect = "none" /\ effect' \in {"done", "failed"}
      BY <2>1, <2>4, <3>1 DEF EffectOnce
    <3>4. Isp!Execute
      BY <2>1, <2>4, <3>1, <3>2, <3>3 DEF Isp!Execute
    <3> QED
      BY <3>4 DEF Isp!Next
  <2> QED
    BY <2>2, <2>3, <2>4
<1>3. CASE HostStep
  <2>1. /\ pc \in Busy /\ effect' = effect /\ verdict = "none"
        /\ Ends \/ (pc' \in Busy /\ UNCHANGED verdict)
    BY <1>1, <1>3, HostShape DEF HostInv
  <2>2. CASE Success
    <3>1. pc' = "idle" /\ verdict' = "success" /\ effect = "done"
      BY <1>1, <2>1, <2>2 DEF Success, HostInv
    <3>2. Isp!Return
      BY <2>1, <3>1 DEF Isp!Return, Busy
    <3> QED
      BY <3>2 DEF Isp!Next
  <2>3. CASE Raise
    <3>1. pc' \in {"retry", "closed"} /\ verdict' = "error"
      BY <2>3 DEF Raise
    <3>2. Isp!Raise
      BY <2>1, <3>1 DEF Isp!Raise, Busy
    <3> QED
      BY <3>2 DEF Isp!Next
  <2>4. CASE pc' \in Busy /\ UNCHANGED verdict
    BY <2>1, <2>4 DEF Isp!vars, Busy
  <2> QED
    BY <2>1, <2>2, <2>3, <2>4 DEF Ends
<1>4. CASE \E o \in Ops : Call(o)
  <2>1. /\ pc \in {"idle", "retry"} /\ pc' = "command"
        /\ effect' = "none" /\ verdict' = "none"
    BY <1>4 DEF Call
  <2>2. Isp!Call
    BY <2>1 DEF Isp!Call
  <2> QED
    BY <2>2 DEF Isp!Next
<1>5. CASE Reopen
  BY <1>5 DEF Reopen, Isp!vars
<1>6. CASE UNCHANGED vars
  BY <1>6 DEF vars, host, Isp!vars
<1> QED
  BY <1>2, <1>3, <1>4, <1>5, <1>6 DEF Next

\* As long as no read fails with its answer still to come, packets and reports,
\* read one at a time, implement commands that are carried out or not, and are
\* done when they return.
THEOREM Implementation == ASSUME LateReads = {} PROVE Spec => ImplementsIsp
<1>1. IInv /\ IInv' /\ [Next]_vars => [Isp!Next]_(Isp!vars)
  BY IspNext
<1> QED
  BY <1>1, IspInit, Invariance, PTL DEF Spec, ImplementsIsp, Isp!Spec
=============================================================================
