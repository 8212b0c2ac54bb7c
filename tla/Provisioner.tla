----------------------------- MODULE Provisioner -----------------------------
(***************************************************************************)
(* One ProvisionerSession (provisioner.py).  Every public call connects,   *)
(* selects the provisioner, sends its APDUs and closes, whatever happened. *)
(***************************************************************************)
EXTENDS SmartCard

CONSTANTS Contents     \* what files are written with: sequences of chunks

ASSUME ContentsAssumption ==
    \A d \in Contents : d \in Seq(Chunks) /\ Len(d) <= DataCap

VARIABLES
    ppc,       \* "idle", or the next APDU of the call
    op,        \* the call: "write", or one of a single APDU
    path,      \* the file to write
    contents,  \* what to write to it
    left,      \* chunks still to send
    presult,   \* how the last call ended
    onTop      \* did the buffers hold something when the call began?

prov == <<ppc, op, path, contents, left, presult, onTop>>

SingleOps == {"key", "alias", "format"}
Results   == {"written", "done", "error"}

ProvInit ==
    /\ ppc = "idle" /\ op = "key" /\ path \in FilePaths /\ contents = <<>>
    /\ left = <<>> /\ presult = "none" /\ onTop = FALSE

ProvTypeOK ==
    /\ ppc \in {"idle", "connect", "connect again", "name", "path",
                "contents", "chunks", "commit", "single"}
    /\ op \in SingleOps \cup {"write"}
    /\ path \in FilePaths /\ contents \in Seq(Chunks) /\ left \in Seq(Chunks)
    /\ presult \in Results \cup {"none"} /\ onTop \in BOOLEAN

Begin ==
    /\ ppc = "idle" /\ ppc' = "connect" /\ presult' = "none"
    /\ onTop' = (card.name # <<>> \/ card.data # <<>>)
    /\ card' = [card EXCEPT !.stored = NoFile]
    /\ UNCHANGED faults

\* generate_key and store_certificate ("key", or "alias" for GEN_X25519),
\* store_t1_pubkey ("alias") and reformat_filesystem are one APDU.
PSingle(k) ==
    /\ Begin /\ op' = k
    /\ contents' = <<>> /\ left' = <<>> /\ UNCHANGED path

PWriteFile(p, d) ==
    /\ Begin /\ op' = "write"
    /\ path' = p /\ contents' = d /\ left' = d

\* The finally clause: close, with the card as the last APDU left it.
PEnds(result, c) ==
    /\ ppc' = "idle" /\ presult' = result /\ card' \in PoweredDown(c)
    /\ left' = <<>>

\* Mutant: an APDU's status is not looked at.
StatusIgnored(sw) == sw # "lost"

StatusOk(sw) == sw = "ok"

\* One APDU of the call; nxt is the next or the result, rest
\* what is then left to send.
PSends(a, nxt, rest) ==
    /\ \E r \in Outcomes(a) :
         /\ Answered(a, r)
         /\ \/ ~ StatusOk(r.sw) /\ PEnds("error", r.card)
            \/ StatusOk(r.sw) /\ nxt \in Results /\ PEnds(nxt, r.card)
            \/ /\ StatusOk(r.sw) /\ nxt \notin Results
               /\ ppc' = nxt /\ card' = r.card /\ left' = rest
               /\ UNCHANGED presult
    /\ UNCHANGED <<op, path, contents, onTop>>

AfterConnect == IF op = "write" THEN "name" ELSE "single"

\* _ensure_connected: the first APDU of a call finds no connection.  SELECT is
\* tried with and without Le, unless the first try raises.
PConnect ==
    /\ ppc = "connect"
    /\ \E r \in Outcomes(Select("provisioner")) :
         /\ Answered(Select("provisioner"), r)
         /\ IF r.sw = "lost"
              THEN PEnds("error", r.card)
              ELSE /\ ppc' = IF r.sw = "ok" THEN AfterConnect
                                            ELSE "connect again"
                   /\ card' = r.card /\ UNCHANGED <<left, presult>>
    /\ UNCHANGED <<op, path, contents, onTop>>

PConnectAgain ==
    /\ ppc = "connect again"
    /\ PSends(Select("provisioner"), AfterConnect, left)

PRequest ==
    /\ ppc = "single" /\ PSends(Request(op), "done", left)

PName ==
    /\ ppc = "name" /\ PSends(Buffer("name"), "path", left)

PPath ==
    /\ ppc = "path" /\ PSends(Write(path), "contents", left)

\* Mutant: the commit goes out before the last chunk.
CommitsEarly(n) == IF n <= 1 THEN "commit" ELSE "chunks"

\* Where _write_binary goes with n chunks to send.
NextWrite(n) == IF n = 0 THEN "commit" ELSE "chunks"

PContents ==
    /\ ppc = "contents" /\ PSends(Buffer("data"), NextWrite(Len(left)), left)

PChunk ==
    /\ ppc = "chunks"
    /\ PSends(Write(Head(left)), NextWrite(Len(left) - 1), Tail(left))

PCommit ==
    /\ ppc = "commit" /\ PSends(Request("commit"), "written", left)

ProvStep ==
    \/ PConnect \/ PConnectAgain \/ PRequest
    \/ PName \/ PPath \/ PContents \/ PChunk \/ PCommit

ProvCalls ==
    \/ \E k \in SingleOps : PSingle(k)
    \/ \E p \in FilePaths, d \in Contents : PWriteFile(p, d)
=============================================================================
