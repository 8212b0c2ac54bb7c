-------------------------- MODULE CardClientsProofs --------------------------
(***************************************************************************)
(* Proofs about CardClients, for any files, buffer sizes, failures and     *)
(* calls: what the connection believes of the card's selection, that a     *)
(* reply is whole, and that write_file writes what it was given.           *)
(***************************************************************************)
EXTENDS CardClients, SequenceTheorems, TLAPS

\* The same buffers and files: most APDUs touch neither.
SameFiles(c, d) ==
    /\ d.name = c.name /\ d.data = c.data
    /\ d.active = c.active /\ d.stored = c.stored

\* What the connection remembers is selected, unless someone else took the
\* card or an APDU failed in a way it does not know about.
RememberInv ==
    /\ cpc = "closed" => remembered = None
    /\ remembered # None => card.applet = remembered \/ crossed \/ unsure
    /\ cpc = "send" => remembered = AidOf(want)

\* The provisioner's applet answers an open connection only once it crossed.
ForeignInv ==
    cpc # "closed" /\ card.applet = "provisioner" => crossed

\* A reply is cut in two only where the second piece is fetched.
ReplyInv ==
    /\ cpc = "more" =>
         got = 1 /\ Pieces(want) = 2 /\ (doneBy = AidOf(want) \/ crossed)
    /\ cresult = "ok" => cpc = "open"
    /\ WholeReply

ConnInv == ConnTypeOK /\ RememberInv /\ ForeignInv /\ ReplyInv

\* Where a call of the provisioner is in its sequence of APDUs.
CallInv ==
    /\ ppc \in {"name", "path", "contents", "chunks", "commit"} => op = "write"
    /\ ppc = "single" => op \in SingleOps
    /\ ppc = "path" => card.active = "name"
    /\ ppc = "chunks" => card.active = "data" /\ left # <<>>
    /\ presult = "written" => ppc = "idle"

\* What the buffers hold on the way, if they were empty at the start.
BufferInv ==
    ~ onTop /\ op = "write" =>
        /\ ppc \in {"connect", "connect again", "name", "path"} =>
             card.name = <<>> /\ card.data = <<>> /\ left = contents
        /\ ppc = "contents" =>
             card.name = <<path>> /\ card.data = <<>> /\ left = contents
        /\ ppc = "chunks" =>
             card.name = <<path>> /\ card.data \o left = contents
        /\ ppc = "commit" => card.name = <<path>> /\ card.data = contents

ProvInv == ProvTypeOK /\ CallInv /\ BufferInv /\ WritesGiven

IInv == CardTypeOK /\ ConnInv /\ ProvInv /\ uses \in 0..MaxUses
-----------------------------------------------------------------------------
(***************************************************************************)
(* What the card makes of an APDU.                                         *)
(***************************************************************************)
\* How many pieces are pending concerns no file and no selection.
LEMMA PendingKeeps ==
    ASSUME NEW c \in Cards, NEW n \in {0, 1},
           NEW d, d = [c EXCEPT !.pending = n]
    PROVE  /\ d \in Cards /\ SameFiles(c, d)
           /\ d.applet = c.applet /\ d.pending = n
BY DEF Cards, SameFiles

\* Nor does a selection concern the files.
LEMMA SelectionKeeps ==
    ASSUME NEW c \in Cards, NEW a \in Applets \cup {"none"},
           NEW d, d = [c EXCEPT !.applet = a, !.pending = 0]
    PROVE  d \in Cards /\ SameFiles(c, d) /\ d.applet = a
<1>1. PICK e : e = [c EXCEPT !.applet = a]
  OBVIOUS
<1>2. e \in Cards /\ SameFiles(c, e) /\ e.applet = a
  BY <1>1 DEF Cards, SameFiles
<1>3. d = [e EXCEPT !.pending = 0]
  BY <1>1
<1>4. d \in Cards /\ SameFiles(e, d) /\ d.applet = e.applet
  BY <1>2, <1>3, PendingKeeps
<1> QED
  BY <1>2, <1>4 DEF SameFiles

\* Powering down takes the selection away and nothing else.
LEMMA PoweredDownKeeps ==
    ASSUME NEW c \in Cards, NEW d \in PoweredDown(c)
    PROVE  /\ d \in Cards /\ SameFiles(c, d)
           /\ d.applet \in {c.applet, "none"}
<1>1. CASE d = c
  BY <1>1 DEF SameFiles
<1>2. CASE d = [c EXCEPT !.applet = "none", !.pending = 0]
  BY <1>2, SelectionKeeps
<1> QED
  BY <1>1, <1>2 DEF PoweredDown

\* A SELECT touches no buffer; the connection hears "ok" only of one that
\* selected what it asked for.
LEMMA SelectOutcome ==
    ASSUME card \in Cards, NEW aid \in Applets,
           NEW r \in Outcomes(Select(aid))
    PROVE  /\ r.card \in Cards /\ SameFiles(card, r.card)
           /\ r.sw \in {"ok", "6f00", "lost"}
           /\ r.sw = "ok" => r.card.applet = aid
           /\ r.sw = "6f00" => r.card.applet = card.applet
           /\ r.card.applet \in {card.applet, aid}
<1>1. PICK sel : sel = [card EXCEPT !.applet = aid, !.pending = 0]
  OBVIOUS
<1>2. PICK same : same = [card EXCEPT !.pending = 0]
  OBVIOUS
<1>3. sel \in Cards /\ SameFiles(card, sel) /\ sel.applet = aid
  BY <1>1, SelectionKeeps
<1>4. same \in Cards /\ SameFiles(card, same) /\ same.applet = card.applet
  BY <1>2, PendingKeeps
<1>5. Execute(Select(aid), card) = [sw |-> "ok", card |-> sel]
  BY <1>1 DEF Execute, Select, Reply
<1>6. r \in {[sw |-> "ok", card |-> sel], [sw |-> "6f00", card |-> same],
             [sw |-> "lost", card |-> card], [sw |-> "lost", card |-> sel]}
  BY <1>2, <1>5 DEF Outcomes, Trouble, Reply, Select
<1>7. SameFiles(card, card)
  BY DEF SameFiles
<1> QED
  BY <1>3, <1>4, <1>6, <1>7

\* A command of the connection touches no buffer either.  Only its own applet
\* and the provisioner's can have understood it.
LEMMA CommandOutcome ==
    ASSUME card \in Cards, NEW k \in Commands \cup {"get"},
           NEW r \in Outcomes(Request(k))
    PROVE  /\ r.card \in Cards /\ SameFiles(card, r.card)
           /\ r.sw \in {"ok", "more", "refused", "6f00", "lost"}
           /\ r.card.applet \in {card.applet, "none"}
           /\ r.sw # "6f00" => r.card.applet = card.applet
           /\ k = "get" => r.sw # "more"
           /\ k \in Commands /\ r.sw \in {"ok", "more"} =>
                /\ card.applet \in {AidOf(k), "provisioner"}
                /\ Pieces(k) = IF r.sw = "ok" THEN 1 ELSE 2
<1>1. PICK x : x = Execute(Request(k), card)
  OBVIOUS
<1>2. SameFiles(card, card)
  BY DEF SameFiles
<1>3. /\ x.card \in Cards /\ SameFiles(card, x.card)
      /\ x.card.applet = card.applet
      /\ x.sw \in {"ok", "more", "refused"}
      /\ k = "get" => x.sw # "more"
      /\ k \in Commands /\ x.sw \in {"ok", "more"} =>
           /\ card.applet \in {AidOf(k), "provisioner"}
           /\ Pieces(k) = IF x.sw = "ok" THEN 1 ELSE 2
  <2>1. CASE k = "get"
    <3>1. /\ x.card \in {card, [card EXCEPT !.pending = 0]}
          /\ x.sw \in {"ok", "refused"}
      BY <1>1, <2>1 DEF Execute, Request, Reply
    <3>2. x.card = [card EXCEPT !.pending = 0] =>
            x.card \in Cards /\ SameFiles(card, x.card)
                          /\ x.card.applet = card.applet
      BY <1>2, PendingKeeps, Zenon
    <3> QED
      BY <1>2, <2>1, <3>1, <3>2 DEF Commands
  <2>2. CASE k \in Commands /\ Understands(card.applet, Request(k))
    <3>1. card.applet \in {AidOf(k), "provisioner"}
      <4>1. k # "alias"
        BY <2>2 DEF Commands
      <4> QED
        BY <2>2, <4>1 DEF Understands, AidOf, Request
    <3>2. Pieces(k) \in {1, 2}
      BY DEF Pieces
    <3>3. PICK d : d = [card EXCEPT !.pending = Pieces(k) - 1]
      OBVIOUS
    <3>4. x = [sw |-> IF d.pending > 0 THEN "more" ELSE "ok", card |-> d]
      BY <1>1, <2>2, <3>3 DEF Execute, Handle, Request, Commands, Reply
    <3>5. /\ d \in Cards /\ SameFiles(card, d) /\ d.applet = card.applet
          /\ d.pending = Pieces(k) - 1
      <4>1. Pieces(k) - 1 \in {0, 1}
        BY <3>2
      <4> QED
        BY <3>3, <4>1, PendingKeeps, Zenon
    <3> QED
      BY <2>2, <3>1, <3>2, <3>4, <3>5 DEF Commands
  <2>3. CASE k \in Commands /\ ~ Understands(card.applet, Request(k))
    <3>1. x.sw = "refused" /\ x.card = [card EXCEPT !.pending = 0]
      BY <1>1, <2>3 DEF Execute, Request, Commands, Reply
    <3>2. /\ x.card \in Cards /\ SameFiles(card, x.card)
          /\ x.card.applet = card.applet
      BY <1>2, <3>1, PendingKeeps, Zenon
    <3> QED
      BY <2>3, <3>1, <3>2 DEF Commands
  <2> QED
    BY <2>1, <2>2, <2>3
<1>4. \/ r = x
      \/ r.sw = "6f00" /\ \E d \in PoweredDown(card) :
                            r.card = [d EXCEPT !.pending = 0]
      \/ r.sw = "lost" /\ r.card \in {card, x.card}
  BY <1>1 DEF Outcomes, Trouble, Reply, Request, Commands
<1>5. CASE r.sw = "6f00"
  <2>1. PICK d \in PoweredDown(card) : r.card = [d EXCEPT !.pending = 0]
    BY <1>3, <1>4, <1>5
  <2>2. d \in Cards /\ SameFiles(card, d) /\ d.applet \in {card.applet, "none"}
    BY PoweredDownKeeps
  <2> QED
    BY <1>5, <2>1, <2>2, PendingKeeps DEF SameFiles
<1> QED
  BY <1>2, <1>3, <1>4, <1>5

\* A failure counts within its bound.
LEMMA AnsweredFaults ==
    ASSUME CardTypeOK, NEW a, NEW r, Answered(a, r)
    PROVE  faults' \in 0..MaxFaults
BY CardAssumption DEF CardTypeOK, Answered
-----------------------------------------------------------------------------
(***************************************************************************)
(* The steps of the connection.  Each leaves the provisioner's files alone *)
(* and keeps what the connection believes.                                 *)
(***************************************************************************)
ConnKeeps == CardTypeOK' /\ SameFiles(card, card') /\ ConnInv'

\* A card with the same files fits the buffers as well as before.
LEMMA SameFilesType ==
    ASSUME CardTypeOK, card' \in Cards, SameFiles(card, card'),
           faults' \in 0..MaxFaults
    PROVE  CardTypeOK'
BY DEF CardTypeOK, SameFiles

\* Opening a connection selects what was asked for, or leaves it closed.
LEMMA OpenStep ==
    ASSUME CardTypeOK, ConnInv, NEW aid \in {"admin", "secrets"}, COpen(aid)
    PROVE  ConnKeeps
<1>1. PICK r \in Outcomes(Select(aid)) :
         /\ Answered(Select(aid), r)
         /\ IF r.sw = "ok"
              THEN Selected(aid, r.sw) /\ cpc' = "open" /\ card' = r.card
              ELSE /\ card' \in PoweredDown(r.card)
                   /\ UNCHANGED <<cpc, remembered, unsure, crossed>>
  BY DEF COpen
<1>2. /\ cpc = "closed" /\ cresult' = "none"
      /\ UNCHANGED <<want, resent, got, doneBy>>
  BY DEF COpen
<1>3. aid \in Applets /\ card \in Cards
  BY DEF Applets, CardTypeOK
<1>4. /\ r.card \in Cards /\ SameFiles(card, r.card)
      /\ r.sw = "ok" => r.card.applet = aid
  BY <1>3, SelectOutcome
<1>5. card' \in Cards /\ SameFiles(card, card')
  BY <1>1, <1>4, PoweredDownKeeps DEF SameFiles
<1>6. ConnInv'
  <2>1. CASE r.sw = "ok"
    BY <1>1, <1>2, <1>3, <1>4, <2>1
    DEF ConnInv, ConnTypeOK, RememberInv, ForeignInv, ReplyInv, WholeReply,
        Selected
  <2>2. CASE r.sw # "ok"
    BY <1>1, <1>2, <2>2
    DEF ConnInv, ConnTypeOK, RememberInv, ForeignInv, ReplyInv, WholeReply
  <2> QED
    BY <2>1, <2>2
<1> QED
  BY <1>1, <1>5, <1>6, AnsweredFaults, SameFilesType DEF ConnKeeps

\* Nothing is believed of a connection that is closed or lost.
LEMMA ForgottenInv ==
    ASSUME Forgotten
    PROVE  ConnInv'
<1>1. ConnTypeOK'
  <2>1. resent' \in BOOLEAN /\ unsure' \in BOOLEAN /\ crossed' \in BOOLEAN
    BY Zenon DEF Forgotten
  <2> QED
    BY <2>1 DEF Forgotten, ConnTypeOK, Commands
<1>2. RememberInv'
  BY DEF Forgotten, RememberInv
<1>3. ForeignInv' /\ ReplyInv'
  BY DEF Forgotten, ForeignInv, ReplyInv, WholeReply
<1> QED
  BY <1>1, <1>2, <1>3 DEF ConnInv

\* A call starts with a SELECT unless its applet is remembered.
LEMMA CallStep ==
    ASSUME CardTypeOK, ConnInv, NEW k \in Commands, CCall(k)
    PROVE  ConnKeeps
<1>1. CardTypeOK' /\ SameFiles(card, card')
  BY DEF CCall, CardTypeOK, SameFiles
<1>2. ConnTypeOK'
  <2>1. resent' \in BOOLEAN
    BY Zenon DEF CCall
  <2> QED
    BY <2>1 DEF CCall, ghost, ConnInv, ConnTypeOK
<1>3. RememberInv'
  BY DEF CCall, ghost, ConnInv, RememberInv
<1>4. ForeignInv' /\ ReplyInv'
  BY DEF CCall, ghost, ConnInv, ForeignInv, ReplyInv, WholeReply
<1> QED
  BY <1>1, <1>2, <1>3, <1>4 DEF ConnKeeps, ConnInv

\* After a SELECT the applet is selected, or the call has raised.
LEMMA SelectStep ==
    ASSUME CardTypeOK, ConnInv, CSelect
    PROVE  ConnKeeps
<1>1. PICK r \in Outcomes(Select(AidOf(want))) :
         /\ Answered(Select(AidOf(want)), r) /\ card' = r.card
         /\ Selected(AidOf(want), r.sw)
         /\ IF r.sw = "ok" THEN cpc' = "send" /\ UNCHANGED cresult
                           ELSE CRaises
  BY DEF CSelect
<1>2. cpc = "select" /\ UNCHANGED <<want, resent, got, doneBy>>
  BY DEF CSelect
<1>3. AidOf(want) \in Applets /\ card \in Cards /\ AidOf(want) # "provisioner"
  BY DEF ConnInv, ConnTypeOK, Commands, AidOf, MeantFor, Request, Applets,
         CardTypeOK
<1>4. /\ r.card \in Cards /\ SameFiles(card, r.card)
      /\ r.sw \in {"ok", "6f00", "lost"}
      /\ r.sw = "ok" => r.card.applet = AidOf(want)
      /\ r.sw = "6f00" => r.card.applet = card.applet
      /\ r.card.applet \in {card.applet, AidOf(want)}
  BY <1>3, SelectOutcome
<1>5. ConnInv'
  <2>1. CASE r.sw = "ok"
    BY <1>1, <1>2, <1>3, <1>4, <2>1
    DEF ConnInv, ConnTypeOK, RememberInv, ForeignInv, ReplyInv, WholeReply,
        Selected
  <2>2. CASE r.sw # "ok"
    BY <1>1, <1>2, <1>3, <1>4, <2>2
    DEF ConnInv, ConnTypeOK, RememberInv, ForeignInv, ReplyInv, WholeReply,
        Selected, CRaises
  <2> QED
    BY <2>1, <2>2
<1> QED
  BY <1>1, <1>4, <1>5, AnsweredFaults, SameFilesType DEF ConnKeeps

\* Whoever the card answers, a command that was understood went to its own
\* applet unless the other client had taken the card.
LEMMA SendStep ==
    ASSUME CardTypeOK, ConnInv, CSend
    PROVE  ConnKeeps
<1>1. PICK r \in Outcomes(Request(want)) :
         /\ Answered(Request(want), r) /\ card' = r.card
         /\ CTakes(r.sw)
  BY DEF CSend
<1>2. /\ cpc = "send" /\ got' = 1 /\ doneBy' = card.applet
      /\ UNCHANGED <<want, crossed>>
  BY DEF CSend, StartsOver
<1>3. want \in Commands /\ card \in Cards
  BY DEF ConnInv, ConnTypeOK, CardTypeOK
<1>4. /\ r.card \in Cards /\ SameFiles(card, r.card)
      /\ r.sw \in {"ok", "more", "refused", "6f00", "lost"}
      /\ r.card.applet \in {card.applet, "none"}
      /\ r.sw # "6f00" => r.card.applet = card.applet
      /\ r.sw \in {"ok", "more"} =>
           /\ card.applet \in {AidOf(want), "provisioner"}
           /\ Pieces(want) = IF r.sw = "ok" THEN 1 ELSE 2
  BY <1>3, CommandOutcome
<1>5. card.applet \in Applets \cup {"none"}
  BY <1>3 DEF Cards
<1>6. ConnTypeOK'
  <2>1. resent' \in BOOLEAN /\ unsure' \in BOOLEAN
    BY <1>1, Zenon DEF CTakes, ConnInv, ConnTypeOK
  <2> QED
    BY <1>1, <1>2, <1>5, <2>1
    DEF ConnInv, ConnTypeOK, CTakes, CRaises, Succeeded, AfterTransient
<1>7. RememberInv'
  <2>1. cpc' \notin {"send", "closed"}
    BY <1>1 DEF CTakes, CRaises, AfterTransient
  <2>2. remembered' = remembered \/ remembered' = None
    BY <1>1 DEF CTakes
  <2>3. unsure' = unsure \/ unsure' = (unsure \/ r.sw # "refused")
    BY <1>1 DEF CTakes
  <2>4. unsure => unsure'
    BY <2>3
  <2>5. r.sw = "6f00" => remembered' = None \/ unsure'
    BY <1>1 DEF CTakes, Succeeded
  <2> QED
    BY <1>1, <1>2, <1>4, <2>1, <2>2, <2>4, <2>5 DEF ConnInv, RememberInv
<1>8. ForeignInv'
  BY <1>1, <1>2, <1>4 DEF ConnInv, ForeignInv
<1>9. ReplyInv'
  <2>1. r.sw \in {"ok", "more"} => doneBy' = AidOf(want) \/ crossed
    BY <1>2, <1>4 DEF ConnInv, ForeignInv
  <2>2. cresult # "ok"
    BY <1>2 DEF ConnInv, ReplyInv
  <2> QED
    BY <1>1, <1>2, <1>4, <2>1, <2>2
    DEF ReplyInv, WholeReply, CTakes, CRaises, Succeeded, AfterTransient
<1> QED
  BY <1>1, <1>4, <1>6, <1>7, <1>8, <1>9, AnsweredFaults, SameFilesType
  DEF ConnKeeps, ConnInv

\* The second piece completes the reply.
LEMMA MoreStep ==
    ASSUME CardTypeOK, ConnInv, CMore
    PROVE  ConnKeeps
<1>1. PICK r \in Outcomes(Request("get")) :
         /\ Answered(Request("get"), r) /\ card' = r.card
         /\ CTakes(r.sw)
         /\ got' = IF r.sw = "ok" THEN got + 1 ELSE got
  BY DEF CMore
<1>2. cpc = "more" /\ UNCHANGED <<want, doneBy, crossed>>
  BY DEF CMore
<1>3. card \in Cards
  BY DEF CardTypeOK
<1>4. /\ r.card \in Cards /\ SameFiles(card, r.card)
      /\ r.sw \in {"ok", "refused", "6f00", "lost"}
      /\ r.card.applet \in {card.applet, "none"}
      /\ r.sw # "6f00" => r.card.applet = card.applet
  BY <1>3, CommandOutcome
<1>5. got = 1 /\ Pieces(want) = 2 /\ (doneBy = AidOf(want) \/ crossed)
  BY <1>2 DEF ConnInv, ReplyInv
<1>6. ConnTypeOK'
  <2>1. resent' \in BOOLEAN /\ unsure' \in BOOLEAN
    BY <1>1, Zenon DEF CTakes, ConnInv, ConnTypeOK
  <2> QED
    BY <1>1, <1>2, <1>5, <2>1
    DEF ConnInv, ConnTypeOK, CTakes, CRaises, Succeeded, AfterTransient
<1>7. RememberInv'
  <2>1. cpc' \notin {"send", "closed"}
    BY <1>1 DEF CTakes, CRaises, AfterTransient
  <2>2. remembered' = remembered \/ remembered' = None
    BY <1>1 DEF CTakes
  <2>3. unsure' = unsure \/ unsure' = (unsure \/ r.sw # "refused")
    BY <1>1 DEF CTakes
  <2>4. unsure => unsure'
    BY <2>3
  <2>5. r.sw = "6f00" => remembered' = None \/ unsure'
    BY <1>1 DEF CTakes, Succeeded
  <2> QED
    BY <1>1, <1>2, <1>4, <2>1, <2>2, <2>4, <2>5 DEF ConnInv, RememberInv
<1>8. ForeignInv'
  BY <1>1, <1>2, <1>4 DEF ConnInv, ForeignInv
<1>9. ReplyInv'
  <2>1. cresult # "ok"
    BY <1>2 DEF ConnInv, ReplyInv
  <2> QED
    BY <1>1, <1>2, <1>4, <1>5, <2>1
    DEF ReplyInv, WholeReply, CTakes, CRaises, Succeeded, AfterTransient
<1> QED
  BY <1>1, <1>4, <1>6, <1>7, <1>8, <1>9, AnsweredFaults, SameFilesType
  DEF ConnKeeps, ConnInv

\* Closing keeps the files and forgets the rest.
LEMMA CloseStep ==
    ASSUME CardTypeOK, CClose
    PROVE  ConnKeeps
<1>1. card' \in Cards /\ SameFiles(card, card')
  BY PoweredDownKeeps DEF CClose, CardTypeOK
<1>2. faults' \in 0..MaxFaults
  BY DEF CClose, CardTypeOK
<1> QED
  BY <1>1, <1>2, SameFilesType, ForgottenInv DEF CClose, ConnKeeps

\* What the provisioner's session knows is none of the connection's business.
LEMMA ProvKept ==
    ASSUME ProvInv, SameFiles(card, card'), UNCHANGED prov
    PROVE  ProvInv'
BY DEF ProvInv, ProvTypeOK, CallInv, BufferInv, WritesGiven, Exact, SameFiles,
       prov

\* Nor does the connection believe more than it may when the provisioner
\* takes the card from it: that is what crossed records.
LEMMA ConnKept ==
    ASSUME ConnInv, UNCHANGED <<conn, doneBy, unsure>>, Crosses
    PROVE  ConnInv'
<1>1. crossed' \in BOOLEAN
  BY Zenon DEF Crosses
<1>2. crossed => crossed'
  BY DEF Crosses
<1>3. card'.applet = card.applet \/ cpc = "closed" \/ crossed'
  BY DEF Crosses
<1>4. ConnTypeOK'
  BY <1>1 DEF ConnInv, ConnTypeOK, conn
<1>5. RememberInv' /\ ForeignInv' /\ ReplyInv'
  BY <1>2, <1>3
  DEF ConnInv, RememberInv, ForeignInv, ReplyInv, WholeReply, conn
<1> QED
  BY <1>4, <1>5 DEF ConnInv
-----------------------------------------------------------------------------
(***************************************************************************)
(* The steps of the provisioner.                                           *)
(***************************************************************************)
\* Cards whose buffers are not overfull.
Fitting ==
    {c \in Cards : Len(c.name) <= NameCap /\ Len(c.data) <= DataCap}

\* One field of a card changes: the card is a card, the others are kept.
LEMMA ActiveKeeps ==
    ASSUME NEW c \in Fitting, NEW v \in {"name", "data"},
           NEW d, d = [c EXCEPT !.active = v]
    PROVE  /\ d \in Fitting /\ d.active = v /\ d.pending = c.pending
           /\ d.name = c.name /\ d.data = c.data /\ d.stored = c.stored
BY DEF Fitting, Cards

LEMMA StoredKeeps ==
    ASSUME NEW c \in Fitting, NEW f \in Files,
           NEW d, d = [c EXCEPT !.stored = f]
    PROVE  /\ d \in Fitting /\ d.stored = f /\ d.active = c.active
           /\ d.name = c.name /\ d.data = c.data /\ d.pending = c.pending
BY DEF Fitting, Cards

LEMMA NameKeeps ==
    ASSUME NEW c \in Fitting, NEW n \in Seq(FilePaths), Len(n) <= NameCap,
           NEW d, d = [c EXCEPT !.name = n]
    PROVE  /\ d \in Fitting /\ d.name = n /\ d.active = c.active
           /\ d.data = c.data /\ d.stored = c.stored /\ d.pending = c.pending
BY DEF Fitting, Cards

LEMMA DataKeeps ==
    ASSUME NEW c \in Fitting, NEW x \in Seq(Chunks), Len(x) <= DataCap,
           NEW d, d = [c EXCEPT !.data = x]
    PROVE  /\ d \in Fitting /\ d.data = x /\ d.active = c.active
           /\ d.name = c.name /\ d.stored = c.stored /\ d.pending = c.pending
BY DEF Fitting, Cards

\* A reply of one piece, or of none, leaves a fitting card fitting.
LEMMA AnswerKeeps ==
    ASSUME NEW c \in Fitting, NEW d, d = [c EXCEPT !.pending = 0]
    PROVE  d \in Fitting /\ SameFiles(c, d) /\ d.pending = 0
<1>1. c \in Cards
  BY DEF Fitting
<1>2. d \in Cards /\ SameFiles(c, d) /\ d.pending = 0
  BY <1>1, PendingKeeps
<1> QED
  BY <1>2 DEF Fitting, SameFiles

\* SELECT, for the provisioner.
LEMMA SelectExecute ==
    ASSUME card \in Fitting,
           NEW x, x = Execute(Select("provisioner"), card)
    PROVE  x.card \in Fitting /\ SameFiles(card, x.card)
<1>1. x \in Outcomes(Select("provisioner")) /\ "provisioner" \in Applets
  BY DEF Outcomes, Applets
<1>2. x.card \in Cards /\ SameFiles(card, x.card)
  BY <1>1, SelectOutcome DEF Fitting
<1> QED
  BY <1>2 DEF Fitting, SameFiles

\* An answer in as many pieces as are pending.
Piece(c) == Reply(IF c.pending > 0 THEN "more" ELSE "ok", c)

Formatted(c) == [c EXCEPT !.stored = NoFile]
Activated(c, id) == [c EXCEPT !.active = id]

\* An APDU for the provisioner is refused, or answered in one piece: by its own
\* applet or, where the INS bytes are the same, by another.
LEMMA ProvExecute ==
    ASSUME card \in Fitting, NEW a, NEW x, x = Execute(a, card),
           a.kind \in {"buffer", "write", "commit", "key", "alias", "format"}
    PROVE  \E d \in Fitting :
             /\ SameFiles(card, d) /\ d.pending = 0
             /\ \/ x = Reply("refused", d)
                \/ a.kind \in {"key", "alias"} /\ x = Piece(d)
                \/ a.kind = "format" /\ x = Piece(Formatted(d))
                \/ a.kind = "buffer" /\ x = Piece(Activated(d, a.id))
                \/ a.kind = "commit" /\ x = Piece(Committed(d))
                \/ a.kind = "write" /\ Fits(card)
                   /\ x = Piece(Written(d, a.chunk))
<1>1. PICK d : d = [card EXCEPT !.pending = 0]
  OBVIOUS
<1>2. d \in Fitting /\ SameFiles(card, d) /\ d.pending = 0
  BY <1>1, AnswerKeeps
<1>3. Pieces(a.kind) - 1 = 0
  BY DEF Pieces
<1>4. x = Reply("refused", d) \/ x = Handle(a, card)
  BY <1>1 DEF Execute
<1>5. CASE x = Handle(a, card)
  <2>1. [card EXCEPT !.pending = Pieces(a.kind) - 1] = d
    BY <1>1, <1>3
  <2>2. CASE a.kind \in {"key", "alias"}
    BY <1>2, <1>5, <2>1, <2>2 DEF Handle, Piece
  <2>3. CASE a.kind = "format"
    BY <1>2, <1>5, <2>1, <2>3 DEF Handle, Piece, Formatted
  <2>4. CASE a.kind = "buffer"
    BY <1>2, <1>5, <2>1, <2>4 DEF Handle, Piece, Activated
  <2>5. CASE a.kind = "commit"
    BY <1>2, <1>5, <2>1, <2>5 DEF Handle, Piece
  <2>6. CASE a.kind = "write"
    BY <1>2, <1>5, <2>1, <2>6 DEF Handle, Piece
  <2> QED
    BY <2>2, <2>3, <2>4, <2>5, <2>6
<1> QED
  BY <1>2, <1>4, <1>5

\* A key is generated, or certified, beside the files.
LEMMA KeyExecute ==
    ASSUME card \in Fitting, NEW k \in {"key", "alias"}, NEW x,
           x = Execute(Request(k), card)
    PROVE  x.card \in Fitting
<1>1. PICK a : a = Request(k)
  OBVIOUS
<1>2. a.kind = k /\ x = Execute(a, card)
  BY <1>1 DEF Request
<1>3. PICK d \in Fitting : x = Reply("refused", d) \/ x = Piece(d)
  BY <1>2, ProvExecute
<1> QED
  BY <1>3 DEF Piece, Reply

\* Formatting takes the file away.
LEMMA FormatExecute ==
    ASSUME card \in Fitting, NEW x, x = Execute(Request("format"), card)
    PROVE  x.card \in Fitting
<1>1. PICK a : a = Request("format")
  OBVIOUS
<1>2. a.kind = "format" /\ x = Execute(a, card)
  BY <1>1 DEF Request
<1>3. PICK d \in Fitting : x = Reply("refused", d) \/ x = Piece(Formatted(d))
  BY <1>2, ProvExecute
<1>4. NoFile \in Files
  BY DEF NoFile, Files
<1>5. Formatted(d) \in Fitting
  BY <1>4, StoredKeeps DEF Formatted
<1> QED
  BY <1>3, <1>5 DEF Piece, Reply

\* The buffer asked for is active, both as full as before.
LEMMA BufferExecute ==
    ASSUME card \in Fitting, NEW id \in {"name", "data"},
           NEW x, x = Execute(Buffer(id), card)
    PROVE  /\ x.card \in Fitting
           /\ x.sw = "ok" => /\ x.card.active = id
                             /\ x.card.name = card.name
                             /\ x.card.data = card.data
                             /\ x.card.stored = card.stored
<1>1. PICK a : a = Buffer(id)
  OBVIOUS
<1>2. a.kind = "buffer" /\ a.id = id /\ x = Execute(a, card)
  BY <1>1 DEF Buffer
<1>3. PICK d \in Fitting :
         /\ SameFiles(card, d)
         /\ x = Reply("refused", d) \/ x = Piece(Activated(d, id))
  BY <1>2, ProvExecute
<1>4. PICK e : e = Activated(d, id)
  OBVIOUS
<1>5. /\ e \in Fitting /\ e.active = id
      /\ e.name = d.name /\ e.data = d.data /\ e.stored = d.stored
  BY <1>4, ActiveKeeps DEF Activated
<1> QED
  BY <1>3, <1>4, <1>5 DEF Piece, Reply, SameFiles

\* A chunk that fits is appended to the active buffer.
LEMMA WriteExecute ==
    ASSUME card \in Fitting, NEW chunk,
           card.active = "name" => chunk \in FilePaths,
           card.active = "data" => chunk \in Chunks,
           NEW x, x = Execute(Write(chunk), card)
    PROVE  /\ x.card \in Fitting
           /\ x.sw = "ok" =>
                /\ x.card.active = card.active /\ x.card.stored = card.stored
                /\ card.active = "name" =>
                     /\ x.card.name = Append(card.name, chunk)
                     /\ x.card.data = card.data
                /\ card.active = "data" =>
                     /\ x.card.data = Append(card.data, chunk)
                     /\ x.card.name = card.name
<1>1. PICK d \in Fitting :
         /\ SameFiles(card, d)
         /\ \/ x = Reply("refused", d)
            \/ Fits(card) /\ x = Piece(Written(d, chunk))
  <2>1. PICK a : a = Write(chunk)
    OBVIOUS
  <2>2. a.kind = "write" /\ a.chunk = chunk /\ x = Execute(a, card)
    BY <2>1 DEF Write
  <2> QED
    BY <2>2, ProvExecute
<1>2. CASE x = Reply("refused", d)
  BY <1>2 DEF Reply
<1>3. CASE Fits(card) /\ x = Piece(Written(d, chunk))
  <2>1. PICK e : e = Written(d, chunk)
    OBVIOUS
  <2>2. d.name \in Seq(FilePaths) /\ d.data \in Seq(Chunks)
    BY DEF Fitting, Cards
  <2>3. CASE card.active = "name" /\ Len(card.name) < NameCap
    <3>1. PICK n : n = Append(d.name, chunk)
      OBVIOUS
    <3>2. e = [d EXCEPT !.name = n]
      BY <1>1, <2>1, <2>3, <3>1 DEF Written, SameFiles
    <3>3. n \in Seq(FilePaths) /\ Len(n) <= NameCap
      BY <1>1, <2>2, <2>3, <3>1, CardAssumption DEF SameFiles
    <3>4. /\ e \in Fitting /\ e.active = d.active
          /\ e.name = n /\ e.data = d.data /\ e.stored = d.stored
      BY <3>2, <3>3, NameKeeps
    <3> QED
      BY <1>1, <1>3, <2>1, <2>3, <3>1, <3>4 DEF Piece, Reply, SameFiles
  <2>4. CASE card.active = "data" /\ Len(card.data) < DataCap
    <3>1. PICK n : n = Append(d.data, chunk)
      OBVIOUS
    <3>2. e = [d EXCEPT !.data = n]
      BY <1>1, <2>1, <2>4, <3>1 DEF Written, SameFiles
    <3>3. n \in Seq(Chunks) /\ Len(n) <= DataCap
      BY <1>1, <2>2, <2>4, <3>1, CardAssumption DEF SameFiles
    <3>4. /\ e \in Fitting /\ e.active = d.active
          /\ e.data = n /\ e.name = d.name /\ e.stored = d.stored
      BY <3>2, <3>3, DataKeeps
    <3> QED
      BY <1>1, <1>3, <2>1, <2>4, <3>1, <3>4 DEF Piece, Reply, SameFiles
  <2> QED
    BY <1>3, <2>3, <2>4 DEF Fits
<1> QED
  BY <1>1, <1>2, <1>3

\* A commit makes a file of the buffers and empties them.
LEMMA CommitExecute ==
    ASSUME card \in Fitting, NEW x, x = Execute(Request("commit"), card)
    PROVE  /\ x.card \in Fitting
           /\ x.sw = "ok" =>
                x.card.stored = [name |-> card.name, data |-> card.data]
<1>1. PICK d \in Fitting :
         /\ SameFiles(card, d)
         /\ x = Reply("refused", d) \/ x = Piece(Committed(d))
  <2>1. PICK a : a = Request("commit")
    OBVIOUS
  <2>2. a.kind = "commit" /\ x = Execute(a, card)
    BY <2>1 DEF Request
  <2> QED
    BY <2>2, ProvExecute
<1>2. PICK f : f = [name |-> d.name, data |-> d.data]
  OBVIOUS
<1>3. PICK e1 : e1 = [d EXCEPT !.stored = f]
  OBVIOUS
<1>4. PICK empty : empty = <<>>
  OBVIOUS
<1>5. PICK e2 : e2 = [e1 EXCEPT !.name = empty]
  OBVIOUS
<1>6. PICK e3 : e3 = [e2 EXCEPT !.data = empty]
  OBVIOUS
<1>7. f \in Files
  BY <1>2 DEF Fitting, Cards, Files
<1>8. e1 \in Fitting /\ e1.stored = f
  BY <1>3, <1>7, StoredKeeps
<1>9. /\ empty \in Seq(FilePaths) /\ empty \in Seq(Chunks)
      /\ Len(empty) <= NameCap /\ Len(empty) <= DataCap
  BY <1>4, CardAssumption
<1>10. e2 \in Fitting /\ e2.stored = f
  BY <1>5, <1>8, <1>9, NameKeeps
<1>11. e3 \in Fitting /\ e3.stored = f
  BY <1>6, <1>9, <1>10, DataKeeps
<1>12. Committed(d) = e3
  BY <1>2, <1>3, <1>4, <1>5, <1>6 DEF Committed
<1> QED
  BY <1>1, <1>2, <1>11, <1>12 DEF Piece, Reply, SameFiles

\* Whatever goes wrong with an APDU, the buffers are as before or as the card
\* left them; "ok" is only heard of a card that acted.
LEMMA TroubleFits ==
    ASSUME card \in Fitting, NEW a, Execute(a, card).card \in Fitting,
           NEW r \in Outcomes(a)
    PROVE  r.card \in Fitting /\ (r.sw = "ok" => r = Execute(a, card))
<1>1. PICK x : x = Execute(a, card)
  OBVIOUS
<1>2. \/ r = x
      \/ r.sw = "6f00" /\ \E d \in PoweredDown(card) \cup {card} :
                            r.card = [d EXCEPT !.pending = 0]
      \/ r.sw = "lost" /\ r.card \in {card, x.card}
  <2>1. CASE r = x
    BY <2>1
  <2>2. CASE r \in {Reply("lost", card), Reply("lost", x.card)}
    BY <2>2 DEF Reply
  <2>3. CASE \E d \in PoweredDown(card) \cup {card} :
               r = Reply("6f00", [d EXCEPT !.pending = 0])
    <3>1. PICK d \in PoweredDown(card) \cup {card} :
            r = Reply("6f00", [d EXCEPT !.pending = 0])
      BY <2>3
    <3>2. r.sw = "6f00" /\ r.card = [d EXCEPT !.pending = 0]
      BY <3>1 DEF Reply
    <3> QED
      BY <3>2
  <2> QED
    BY <1>1, <2>1, <2>2, <2>3 DEF Outcomes, Trouble
<1>3. CASE r.sw = "6f00" /\ \E d \in PoweredDown(card) \cup {card} :
                              r.card = [d EXCEPT !.pending = 0]
  <2>1. PICK d \in PoweredDown(card) \cup {card} :
          r.card = [d EXCEPT !.pending = 0]
    BY <1>3
  <2>2. d \in Fitting
    BY PoweredDownKeeps DEF Fitting, SameFiles
  <2> QED
    BY <1>3, <2>1, <2>2, AnswerKeeps
<1> QED
  BY <1>1, <1>2, <1>3

\* A card that fits is a card that is typed.
LEMMA FittingType ==
    /\ CardTypeOK => card \in Fitting
    /\ card' \in Fitting /\ faults' \in 0..MaxFaults => CardTypeOK'
BY DEF CardTypeOK, Fitting

\* After the power-down at the end of a call the buffers still fit.
LEMMA PoweredDownFits ==
    ASSUME NEW c \in Fitting, NEW d \in PoweredDown(c)
    PROVE  d \in Fitting /\ SameFiles(c, d)
BY PoweredDownKeeps DEF Fitting, SameFiles

Raised == ppc' = "idle" /\ presult' = "error" /\ left' = <<>>

\* One APDU of a call: it raised, or the card acted and the call is over, or
\* it goes on.
LEMMA SendsOutcome ==
    ASSUME CardTypeOK, NEW a, NEW nxt, NEW rest, PSends(a, nxt, rest),
           Execute(a, card).card \in Fitting
    PROVE  /\ CardTypeOK' /\ UNCHANGED <<op, path, contents, onTop>>
           /\ \/ Raised
              \/ /\ Execute(a, card).sw = "ok" /\ nxt \in Results
                 /\ ppc' = "idle" /\ presult' = nxt /\ left' = <<>>
                 /\ SameFiles(Execute(a, card).card, card')
              \/ /\ Execute(a, card).sw = "ok" /\ nxt \notin Results
                 /\ ppc' = nxt /\ presult' = presult /\ left' = rest
                 /\ SameFiles(Execute(a, card).card, card')
<1>1. PICK r \in Outcomes(a) :
         /\ Answered(a, r)
         /\ \/ ~ StatusOk(r.sw) /\ PEnds("error", r.card)
            \/ StatusOk(r.sw) /\ nxt \in Results /\ PEnds(nxt, r.card)
            \/ /\ StatusOk(r.sw) /\ nxt \notin Results
               /\ ppc' = nxt /\ card' = r.card /\ left' = rest
               /\ UNCHANGED presult
  BY DEF PSends
<1>2. UNCHANGED <<op, path, contents, onTop>>
  BY DEF PSends
<1>3. r.card \in Fitting /\ (r.sw = "ok" => r = Execute(a, card))
  BY TroubleFits, FittingType
<1>4. /\ card' \in Fitting /\ SameFiles(r.card, card')
  <2>1. card' = r.card \/ card' \in PoweredDown(r.card)
    BY <1>1 DEF PEnds
  <2> QED
    BY <1>3, <2>1, PoweredDownFits DEF SameFiles
<1>5. CardTypeOK'
  BY <1>1, <1>4, AnsweredFaults, FittingType
<1>6. CASE ~ StatusOk(r.sw) /\ PEnds("error", r.card)
  BY <1>2, <1>5, <1>6 DEF PEnds, Raised
<1>7. CASE StatusOk(r.sw) /\ nxt \in Results /\ PEnds(nxt, r.card)
  BY <1>2, <1>3, <1>4, <1>5, <1>7 DEF PEnds, StatusOk
<1>8. CASE /\ StatusOk(r.sw) /\ nxt \notin Results
           /\ ppc' = nxt /\ card' = r.card /\ left' = rest
           /\ UNCHANGED presult
  BY <1>2, <1>3, <1>4, <1>5, <1>8 DEF StatusOk
<1> QED
  BY <1>1, <1>6, <1>7, <1>8

\* A call that raises leaves nothing to be right about.
LEMMA RaisedInv ==
    ASSUME ProvInv, Raised, UNCHANGED <<op, path, contents, onTop>>
    PROVE  ProvInv'
<1>1. ProvTypeOK'
  <2>1. onTop' \in BOOLEAN
    BY DEF ProvInv, ProvTypeOK
  <2>2. left' \in Seq(Chunks)
    BY DEF Raised
  <2>3. ppc' = "idle" /\ presult' \in Results
    BY DEF Raised, Results
  <2> QED
    BY <2>1, <2>2, <2>3 DEF ProvInv, ProvTypeOK
<1>2. CallInv' /\ BufferInv' /\ WritesGiven'
  BY DEF Raised, CallInv, BufferInv, WritesGiven
<1> QED
  BY <1>1, <1>2 DEF ProvInv

ProvKeeps == CardTypeOK' /\ ProvInv'

\* A call begins by forgetting what the last one wrote.
LEMMA BeginCard ==
    ASSUME CardTypeOK, Begin
    PROVE  /\ CardTypeOK' /\ onTop' \in BOOLEAN
           /\ ~ onTop' => card'.name = <<>> /\ card'.data = <<>>
<1>1. NoFile \in Files
  BY DEF NoFile, Files
<1>2. PICK f : f = NoFile
  OBVIOUS
<1>3. card' = [card EXCEPT !.stored = f]
  BY <1>2 DEF Begin
<1>4. /\ card' \in Fitting
      /\ card'.name = card.name /\ card'.data = card.data
  BY <1>1, <1>2, <1>3, FittingType, StoredKeeps
<1>5. faults' \in 0..MaxFaults
  BY DEF Begin, CardTypeOK
<1>6. onTop' = (card.name # <<>> \/ card.data # <<>>)
  BY DEF Begin
<1> QED
  BY <1>4, <1>5, <1>6, FittingType

\* A call of one APDU begins.
LEMMA SingleStep ==
    ASSUME CardTypeOK, ProvInv, NEW k \in SingleOps, PSingle(k)
    PROVE  ProvKeeps
<1>1. CardTypeOK' /\ onTop' \in BOOLEAN
  BY BeginCard DEF PSingle
<1>2. /\ ppc' = "connect" /\ presult' = "none" /\ op' = k
      /\ path' = path /\ contents' = <<>> /\ left' = <<>>
  BY DEF PSingle, Begin
<1>3. ProvTypeOK'
  <2>1. contents' \in Seq(Chunks) /\ left' \in Seq(Chunks)
    BY <1>2
  <2>2. ppc' = "connect" /\ presult' = "none" /\ op' \in SingleOps
    BY <1>2
  <2> QED
    BY <1>1, <1>2, <2>1, <2>2 DEF ProvInv, ProvTypeOK
<1>4. CallInv' /\ BufferInv' /\ WritesGiven'
  BY <1>2 DEF CallInv, BufferInv, WritesGiven, SingleOps
<1> QED
  BY <1>1, <1>3, <1>4 DEF ProvKeeps, ProvInv

\* write_file begins, on top of what the buffers hold.
LEMMA WriteFileStep ==
    ASSUME CardTypeOK, ProvInv, NEW p \in FilePaths, NEW d \in Contents,
           PWriteFile(p, d)
    PROVE  ProvKeeps
<1>1. /\ CardTypeOK' /\ onTop' \in BOOLEAN
      /\ ~ onTop' => card'.name = <<>> /\ card'.data = <<>>
  BY BeginCard DEF PWriteFile
<1>2. /\ ppc' = "connect" /\ presult' = "none" /\ op' = "write"
      /\ path' = p /\ contents' = d /\ left' = d
  BY DEF PWriteFile, Begin
<1>3. ProvTypeOK'
  BY <1>1, <1>2, ContentsAssumption DEF ProvInv, ProvTypeOK
<1>4. CallInv' /\ BufferInv' /\ WritesGiven'
  BY <1>1, <1>2 DEF CallInv, BufferInv, WritesGiven
<1> QED
  BY <1>1, <1>3, <1>4 DEF ProvKeeps, ProvInv

\* Selecting the provisioner, on either attempt, moves no file: where the call
\* goes on, it does as before.
LEMMA ConnectedInv ==
    ASSUME ProvInv, ppc \in {"connect", "connect again"},
           SameFiles(card, card'),
           UNCHANGED <<op, path, contents, left, presult, onTop>>,
           ppc' \in {AfterConnect, "connect again"}
    PROVE  ProvInv'
<1>1. /\ ppc' \in {"name", "single", "connect again"}
      /\ ppc' = "name" => op = "write"
      /\ ppc' = "single" => op \in SingleOps
  BY DEF AfterConnect, ProvInv, ProvTypeOK, SingleOps
<1>2. ProvTypeOK'
  <2>1. onTop' \in BOOLEAN
    BY DEF ProvInv, ProvTypeOK
  <2> QED
    BY <1>1, <2>1 DEF ProvInv, ProvTypeOK
<1>3. CallInv'
  BY <1>1 DEF ProvInv, CallInv
<1>4. BufferInv'
  BY <1>1 DEF ProvInv, BufferInv, SameFiles
<1>5. WritesGiven'
  BY DEF ProvInv, WritesGiven, Exact, SameFiles
<1> QED
  BY <1>2, <1>3, <1>4, <1>5 DEF ProvInv

LEMMA ConnectStep ==
    ASSUME CardTypeOK, ProvInv, PConnect
    PROVE  ProvKeeps
<1>1. PICK r \in Outcomes(Select("provisioner")) :
         /\ Answered(Select("provisioner"), r)
         /\ IF r.sw = "lost"
              THEN PEnds("error", r.card)
              ELSE /\ ppc' = IF r.sw = "ok" THEN AfterConnect
                                            ELSE "connect again"
                   /\ card' = r.card /\ UNCHANGED <<left, presult>>
  BY DEF PConnect
<1>2. ppc = "connect" /\ UNCHANGED <<op, path, contents, onTop>>
  BY DEF PConnect
<1>3. card \in Fitting
  BY FittingType
<1>4. r.card \in Fitting /\ SameFiles(card, r.card)
  <2>1. "provisioner" \in Applets /\ card \in Cards
    BY DEF Applets, CardTypeOK
  <2>2. r.card \in Cards /\ SameFiles(card, r.card)
    BY <2>1, SelectOutcome
  <2> QED
    BY <1>3, <2>2 DEF Fitting, SameFiles
<1>5. card' \in Fitting
  BY <1>1, <1>4, PoweredDownFits DEF PEnds
<1>6. CardTypeOK'
  BY <1>1, <1>5, AnsweredFaults, FittingType
<1>7. CASE r.sw = "lost"
  BY <1>1, <1>2, <1>6, <1>7, RaisedInv DEF PEnds, Raised, ProvKeeps
<1>8. CASE r.sw # "lost"
  BY <1>1, <1>2, <1>4, <1>6, <1>8, ConnectedInv DEF ProvKeeps
<1> QED
  BY <1>7, <1>8

LEMMA ConnectAgainStep ==
    ASSUME CardTypeOK, ProvInv, PConnectAgain
    PROVE  ProvKeeps
<1>1. PICK a : a = Select("provisioner")
  OBVIOUS
<1>2. ppc = "connect again" /\ PSends(a, AfterConnect, left)
  BY <1>1 DEF PConnectAgain
<1>3. /\ Execute(a, card).card \in Fitting
      /\ SameFiles(card, Execute(a, card).card)
  BY <1>1, FittingType, SelectExecute
<1>4. AfterConnect \notin Results
  BY DEF AfterConnect, Results
<1>5. /\ CardTypeOK' /\ UNCHANGED <<op, path, contents, onTop>>
      /\ \/ Raised
         \/ /\ ppc' = AfterConnect /\ presult' = presult /\ left' = left
            /\ SameFiles(Execute(a, card).card, card')
  BY <1>2, <1>3, <1>4, SendsOutcome
<1>6. CASE Raised
  BY <1>5, <1>6, RaisedInv DEF ProvKeeps
<1>7. CASE /\ ppc' = AfterConnect /\ presult' = presult /\ left' = left
           /\ SameFiles(Execute(a, card).card, card')
  <2>1. SameFiles(card, card')
    BY <1>3, <1>7 DEF SameFiles
  <2> QED
    BY <1>2, <1>5, <1>7, <2>1, ConnectedInv DEF ProvKeeps
<1> QED
  BY <1>5, <1>6, <1>7

\* A call of one APDU is over with it.
LEMMA RequestStep ==
    ASSUME CardTypeOK, ProvInv, PRequest
    PROVE  ProvKeeps
<1>1. PICK a : a = Request(op)
  OBVIOUS
<1>2. ppc = "single" /\ PSends(a, "done", left)
  BY <1>1 DEF PRequest
<1>3. op \in {"key", "alias", "format"}
  BY <1>2 DEF ProvInv, CallInv, SingleOps
<1>4. Execute(a, card).card \in Fitting
  BY <1>1, <1>3, FittingType, KeyExecute, FormatExecute
<1>5. /\ CardTypeOK' /\ UNCHANGED <<op, path, contents, onTop>>
      /\ Raised \/ (ppc' = "idle" /\ presult' = "done" /\ left' = <<>>)
  BY <1>2, <1>4, SendsOutcome DEF Results
<1>6. CASE Raised
  BY <1>5, <1>6, RaisedInv DEF ProvKeeps
<1>7. CASE ppc' = "idle" /\ presult' = "done" /\ left' = <<>>
  <2>1. onTop' \in BOOLEAN
    BY <1>5 DEF ProvInv, ProvTypeOK
  <2>2. ProvTypeOK'
    <3>1. left' \in Seq(Chunks)
      BY <1>7
    <3> QED
      BY <1>5, <1>7, <2>1, <3>1 DEF ProvInv, ProvTypeOK, Results
  <2>3. CallInv' /\ BufferInv' /\ WritesGiven'
    BY <1>7 DEF CallInv, BufferInv, WritesGiven
  <2> QED
    BY <1>5, <2>2, <2>3 DEF ProvKeeps, ProvInv
<1> QED
  BY <1>5, <1>6, <1>7

\* The middle of write_file: it raises, or goes on to a later APDU with what
\* the earlier ones have left in the buffers.
LEMMA GoesOnInv ==
    ASSUME ProvInv, op = "write", UNCHANGED <<op, path, contents, onTop>>,
           presult' = presult, presult # "written", left' \in Seq(Chunks),
           ppc' \in {"path", "contents", "chunks", "commit"},
           CallInv', BufferInv'
    PROVE  ProvInv'
<1>1. onTop' \in BOOLEAN
  BY DEF ProvInv, ProvTypeOK
<1>2. ProvTypeOK'
  BY <1>1 DEF ProvInv, ProvTypeOK
<1>3. WritesGiven'
  BY DEF WritesGiven
<1> QED
  BY <1>2, <1>3 DEF ProvInv

\* The buffer for the name is activated.
LEMMA NameStep ==
    ASSUME CardTypeOK, ProvInv, PName
    PROVE  ProvKeeps
<1>1. PICK a : a = Buffer("name")
  OBVIOUS
<1>2. ppc = "name" /\ PSends(a, "path", left)
  BY <1>1 DEF PName
<1>3. op = "write" /\ presult # "written"
  BY <1>2 DEF ProvInv, CallInv
<1>4. PICK x : x = Execute(a, card)
  OBVIOUS
<1>5. /\ x.card \in Fitting
      /\ x.sw = "ok" => /\ x.card.active = "name"
                        /\ x.card.name = card.name
                        /\ x.card.data = card.data
                        /\ x.card.stored = card.stored
  BY <1>1, <1>4, FittingType, BufferExecute
<1>6. /\ CardTypeOK' /\ UNCHANGED <<op, path, contents, onTop>>
      /\ \/ Raised
         \/ /\ x.sw = "ok" /\ ppc' = "path" /\ presult' = presult
            /\ left' = left /\ SameFiles(x.card, card')
  BY <1>2, <1>4, <1>5, SendsOutcome DEF Results
<1>7. CASE Raised
  BY <1>6, <1>7, RaisedInv DEF ProvKeeps
<1>8. CASE /\ x.sw = "ok" /\ ppc' = "path" /\ presult' = presult
           /\ left' = left /\ SameFiles(x.card, card')
  <2>1. /\ card'.active = "name"
        /\ card'.name = card.name /\ card'.data = card.data
    BY <1>5, <1>8 DEF SameFiles
  <2>2. CallInv'
    BY <1>3, <1>6, <1>8, <2>1 DEF CallInv
  <2>3. BufferInv'
    BY <1>2, <1>6, <1>8, <2>1 DEF ProvInv, BufferInv
  <2>4. left' \in Seq(Chunks)
    BY <1>8 DEF ProvInv, ProvTypeOK
  <2> QED
    BY <1>3, <1>6, <1>8, <2>2, <2>3, <2>4, GoesOnInv DEF ProvKeeps
<1> QED
  BY <1>6, <1>7, <1>8

\* The path is written.
LEMMA PathStep ==
    ASSUME CardTypeOK, ProvInv, PPath
    PROVE  ProvKeeps
<1>1. PICK a : a = Write(path)
  OBVIOUS
<1>2. ppc = "path" /\ PSends(a, "contents", left)
  BY <1>1 DEF PPath
<1>3. op = "write" /\ presult # "written" /\ card.active = "name"
  BY <1>2 DEF ProvInv, CallInv
<1>4. PICK x : x = Execute(a, card)
  OBVIOUS
<1>5. /\ x.card \in Fitting
      /\ x.sw = "ok" => /\ x.card.name = Append(card.name, path)
                        /\ x.card.data = card.data
  BY <1>1, <1>3, <1>4, FittingType, WriteExecute DEF ProvInv, ProvTypeOK
<1>6. /\ CardTypeOK' /\ UNCHANGED <<op, path, contents, onTop>>
      /\ \/ Raised
         \/ /\ x.sw = "ok" /\ ppc' = "contents" /\ presult' = presult
            /\ left' = left /\ SameFiles(x.card, card')
  BY <1>2, <1>4, <1>5, SendsOutcome DEF Results
<1>7. CASE Raised
  BY <1>6, <1>7, RaisedInv DEF ProvKeeps
<1>8. CASE /\ x.sw = "ok" /\ ppc' = "contents" /\ presult' = presult
           /\ left' = left /\ SameFiles(x.card, card')
  <2>1. card'.name = Append(card.name, path) /\ card'.data = card.data
    BY <1>5, <1>8 DEF SameFiles
  <2>2. CallInv'
    BY <1>3, <1>6, <1>8 DEF CallInv
  <2>3. BufferInv'
    <3>1. Append(<<>>, path) = <<path>>
      OBVIOUS
    <3> QED
      BY <1>2, <1>6, <1>8, <2>1, <3>1 DEF ProvInv, BufferInv
  <2>4. left' \in Seq(Chunks)
    BY <1>8 DEF ProvInv, ProvTypeOK
  <2> QED
    BY <1>3, <1>6, <1>8, <2>2, <2>3, <2>4, GoesOnInv DEF ProvKeeps
<1> QED
  BY <1>6, <1>7, <1>8

\* The buffer for the contents is activated; an empty file has no chunk.
LEMMA ContentsStep ==
    ASSUME CardTypeOK, ProvInv, PContents
    PROVE  ProvKeeps
<1>1. PICK a : a = Buffer("data")
  OBVIOUS
<1>2. ppc = "contents" /\ PSends(a, NextWrite(Len(left)), left)
  BY <1>1 DEF PContents
<1>3. op = "write" /\ presult # "written" /\ left \in Seq(Chunks)
  BY <1>2 DEF ProvInv, CallInv, ProvTypeOK
<1>4. PICK x : x = Execute(a, card)
  OBVIOUS
<1>5. /\ x.card \in Fitting
      /\ x.sw = "ok" => /\ x.card.active = "data"
                        /\ x.card.name = card.name
                        /\ x.card.data = card.data
  BY <1>1, <1>4, FittingType, BufferExecute
<1>6. /\ CardTypeOK' /\ UNCHANGED <<op, path, contents, onTop>>
      /\ \/ Raised
         \/ /\ x.sw = "ok" /\ ppc' = NextWrite(Len(left))
            /\ presult' = presult
            /\ left' = left /\ SameFiles(x.card, card')
  BY <1>2, <1>4, <1>5, SendsOutcome DEF Results, NextWrite
<1>7. CASE Raised
  BY <1>6, <1>7, RaisedInv DEF ProvKeeps
<1>8. CASE /\ x.sw = "ok" /\ ppc' = NextWrite(Len(left))
           /\ presult' = presult
           /\ left' = left /\ SameFiles(x.card, card')
  <2>1. /\ card'.active = "data"
        /\ card'.name = card.name /\ card'.data = card.data
    BY <1>5, <1>8 DEF SameFiles
  <2>2. \/ ppc' = "commit" /\ left = <<>>
        \/ ppc' = "chunks" /\ left # <<>>
    BY <1>3, <1>8 DEF NextWrite
  <2>3. CallInv'
    BY <1>3, <1>6, <1>8, <2>1, <2>2 DEF CallInv
  <2>4. BufferInv'
    <3>1. <<>> \o left = left
      BY <1>3
    <3> QED
      BY <1>2, <1>6, <1>8, <2>1, <2>2, <3>1 DEF ProvInv, BufferInv
  <2> QED
    BY <1>3, <1>6, <1>8, <2>2, <2>3, <2>4, GoesOnInv DEF ProvKeeps
<1> QED
  BY <1>6, <1>7, <1>8

\* A chunk moves from what is left to the buffer.
LEMMA MovesChunk ==
    ASSUME NEW s \in Seq(Chunks), NEW t \in Seq(Chunks), t # <<>>
    PROVE  Append(s, Head(t)) \o Tail(t) = s \o t
<1>1. /\ Head(t) \in Chunks /\ Tail(t) \in Seq(Chunks)
      /\ Len(Tail(t)) = Len(t) - 1
  BY HeadTailProperties
<1>2. PICK u : u = Append(s, Head(t))
  OBVIOUS
<1>3. u \in Seq(Chunks) /\ Len(u) = Len(s) + 1
      /\ (\A i \in 1..Len(s) : u[i] = s[i]) /\ u[Len(s) + 1] = Head(t)
  BY <1>1, <1>2, AppendProperties
<1>4. Len(u \o Tail(t)) = Len(s \o t)
  BY <1>1, <1>3
<1>5. \A i \in 1..Len(s \o t) : (u \o Tail(t))[i] = (s \o t)[i]
  BY <1>1, <1>3
<1>6. u \o Tail(t) \in Seq(Chunks) /\ s \o t \in Seq(Chunks)
  BY <1>1, <1>3
<1> QED
  BY <1>2, <1>4, <1>5, <1>6, SeqEqual

\* A chunk is written.
LEMMA ChunkStep ==
    ASSUME CardTypeOK, ProvInv, PChunk
    PROVE  ProvKeeps
<1>1. PICK a : a = Write(Head(left))
  OBVIOUS
<1>2. ppc = "chunks" /\ PSends(a, NextWrite(Len(left) - 1), Tail(left))
  BY <1>1 DEF PChunk
<1>3. /\ op = "write" /\ presult # "written" /\ card.active = "data"
      /\ left \in Seq(Chunks) /\ left # <<>>
  BY <1>2 DEF ProvInv, CallInv, ProvTypeOK
<1>4. PICK x : x = Execute(a, card)
  OBVIOUS
<1>5. /\ x.card \in Fitting
      /\ x.sw = "ok" => /\ x.card.data = Append(card.data, Head(left))
                        /\ x.card.name = card.name
                        /\ x.card.active = "data"
  <2>1. Head(left) \in Chunks
    BY <1>3
  <2> QED
    BY <1>1, <1>3, <1>4, <2>1, FittingType, WriteExecute
<1>6. /\ CardTypeOK' /\ UNCHANGED <<op, path, contents, onTop>>
      /\ \/ Raised
         \/ /\ x.sw = "ok" /\ ppc' = NextWrite(Len(left) - 1)
            /\ presult' = presult
            /\ left' = Tail(left) /\ SameFiles(x.card, card')
  <2>1. PICK n : n = NextWrite(Len(left) - 1)
    OBVIOUS
  <2>2. PICK t : t = Tail(left)
    OBVIOUS
  <2>3. n \notin Results
    BY <2>1 DEF Results, NextWrite
  <2>4. PSends(a, n, t)
    BY <1>2, <2>1, <2>2
  <2> QED
    BY <1>4, <1>5, <2>1, <2>2, <2>3, <2>4, SendsOutcome
<1>7. CASE Raised
  BY <1>6, <1>7, RaisedInv DEF ProvKeeps
<1>8. CASE /\ x.sw = "ok" /\ ppc' = NextWrite(Len(left) - 1)
           /\ presult' = presult
           /\ left' = Tail(left) /\ SameFiles(x.card, card')
  <2>1. /\ card'.data = Append(card.data, Head(left))
        /\ card'.name = card.name /\ card'.active = "data"
    BY <1>5, <1>8 DEF SameFiles
  <2>2. Tail(left) \in Seq(Chunks) /\ Len(Tail(left)) = Len(left) - 1
    BY <1>3
  <2>3. \/ ppc' = "commit" /\ left' = <<>>
        \/ ppc' = "chunks" /\ left' # <<>>
    <3>1. CASE Len(left) - 1 = 0
      <4>1. PICK t : t = Tail(left)
        OBVIOUS
      <4>2. t = <<>>
        BY <2>2, <3>1, <4>1, EmptySeq
      <4> QED
        BY <1>8, <3>1, <4>1, <4>2 DEF NextWrite
    <3>2. CASE Len(left) - 1 # 0
      <4>1. Tail(left) # <<>>
        BY <2>2, <3>2
      <4> QED
        BY <1>8, <3>2, <4>1 DEF NextWrite
    <3> QED
      BY <3>1, <3>2
  <2>4. /\ card.data \in Seq(Chunks)
        /\ Append(card.data, Head(left)) \in Seq(Chunks)
    BY <1>3 DEF CardTypeOK, Cards
  <2>5. card'.data \o left' = card.data \o left
    BY <1>3, <1>8, <2>1, <2>4, MovesChunk
  <2>6. left' = <<>> => card'.data = card.data \o left
    BY <2>1, <2>4, <2>5
  <2>7. CallInv'
    BY <1>3, <1>6, <1>8, <2>1, <2>3 DEF CallInv
  <2>8. BufferInv'
    BY <1>2, <1>6, <2>1, <2>3, <2>5, <2>6 DEF ProvInv, BufferInv
  <2> QED
    BY <1>3, <1>6, <1>8, <2>2, <2>3, <2>7, <2>8, GoesOnInv DEF ProvKeeps
<1> QED
  BY <1>6, <1>7, <1>8

\* The commit makes the file that was asked for.
LEMMA CommitStep ==
    ASSUME CardTypeOK, ProvInv, PCommit
    PROVE  ProvKeeps
<1>1. PICK a : a = Request("commit")
  OBVIOUS
<1>2. ppc = "commit" /\ PSends(a, "written", left)
  BY <1>1 DEF PCommit
<1>3. op = "write"
  BY <1>2 DEF ProvInv, CallInv
<1>4. PICK x : x = Execute(a, card)
  OBVIOUS
<1>5. /\ x.card \in Fitting
      /\ x.sw = "ok" =>
           x.card.stored = [name |-> card.name, data |-> card.data]
  BY <1>1, <1>4, FittingType, CommitExecute
<1>6. /\ CardTypeOK' /\ UNCHANGED <<op, path, contents, onTop>>
      /\ \/ Raised
         \/ /\ x.sw = "ok" /\ ppc' = "idle" /\ presult' = "written"
            /\ left' = <<>> /\ SameFiles(x.card, card')
  BY <1>2, <1>4, <1>5, SendsOutcome DEF Results
<1>7. CASE Raised
  BY <1>6, <1>7, RaisedInv DEF ProvKeeps
<1>8. CASE /\ x.sw = "ok" /\ ppc' = "idle" /\ presult' = "written"
           /\ left' = <<>> /\ SameFiles(x.card, card')
  <2>1. ProvTypeOK'
    <3>1. onTop' \in BOOLEAN
      BY <1>6 DEF ProvInv, ProvTypeOK
    <3>2. left' \in Seq(Chunks)
      BY <1>8
    <3> QED
      BY <1>6, <1>8, <3>1, <3>2 DEF ProvInv, ProvTypeOK, Results
  <2>2. CallInv' /\ BufferInv'
    BY <1>8 DEF CallInv, BufferInv
  <2>3. card'.stored = [name |-> card.name, data |-> card.data]
    BY <1>5, <1>8 DEF SameFiles
  <2>4. ~ onTop => card.name = <<path>> /\ card.data = contents
    BY <1>2, <1>3 DEF ProvInv, BufferInv
  <2>5. WritesGiven'
    BY <1>6, <2>3, <2>4 DEF WritesGiven, Exact
  <2> QED
    BY <1>6, <2>1, <2>2, <2>5 DEF ProvKeeps, ProvInv
<1> QED
  BY <1>6, <1>7, <1>8
-----------------------------------------------------------------------------
LEMMA InitInv == Init => IInv
<1> SUFFICES ASSUME Init PROVE IInv
  OBVIOUS
<1>1. CardTypeOK
  <2>1. /\ <<>> \in Seq(FilePaths) /\ <<>> \in Seq(Chunks)
        /\ NoFile \in Files
    BY DEF NoFile, Files
  <2>2. card \in Cards
    BY <2>1 DEF Init, CardInit, Cards
  <2>3. Len(card.name) <= NameCap /\ Len(card.data) <= DataCap
    BY CardAssumption DEF Init, CardInit
  <2> QED
    BY <2>2, <2>3, CardAssumption DEF Init, CardInit, CardTypeOK
<1>2. ConnInv
  <2>1. ConnTypeOK
    <3>1. resent \in BOOLEAN /\ unsure \in BOOLEAN /\ crossed \in BOOLEAN
      BY Zenon DEF Init, ConnInit
    <3> QED
      BY <3>1 DEF Init, ConnInit, ConnTypeOK, Commands
  <2>2. RememberInv /\ ForeignInv /\ ReplyInv
    BY DEF Init, ConnInit, RememberInv, ForeignInv, ReplyInv, WholeReply
  <2> QED
    BY <2>1, <2>2 DEF ConnInv
<1>3. ProvInv
  <2>1. ProvTypeOK
    <3>1. onTop \in BOOLEAN
      BY Zenon DEF Init, ProvInit
    <3>2. contents \in Seq(Chunks) /\ left \in Seq(Chunks)
      BY DEF Init, ProvInit
    <3> QED
      BY <3>1, <3>2 DEF Init, ProvInit, ProvTypeOK, SingleOps
  <2>2. CallInv /\ BufferInv /\ WritesGiven
    BY DEF Init, ProvInit, CallInv, BufferInv, WritesGiven
  <2> QED
    BY <2>1, <2>2 DEF ProvInv
<1>4. uses \in 0..MaxUses
  BY UseAssumption DEF Init
<1> QED
  BY <1>1, <1>2, <1>3, <1>4 DEF IInv

\* Every step of either client, and of the user, keeps the invariant.
LEMMA NextInv == IInv /\ [Next]_vars => IInv'
<1> SUFFICES ASSUME IInv, [Next]_vars PROVE IInv'
  OBVIOUS
<1>0. CardTypeOK /\ ConnInv /\ ProvInv /\ uses \in 0..MaxUses
  BY DEF IInv
<1>1. CASE Use
  <2>1. ConnKeeps
    BY <1>0, <1>1, OpenStep, CallStep DEF Use
  <2>2. uses' \in 0..MaxUses /\ UNCHANGED prov
    BY <1>0, <1>1, UseAssumption DEF Use
  <2> QED
    BY <1>0, <2>1, <2>2, ProvKept DEF ConnKeeps, IInv
<1>2. CASE Proceed
  <2>1. ConnKeeps
    BY <1>0, <1>2, SelectStep, SendStep, MoreStep DEF Proceed, ConnStep
  <2>2. uses' = uses /\ UNCHANGED prov
    BY <1>2 DEF Proceed
  <2> QED
    BY <1>0, <2>1, <2>2, ProvKept DEF ConnKeeps, IInv
<1>3. CASE Close
  <2>1. ConnKeeps
    BY <1>0, <1>3, CloseStep DEF Close
  <2>2. uses' = uses /\ UNCHANGED prov
    BY <1>3 DEF Close
  <2> QED
    BY <1>0, <2>1, <2>2, ProvKept DEF ConnKeeps, IInv
<1>4. CASE Provision
  <2>1. ProvKeeps
    <3>1. CASE ProvCalls
      BY <1>0, <3>1, SingleStep, WriteFileStep DEF ProvCalls
    <3>2. CASE ProvStep
      BY <1>0, <3>2, ConnectStep, ConnectAgainStep, RequestStep, NameStep,
         PathStep, ContentsStep, ChunkStep, CommitStep DEF ProvStep
    <3> QED
      BY <1>4, <3>1, <3>2 DEF Provision
  <2>2. Crosses /\ UNCHANGED <<conn, doneBy, unsure>> /\ uses' = uses
    BY <1>4 DEF Provision
  <2>3. ConnInv'
    BY <1>0, <2>2, ConnKept
  <2> QED
    BY <1>0, <2>1, <2>2, <2>3 DEF ProvKeeps, IInv
<1>5. CASE Replug
  <2>1. /\ ppc = "idle" /\ card' = Restarted(card) /\ Forgotten
        /\ UNCHANGED <<faults, prov, uses>>
    BY <1>5 DEF Replug
  <2>2. /\ card' \in Cards /\ card'.name = <<>> /\ card'.data = <<>>
        /\ card'.stored = card.stored
    <3>1. <<>> \in Seq(FilePaths) /\ <<>> \in Seq(Chunks)
      OBVIOUS
    <3>2. PICK e : e = [card EXCEPT !.applet = "none", !.pending = 0]
      OBVIOUS
    <3>3. e \in Cards /\ SameFiles(card, e)
      BY <1>0, <3>2, SelectionKeeps DEF CardTypeOK
    <3>4. PICK none : none = <<>>
      OBVIOUS
    <3>5. PICK f : f = [e EXCEPT !.active = "none"]
      OBVIOUS
    <3>6. f \in Cards /\ f.stored = e.stored
      BY <3>3, <3>5 DEF Cards
    <3>7. PICK g : g = [f EXCEPT !.name = none]
      OBVIOUS
    <3>8. g \in Cards /\ g.name = none /\ g.stored = f.stored
      BY <3>1, <3>4, <3>6, <3>7 DEF Cards
    <3>9. PICK h : h = [g EXCEPT !.data = none]
      OBVIOUS
    <3>10. /\ h \in Cards /\ h.name = none /\ h.data = none
           /\ h.stored = g.stored
      BY <3>1, <3>4, <3>8, <3>9 DEF Cards
    <3>11. h = Restarted(card)
      BY <3>2, <3>4, <3>5, <3>7, <3>9 DEF Restarted
    <3> QED
      BY <2>1, <3>3, <3>4, <3>6, <3>8, <3>10, <3>11 DEF SameFiles
  <2>3. CardTypeOK'
    BY <1>0, <2>1, <2>2, CardAssumption DEF CardTypeOK
  <2>4. ProvInv'
    <3>1. ProvTypeOK'
      BY <1>0, <2>1 DEF ProvInv, ProvTypeOK, prov
    <3>2. CallInv' /\ BufferInv'
      BY <1>0, <2>1 DEF ProvInv, CallInv, BufferInv, prov
    <3>3. WritesGiven'
      BY <1>0, <2>1, <2>2 DEF ProvInv, WritesGiven, Exact, prov
    <3> QED
      BY <3>1, <3>2, <3>3 DEF ProvInv
  <2> QED
    BY <1>0, <2>1, <2>3, <2>4, ForgottenInv DEF IInv
<1>6. CASE UNCHANGED vars
  <2>1. /\ UNCHANGED <<card, faults, cpc, remembered, want, resent, got,
                       cresult, doneBy, unsure, crossed, uses>>
        /\ UNCHANGED prov
    BY <1>6 DEF vars, conn, ghost
  <2>2. SameFiles(card, card')
    BY <2>1 DEF SameFiles
  <2>3. ConnInv'
    BY <1>0, <2>1 DEF ConnInv, ConnTypeOK, RememberInv, ForeignInv, ReplyInv,
                      WholeReply
  <2>4. CardTypeOK'
    BY <1>0, <2>1 DEF CardTypeOK
  <2> QED
    BY <1>0, <2>1, <2>2, <2>3, <2>4, ProvKept DEF IInv
<1> QED
  BY <1>1, <1>2, <1>3, <1>4, <1>5, <1>6 DEF Next

\* The invariant holds throughout, whatever the two clients do to the card.
THEOREM Invariance == Spec => []IInv
  BY InitInv, NextInv, PTL DEF Spec

\* Both clients and the card keep their types; the buffers are never overfull.
THEOREM TypeCorrect == Spec => []TypeOK
<1>1. IInv => TypeOK
  BY DEF IInv, TypeOK, ConnInv, ProvInv
<1> QED
  BY <1>1, Invariance, PTL

\* write_file writes what it was given where it was told to, unless an earlier
\* call left something in the buffers.
THEOREM WritesCorrect == Spec => []WritesGiven
<1>1. IInv => WritesGiven
  BY DEF IInv, ProvInv
<1> QED
  BY <1>1, Invariance, PTL

\* A command goes to the applet that was selected for it, unless the other
\* client took the card or an APDU failed.
THEOREM SendsCorrect == Spec => []SendsToSelected
<1>1. IInv => SendsToSelected
  <2> SUFFICES ASSUME IInv PROVE SendsToSelected
    OBVIOUS
  <2>1. AidOf(want) \in Applets
    BY DEF IInv, ConnInv, ConnTypeOK, AidOf, MeantFor, Request, Commands,
           Applets
  <2>2. AidOf(want) # None
    BY <2>1, NoneAssumption
  <2> QED
    BY <2>2 DEF IInv, ConnInv, RememberInv, SendsToSelected
<1> QED
  BY <1>1, Invariance, PTL

\* A call that succeeds has the whole reply, of the applet it asked.
THEOREM RepliesWhole == Spec => []WholeReply
<1>1. IInv => WholeReply
  BY DEF IInv, ConnInv, ReplyInv
<1> QED
  BY <1>1, Invariance, PTL
=============================================================================
