-------------------------- MODULE SecretsStoreProofs --------------------------
(***************************************************************************)
(* Proofs about SecretsStore, for any labels, secrets and number of APDUs  *)
(* that go wrong: what an operation by label deletes, when a slot may be   *)
(* called configured, and what a rename and a second configure keep.       *)
(***************************************************************************)
EXTENDS SecretsStore, FiniteSetTheorems, TLAPS

Stores == [Names -> Entries \cup {Absent}]
Errors == {"touch", "notfound", "refused", "transport"}

\* The two names a label stands for.
Pair(l) == {Plain(l), Twin(l)}

Whole(o) == o = Op(o.kind, o.name, o.arg, o.overwrite)

\* A change to an entry, renamed to one of the set to.
Changes(to) ==
    [to : to, guard : Guards, data : BOOLEAN, pw : BOOLEAN]

\* A renamed entry gets the name of its kind, as it was listed.
Kept(n, c) ==
    /\ c.pw => c.to[2] = "pw" /\ n[2] = "pw"
    /\ ~ c.pw /\ c.to # n => c.to[2] = "plain"

\* What each operation knows of itself.
OpInv ==
    /\ Whole(op)
    /\ pc = "add" => op.kind = "add" /\ op.arg \in Entries
    /\ pc = "update" =>
         op.kind \in {"update", "edit"} /\ op.arg \in Changes(Names)
    /\ pc \in {"list", "put", "check"} => op.kind = "configure"
    /\ pc = "relist" => op.kind \in {"configure", "unslot"}
    /\ pc = "get" => op.kind \in {"get", "edit"}
    /\ pc = "get" /\ op.kind = "edit" =>
         op.arg \in Changes(Labels \cup {Absent})
    /\ pc = "delete" => op.kind \in {"delete", "configure", "unslot"}
    /\ op.kind = "configure" => op.arg \in Secrets
    /\ op.kind \in {"configure", "unslot"} => op.name = Plain(Slot)
    /\ op.kind = "update" => Kept(op.name, op.arg)

\* The loops by name try names of their label only.
LeftInv ==
    pc \in {"get", "delete"} =>
      left # <<>> /\ \A i \in 1..Len(left) : left[i] \in Pair(op.name[1])

\* What configure_hmac_slot knows of the slot.
SlotInv ==
    /\ pc = "check" => store[Plain(Slot)] = Hmac(op.arg)
    /\ op.kind = "configure" /\ ~ op.overwrite =>
         /\ pc \in {"idle", "list", "put", "check"}
         /\ pc = "put" => ~ Configured

\* What a deletion has removed before its next APDU.
DeleteInv ==
    /\ pc \in {"list", "relist"} => removed = {}
    /\ pc = "delete" =>
         removed \subseteq Pair(op.name[1]) /\ (~ troubled => removed = {})

ResultInv == result # "none" => pc = "idle"

Claims == ConfiguredExactly /\ DeletesOne

IInv ==
    /\ TypeOK /\ OpInv /\ LeftInv /\ SlotInv /\ DeleteInv /\ ResultInv
    /\ Claims
-----------------------------------------------------------------------------
(***************************************************************************)
(* What comes of an APDU, carried out once, twice or not at all.           *)
(***************************************************************************)
\* What one run of an APDU answers and leaves.
LEMMA AnswerShape ==
    ASSUME NEW k, NEW n, NEW e, NEW s, NEW a \in Answers(k, n, e, s)
    PROVE  /\ a.reply \in Replies(k, n, e, s)
           /\ a.store = IF a.reply = "ok" THEN Effect(k, n, e, s) ELSE s
BY DEF Answers

\* Two runs at most: the last one's answer, or none.
LEMMA OutcomeShape ==
    ASSUME NEW k, NEW n, NEW e, NEW a \in Outcomes(k, n, e)
    PROVE  \/ a \in Answers(k, n, e, store)
           \/ \E b \in Answers(k, n, e, store) :
                \/ a.reply = "transport" /\ a.store \in {store, b.store}
                \/ a \in Answers(k, n, e, b.store)
BY DEF Outcomes, Troubles

\* Listing changes nothing.
LEMMA ListOutcome ==
    ASSUME NEW n, NEW e, NEW a \in Outcomes("list", n, e)
    PROVE  a.store = store /\ a.reply \in {"ok", "touch", "transport"}
<1>1. \A s : \A b \in Answers("list", n, e, s) :
         b.store = s /\ b.reply \in {"ok", "touch"}
  BY SMT DEF Answers, Replies, Effect
<1> QED
  BY <1>1, OutcomeShape

\* Nor does reading an entry.
LEMMA GetOutcome ==
    ASSUME NEW n, NEW e, NEW a \in Outcomes("get", n, e)
    PROVE  /\ a.store = store
           /\ a.reply \in {"ok", "notfound", "touch", "transport"}
<1>1. \A s : \A b \in Answers("get", n, e, s) :
         b.store = s /\ b.reply \in {"ok", "notfound", "touch"}
  BY SMT DEF Answers, Replies, Effect
<1> QED
  BY <1>1, OutcomeShape

\* DELETE takes the entry of that name or nothing; "ok" is heard only of one
\* that was there, as the second of two runs finds it gone.
LEMMA DeleteOutcome ==
    ASSUME store \in Stores, NEW n \in Names,
           NEW a \in Outcomes("delete", n, Absent)
    PROVE  /\ a.reply \in {"ok", "notfound", "touch", "transport"}
           /\ a.store \in {store, [store EXCEPT ![n] = Absent]}
           /\ a.reply = "ok" =>
                /\ store[n] # Absent
                /\ a.store = [store EXCEPT ![n] = Absent]
           /\ a \in Answers("delete", n, Absent, store) /\ a.reply # "ok" =>
                a.store = store
<1>1. PICK gone : gone = [store EXCEPT ![n] = Absent]
  OBVIOUS
<1>2. gone[n] = Absent
  BY <1>1 DEF Stores
<1>3. \A b \in Answers("delete", n, Absent, store) :
         /\ b.reply \in {"ok", "notfound", "touch"}
         /\ b.reply = "ok" => store[n] # Absent /\ b.store = gone
         /\ b.reply # "ok" => b.store = store
  <2>1. Effect("delete", n, Absent, store) = gone
    BY <1>1 DEF Effect
  <2> QED
    BY <2>1, SMT DEF Answers, Replies
<1>4. \A b \in Answers("delete", n, Absent, gone) :
         b.reply = "notfound" /\ b.store = gone
  BY <1>2, SMT DEF Answers, Replies
<1> QED
  BY <1>1, <1>3, <1>4, OutcomeShape

\* PUT leaves the entry under that name or changes nothing.
LEMMA PutOutcome ==
    ASSUME store \in Stores, NEW n \in Names, NEW e,
           NEW a \in Outcomes("put", n, e)
    PROVE  /\ a.reply \in {"ok", "refused", "touch", "transport"}
           /\ a.store \in {store, [store EXCEPT ![n] = e]}
           /\ a.reply = "ok" => a.store = [store EXCEPT ![n] = e]
<1>1. PICK done : done = [store EXCEPT ![n] = e]
  OBVIOUS
<1>2. [done EXCEPT ![n] = e] = done
  BY <1>1 DEF Stores
<1>3. \A b \in Answers("put", n, e, store) :
         /\ b.reply \in {"ok", "refused", "touch"}
         /\ b.store = IF b.reply = "ok" THEN done ELSE store
  <2>1. Effect("put", n, e, store) = done
    BY <1>1 DEF Effect
  <2> QED
    BY <2>1, SMT DEF Answers, Replies
<1>4. \A b \in Answers("put", n, e, done) :
         b.reply \in {"ok", "refused", "touch"} /\ b.store = done
  BY <1>2, SMT DEF Answers, Replies, Effect
<1> QED
  BY <1>1, <1>3, <1>4, OutcomeShape

\* What UPDATE_CREDENTIAL makes of the store when it works.
Moved(n, c, s) == [s EXCEPT ![n] = Absent, ![c.to] = Changed(s[n], c)]

\* A change makes an entry of an entry, sets what it says and no more, and may
\* be made twice.
LEMMA ChangedEntry ==
    ASSUME NEW x \in Entries, NEW c \in Changes(Names)
    PROVE  /\ Changed(x, c) \in Entries
           /\ Changed(Changed(x, c), c) = Changed(x, c)
           /\ Changed(x, c).safe = (x.safe \/ c.data)
BY DEF Entries, Changes, Changed

LEMMA MovedType ==
    ASSUME store \in Stores, NEW n \in Names, NEW c \in Changes(Names),
           store[n] # Absent
    PROVE  Moved(n, c, store) \in Stores
<1>1. PICK x : x = Changed(store[n], c)
  OBVIOUS
<1>2. x \in Entries
  BY <1>1, ChangedEntry DEF Stores
<1> QED
  BY <1>1, <1>2 DEF Moved, Stores

\* UPDATE changes the entry, moves it, or does nothing: a second run finds no
\* entry under the old name, unless the name stayed the same.
LEMMA UpdateOutcome ==
    ASSUME store \in Stores, NEW n \in Names, NEW c \in Changes(Names),
           NEW a \in Outcomes("update", n, c)
    PROVE  /\ a.reply \in {"ok"} \cup Errors
           /\ \/ a.store = store
              \/ store[n] # Absent /\ a.store = Moved(n, c, store)
<1>1. PICK done : done = Moved(n, c, store)
  OBVIOUS
<1>2. \A s : \A b \in Answers("update", n, c, s) :
         /\ b.reply \in {"ok"} \cup Errors
         /\ b.reply = "ok" => s[n] # Absent /\ b.store = Moved(n, c, s)
         /\ b.reply # "ok" => b.store = s
  BY SMT DEF Answers, Replies, Effect, Moved, Errors
<1>3. CASE store[n] = Absent
  <2>1. \A b \in Answers("update", n, c, store) : b.store = store
    BY <1>2, <1>3
  <2> QED
    BY <1>2, <2>1, OutcomeShape DEF Errors
<1>4. CASE c.to = n /\ store[n] # Absent
  <2>1. PICK x : x = Changed(store[n], c)
    OBVIOUS
  <2>2. store[n] \in Entries
    BY <1>4 DEF Stores
  <2>3. x \in Entries /\ Changed(x, c) = x
    BY <2>1, <2>2, ChangedEntry
  <2>4. done = [store EXCEPT ![n] = x] /\ done[n] = x
    BY <1>1, <1>4, <2>1 DEF Moved, Stores
  <2>5. Moved(n, c, done) = done
    BY <1>4, <2>3, <2>4 DEF Moved, Stores
  <2>6. \A b \in Answers("update", n, c, done) : b.store = done
    BY <1>2, <2>5
  <2> QED
    BY <1>1, <1>2, <1>4, <2>6, OutcomeShape DEF Errors
<1>5. CASE c.to # n
  <2>1. done[n] = Absent
    BY <1>1, <1>5 DEF Moved, Stores, Changes
  <2>2. \A b \in Answers("update", n, c, done) : b.store = done
    BY <1>2, <2>1
  <2> QED
    BY <1>1, <1>2, <2>2, OutcomeShape DEF Errors
<1> QED
  BY <1>3, <1>4, <1>5
-----------------------------------------------------------------------------
(***************************************************************************)
(* The invariant.                                                          *)
(***************************************************************************)
\* What an APDU may do to the store and to what is recorded of it.
SentType ==
    /\ store' \in Stores
    /\ removed' \subseteq Names /\ troubled' \in BOOLEAN
    /\ faults' \in 0..MaxFaults

LEMMA SentKeeps ==
    ASSUME TypeOK, NEW k, NEW n, NEW e, NEW a, Sent(a, k, n, e),
           a.store \in Stores, a.reply \in {"ok"} \cup Errors
    PROVE  SentType
<1>1. store' \in Stores
  BY DEF Sent
<1>2. removed' \subseteq Names
  BY DEF Sent, TypeOK
<1>3. troubled' \in BOOLEAN
  <2>1. troubled \in BOOLEAN
    BY DEF TypeOK
  <2>2. troubled' = troubled \/ troubled' = TRUE
    BY DEF Sent
  <2> QED
    BY <2>1, <2>2
<1>4. faults' \in 0..MaxFaults
  BY SecretsAssumption DEF Sent, TypeOK
<1> QED
  BY <1>1, <1>2, <1>3, <1>4 DEF SentType

\* Entries that are put or moved are entries.
LEMMA EntryTypes ==
    /\ \A s \in Secrets : Hmac(s) \in Entries
    /\ Addable \subseteq Entries
<1>1. \A s \in Secrets : Hmac(s) \in Entries
  BY DEF Hmac, Entries
<1>2. \A g, d \in BOOLEAN : Other(g, d) \in Entries
  BY DEF Other, Entries
<1> QED
  BY <1>1, <1>2 DEF Addable

LEMMA NameTypes ==
    \A l \in Labels :
      /\ Plain(l) \in Names /\ Twin(l) \in Names /\ Pair(l) \subseteq Names
      /\ Plain(l)[1] = l /\ Plain(l)[2] = "plain"
      /\ Twin(l)[1] = l /\ Twin(l)[2] = "pw"
BY DEF Plain, Twin, Pair, Names

\* An operation that ends this way claims nothing.
Quiet ==
    {"none", "got", "added", "updated", "exists", "unconfigured"} \cup Errors

\* The end of an operation keeps the invariant, if what it claims is true.
LEMMA EndsInv ==
    ASSUME TypeOK, OpInv, SentType, UNCHANGED op,
           NEW r \in Quiet \cup {"deleted", "configured"}, Ends(r),
           r \notin Quiet => Claims'
    PROVE  IInv'
<1>1. TypeOK'
  <2>1. left' \in Seq(Names) /\ Len(left') <= 2
    BY DEF Ends
  <2> QED
    BY <2>1 DEF TypeOK, SentType, Ends, Quiet, Errors, Stores
<1>2. OpInv' /\ LeftInv' /\ SlotInv' /\ DeleteInv' /\ ResultInv'
  BY DEF OpInv, LeftInv, SlotInv, DeleteInv, ResultInv, Ends
<1>3. Claims'
  BY DEF Claims, ConfiguredExactly, DeletesOne, Ends, Quiet, Errors
<1> QED
  BY <1>1, <1>2, <1>3 DEF IInv

\* So does the end of one that leaves nothing to say of it.
LEMMA OverInv ==
    ASSUME TypeOK, SentType, NEW r \in Quiet, Over(r)
    PROVE  IInv'
<1>1. PICK n : n = Plain(Slot)
  OBVIOUS
<1>2. /\ op'.kind = "none" /\ op'.name = n /\ Whole(op')
      /\ op'.overwrite \in BOOLEAN
  BY <1>1, Zenon DEF Over, Forgotten, Op, Whole
<1>3. n \in Names
  BY <1>1, NameTypes, SecretsAssumption
<1>4. TypeOK'
  <2>1. left' \in Seq(Names) /\ Len(left') <= 2
    BY DEF Over, Ends
  <2> QED
    BY <1>2, <1>3, <2>1
    DEF TypeOK, SentType, Over, Ends, Quiet, Errors, Stores
<1>5. OpInv' /\ LeftInv' /\ SlotInv' /\ DeleteInv' /\ ResultInv'
  BY <1>2 DEF OpInv, LeftInv, SlotInv, DeleteInv, ResultInv, Over, Ends
<1>6. Claims'
  BY DEF Claims, ConfiguredExactly, DeletesOne, Over, Ends, Quiet, Errors
<1> QED
  BY <1>4, <1>5, <1>6 DEF IInv

\* So does going on to the next APDU, as far as types and claims go.
LEMMA GoesInv ==
    ASSUME TypeOK, ResultInv, SentType, pc # "idle",
           UNCHANGED result,
           pc' \in {"delete", "get", "relist", "put", "check", "update"},
           left' \in Seq(Names), Len(left') <= 2,
           op'.kind = op.kind, op'.name \in Names, op'.overwrite \in BOOLEAN
    PROVE  TypeOK' /\ ResultInv' /\ Claims'
<1>1. result' = "none"
  BY DEF ResultInv
<1>2. ResultInv' /\ Claims'
  BY <1>1 DEF ResultInv, Claims, ConfiguredExactly, DeletesOne
<1>3. TypeOK'
  BY <1>1 DEF TypeOK, SentType, Errors, Stores
<1> QED
  BY <1>2, <1>3

\* The names an operation on n tries, one or two of the same label.
Tries(n, names) ==
    names # <<>> /\ \A i \in 1..Len(names) : names[i] \in Pair(n[1])

LEMMA CandidatesType ==
    ASSUME NEW n \in Names
    PROVE  /\ Candidates(n) \in Seq(Names) /\ Candidates(n) # <<>>
           /\ Len(Candidates(n)) <= 2
           /\ \A i \in 1..Len(Candidates(n)) : Candidates(n)[i] \in Pair(n[1])
<1>1. PICK b : b = Twin(n[1])
  OBVIOUS
<1>2. n \in Pair(n[1]) /\ b \in Pair(n[1]) /\ b \in Names
  BY <1>1, NameTypes DEF Names, Pair, Plain, Twin
<1>3. Candidates(n) \in {<<n>>, <<n, b>>}
  BY <1>1 DEF Candidates
<1>4. CASE Candidates(n) = <<n>>
  BY <1>2, <1>4
<1>5. CASE Candidates(n) = <<n, b>>
  BY <1>2, <1>5
<1> QED
  BY <1>3, <1>4, <1>5

\* An operation, as every call makes it.
Calling(o) ==
    /\ Whole(o) /\ o.name \in Names /\ o.overwrite \in BOOLEAN
    /\ o.kind \in {"delete", "get", "add", "configure", "unslot", "update",
                   "edit"}

\* A call begins with nothing removed and nothing claimed.
LEMMA StartInv ==
    ASSUME TypeOK,
           NEW p \in {"delete", "get", "add", "list", "relist", "update"},
           NEW o, Calling(o), NEW names \in Seq(Names), Len(names) <= 2,
           Start(p, o, names)
    PROVE  /\ TypeOK' /\ DeleteInv' /\ ResultInv' /\ Claims'
           /\ op' = o /\ pc' = p /\ left' = names
<1>1. /\ pc' = p /\ op' = o /\ left' = names /\ result' = "none"
      /\ removed' = {} /\ troubled' = FALSE
      /\ store' = store /\ faults' = faults
  BY DEF Start
<1>2. TypeOK'
  <2>1. op'.overwrite \in BOOLEAN /\ troubled' \in BOOLEAN
    BY <1>1, Zenon DEF Calling
  <2>2. removed' \subseteq Names
    BY <1>1, Zenon
  <2>3. /\ store' \in [Names -> Entries \cup {Absent}]
        /\ faults' \in 0..MaxFaults
    BY <1>1 DEF TypeOK
  <2>4. op'.name \in Names /\ op'.kind \in {"delete", "get", "add",
              "configure", "unslot", "update", "edit"}
    BY <1>1 DEF Calling
  <2> QED
    BY <1>1, <2>1, <2>2, <2>3, <2>4 DEF TypeOK
<1>3. DeleteInv' /\ ResultInv' /\ Claims'
  BY <1>1 DEF DeleteInv, ResultInv, Claims, ConfiguredExactly, DeletesOne
<1> QED
  BY <1>1, <1>2, <1>3

\* Every call begins where the invariant has it.
LEMMA CallsInv == ASSUME TypeOK, Calls PROVE IInv'
<1>1. CASE \E n \in Names :
             DeleteByLabel(n) \/ GetByLabel(n) \/ DeleteExactly(n)
  <2>0. PICK n \in Names, k \in {"delete", "get"} :
          \/ Start(k, Op(k, n, Absent, FALSE), Candidates(n))
          \/ Start(k, Op(k, n, Absent, FALSE), <<n>>)
    BY <1>1 DEF DeleteByLabel, GetByLabel, DeleteExactly, ByName
  <2>1. PICK names \in {Candidates(n), <<n>>} :
          Start(k, Op(k, n, Absent, FALSE), names)
    BY <2>0
  <2>2. PICK o : o = Op(k, n, Absent, FALSE)
    OBVIOUS
  <2>3. Start(k, o, names)
    BY <2>1, <2>2
  <2>4. /\ Calling(o)
        /\ o.kind = k /\ o.name = n /\ o.arg = Absent
    BY <2>2, Zenon DEF Op, Calling, Whole
  <2>5. names \in Seq(Names) /\ Len(names) <= 2 /\ Tries(n, names)
    <3>1. n \in Pair(n[1])
      BY DEF Names, Pair, Plain, Twin
    <3>2. CASE names = <<n>>
      BY <3>1, <3>2 DEF Tries
    <3>3. CASE names = Candidates(n)
      BY <3>3, CandidatesType DEF Tries
    <3> QED
      BY <2>1, <3>2, <3>3
  <2>6. /\ TypeOK' /\ DeleteInv' /\ ResultInv' /\ Claims'
        /\ op' = o /\ pc' = k /\ left' = names
    BY <2>3, <2>4, <2>5, StartInv
  <2>7. OpInv' /\ SlotInv'
    BY <2>4, <2>6 DEF OpInv, SlotInv, Calling
  <2>8. LeftInv'
    BY <2>4, <2>5, <2>6 DEF LeftInv, Tries
  <2> QED
    BY <2>6, <2>7, <2>8 DEF IInv
<1>2. CASE \E n \in Names, e \in Addable : Add(n, e)
  <2>1. PICK n \in Names, e \in Addable :
          Start("add", Op("add", n, e, FALSE), <<>>)
    BY <1>2 DEF Add
  <2>2. PICK o, names :
          o = Op("add", n, e, FALSE) /\ names = <<>>
    OBVIOUS
  <2>3. Start("add", o, names)
    BY <2>1, <2>2
  <2>4. e \in Entries
    BY EntryTypes
  <2>5. /\ Calling(o)
        /\ o.kind = "add" /\ o.name = n /\ o.arg = e
    BY <2>2, Zenon DEF Op, Calling, Whole
  <2>6. names \in Seq(Names) /\ Len(names) <= 2
    BY <2>2
  <2>7. /\ TypeOK' /\ DeleteInv' /\ ResultInv' /\ Claims'
        /\ op' = o /\ pc' = "add"
    BY <2>3, <2>5, <2>6, StartInv
  <2> QED
    BY <2>4, <2>5, <2>7 DEF IInv, OpInv, LeftInv, SlotInv, Calling
<1>3. CASE \E n \in Names, l \in Labels \cup {Absent}, g \in Guards,
              data \in BOOLEAN : EditEntry(n, l, g, data)
  <2>1. PICK n \in Names, l \in Labels \cup {Absent}, g \in Guards,
             data \in BOOLEAN : EditEntry(n, l, g, data)
    BY <1>3
  <2>2. PICK c : c = [to |-> l, guard |-> g, data |-> data, pw |-> FALSE]
    OBVIOUS
  <2>3. PICK o, names :
          o = Op("edit", n, c, FALSE) /\ names = Candidates(n)
    OBVIOUS
  <2>4. Start("get", o, names)
    BY <2>1, <2>2, <2>3 DEF EditEntry
  <2>5. c \in Changes(Labels \cup {Absent})
    BY <2>2 DEF Changes
  <2>6. /\ Calling(o)
        /\ o.kind = "edit" /\ o.name = n /\ o.arg = c
    BY <2>3, Zenon DEF Op, Calling, Whole
  <2>7. names \in Seq(Names) /\ Len(names) <= 2 /\ Tries(n, names)
    BY <2>3, CandidatesType DEF Tries
  <2>8. /\ TypeOK' /\ DeleteInv' /\ ResultInv' /\ Claims'
        /\ op' = o /\ pc' = "get" /\ left' = names
    BY <2>4, <2>6, <2>7, StartInv
  <2>9. OpInv' /\ SlotInv'
    BY <2>5, <2>6, <2>8 DEF OpInv, SlotInv, Calling
  <2>10. LeftInv'
    BY <2>6, <2>7, <2>8 DEF LeftInv, Tries
  <2> QED
    BY <2>8, <2>9, <2>10 DEF IInv
<1>4. CASE \E n \in Names, l \in Labels \cup {Absent}, g \in Guards,
              data \in BOOLEAN, d \in BOOLEAN :
             UpdateListed(n, d, l, g, data)
  <2>1. PICK n \in Names, l \in Labels \cup {Absent}, g \in Guards,
             data \in BOOLEAN, d \in BOOLEAN :
          UpdateListed(n, d, l, g, data)
    BY <1>4
  <2>2. PICK pw : pw = PasswordOnly(n, d)
    OBVIOUS
  <2>3. PICK to : to = Renamed(n, d, l)
    OBVIOUS
  <2>4. PICK c : c = [to |-> to, guard |-> g, data |-> data, pw |-> pw]
    OBVIOUS
  <2>5. PICK o, names : o = Op("update", n, c, FALSE) /\ names = <<>>
    OBVIOUS
  <2>6. Start("update", o, names)
    BY <2>1, <2>2, <2>3, <2>4, <2>5 DEF UpdateListed
  <2>7. pw \in BOOLEAN /\ (pw => n[2] = "pw")
    BY <2>2, Zenon DEF PasswordOnly
  <2>8. /\ to \in Names
        /\ pw => to[2] = "pw"
        /\ ~ pw /\ to # n => to[2] = "plain"
    <3>1. CASE l = Absent
      BY <2>3, <2>7, <3>1 DEF Renamed
    <3>2. CASE l # Absent
      <4>1. l \in Labels /\ to = IF pw THEN Twin(l) ELSE Plain(l)
        BY <2>2, <2>3, <3>2 DEF Renamed
      <4> QED
        BY <2>7, <4>1, NameTypes
    <3> QED
      BY <3>1, <3>2
  <2>9. c \in Changes(Names) /\ Kept(n, c)
    BY <2>4, <2>7, <2>8 DEF Changes, Kept
  <2>10. /\ Calling(o)
         /\ o.kind = "update" /\ o.name = n /\ o.arg = c
    BY <2>5, Zenon DEF Op, Calling, Whole
  <2>11. names \in Seq(Names) /\ Len(names) <= 2
    BY <2>5
  <2>12. /\ TypeOK' /\ DeleteInv' /\ ResultInv' /\ Claims'
         /\ op' = o /\ pc' = "update"
    BY <2>6, <2>10, <2>11, StartInv
  <2> QED
    BY <2>9, <2>10, <2>12 DEF IInv, OpInv, LeftInv, SlotInv, Calling
<1>5. CASE \E s \in Secrets, ow \in BOOLEAN : Configure(s, ow)
  <2>1. PICK s \in Secrets, ow \in BOOLEAN :
          Start("list", Op("configure", Plain(Slot), s, ow), <<>>)
    BY <1>5 DEF Configure
  <2>2. PICK o, names :
          o = Op("configure", Plain(Slot), s, ow) /\ names = <<>>
    OBVIOUS
  <2>3. Start("list", o, names)
    BY <2>1, <2>2
  <2>4. Plain(Slot) \in Names
    BY NameTypes, SecretsAssumption
  <2>5. /\ Calling(o)
        /\ o.kind = "configure" /\ o.name = Plain(Slot) /\ o.arg = s
    BY <2>2, <2>4, Zenon DEF Op, Calling, Whole
  <2>6. names \in Seq(Names) /\ Len(names) <= 2
    BY <2>2
  <2>7. /\ TypeOK' /\ DeleteInv' /\ ResultInv' /\ Claims'
        /\ op' = o /\ pc' = "list"
    BY <2>3, <2>4, <2>5, <2>6, StartInv
  <2> QED
    BY <2>5, <2>7 DEF IInv, OpInv, LeftInv, SlotInv, Calling
<1>6. CASE DeleteSlot
  <2>1. Start("relist", Op("unslot", Plain(Slot), Absent, FALSE), <<>>)
    BY <1>6 DEF DeleteSlot
  <2>2. PICK o, names :
          o = Op("unslot", Plain(Slot), Absent, FALSE) /\ names = <<>>
    OBVIOUS
  <2>3. Start("relist", o, names)
    BY <2>1, <2>2
  <2>4. Plain(Slot) \in Names
    BY NameTypes, SecretsAssumption
  <2>5. /\ Calling(o)
        /\ o.kind = "unslot" /\ o.name = Plain(Slot) /\ o.arg = Absent
    BY <2>2, <2>4, Zenon DEF Op, Calling, Whole
  <2>6. names \in Seq(Names) /\ Len(names) <= 2
    BY <2>2
  <2>7. /\ TypeOK' /\ DeleteInv' /\ ResultInv' /\ Claims'
        /\ op' = o /\ pc' = "relist"
    BY <2>3, <2>4, <2>5, <2>6, StartInv
  <2> QED
    BY <2>5, <2>7 DEF IInv, OpInv, LeftInv, SlotInv, Calling
<1> QED
  BY <1>1, <1>2, <1>3, <1>4, <1>5, <1>6 DEF Calls
-----------------------------------------------------------------------------
(***************************************************************************)
(* The APDUs of an operation.                                              *)
(***************************************************************************)
\* An APDU that changes nothing removes nothing.
LEMMA SentNothing ==
    ASSUME NEW k, NEW n, NEW e, NEW a, Sent(a, k, n, e), a.store = store
    PROVE  UNCHANGED <<store, removed>>
BY DEF Sent

\* The list that starts configure_hmac_slot: it goes on to the PUT only if
\* there is no slot, and to the deletion only with overwrite.
LEMMA ListInv == ASSUME IInv, ListStep PROVE IInv'
<1>1. PICK a \in Outcomes("list", op.name, Absent) :
        /\ Sent(a, "list", op.name, Absent)
        /\ \/ a.reply # "ok" /\ Ends(a.reply)
           \/ a.reply = "ok" /\ ~ Configured /\ Goto("put")
           \/ /\ a.reply = "ok" /\ Configured
              /\ IF ~ op.overwrite THEN Ends("exists") ELSE Goto("relist")
  BY DEF ListStep, AfterUnconfigured, AfterConfigured
<1>2. pc = "list" /\ UNCHANGED op
  BY DEF ListStep
<1>3. /\ TypeOK /\ OpInv /\ ResultInv /\ op.kind = "configure"
      /\ removed = {} /\ op.overwrite \in BOOLEAN
  BY <1>2 DEF IInv, OpInv, DeleteInv, TypeOK
<1>4. a.store = store /\ a.reply \in {"ok", "touch", "transport"}
  BY ListOutcome
<1>5. SentType /\ UNCHANGED <<store, removed>>
  BY <1>1, <1>3, <1>4, SentKeeps, SentNothing DEF TypeOK, Stores, Errors
<1>6. CASE Ends("exists") \/ (a.reply # "ok" /\ Ends(a.reply))
  BY <1>2, <1>3, <1>4, <1>5, <1>6, EndsInv DEF Quiet, Errors
<1>7. CASE \/ ~ Configured /\ Goto("put")
           \/ op.overwrite /\ Goto("relist")
  <2>1. /\ pc' \in {"put", "relist"} /\ UNCHANGED <<left, result>>
        /\ pc' = "put" => ~ Configured
        /\ pc' = "relist" => op.overwrite
    BY <1>7 DEF Goto
  <2>2. /\ left \in Seq(Names) /\ Len(left) <= 2
        /\ op'.kind = op.kind /\ op'.name \in Names
        /\ op'.overwrite \in BOOLEAN
    BY <1>2, <1>3 DEF TypeOK
  <2>3. TypeOK' /\ ResultInv' /\ Claims'
    BY <1>2, <1>3, <1>5, <2>1, <2>2, GoesInv
  <2>4. OpInv' /\ LeftInv' /\ DeleteInv'
    BY <1>2, <1>3, <1>5, <2>1 DEF OpInv, LeftInv, DeleteInv
  <2>5. SlotInv'
    BY <1>2, <1>5, <2>1 DEF SlotInv, Configured
  <2> QED
    BY <2>3, <2>4, <2>5 DEF IInv
<1> QED
  BY <1>1, <1>6, <1>7

\* The second list goes on to delete by the label of the slot.
LEMMA RelistInv == ASSUME IInv, RelistStep PROVE IInv'
<1>1. PICK a \in Outcomes("list", op.name, Absent) :
        /\ Sent(a, "list", op.name, Absent)
        /\ \/ a.reply # "ok" /\ Ends(a.reply)
           \/ a.reply = "ok" /\ ~ Configured /\ Ends("unconfigured")
           \/ /\ a.reply = "ok" /\ Configured
              /\ pc' = "delete" /\ left' = Candidates(Plain(Slot))
              /\ UNCHANGED result
  BY DEF RelistStep
<1>2. pc = "relist" /\ UNCHANGED op
  BY DEF RelistStep
<1>3. /\ TypeOK /\ OpInv /\ ResultInv /\ op.kind \in {"configure", "unslot"}
      /\ op.name = Plain(Slot) /\ removed = {}
      /\ op.kind = "configure" => op.overwrite
  BY <1>2 DEF IInv, OpInv, DeleteInv, SlotInv
<1>4. a.store = store /\ a.reply \in {"ok", "touch", "transport"}
  BY ListOutcome
<1>5. SentType /\ UNCHANGED <<store, removed>>
  BY <1>1, <1>3, <1>4, SentKeeps, SentNothing DEF TypeOK, Stores, Errors
<1>6. CASE Ends("unconfigured") \/ (a.reply # "ok" /\ Ends(a.reply))
  BY <1>2, <1>3, <1>4, <1>5, <1>6, EndsInv DEF Quiet, Errors
<1>7. CASE /\ pc' = "delete" /\ left' = Candidates(Plain(Slot))
           /\ UNCHANGED result
  <2>1. /\ left' \in Seq(Names) /\ Len(left') <= 2
        /\ Tries(Plain(Slot), left')
    BY <1>7, SecretsAssumption, NameTypes, CandidatesType DEF Tries
  <2>2. /\ op'.kind = op.kind /\ op'.name \in Names
        /\ op'.overwrite \in BOOLEAN
    BY <1>2, <1>3 DEF TypeOK
  <2>3. TypeOK' /\ ResultInv' /\ Claims'
    BY <1>2, <1>3, <1>5, <1>7, <2>1, <2>2, GoesInv
  <2>4. OpInv' /\ DeleteInv' /\ SlotInv'
    BY <1>2, <1>3, <1>5, <1>7 DEF OpInv, DeleteInv, SlotInv
  <2>5. op'.name = Plain(Slot)
    BY <1>2, <1>3
  <2>6. LeftInv'
    BY <2>1, <2>5 DEF LeftInv, Tries
  <2> QED
    BY <2>3, <2>4, <2>6 DEF IInv
<1> QED
  BY <1>1, <1>6, <1>7

\* After a PUT that worked the slot holds the secret.
LEMMA PutInv == ASSUME IInv, PutStep PROVE IInv'
<1>1. PICK e : e = Hmac(op.arg)
  OBVIOUS
<1>2. PICK a \in Outcomes("put", op.name, e) :
        /\ Sent(a, "put", op.name, e)
        /\ IF a.reply = "ok" THEN Goto("check") ELSE Ends(a.reply)
  BY <1>1 DEF PutStep, AfterPut
<1>3. pc = "put" /\ UNCHANGED op
  BY DEF PutStep
<1>4. /\ TypeOK /\ OpInv /\ ResultInv /\ op.kind = "configure"
      /\ op.name = Plain(Slot) /\ op.name \in Names /\ e \in Entries
  BY <1>1, <1>3, EntryTypes DEF IInv, OpInv, TypeOK
<1>5. store \in Stores
  BY <1>4 DEF TypeOK, Stores
<1>6. /\ a.reply \in {"ok", "refused", "touch", "transport"}
      /\ a.store \in {store, [store EXCEPT ![op.name] = e]}
      /\ a.reply = "ok" => a.store = [store EXCEPT ![op.name] = e]
  BY <1>4, <1>5, PutOutcome
<1>7. a.store \in Stores /\ (a.reply = "ok" => a.store[op.name] = e)
  BY <1>4, <1>5, <1>6 DEF Stores
<1>8. SentType /\ store' = a.store
  BY <1>2, <1>4, <1>6, <1>7, SentKeeps DEF Errors, Sent
<1>9. CASE a.reply # "ok" /\ Ends(a.reply)
  BY <1>3, <1>4, <1>6, <1>8, <1>9, EndsInv DEF Quiet, Errors
<1>10. CASE a.reply = "ok" /\ Goto("check")
  <2>1. pc' = "check" /\ UNCHANGED <<left, result>>
    BY <1>10 DEF Goto
  <2>2. /\ left \in Seq(Names) /\ Len(left) <= 2
        /\ op'.kind = op.kind /\ op'.name \in Names
        /\ op'.overwrite \in BOOLEAN
    BY <1>3, <1>4 DEF TypeOK
  <2>3. TypeOK' /\ ResultInv' /\ Claims'
    BY <1>3, <1>4, <1>8, <2>1, <2>2, GoesInv
  <2>4. OpInv' /\ LeftInv' /\ DeleteInv'
    BY <1>3, <1>4, <2>1 DEF OpInv, LeftInv, DeleteInv
  <2>5. SlotInv'
    BY <1>1, <1>3, <1>4, <1>7, <1>8, <1>10, <2>1 DEF SlotInv
  <2> QED
    BY <2>3, <2>4, <2>5 DEF IInv
<1> QED
  BY <1>2, <1>9, <1>10

\* The last list confirms what the PUT left.
LEMMA CheckInv == ASSUME IInv, CheckStep PROVE IInv'
<1>1. PICK a \in Outcomes("list", op.name, Absent) :
        /\ Sent(a, "list", op.name, Absent)
        /\ Ends(IF a.reply = "ok" THEN "configured" ELSE a.reply)
  BY DEF CheckStep
<1>2. pc = "check" /\ UNCHANGED op
  BY DEF CheckStep
<1>3. TypeOK /\ OpInv /\ store[Plain(Slot)] = Hmac(op.arg)
  BY <1>2 DEF IInv, SlotInv
<1>4. a.store = store /\ a.reply \in {"ok", "touch", "transport"}
  BY ListOutcome
<1>5. SentType /\ UNCHANGED <<store, removed>>
  BY <1>1, <1>3, <1>4, SentKeeps, SentNothing DEF TypeOK, Stores, Errors
<1>6. CASE a.reply = "ok" /\ Ends("configured")
  <2>1. Claims'
    BY <1>2, <1>3, <1>5, <1>6 DEF Claims, ConfiguredExactly, DeletesOne, Ends
  <2> QED
    BY <1>2, <1>3, <1>5, <1>6, <2>1, EndsInv
<1>7. CASE a.reply # "ok" /\ Ends(a.reply)
  BY <1>2, <1>3, <1>4, <1>5, <1>7, EndsInv DEF Quiet, Errors
<1> QED
  BY <1>1, <1>4, <1>6, <1>7

\* A credential that is added ends the operation.
LEMMA AddInv == ASSUME IInv, AddStep PROVE IInv'
<1>1. PICK e : e = op.arg
  OBVIOUS
<1>2. PICK a \in Outcomes("put", op.name, e) :
        /\ Sent(a, "put", op.name, e)
        /\ Over(IF a.reply = "ok" THEN "added" ELSE a.reply)
  BY <1>1 DEF AddStep
<1>3. pc = "add"
  BY DEF AddStep
<1>4. TypeOK /\ OpInv /\ op.name \in Names /\ e \in Entries
  BY <1>1, <1>3 DEF IInv, OpInv, TypeOK
<1>5. store \in Stores
  BY <1>4 DEF TypeOK, Stores
<1>6. /\ a.reply \in {"ok", "refused", "touch", "transport"}
      /\ a.store \in {store, [store EXCEPT ![op.name] = e]}
  BY <1>4, <1>5, PutOutcome
<1>7. a.store \in Stores
  BY <1>4, <1>5, <1>6 DEF Stores
<1>8. SentType
  BY <1>2, <1>4, <1>6, <1>7, SentKeeps DEF Errors
<1>9. PICK r : r = IF a.reply = "ok" THEN "added" ELSE a.reply
  OBVIOUS
<1>10. r \in Quiet
  BY <1>6, <1>9 DEF Quiet, Errors
<1> QED
  BY <1>2, <1>4, <1>8, <1>9, <1>10, OverInv

\* So does an update, whatever came of it.
LEMMA UpdateInv == ASSUME IInv, UpdateStep PROVE IInv'
<1>1. PICK a \in Outcomes("update", op.name, op.arg) :
        /\ Sent(a, "update", op.name, op.arg)
        /\ Over(IF a.reply = "ok" THEN "updated" ELSE a.reply)
  BY DEF UpdateStep
<1>2. pc = "update"
  BY DEF UpdateStep
<1>3. TypeOK /\ OpInv /\ op.name \in Names /\ op.arg \in Changes(Names)
  BY <1>2 DEF IInv, OpInv, TypeOK
<1>4. store \in Stores
  BY <1>3 DEF TypeOK, Stores
<1>5. /\ a.reply \in {"ok"} \cup Errors
      /\ \/ a.store = store
         \/ /\ store[op.name] # Absent
            /\ a.store = Moved(op.name, op.arg, store)
  BY <1>3, <1>4, UpdateOutcome
<1>6. store[op.name] # Absent => Moved(op.name, op.arg, store) \in Stores
  BY <1>3, <1>4, MovedType
<1>7. SentType
  <2>1. a.store \in Stores
    BY <1>4, <1>5, <1>6
  <2> QED
    BY <1>1, <1>3, <1>5, <2>1, SentKeeps, Zenon
<1>8. PICK r : r = IF a.reply = "ok" THEN "updated" ELSE a.reply
  OBVIOUS
<1>9. r \in Quiet
  BY <1>5, <1>8 DEF Quiet, Errors
<1> QED
  BY <1>1, <1>3, <1>7, <1>8, <1>9, OverInv

\* What is left to try once the first name is done with.
LEMMA TailLeft ==
    ASSUME NEW l, NEW s \in Seq(Names), Len(s) <= 2, Len(s) > 1,
           \A i \in 1..Len(s) : s[i] \in Pair(l)
    PROVE  /\ Tail(s) \in Seq(Names) /\ Len(Tail(s)) <= 2 /\ Tail(s) # <<>>
           /\ \A i \in 1..Len(Tail(s)) : Tail(s)[i] \in Pair(l)
<1>1. Tail(s) \in Seq(Names) /\ Len(Tail(s)) = Len(s) - 1
  OBVIOUS
<1>2. \A i \in 1..Len(Tail(s)) : Tail(s)[i] = s[i + 1]
  OBVIOUS
<1>3. Tail(s) # <<>>
  BY <1>1
<1> QED
  BY <1>1, <1>2, <1>3

\* A GET goes on to the other name, ends, or leads to the update of an edit.
LEMMA GetInv == ASSUME IInv, GetStep PROVE IInv'
<1>1. PICK n : n = Head(left)
  OBVIOUS
<1>2. PICK a \in Outcomes("get", n, Absent) :
        /\ Sent(a, "get", n, Absent)
        /\ \/ /\ a.reply # "ok" /\ Len(left) > 1
              /\ left' = Tail(left) /\ UNCHANGED <<pc, op, result>>
           \/ /\ a.reply # "ok" /\ Len(left) = 1
              /\ Over(a.reply)
           \/ /\ a.reply = "ok" /\ op.kind = "get"
              /\ Over("got")
           \/ /\ a.reply = "ok" /\ op.kind = "edit"
              /\ pc' = "update" /\ op' \in Edits(n)
              /\ left' = <<>> /\ UNCHANGED result
  BY <1>1 DEF GetStep
<1>3. pc = "get"
  BY DEF GetStep
<1>4. /\ TypeOK /\ OpInv /\ ResultInv
      /\ op.kind \in {"get", "edit"}
      /\ op.kind = "edit" => op.arg \in Changes(Labels \cup {Absent})
      /\ left \in Seq(Names) /\ Len(left) <= 2 /\ left # <<>>
      /\ \A i \in 1..Len(left) : left[i] \in Pair(op.name[1])
  BY <1>3 DEF IInv, OpInv, LeftInv, TypeOK
<1>5. /\ a.store = store
      /\ a.reply \in {"ok", "notfound", "touch", "transport"}
  BY GetOutcome
<1>6. SentType
  BY <1>2, <1>4, <1>5, SentKeeps DEF TypeOK, Stores, Errors
<1>7. CASE Over("got") \/ (a.reply # "ok" /\ Over(a.reply))
  BY <1>4, <1>5, <1>6, <1>7, OverInv DEF Quiet, Errors
<1>8. CASE /\ UNCHANGED op /\ Len(left) > 1
           /\ left' = Tail(left) /\ UNCHANGED <<pc, result>>
  <2>1. PICK t : t = Tail(left)
    OBVIOUS
  <2>2. /\ left' = t /\ t \in Seq(Names) /\ Len(t) <= 2 /\ t # <<>>
        /\ \A i \in 1..Len(t) : t[i] \in Pair(op.name[1])
    BY <1>4, <1>8, <2>1, TailLeft
  <2>3. op'.kind = op.kind /\ op'.name \in Names /\ op'.overwrite \in BOOLEAN
    BY <1>4, <1>8 DEF TypeOK
  <2>4. TypeOK' /\ ResultInv' /\ Claims'
    BY <1>3, <1>4, <1>6, <1>8, <2>2, <2>3, GoesInv
  <2>5. OpInv' /\ SlotInv' /\ DeleteInv'
    BY <1>3, <1>4, <1>8 DEF OpInv, SlotInv, DeleteInv
  <2>6. LeftInv'
    BY <1>8, <2>2 DEF LeftInv
  <2> QED
    BY <2>4, <2>5, <2>6 DEF IInv
<1>9. CASE /\ a.reply = "ok" /\ op.kind = "edit" /\ op' \in Edits(n)
           /\ pc' = "update" /\ left' = <<>> /\ UNCHANGED result
  <2>1. n \in Names /\ op.name \in Names /\ op.overwrite \in BOOLEAN
    BY <1>1, <1>4 DEF TypeOK
  <2>2. PICK m \in {op.name, n} :
          op' = [op EXCEPT !.name = m,
                           !.arg.to = Renamed(m, FALSE, op.arg.to)]
    BY <1>9 DEF Edits
  <2>3. PICK y : y = Renamed(m, FALSE, op.arg.to)
    OBVIOUS
  <2>4. PICK x : x = [op.arg EXCEPT !.to = y]
    OBVIOUS
  <2>5. m \in Names /\ x \in Changes(Names)
    <3>1. op.arg \in Changes(Labels \cup {Absent})
      BY <1>4, <1>9
    <3>2. op.arg.to \in Labels \cup {Absent}
      BY <3>1 DEF Changes
    <3>3. m \in Names /\ y \in Names
      BY <2>1, <2>2, <2>3, <3>2, NameTypes DEF Renamed, PasswordOnly
    <3> QED
      BY <2>4, <3>1, <3>3 DEF Changes
  <2>6. /\ op'.kind = "edit" /\ op'.name = m /\ op'.arg = x
        /\ op'.overwrite = op.overwrite /\ Whole(op')
    <3>1. Whole(op)
      BY <1>4 DEF OpInv
    <3>2. op' = [op EXCEPT !.name = m, !.arg = x]
      BY <2>2, <2>3, <2>4
    <3>3. op' = Op(op.kind, m, x, op.overwrite)
      BY <3>1, <3>2 DEF Whole, Op
    <3> QED
      BY <1>9, <3>3, Zenon DEF Op, Whole
  <2>7. op'.overwrite \in BOOLEAN
    BY <2>1, <2>6, Zenon
  <2>8. left' \in Seq(Names) /\ Len(left') <= 2
    BY <1>9
  <2>9. TypeOK' /\ ResultInv' /\ Claims'
    BY <1>3, <1>4, <1>6, <1>9, <2>5, <2>6, <2>7, <2>8, GoesInv
  <2>10. OpInv' /\ LeftInv' /\ SlotInv' /\ DeleteInv'
    BY <1>9, <2>5, <2>6 DEF OpInv, LeftInv, SlotInv, DeleteInv
  <2> QED
    BY <2>9, <2>10 DEF IInv
<1> QED
  BY <1>2, <1>4, <1>7, <1>8, <1>9

\* One DELETE: what it removed is of its label, and it is one entry if nothing
\* went wrong on the way.
LEMMA DeleteRemoves ==
    ASSUME IInv, pc = "delete", NEW n \in Pair(op.name[1]), n \in Names,
           NEW a \in Outcomes("delete", n, Absent),
           Sent(a, "delete", n, Absent)
    PROVE  /\ SentType /\ removed' \subseteq Pair(op.name[1])
           /\ a.reply \in {"ok", "notfound", "touch", "transport"}
           /\ a.reply # "ok" /\ ~ troubled' => removed' = {}
           /\ a.reply = "ok" => n \in removed'
           /\ a.reply = "ok" /\ ~ troubled' => removed' = {n}
<1>1. /\ TypeOK /\ removed \subseteq Pair(op.name[1])
      /\ ~ troubled => removed = {}
  BY DEF IInv, DeleteInv
<1>2. store \in Stores
  BY <1>1 DEF TypeOK, Stores
<1>3. /\ a.reply \in {"ok", "notfound", "touch", "transport"}
      /\ a.store \in {store, [store EXCEPT ![n] = Absent]}
      /\ a.reply = "ok" =>
           store[n] # Absent /\ a.store = [store EXCEPT ![n] = Absent]
      /\ a \in Answers("delete", n, Absent, store) /\ a.reply # "ok" =>
           a.store = store
  BY <1>2, DeleteOutcome
<1>4. a.store \in Stores
  BY <1>2, <1>3 DEF Stores
<1>5. SentType
  BY <1>1, <1>3, <1>4, SentKeeps DEF Errors
<1>6. PICK gone :
        /\ gone = {m \in Names : store[m] # Absent /\ a.store[m] # store[m]}
        /\ removed' = removed \cup gone
  BY DEF Sent
<1>7. /\ gone \subseteq {n}
      /\ a.reply = "ok" => gone = {n}
      /\ a.store = store => gone = {}
  BY <1>2, <1>3, <1>6 DEF Stores
<1>8. \/ a \in Answers("delete", n, Absent, store) /\ troubled' = troubled
      \/ troubled' = TRUE
  BY DEF Sent
<1>9. ~ troubled' => removed = {} /\ (a.reply # "ok" => a.store = store)
  BY <1>1, <1>3, <1>8
<1> QED
  BY <1>1, <1>3, <1>5, <1>6, <1>7, <1>9

\* A DELETE goes on to the other name, to the PUT of configure_hmac_slot, or
\* ends; it is reported as a deletion only after an "ok".
LEMMA DeleteStepInv == ASSUME IInv, DeleteStep PROVE IInv'
<1>1. PICK n : n = Head(left)
  OBVIOUS
<1>2. PICK a \in Outcomes("delete", n, Absent) :
        /\ Sent(a, "delete", n, Absent)
        /\ \/ /\ a.reply # "ok" /\ Len(left) > 1
              /\ left' = Tail(left) /\ UNCHANGED <<pc, result>>
           \/ /\ ~ (a.reply # "ok" /\ Len(left) > 1) /\ a.reply # "ok"
              /\ Ends(a.reply)
           \/ /\ a.reply = "ok"
              /\ IF op.kind = "configure" THEN Goto("put") ELSE Ends("deleted")
  BY <1>1 DEF DeleteStep, GoesOn
<1>3. pc = "delete" /\ UNCHANGED op
  BY DEF DeleteStep
<1>4. /\ TypeOK /\ OpInv /\ ResultInv /\ SlotInv
      /\ left \in Seq(Names) /\ Len(left) <= 2 /\ left # <<>>
      /\ \A i \in 1..Len(left) : left[i] \in Pair(op.name[1])
  BY <1>3 DEF IInv, LeftInv, TypeOK
<1>5. n \in Pair(op.name[1]) /\ n \in Names
  BY <1>1, <1>4
<1>6. /\ SentType /\ removed' \subseteq Pair(op.name[1])
      /\ a.reply \in {"ok", "notfound", "touch", "transport"}
      /\ a.reply # "ok" /\ ~ troubled' => removed' = {}
      /\ a.reply = "ok" => n \in removed'
      /\ a.reply = "ok" /\ ~ troubled' => removed' = {n}
  BY <1>2, <1>3, <1>5, DeleteRemoves
<1>7. op'.kind = op.kind /\ op'.name \in Names /\ op'.overwrite \in BOOLEAN
  BY <1>3, <1>4 DEF TypeOK
<1>8. CASE a.reply # "ok" /\ Ends(a.reply)
  BY <1>3, <1>4, <1>6, <1>8, EndsInv DEF Quiet, Errors
<1>9. CASE /\ a.reply # "ok" /\ Len(left) > 1
           /\ left' = Tail(left) /\ UNCHANGED <<pc, result>>
  <2>1. PICK t : t = Tail(left)
    OBVIOUS
  <2>2. /\ left' = t /\ t \in Seq(Names) /\ Len(t) <= 2 /\ t # <<>>
        /\ \A i \in 1..Len(t) : t[i] \in Pair(op.name[1])
    BY <1>4, <1>9, <2>1, TailLeft
  <2>3. TypeOK' /\ ResultInv' /\ Claims'
    BY <1>3, <1>4, <1>6, <1>7, <1>9, <2>2, GoesInv
  <2>4. OpInv' /\ SlotInv'
    BY <1>3, <1>4, <1>9 DEF OpInv, SlotInv
  <2>5. DeleteInv'
    BY <1>3, <1>6, <1>9 DEF DeleteInv
  <2>6. LeftInv'
    BY <1>3, <2>2 DEF LeftInv
  <2> QED
    BY <2>3, <2>4, <2>5, <2>6 DEF IInv
<1>10. CASE op.kind = "configure" /\ Goto("put")
  <2>1. pc' = "put" /\ UNCHANGED <<left, result>> /\ op.overwrite
    BY <1>3, <1>4, <1>10 DEF Goto, SlotInv
  <2>2. TypeOK' /\ ResultInv' /\ Claims'
    BY <1>3, <1>4, <1>6, <1>7, <2>1, GoesInv
  <2>3. OpInv' /\ LeftInv' /\ DeleteInv' /\ SlotInv'
    BY <1>3, <1>4, <1>10, <2>1 DEF OpInv, LeftInv, DeleteInv, SlotInv
  <2> QED
    BY <2>2, <2>3 DEF IInv
<1>11. CASE a.reply = "ok" /\ Ends("deleted")
  <2>1. ~ troubled' => Cardinality(removed') = 1
    BY <1>6, <1>11, FS_Singleton
  <2>2. removed' # {} /\ removed' \subseteq Pair(op'.name[1])
    BY <1>3, <1>6, <1>11
  <2>3. Claims'
    BY <1>11, <2>1, <2>2
    DEF Claims, ConfiguredExactly, DeletesOne, Ends, Pair
  <2> QED
    BY <1>3, <1>4, <1>6, <1>11, <2>3, EndsInv
<1> QED
  BY <1>2, <1>8, <1>9, <1>10, <1>11
-----------------------------------------------------------------------------
\* Nothing is on the device and nothing is claimed.
LEMMA InitInv == Init => IInv
<1> SUFFICES ASSUME Init PROVE IInv
  OBVIOUS
<1>1. PICK n : n = Plain(Slot)
  OBVIOUS
<1>2. n \in Names
  BY <1>1, NameTypes, SecretsAssumption
<1>3. /\ op.kind = "none" /\ op.name = n /\ Whole(op)
      /\ op.overwrite \in BOOLEAN
  BY <1>1, Zenon DEF Init, Forgotten, Op, Whole
<1>4. store \in Stores /\ left \in Seq(Names) /\ Len(left) <= 2
  BY DEF Init, Stores
<1>5. troubled \in BOOLEAN
  BY Zenon DEF Init
<1>6. TypeOK
  <2>1. pc = "idle" /\ result = "none" /\ removed = {}
        /\ faults \in 0..MaxFaults
    BY SecretsAssumption DEF Init
  <2> QED
    BY <1>2, <1>3, <1>4, <1>5, <2>1 DEF TypeOK, Stores
<1>7. OpInv /\ LeftInv /\ SlotInv /\ DeleteInv /\ ResultInv /\ Claims
  BY <1>3 DEF Init, OpInv, LeftInv, SlotInv, DeleteInv, ResultInv, Claims,
              ConfiguredExactly, DeletesOne
<1> QED
  BY <1>6, <1>7 DEF IInv

LEMMA NextInv == IInv /\ [Next]_vars => IInv'
<1> SUFFICES ASSUME IInv, [Next]_vars PROVE IInv'
  OBVIOUS
<1>1. CASE Calls
  BY <1>1, CallsInv DEF IInv
<1>2. CASE Step
  BY <1>2, DeleteStepInv, GetInv, AddInv, UpdateInv, ListInv, RelistInv,
     PutInv, CheckInv DEF Step
<1>3. CASE UNCHANGED vars
  <2>1. UNCHANGED <<store, pc, op, left, result, removed, troubled, faults>>
    BY <1>3 DEF vars, ghost
  <2>2. TypeOK' /\ OpInv' /\ LeftInv' /\ DeleteInv' /\ ResultInv'
    BY <2>1 DEF IInv, TypeOK, OpInv, LeftInv, DeleteInv, ResultInv
  <2>3. SlotInv' /\ Claims'
    BY <2>1 DEF IInv, SlotInv, Configured, Claims, ConfiguredExactly,
                DeletesOne
  <2> QED
    BY <2>2, <2>3 DEF IInv
<1> QED
  BY <1>1, <1>2, <1>3 DEF Next

\* What each operation knows holds throughout.
THEOREM Invariance == Spec => []IInv
  BY InitInv, NextInv, PTL DEF Spec

\* The session and the device keep their types; an operation tries only names
\* there can be on the device.
THEOREM TypeCorrect == Spec => []TypeOK
<1>1. IInv => TypeOK
  BY DEF IInv
<1> QED
  BY <1>1, Invariance, PTL

\* configure_hmac_slot returns only with the caller's secret in the slot.
THEOREM ConfiguredCorrect == Spec => []ConfiguredExactly
<1>1. IInv => ConfiguredExactly
  BY DEF IInv, Claims
<1> QED
  BY <1>1, Invariance, PTL

\* A deletion that returns took an entry of its label, and one only unless an
\* APDU went wrong.
THEOREM DeleteCorrect == Spec => []DeletesOne
<1>1. IInv => DeletesOne
  BY DEF IInv, Claims
<1> QED
  BY <1>1, Invariance, PTL
-----------------------------------------------------------------------------
(***************************************************************************)
(* What a step may not do.                                                 *)
(***************************************************************************)
\* Reading APDUs and calls leave the store alone.
LEMMA ReadsOnly ==
    ASSUME Calls \/ ListStep \/ RelistStep \/ GetStep \/ CheckStep
    PROVE  store' = store
<1>1. CASE Calls
  BY <1>1 DEF Calls, DeleteByLabel, DeleteExactly, GetByLabel, ByName, Add,
              EditEntry, UpdateListed, Configure, DeleteSlot, Start
<1>2. CASE ListStep
  BY <1>2, ListOutcome DEF ListStep, Sent
<1>3. CASE RelistStep
  BY <1>3, ListOutcome DEF RelistStep, Sent
<1>4. CASE GetStep
  BY <1>4, GetOutcome DEF GetStep, Sent
<1>5. CASE CheckStep
  BY <1>5, ListOutcome DEF CheckStep, Sent
<1> QED
  BY <1>1, <1>2, <1>3, <1>4, <1>5

\* Without overwrite, configure_hmac_slot never touches a slot it could find.
THEOREM SlotKept == Spec => KeepsSlot
<1>1. ASSUME IInv, Next, op'.kind = "configure", ~ op'.overwrite, Configured
      PROVE  store'[Plain(Slot)] = store[Plain(Slot)]
  <2>1. CASE Calls \/ ListStep \/ RelistStep \/ GetStep \/ CheckStep
    BY <2>1, ReadsOnly
  <2>2. CASE DeleteStep \/ AddStep \/ UpdateStep \/ PutStep
    <3>1. ~ (AddStep \/ UpdateStep)
      <4>1. Forgotten.kind = "none"
        BY Zenon DEF Forgotten, Op
      <4> QED
        BY <1>1, <4>1 DEF AddStep, UpdateStep, Over
    <3>2. /\ pc \in {"delete", "put"}
          /\ UNCHANGED op
      BY <2>2, <3>1 DEF DeleteStep, PutStep
    <3>3. op.kind = "configure" /\ ~ op.overwrite
      BY <1>1, <3>2, Zenon
    <3> QED
      BY <1>1, <3>2, <3>3 DEF IInv, SlotInv
  <2> QED
    BY <1>1, <2>1, <2>2 DEF Next, Step
<1>2. IInv /\ [Next]_vars =>
        [op'.kind = "configure" /\ ~ op'.overwrite /\ Configured =>
           store'[Plain(Slot)] = store[Plain(Slot)]]_vars
  BY <1>1
<1> QED
  BY <1>2, Invariance, PTL DEF Spec, KeepsSlot

\* One APDU puts an entry under at most one name more.
LEMMA FinitelyMore ==
    ASSUME store \in Stores, IsFiniteSet(Used(store)),
           NEW n \in Names, NEW t,
           \A m \in Names \ {n} : t[m] # Absent => store[m] # Absent
    PROVE  IsFiniteSet(Used(t))
<1>1. Used(t) \subseteq Used(store) \cup {n}
  BY DEF Used
<1>2. IsFiniteSet(Used(store) \cup {n})
  BY FS_AddElement
<1> QED
  BY <1>1, <1>2, FS_Subset

\* Where there are finitely many entries there will be.
LEMMA FiniteStep ==
    ASSUME IInv, IsFiniteSet(Used(store)), [Next]_vars
    PROVE  IsFiniteSet(Used(store'))
<1>1. store \in Stores /\ op.name \in Names
  BY DEF IInv, TypeOK, Stores
<1>2. CASE store' = store
  <2>1. Used(store') = Used(store)
    BY <1>2 DEF Used
  <2> QED
    BY <2>1
<1>3. CASE DeleteStep
  <2>1. PICK n \in Names :
          \E a \in Outcomes("delete", n, Absent) : store' = a.store
    <3>1. pc = "delete" /\ left \in Seq(Names) /\ left # <<>>
      BY <1>3 DEF DeleteStep, IInv, TypeOK, LeftInv
    <3>2. Head(left) \in Names
      BY <3>1
    <3> QED
      BY <1>3, <3>2 DEF DeleteStep, Sent
  <2>2. store' \in {store, [store EXCEPT ![n] = Absent]}
    BY <1>1, <2>1, DeleteOutcome
  <2>3. \A m \in Names \ {n} : store'[m] # Absent => store[m] # Absent
    BY <1>1, <2>2 DEF Stores
  <2> QED
    BY <1>1, <2>3, FinitelyMore
<1>4. CASE AddStep \/ PutStep
  <2>1. PICK e : \E a \in Outcomes("put", op.name, e) : store' = a.store
    BY <1>4 DEF AddStep, PutStep, Sent
  <2>2. store' \in {store, [store EXCEPT ![op.name] = e]}
    BY <1>1, <2>1, PutOutcome
  <2>3. \A m \in Names \ {op.name} : store'[m] # Absent => store[m] # Absent
    BY <1>1, <2>2 DEF Stores
  <2> QED
    BY <1>1, <2>3, FinitelyMore
<1>5. CASE UpdateStep
  <2>1. op.arg \in Changes(Names)
    BY <1>5 DEF UpdateStep, IInv, OpInv
  <2>2. PICK a \in Outcomes("update", op.name, op.arg) : store' = a.store
    BY <1>5 DEF UpdateStep, Sent
  <2>3. store' \in {store, Moved(op.name, op.arg, store)}
    BY <1>1, <2>1, <2>2, UpdateOutcome
  <2>4. PICK to : to = op.arg.to
    OBVIOUS
  <2>5. to \in Names
    BY <2>1, <2>4 DEF Changes
  <2>6. \A m \in Names \ {to} : store'[m] # Absent => store[m] # Absent
    BY <1>1, <2>3, <2>4, <2>5 DEF Stores, Moved
  <2> QED
    BY <1>1, <2>5, <2>6, FinitelyMore
<1>6. UNCHANGED vars => store' = store
  BY DEF vars
<1> QED
  BY <1>2, <1>3, <1>4, <1>5, <1>6, ReadsOnly DEF Next, Step

\* As many as before are left when one goes and another comes.
LEMMA Swapped ==
    ASSUME NEW S, IsFiniteSet(S), NEW n \in S, NEW m, m \notin S
    PROVE  Cardinality((S \ {n}) \cup {m}) = Cardinality(S)
<1>1. PICK rest : rest = S \ {n}
  OBVIOUS
<1>2. IsFiniteSet(rest) /\ Cardinality(rest) = Cardinality(S) - 1
  BY <1>1, FS_RemoveElement
<1>3. Cardinality(rest \cup {m}) = Cardinality(rest) + 1
  BY <1>1, <1>2, FS_AddElement
<1>4. Cardinality(S) \in Nat
  BY FS_CardinalityType
<1> QED
  BY <1>1, <1>2, <1>3, <1>4

\* The update keeps the numbers, wherever it moves the entry.
LEMMA UpdateKeeps ==
    ASSUME store \in Stores, IsFiniteSet(Used(store)),
           NEW n \in Names, NEW c \in Changes(Names), Kept(n, c),
           store[n] # Absent, c.to = n \/ store[c.to] = Absent,
           c.pw = PasswordOnly(n, Safe(store, n)),
           c.to # n \/ Safe(store, n) \/ ~ c.data
    PROVE  /\ Cardinality(Used(Moved(n, c, store))) = Cardinality(Used(store))
           /\ Cardinality(PasswordOnlys(Moved(n, c, store))) =
                Cardinality(PasswordOnlys(store))
<1>1. PICK t : t = Moved(n, c, store)
  OBVIOUS
<1>2. PICK x : x = Changed(store[n], c)
  OBVIOUS
<1>3. PICK to : to = c.to
  OBVIOUS
<1>4. /\ store[n] \in Entries /\ x \in Entries /\ x # Absent
      /\ x.safe = (store[n].safe \/ c.data)
  BY <1>2, ChangedEntry, AbsentAssumption DEF Stores
<1>5. /\ to \in Names /\ t[to] = x
      /\ to # n => t[n] = Absent
      /\ \A m \in Names \ {n, to} : t[m] = store[m]
  BY <1>1, <1>2, <1>3 DEF Moved, Stores, Changes
<1>6. PasswordOnlys(store) \subseteq Used(store)
  BY DEF PasswordOnlys, PasswordOnly, Used, Safe
<1>7. IsFiniteSet(PasswordOnlys(store))
  BY <1>6, FS_Subset
<1>8. c.pw <=> n \in PasswordOnlys(store)
  BY DEF PasswordOnlys
<1>9. \A m \in Names \ {n, to} :
         m \in PasswordOnlys(t) <=> m \in PasswordOnlys(store)
  BY <1>5 DEF PasswordOnlys, PasswordOnly, Safe
<1>10. to \in PasswordOnlys(t) <=> x.safe /\ to[2] = "pw"
  BY <1>4, <1>5 DEF PasswordOnlys, PasswordOnly, Safe
<1>11. PasswordOnlys(t) \subseteq Names /\ PasswordOnlys(store) \subseteq Names
  BY DEF PasswordOnlys
<1>12. CASE to = n
  <2>1. Used(t) = Used(store)
    BY <1>4, <1>5, <1>12 DEF Used
  <2>2. n \in PasswordOnlys(t) <=> n \in PasswordOnlys(store)
    <3>1. x.safe <=> store[n].safe
      BY <1>3, <1>4, <1>12 DEF Safe
    <3> QED
      BY <1>4, <1>10, <1>12, <3>1 DEF PasswordOnlys, PasswordOnly, Safe
  <2>3. PasswordOnlys(t) = PasswordOnlys(store)
    BY <1>9, <1>11, <1>12, <2>2
  <2> QED
    BY <1>1, <2>1, <2>3
<1>13. CASE to # n
  <2>1. store[to] = Absent
    BY <1>3, <1>13
  <2>2. n \in Used(store) /\ to \notin Used(store)
        /\ Used(t) = (Used(store) \ {n}) \cup {to}
    BY <1>4, <1>5, <1>13, <2>1 DEF Used
  <2>3. Cardinality(Used(t)) = Cardinality(Used(store))
    BY <2>2, Swapped
  <2>4. n \notin PasswordOnlys(t) /\ to \notin PasswordOnlys(store)
    BY <1>5, <1>13, <2>1 DEF PasswordOnlys, PasswordOnly, Safe
  <2>5. CASE c.pw
    <3>1. n \in PasswordOnlys(store) /\ to[2] = "pw" /\ store[n].safe
      BY <1>3, <1>8, <2>5 DEF Kept, PasswordOnlys, PasswordOnly, Safe
    <3>2. to \in PasswordOnlys(t)
      BY <1>4, <1>10, <3>1
    <3>3. PasswordOnlys(t) = (PasswordOnlys(store) \ {n}) \cup {to}
      BY <1>9, <1>11, <2>4, <3>2
    <3>4. Cardinality(PasswordOnlys(t)) = Cardinality(PasswordOnlys(store))
      BY <1>7, <2>4, <3>1, <3>3, Swapped
    <3> QED
      BY <1>1, <2>3, <3>4
  <2>6. CASE ~ c.pw
    <3>1. n \notin PasswordOnlys(store) /\ to[2] = "plain"
      BY <1>3, <1>8, <1>13, <2>6 DEF Kept
    <3>2. to \notin PasswordOnlys(t)
      BY <1>10, <3>1
    <3>3. PasswordOnlys(t) = PasswordOnlys(store)
      BY <1>9, <1>11, <2>4, <3>1, <3>2
    <3> QED
      BY <1>1, <2>3, <3>3
  <2> QED
    BY <2>5, <2>6
<1> QED
  BY <1>12, <1>13

\* Updating an entry that is listed as it is makes no password-only entry of
\* another, nor the reverse, and loses none.
THEOREM RenameCorrect == Spec => RenameKeepsKind
<1> DEFINE Finite == IsFiniteSet(Used(store))
<1>1. Init => Finite
  <2> SUFFICES ASSUME Init PROVE Finite
    OBVIOUS
  <2>1. Used(store) = {}
    BY DEF Init, Used
  <2> QED
    BY <2>1, FS_EmptySet
<1>2. IInv /\ Finite /\ [Next]_vars => Finite'
  BY FiniteStep
<1>3. ASSUME IInv, Finite, Next, pc = "update", op.kind = "update",
             ListedWell, NameFree, KindStays
      PROVE  /\ Cardinality(Used(store')) = Cardinality(Used(store))
             /\ Cardinality(PasswordOnlys(store')) =
                  Cardinality(PasswordOnlys(store))
  <2>1. UpdateStep
    BY <1>3 DEF Next, Calls, Step, DeleteByLabel, DeleteExactly, GetByLabel,
                ByName, Add, EditEntry, UpdateListed, Configure, DeleteSlot,
                Start, DeleteStep, GetStep, AddStep, ListStep, RelistStep,
                PutStep, CheckStep
  <2>2. /\ store \in Stores /\ op.name \in Names
        /\ op.arg \in Changes(Names) /\ Kept(op.name, op.arg)
    BY <1>3 DEF IInv, TypeOK, OpInv, Stores
  <2>3. PICK a \in Outcomes("update", op.name, op.arg) : store' = a.store
    BY <2>1 DEF UpdateStep, Sent
  <2>4. \/ store' = store
        \/ /\ store[op.name] # Absent
           /\ store' = Moved(op.name, op.arg, store)
    BY <2>2, <2>3, UpdateOutcome
  <2>5. CASE store' = store
    BY <2>5
  <2>6. CASE /\ store[op.name] # Absent
             /\ store' = Moved(op.name, op.arg, store)
    BY <1>3, <2>2, <2>6, UpdateKeeps DEF ListedWell, NameFree, KindStays
  <2> QED
    BY <2>4, <2>5, <2>6
<1>4. IInv /\ Finite /\ [Next]_vars =>
        [pc = "update" /\ op.kind = "update"
           /\ ListedWell /\ NameFree /\ KindStays =>
             /\ Cardinality(Used(store')) = Cardinality(Used(store))
             /\ Cardinality(PasswordOnlys(store')) =
                  Cardinality(PasswordOnlys(store))]_vars
  BY <1>3
<1> QED
  BY <1>1, <1>2, <1>4, Invariance, PTL DEF Spec, RenameKeepsKind
=============================================================================
