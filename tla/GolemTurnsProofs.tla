-------------------------- MODULE GolemTurnsProofs --------------------------
(***************************************************************************)
(* Proofs about GolemTurns: whatever the interleaving of the user, the     *)
(* answers, the events and the service, a message is run as often as the   *)
(* user asked for it, and the end of a run is final in the window.  The    *)
(* exceptions are the crossings that gaps records.                         *)
(***************************************************************************)
EXTENDS GolemTurns, FiniteSetTheorems, SequenceTheorems, TLAPS

-----------------------------------------------------------------------------
\* The types, and the invariant.

(* What the variables range over. *)
RunPhases == {"none", "admitting", "running", "needs-consent", "canceling"} \cup Terminal
MessageIds == 0 .. MaxActs
Prompts == [message : Runs, state : {"queued", "reopen-required"}]
RunViews == [phase : RunPhases, own : BOOLEAN]
Windows == [phase : {"ready", "unbound", "binding", "error"}, hydrated : Nat, floor : Nat,
            epoch : Nat, available : BOOLEAN, active : MessageIds, pending : MessageIds,
            failed : MessageIds, queue : Seq(Prompts), runs : [Runs -> RunViews]]
Made == [message : Runs, epoch : Nat]
Calls == [run : Runs, consent : BOOLEAN, pc : {"sent", "accepted", "needs-consent", "rejected"}]
Cancels == [run : Runs, before : {"running", "needs-consent"}, pc : {"sent", "done", "rejected"}]
Events == [run : MessageIds, kind : {"none", "changed", "started"} \cup Terminal,
           via : {"event", "status"}, answered : BOOLEAN]
Statuses == [pc : {"none", "sent", "answered"}, epoch : Nat, found : Nat, available : BOOLEAN,
             run : MessageIds, state : {"none", "running", "canceling"}]
Services == [epoch : Nat, binds : Nat, state : {"idle", "pending", "running", "canceling"},
             run : MessageIds, started : BOOLEAN, challenge : MessageIds, claims : SUBSET Runs,
             granted : BOOLEAN, usable : BOOLEAN, last : Events]

(* Runs that may still be launched: their call is open, or their consent is asked for. *)
Open(c) == c.pc \in {"sent", "needs-consent"} \/ (c.pc = "rejected" /\ c.consent)
Prompting(v, r) == v.pending = r /\ v.runs[r].phase = "needs-consent"
LiveRuns(v, calls) == {r \in Runs : Prompting(v, r) \/ \E c \in calls : c.run = r /\ Open(c)}
(* Where a message can be: in the queue, carried by such a run, or launched.  *)
(* Together these never exceed what the user asked for.                        *)
Staged(q, m) == {i \in DOMAIN q : q[i].message = m}
Carriers(L, mk, m) == {r \in L : mk[r].message = m}
Balance(q, L, mk, la, wa) ==
  \A m \in Runs : la[m] + Cardinality(Staged(q, m)) + Cardinality(Carriers(L, mk, m)) <= wa[m]

(* A window fits its calls and its runs, b bounding the messages and disturbances. *)
WindowFits(v, calls, mk, b) ==
  /\ Len(mk) + Len(v.queue) <= b
  /\ v.active \in 0..Len(mk) /\ v.pending \in 0..Len(mk)
  /\ \A c \in calls : c.run \in 1..Len(mk) /\ ~Prompting(v, c.run)
  /\ \A c, d \in calls : c.run = d.run => c = d
  /\ v.active # 0 => v.runs[v.active].phase \notin Terminal \cup {"none"}

(* Runs the service is done with; past, when their end has been emitted, too. *)
Gone(s, r) == r \in s.claims /\ s.challenge # r /\ s.run # r
Past(s, r) == Gone(s, r) /\ s.last.run # r
SvcFits(s, calls, n) ==
  /\ s.claims \subseteq 1 .. n
  /\ s.challenge # 0 => s.challenge \in s.claims
  /\ s.run # 0 => s.run \in s.claims /\ s.challenge # s.run
  /\ s.last.run # 0 => Gone(s, s.last.run) /\ s.last.kind \in Terminal
  /\ \A c \in calls : c.pc = "sent" /\ ~c.consent => c.run \notin s.claims

(* The end of a run is the last event of the run. *)
EventsFit(q, s) ==
  \A i \in DOMAIN q :
    /\ q[i].kind \in Terminal =>
         Past(s, q[i].run) /\ \A j \in DOMAIN q : j > i => q[j].run # q[i].run
    /\ q[i].kind \in {"changed", "started"} \cup Terminal
    /\ IF q[i].kind = "changed" THEN q[i].run = 0 ELSE q[i].run \in s.claims

(* What is over is past, and no event of it is on its way. *)
OverFits(ov, q, s) == \A r \in ov : Past(s, r) /\ \A i \in DOMAIN q : q[i].run # r
StatusFits(st, s) ==
  /\ st.pc # "answered" => st.run = 0
  /\ st.run # 0 => st.run \in s.claims /\ st.state # "none"

(* A run whose end the window has seen does not live in the window again. *)
Settled(v, ov, s) == \A r \in ov : v.runs[r].phase \in Terminal \/ (v.runs[r].phase = "none" /\ s # r)

(* The parts of the invariant. *)
WindowOK(v, calls, mk, b) ==
  v \in Windows /\ calls \in SUBSET Calls /\ mk \in Seq(Made) /\ WindowFits(v, calls, mk, b)

Even(v, calls, mk) == Balance(v.queue, LiveRuns(v, calls), mk, launches, wanted)

Counts == [messages : Nat, others : Nat]
Asked == count.messages + count.others

WindowPart ==
  /\ WindowOK(win, turns, made, Asked) /\ cancels \in SUBSET Cancels
  /\ count \in Counts /\ Asked <= MaxActs
  /\ launches \in [Runs -> Nat] /\ wanted \in [Runs -> Nat]
  /\ \A m \in Runs : m > count.messages => wanted[m] = 0
  /\ "shelved" \in gaps \/ Even(win, turns, made)

ServicePart ==
  /\ svc \in Services /\ events \in Seq(Events) /\ status \in Statuses /\ over \subseteq 1 .. Len(made)
  /\ SvcFits(svc, turns, Len(made)) /\ EventsFit(events, svc)
  /\ OverFits(over, events, svc) /\ StatusFits(status, svc)

EndsPart == "revived" \in gaps \/ Settled(win, over, status.run)

TurnInv == WindowPart /\ ServicePart /\ EndsPart

-----------------------------------------------------------------------------
\* Sequences and counts: what keeps the balance of the messages.

\* What removing an element leaves of a sequence.
LEMMA Removing ==
  ASSUME NEW S, NEW q \in Seq(S), NEW i \in 1 .. Len(q)
  PROVE  /\ RemoveAt(q, i) \in Seq(S) /\ Len(RemoveAt(q, i)) = Len(q) - 1
         /\ \A j \in 1 .. Len(q) - 1 :
              RemoveAt(q, i)[j] = IF j < i THEN q[j] ELSE q[j + 1]
<1> DEFINE a == SubSeq(q, 1, i - 1)
           c == SubSeq(q, i + 1, Len(q))
<1>0. Len(q) \in Nat /\ i \in Nat /\ 1 <= i /\ i <= Len(q)
  BY LenProperties
<1>1. a \in Seq(S) /\ Len(a) = i - 1 /\ \A j \in 1 .. i - 1 : a[j] = q[j]
  <2>1. \A j \in 1 .. i - 1 : q[j] \in S
    BY <1>0, ElementOfSeq
  <2>2. 1 \in Int /\ i - 1 \in Int
    BY <1>0
  <2>3. a \in Seq(S) /\ Len(a) = IF 1 <= i - 1 THEN i - 1 - 1 + 1 ELSE 0
    BY <2>1, <2>2, SubSeqProperties
  <2>4. \A j \in 1 .. (i - 1) - 1 + 1 : a[j] = q[1 + j - 1]
    BY <2>1, <2>2, SubSeqProperties
  <2>5. Len(a) = i - 1
    BY <1>0, <2>3
  <2>6. ASSUME NEW j \in 1 .. i - 1 PROVE a[j] = q[j]
    <3>1. j \in 1 .. (i - 1) - 1 + 1 /\ 1 + j - 1 = j
      BY <1>0
    <3> QED BY <2>4, <3>1
  <2> QED BY <2>3, <2>5, <2>6
<1>2. c \in Seq(S) /\ Len(c) = Len(q) - i /\ \A j \in 1 .. Len(q) - i : c[j] = q[i + j]
  <2>1. \A j \in i + 1 .. Len(q) : q[j] \in S
    BY <1>0, ElementOfSeq
  <2>2. i + 1 \in Int /\ Len(q) \in Int
    BY <1>0
  <2>3. c \in Seq(S) /\ Len(c) = IF i + 1 <= Len(q) THEN Len(q) - (i + 1) + 1 ELSE 0
    BY <2>1, <2>2, SubSeqProperties
  <2>4. \A j \in 1 .. Len(q) - (i + 1) + 1 : c[j] = q[i + 1 + j - 1]
    BY <2>1, <2>2, SubSeqProperties
  <2>5. Len(c) = Len(q) - i
    BY <1>0, <2>3
  <2>6. ASSUME NEW j \in 1 .. Len(q) - i PROVE c[j] = q[i + j]
    <3>1. j \in 1 .. Len(q) - (i + 1) + 1 /\ i + 1 + j - 1 = i + j
      BY <1>0
    <3> QED BY <2>4, <3>1
  <2> QED BY <2>3, <2>5, <2>6
<1> HIDE DEF a, c
<1>3. /\ a \o c \in Seq(S) /\ Len(a \o c) = Len(a) + Len(c)
      /\ \A j \in 1 .. Len(a) + Len(c) : (a \o c)[j] = IF j <= Len(a) THEN a[j] ELSE c[j - Len(a)]
  BY <1>1, <1>2, ConcatProperties
<1>4. Len(a) + Len(c) = Len(q) - 1
  BY <1>0, <1>1, <1>2
<1>5. ASSUME NEW j \in 1 .. Len(q) - 1 PROVE (a \o c)[j] = IF j < i THEN q[j] ELSE q[j + 1]
  <2>1. (a \o c)[j] = IF j <= Len(a) THEN a[j] ELSE c[j - Len(a)]
    BY <1>3, <1>4
  <2>2. CASE j < i
    <3>1. j <= Len(a) /\ j \in 1 .. i - 1
      BY <1>0, <1>1, <2>2
    <3> QED BY <1>1, <2>1, <2>2, <3>1
  <2>3. CASE ~(j < i)
    <3>1. ~(j <= Len(a)) /\ j - Len(a) \in 1 .. Len(q) - i /\ i + (j - Len(a)) = j + 1
      BY <1>0, <1>1, <2>3
    <3>2. c[j - Len(a)] = q[i + (j - Len(a))]
      BY <1>2, <3>1
    <3> QED BY <2>1, <2>3, <3>1, <3>2
  <2> QED BY <2>2, <2>3
<1>6. RemoveAt(q, i) = a \o c
  BY DEF RemoveAt, a, c
<1> QED BY <1>3, <1>4, <1>5, <1>6

(***************************************************************************)
(* Messages: those that wait, those that may still be launched.             *)
(***************************************************************************)
LEMMA Sums ==
  ASSUME NEW a \in Nat, NEW b \in Nat, NEW c \in Nat, NEW d \in Nat, a + b + c <= d
  PROVE  /\ a + b + (c + 1) <= d + 1 /\ a + (b + 1) + c <= d + 1
         /\ (a + 1) + b + (c - 1) <= d /\ a + (b - 1) + (c + 1) <= d
         /\ a + (b + 1) + (c - 1) <= d
         /\ \A e \in Nat : e <= b => a + e + c <= d
         /\ \A e \in Nat : e <= b - 1 => a + e + (c + 1) <= d
OBVIOUS

\* The messages of a finite queue, and the runs that carry a message, can be counted.
LEMMA Counted ==
  ASSUME NEW q \in Seq(Prompts), NEW L \in SUBSET Runs, NEW mk, NEW m
  PROVE  /\ IsFiniteSet(Staged(q, m)) /\ Cardinality(Staged(q, m)) \in Nat
         /\ IsFiniteSet(Carriers(L, mk, m)) /\ Cardinality(Carriers(L, mk, m)) \in Nat
<1>1. IsFiniteSet(1 .. Len(q)) /\ IsFiniteSet(Runs)
  BY FS_Interval, LenProperties, TurnBounds DEF Runs
<1>2. Staged(q, m) \in SUBSET (1 .. Len(q)) /\ Carriers(L, mk, m) \in SUBSET Runs
  BY LenProperties DEF Staged, Carriers
<1> QED BY <1>1, <1>2, FS_Subset, FS_CardinalityType

\* Fewer runs and the same messages in the queue keep the balance.
LEMMA BalanceShrinks ==
  ASSUME NEW q \in Seq(Prompts), NEW p \in Seq(Prompts), NEW L \in SUBSET Runs, NEW K \in SUBSET L,
         NEW mk, NEW la \in [Runs -> Nat], NEW wa \in [Runs -> Nat],
         Len(p) = Len(q), \A i \in 1 .. Len(q) : p[i].message = q[i].message,
         Balance(q, L, mk, la, wa)
  PROVE  Balance(p, K, mk, la, wa)
<1> SUFFICES ASSUME NEW m \in Runs
             PROVE  la[m] + Cardinality(Staged(p, m)) + Cardinality(Carriers(K, mk, m)) <= wa[m]
  BY DEF Balance
<1>1. Staged(p, m) = Staged(q, m)
  BY LenProperties DEF Staged
<1>2. Carriers(K, mk, m) \in SUBSET Carriers(L, mk, m)
  BY DEF Carriers
<1>3. IsFiniteSet(Carriers(L, mk, m)) /\ Cardinality(Carriers(L, mk, m)) \in Nat
      /\ Cardinality(Staged(q, m)) \in Nat
  BY Counted
<1>4. Cardinality(Carriers(K, mk, m)) <= Cardinality(Carriers(L, mk, m))
      /\ Cardinality(Carriers(K, mk, m)) \in Nat
  BY <1>2, <1>3, FS_Subset, FS_CardinalityType
<1>5. la[m] + Cardinality(Staged(q, m)) + Cardinality(Carriers(L, mk, m)) <= wa[m]
  BY DEF Balance
<1>6. la[m] \in Nat /\ wa[m] \in Nat
  OBVIOUS
<1> QED BY <1>1, <1>3, <1>4, <1>5, <1>6

\* A launch takes the run that it launches.
LEMMA BalanceLaunches ==
  ASSUME NEW q \in Seq(Prompts), NEW L \in SUBSET Runs, NEW r \in L, NEW mk, mk[r].message \in Runs,
         NEW la \in [Runs -> Nat], NEW wa \in [Runs -> Nat], Balance(q, L, mk, la, wa)
  PROVE  Balance(q, L \ {r}, mk, [la EXCEPT ![mk[r].message] = @ + 1], wa)
<1> DEFINE lb == [la EXCEPT ![mk[r].message] = @ + 1]
<1> SUFFICES ASSUME NEW m \in Runs
             PROVE  lb[m] + Cardinality(Staged(q, m)) + Cardinality(Carriers(L \ {r}, mk, m)) <= wa[m]
  BY DEF Balance
<1>1. IsFiniteSet(Carriers(L, mk, m)) /\ Cardinality(Carriers(L, mk, m)) \in Nat
      /\ Cardinality(Staged(q, m)) \in Nat
  BY Counted
<1>2. Carriers(L \ {r}, mk, m) = Carriers(L, mk, m) \ {r}
  BY DEF Carriers
<1>3. la[m] + Cardinality(Staged(q, m)) + Cardinality(Carriers(L, mk, m)) <= wa[m]
  BY DEF Balance
<1>4. la[m] \in Nat /\ wa[m] \in Nat /\ lb[m] = IF m = mk[r].message THEN la[m] + 1 ELSE la[m]
  OBVIOUS
<1>5. r \in Carriers(L, mk, m) <=> m = mk[r].message
  BY DEF Carriers
<1>6. Cardinality(Carriers(L, mk, m) \ {r}) =
        IF r \in Carriers(L, mk, m) THEN Cardinality(Carriers(L, mk, m)) - 1
        ELSE Cardinality(Carriers(L, mk, m))
  BY <1>1, FS_RemoveElement
<1> HIDE DEF lb
<1>7. CASE m = mk[r].message
  <2>1. /\ lb[m] = la[m] + 1
        /\ Cardinality(Carriers(L \ {r}, mk, m)) = Cardinality(Carriers(L, mk, m)) - 1
    BY <1>2, <1>4, <1>5, <1>6, <1>7
  <2>2. (la[m] + 1) + Cardinality(Staged(q, m)) + (Cardinality(Carriers(L, mk, m)) - 1) <= wa[m]
    BY <1>1, <1>3, <1>4, Sums
  <2> QED BY <2>1, <2>2
<1>8. CASE m # mk[r].message
  <2>1. /\ lb[m] = la[m]
        /\ Cardinality(Carriers(L \ {r}, mk, m)) = Cardinality(Carriers(L, mk, m))
    BY <1>2, <1>4, <1>5, <1>6, <1>8
  <2> QED BY <1>3, <2>1
<1> QED BY <1>7, <1>8

\* A message that is asked for once more gets a run or a place in the queue.
LEMMA BalanceAsks ==
  ASSUME NEW q \in Seq(Prompts), NEW L \in SUBSET Runs, NEW mk \in Seq(Made), NEW x \in Made,
         L \subseteq 1 .. Len(mk), Len(mk) + 1 \in Runs, NEW la \in [Runs -> Nat],
         NEW wa \in [Runs -> Nat], NEW wb \in [Runs -> Nat], Balance(q, L, mk, la, wa),
         \A m \in Runs : wb[m] = IF m = x.message THEN wa[m] + 1 ELSE wa[m]
  PROVE  /\ Balance(q, L \cup {Len(mk) + 1}, Append(mk, x), la, wb)
         /\ \A e \in Prompts : e.message = x.message => Balance(Append(q, e), L, mk, la, wb)
<1> DEFINE r == Len(mk) + 1
           K == L \cup {r}
           nk == Append(mk, x)
<1>1. /\ nk[r] = x /\ \A s \in 1 .. Len(mk) : nk[s] = mk[s]
      /\ Len(mk) \in Nat /\ r \notin L /\ x.message \in Runs
  BY AppendProperties, LenProperties DEF Made
<1>2. ASSUME NEW m \in Runs
      PROVE  /\ la[m] + Cardinality(Staged(q, m)) + Cardinality(Carriers(L, mk, m)) <= wa[m]
             /\ la[m] \in Nat /\ wa[m] \in Nat /\ wb[m] \in Nat
             /\ Cardinality(Staged(q, m)) \in Nat /\ Cardinality(Carriers(L, mk, m)) \in Nat
             /\ IsFiniteSet(Staged(q, m)) /\ IsFiniteSet(Carriers(L, mk, m))
  BY Counted DEF Balance
<1>3. ASSUME NEW m \in Runs
      PROVE  la[m] + Cardinality(Staged(q, m)) + Cardinality(Carriers(K, nk, m)) <= wb[m]
  <2>1. Carriers(K, nk, m) = IF m = x.message THEN Carriers(L, mk, m) \cup {r} ELSE Carriers(L, mk, m)
    <3>1. /\ nk[r].message = x.message /\ \A s \in L : nk[s].message = mk[s].message
          /\ \A s : s \in K <=> s \in L \/ s = r
      BY <1>1
    <3> HIDE DEF K, nk, r
    <3>2. CASE m = x.message
      BY <3>1, <3>2 DEF Carriers
    <3>3. CASE m # x.message
      BY <3>1, <3>3 DEF Carriers
    <3> QED BY <3>2, <3>3
  <2>2. r \notin Carriers(L, mk, m)
    BY <1>1 DEF Carriers
  <2>3. Cardinality(Carriers(L, mk, m) \cup {r}) = Cardinality(Carriers(L, mk, m)) + 1
    BY <1>2, <2>2, FS_AddElement
  <2>4. /\ la[m] + Cardinality(Staged(q, m)) + Cardinality(Carriers(L, mk, m)) <= wa[m]
        /\ la[m] \in Nat /\ wa[m] \in Nat
        /\ Cardinality(Staged(q, m)) \in Nat /\ Cardinality(Carriers(L, mk, m)) \in Nat
    BY <1>2
  <2> HIDE DEF K, nk
  <2>5. CASE m = x.message
    <3>1. /\ wb[m] = wa[m] + 1
          /\ Cardinality(Carriers(K, nk, m)) = Cardinality(Carriers(L, mk, m)) + 1
      BY <2>1, <2>3, <2>5
    <3>2. la[m] + Cardinality(Staged(q, m)) + (Cardinality(Carriers(L, mk, m)) + 1) <= wa[m] + 1
      BY <2>4, Sums
    <3> QED BY <3>1, <3>2
  <2>6. CASE m # x.message
    <3>1. wb[m] = wa[m] /\ Cardinality(Carriers(K, nk, m)) = Cardinality(Carriers(L, mk, m))
      BY <2>1, <2>6
    <3> QED BY <2>4, <3>1
  <2> QED BY <2>5, <2>6
<1>4. ASSUME NEW e \in Prompts, e.message = x.message, NEW m \in Runs
      PROVE  la[m] + Cardinality(Staged(Append(q, e), m)) + Cardinality(Carriers(L, mk, m)) <= wb[m]
  <2>1. /\ Append(q, e) \in Seq(Prompts) /\ Len(Append(q, e)) = Len(q) + 1 /\ Len(q) \in Nat
        /\ DOMAIN q = 1 .. Len(q) /\ DOMAIN Append(q, e) = 1 .. Len(q) + 1
        /\ Append(q, e)[Len(q) + 1] = e /\ \A i \in 1 .. Len(q) : Append(q, e)[i] = q[i]
    BY AppendProperties, LenProperties
  <2>2. Staged(Append(q, e), m) =
          IF m = x.message THEN Staged(q, m) \cup {Len(q) + 1} ELSE Staged(q, m)
    BY <1>4, <2>1 DEF Staged
  <2>3. Len(q) + 1 \notin Staged(q, m)
    BY <2>1 DEF Staged
  <2>4. Cardinality(Staged(q, m) \cup {Len(q) + 1}) = Cardinality(Staged(q, m)) + 1
    BY <1>2, <2>3, FS_AddElement
  <2>5. /\ la[m] + Cardinality(Staged(q, m)) + Cardinality(Carriers(L, mk, m)) <= wa[m]
        /\ la[m] \in Nat /\ wa[m] \in Nat
        /\ Cardinality(Staged(q, m)) \in Nat /\ Cardinality(Carriers(L, mk, m)) \in Nat
    BY <1>2
  <2>6. CASE m = x.message
    <3>1. wb[m] = wa[m] + 1 /\ Cardinality(Staged(Append(q, e), m)) = Cardinality(Staged(q, m)) + 1
      BY <2>2, <2>4, <2>6
    <3>2. la[m] + (Cardinality(Staged(q, m)) + 1) + Cardinality(Carriers(L, mk, m)) <= wa[m] + 1
      BY <2>5, Sums
    <3> QED BY <3>1, <3>2
  <2>7. CASE m # x.message
    <3>1. wb[m] = wa[m] /\ Cardinality(Staged(Append(q, e), m)) = Cardinality(Staged(q, m))
      BY <2>2, <2>7
    <3> QED BY <2>5, <3>1
  <2> QED BY <2>6, <2>7
<1>5. Balance(q, K, nk, la, wb)
  BY <1>3 DEF Balance
<1>6. ASSUME NEW e \in Prompts, e.message = x.message PROVE Balance(Append(q, e), L, mk, la, wb)
  BY <1>4, <1>6 DEF Balance
<1> QED BY <1>5, <1>6

\* A message that leaves the queue with a run keeps the balance.
LEMMA BalanceStarts ==
  ASSUME NEW q \in Seq(Prompts), NEW L \in SUBSET Runs, NEW mk \in Seq(Made), NEW x \in Made,
         NEW i \in 1 .. Len(q), x.message = q[i].message,
         L \subseteq 1 .. Len(mk), Len(mk) + 1 \in Runs, NEW la \in [Runs -> Nat],
         NEW wa \in [Runs -> Nat], Balance(q, L, mk, la, wa)
  PROVE  Balance(RemoveAt(q, i), L \cup {Len(mk) + 1}, Append(mk, x), la, wa)
<1> DEFINE r == Len(mk) + 1
           K == L \cup {r}
           nk == Append(mk, x)
           p == RemoveAt(q, i)
<1>1. /\ nk[r] = x /\ \A s \in 1 .. Len(mk) : nk[s] = mk[s]
      /\ Len(mk) \in Nat /\ r \notin L /\ x.message \in Runs
  BY AppendProperties, LenProperties DEF Made
<1>2. /\ p \in Seq(Prompts) /\ Len(p) = Len(q) - 1 /\ Len(q) \in Nat /\ i \in Nat
      /\ DOMAIN q = 1 .. Len(q) /\ DOMAIN p = 1 .. Len(q) - 1
      /\ \A j \in 1 .. Len(q) - 1 : p[j] = IF j < i THEN q[j] ELSE q[j + 1]
  <2>1. Len(q) \in Nat /\ i \in Nat /\ DOMAIN q = 1 .. Len(q)
    BY LenProperties
  <2>2. p \in Seq(Prompts) /\ Len(p) = Len(q) - 1
    BY Removing
  <2>3. \A j \in 1 .. Len(q) - 1 : p[j] = IF j < i THEN q[j] ELSE q[j + 1]
    BY Removing
  <2>4. DOMAIN p = 1 .. Len(q) - 1
    BY <2>2, LenProperties
  <2> QED BY <2>1, <2>2, <2>3, <2>4
<1> SUFFICES ASSUME NEW m \in Runs
             PROVE  la[m] + Cardinality(Staged(p, m)) + Cardinality(Carriers(K, nk, m)) <= wa[m]
  BY DEF Balance
<1> HIDE DEF p
<1>3. /\ la[m] + Cardinality(Staged(q, m)) + Cardinality(Carriers(L, mk, m)) <= wa[m]
      /\ la[m] \in Nat /\ wa[m] \in Nat
      /\ Cardinality(Staged(q, m)) \in Nat /\ Cardinality(Carriers(L, mk, m)) \in Nat
      /\ IsFiniteSet(Staged(q, m)) /\ IsFiniteSet(Carriers(L, mk, m))
  BY Counted DEF Balance
<1>4. Cardinality(Carriers(K, nk, m)) =
        IF m = x.message THEN Cardinality(Carriers(L, mk, m)) + 1 ELSE Cardinality(Carriers(L, mk, m))
  <2>1. Carriers(K, nk, m) = IF m = x.message THEN Carriers(L, mk, m) \cup {r} ELSE Carriers(L, mk, m)
    BY <1>1 DEF Carriers
  <2>2. r \notin Carriers(L, mk, m)
    BY <1>1 DEF Carriers
  <2>3. Cardinality(Carriers(L, mk, m) \cup {r}) = Cardinality(Carriers(L, mk, m)) + 1
    BY <1>3, <2>2, FS_AddElement
  <2> QED BY <2>1, <2>3
<1>5. Cardinality(Staged(p, m)) <= Cardinality(Staged(q, m) \ {i}) /\ Cardinality(Staged(p, m)) \in Nat
  <2> DEFINE f == [j \in Staged(p, m) |-> IF j < i THEN j ELSE j + 1]
  <2>0. \A j \in Staged(p, m) : f[j] = IF j < i THEN j ELSE j + 1
    OBVIOUS
  <2> HIDE DEF f
  <2>1. ASSUME NEW j \in Staged(p, m) PROVE j \in 1 .. Len(q) - 1 /\ f[j] \in Staged(q, m) \ {i}
    <3>0. j \in 1 .. Len(q) - 1 /\ p[j].message = m
      BY <1>2 DEF Staged
    <3>1. /\ j \in 1 .. Len(q) - 1 /\ p[j].message = m /\ f[j] = IF j < i THEN j ELSE j + 1
          /\ p[j] = IF j < i THEN q[j] ELSE q[j + 1]
      BY <1>2, <2>0, <3>0
    <3>2. CASE j < i
      <4>1. q[j].message = m /\ f[j] = j
        BY <3>1, <3>2
      <4>2. j \in 1 .. Len(q) /\ j # i
        BY <1>2, <3>0, <3>2
      <4> QED BY <1>2, <3>1, <4>1, <4>2 DEF Staged
    <3>3. CASE ~(j < i)
      <4>1. q[j + 1].message = m /\ f[j] = j + 1
        BY <3>1, <3>3
      <4>2. j + 1 \in 1 .. Len(q) /\ j + 1 # i
        BY <1>2, <3>0, <3>3
      <4> QED BY <1>2, <3>1, <4>1, <4>2 DEF Staged
    <3> QED BY <3>2, <3>3
  <2>2. \A j, k \in Staged(p, m) : f[j] = f[k] => j = k
    <3>1. \A j \in Staged(p, m) : j \in Nat
      BY <1>2, <2>1
    <3> QED BY <1>2, <2>0, <3>1
  <2>3. f \in Injection(Staged(p, m), Staged(q, m) \ {i})
    <3>1. f \in [Staged(p, m) -> Staged(q, m) \ {i}]
      BY <2>1 DEF f
    <3> QED BY <3>1, <2>2 DEF Injection, IsInjective
  <2>4. IsFiniteSet(Staged(q, m) \ {i})
    BY <1>3, FS_RemoveElement
  <2> HIDE DEF f
  <2>5. IsFiniteSet(Staged(p, m)) /\ Cardinality(Staged(p, m)) <= Cardinality(Staged(q, m) \ {i})
    BY <2>3, <2>4, FS_Injection
  <2> QED BY <2>5, FS_CardinalityType
<1>6. Cardinality(Staged(q, m) \ {i}) =
        IF m = x.message THEN Cardinality(Staged(q, m)) - 1 ELSE Cardinality(Staged(q, m))
  <2>1. i \in Staged(q, m) <=> m = x.message
    BY <1>2 DEF Staged
  <2>2. Cardinality(Staged(q, m) \ {i}) =
          IF i \in Staged(q, m) THEN Cardinality(Staged(q, m)) - 1 ELSE Cardinality(Staged(q, m))
    BY <1>3, FS_RemoveElement
  <2> QED BY <2>1, <2>2
<1> HIDE DEF K, nk
<1>7. CASE m = x.message
  <2>1. /\ Cardinality(Carriers(K, nk, m)) = Cardinality(Carriers(L, mk, m)) + 1
        /\ Cardinality(Staged(p, m)) <= Cardinality(Staged(q, m)) - 1
    BY <1>4, <1>5, <1>6, <1>7
  <2>2. la[m] + Cardinality(Staged(p, m)) + (Cardinality(Carriers(L, mk, m)) + 1) <= wa[m]
    BY <1>3, <1>5, <2>1, Sums
  <2> QED BY <2>1, <2>2
<1>8. CASE m # x.message
  <2>1. /\ Cardinality(Carriers(K, nk, m)) = Cardinality(Carriers(L, mk, m))
        /\ Cardinality(Staged(p, m)) <= Cardinality(Staged(q, m))
    BY <1>4, <1>5, <1>6, <1>8
  <2>2. la[m] + Cardinality(Staged(p, m)) + Cardinality(Carriers(L, mk, m)) <= wa[m]
    BY <1>3, <1>5, <2>1, Sums
  <2> QED BY <2>1, <2>2
<1> QED BY <1>7, <1>8

\* A message that goes back on the queue leaves its run.
LEMMA BalanceShelves ==
  ASSUME NEW q \in Seq(Prompts), NEW L \in SUBSET Runs, NEW r \in L, NEW mk, NEW e \in Prompts,
         e.message = mk[r].message,
         NEW la \in [Runs -> Nat], NEW wa \in [Runs -> Nat], Balance(q, L, mk, la, wa)
  PROVE  Balance(Append(q, e), L \ {r}, mk, la, wa)
<1> SUFFICES ASSUME NEW m \in Runs
             PROVE  la[m] + Cardinality(Staged(Append(q, e), m))
                      + Cardinality(Carriers(L \ {r}, mk, m)) <= wa[m]
  BY DEF Balance
<1>1. /\ la[m] + Cardinality(Staged(q, m)) + Cardinality(Carriers(L, mk, m)) <= wa[m]
      /\ la[m] \in Nat /\ wa[m] \in Nat
      /\ Cardinality(Staged(q, m)) \in Nat /\ Cardinality(Carriers(L, mk, m)) \in Nat
      /\ IsFiniteSet(Staged(q, m)) /\ IsFiniteSet(Carriers(L, mk, m))
  BY Counted DEF Balance
<1>2. Carriers(L \ {r}, mk, m) = Carriers(L, mk, m) \ {r} /\ (r \in Carriers(L, mk, m) <=> m = e.message)
  BY DEF Carriers
<1>3. Cardinality(Carriers(L, mk, m) \ {r}) =
        IF m = e.message THEN Cardinality(Carriers(L, mk, m)) - 1 ELSE Cardinality(Carriers(L, mk, m))
  BY <1>1, <1>2, FS_RemoveElement
<1>4. Cardinality(Staged(Append(q, e), m)) =
        IF m = e.message THEN Cardinality(Staged(q, m)) + 1 ELSE Cardinality(Staged(q, m))
  <2>1. /\ Append(q, e) \in Seq(Prompts) /\ Len(Append(q, e)) = Len(q) + 1 /\ Len(q) \in Nat
        /\ DOMAIN q = 1 .. Len(q) /\ DOMAIN Append(q, e) = 1 .. Len(q) + 1
        /\ Append(q, e)[Len(q) + 1] = e /\ \A i \in 1 .. Len(q) : Append(q, e)[i] = q[i]
    BY AppendProperties, LenProperties
  <2>2. Staged(Append(q, e), m) =
          IF m = e.message THEN Staged(q, m) \cup {Len(q) + 1} ELSE Staged(q, m)
    BY <2>1 DEF Staged
  <2>3. Len(q) + 1 \notin Staged(q, m)
    BY <2>1 DEF Staged
  <2>4. Cardinality(Staged(q, m) \cup {Len(q) + 1}) = Cardinality(Staged(q, m)) + 1
    BY <1>1, <2>3, FS_AddElement
  <2> QED BY <2>2, <2>4
<1>5. CASE m = e.message
  <2>1. /\ Cardinality(Carriers(L \ {r}, mk, m)) = Cardinality(Carriers(L, mk, m)) - 1
        /\ Cardinality(Staged(Append(q, e), m)) = Cardinality(Staged(q, m)) + 1
    BY <1>2, <1>3, <1>4, <1>5
  <2>2. la[m] + (Cardinality(Staged(q, m)) + 1) + (Cardinality(Carriers(L, mk, m)) - 1) <= wa[m]
    BY <1>1, Sums
  <2> QED BY <2>1, <2>2
<1>6. CASE m # e.message
  <2>1. /\ Cardinality(Carriers(L \ {r}, mk, m)) = Cardinality(Carriers(L, mk, m))
        /\ Cardinality(Staged(Append(q, e), m)) = Cardinality(Staged(q, m))
    BY <1>2, <1>3, <1>4, <1>6
  <2> QED BY <1>1, <2>1
<1> QED BY <1>5, <1>6

-----------------------------------------------------------------------------
\* The window: its fields, the consents it gives up, and a dispatch.

\* The fields of a window.
LEMMA WindowFields ==
  ASSUME NEW v \in Windows
  PROVE  /\ v.phase \in {"ready", "unbound", "binding", "error"} /\ v.hydrated \in Nat
         /\ v.floor \in Nat /\ v.epoch \in Nat /\ v.available \in BOOLEAN
         /\ v.active \in MessageIds /\ v.pending \in MessageIds /\ v.failed \in MessageIds
         /\ v.queue \in Seq(Prompts) /\ v.runs \in [Runs -> RunViews]
BY DEF Windows

\* A run whose phase is set.
LEMMA PhaseSet ==
  ASSUME NEW f \in [Runs -> RunViews], NEW r, NEW p \in RunPhases
  PROVE  /\ [f EXCEPT ![r].phase = p] \in [Runs -> RunViews]
         /\ \A s \in Runs : [f EXCEPT ![r].phase = p][s].phase = IF s = r THEN p ELSE f[s].phase
         /\ \A s \in Runs : [f EXCEPT ![r].phase = p][s].own = f[s].own
BY DEF RunViews

\* Giving a pending consent up.
LEMMA ReleasedIs ==
  ASSUME NEW v \in Windows, NEW n \in Nat, v.pending \in 1 .. n, v.pending \in Runs,
         made[v.pending].message \in Runs
  PROVE  LET w == Released(v) IN
         /\ w \in Windows /\ w.queue = v.queue /\ w.pending = 0
         /\ w.active = IF v.active = v.pending THEN 0 ELSE v.active
         /\ \A s \in Runs : w.runs[s].phase =
              IF s = v.pending /\ v.runs[s].phase \notin Terminal THEN "failed" ELSE v.runs[s].phase
<1> DEFINE r == v.pending
           p == IF Ended(v, r) THEN v.runs[r].phase ELSE "failed"
           f == [v.runs EXCEPT ![r].phase = p]
           w == [v EXCEPT !.pending = 0, !.failed = made[r].message, !.active = Free(v, r),
                   !.runs = f]
<1>1. v.runs \in [Runs -> RunViews] /\ v.runs[r].phase \in RunPhases
  BY WindowFields DEF RunViews
<1>2. p \in RunPhases
  BY <1>1 DEF RunPhases, Terminal
<1>3. /\ f \in [Runs -> RunViews]
      /\ \A s \in Runs : f[s].phase = IF s = r THEN p ELSE v.runs[s].phase
  BY <1>1, <1>2, PhaseSet
<1>4. Released(v) = w
  BY DEF Released
<1> HIDE DEF f, p
<1>5. 0 \in MessageIds /\ Free(v, r) \in MessageIds /\ made[r].message \in MessageIds
  BY WindowFields, TurnBounds DEF Free, MessageIds, Runs
<1>6. w \in Windows /\ w.queue = v.queue /\ w.pending = 0 /\ w.active = Free(v, r) /\ w.runs = f
  BY <1>3, <1>5 DEF Windows
<1> QED BY <1>3, <1>4, <1>6 DEF Free, p, Ended

SameMessages(p, q) == Len(p) = Len(q) /\ \A i \in 1 .. Len(q) : p[i].message = q[i].message

(* w asks for nothing that v did not ask for. *)
Calmer(v, w, n) ==
  /\ SameMessages(w.queue, v.queue) /\ w.pending \in 0 .. n /\ w.active \in 0 .. n
  /\ \A r \in Runs : Prompting(w, r) => Prompting(v, r)
  /\ w.active # 0 => w.runs[w.active].phase \notin Terminal \cup {"none"}

\* A window in which fewer runs wait for the user fits where the other one did, and asks for no more.
LEMMA CalmerFits ==
  ASSUME NEW v, NEW w \in Windows, NEW calls, NEW mk, NEW b \in 0 .. MaxActs,
         WindowOK(v, calls, mk, b), Calmer(v, w, Len(mk)),
         launches \in [Runs -> Nat], wanted \in [Runs -> Nat]
  PROVE  /\ WindowOK(w, calls, mk, b) /\ LiveRuns(w, calls) \subseteq LiveRuns(v, calls)
         /\ Even(v, calls, mk) => Even(w, calls, mk)
<1> USE DEF WindowOK, Calmer
<1>1. \A c \in calls : c.run \in Runs
  BY DEF Calls
<1>2. LiveRuns(w, calls) \subseteq LiveRuns(v, calls) /\ LiveRuns(v, calls) \in SUBSET Runs
  BY DEF LiveRuns
<1>3. WindowOK(w, calls, mk, b)
  BY <1>1 DEF WindowFits, SameMessages
<1>4. ASSUME Even(v, calls, mk) PROVE Even(w, calls, mk)
  <2>1. w.queue \in Seq(Prompts) /\ v.queue \in Seq(Prompts)
    BY WindowFields
  <2> QED BY <1>2, <1>4, <2>1, BalanceShrinks DEF Even, SameMessages
<1> QED BY <1>2, <1>3, <1>4

\* A window with fewer calls, of which fewer are open.
LEMMA CallsFit ==
  ASSUME NEW v, NEW calls, NEW fewer \in SUBSET Calls, NEW mk, NEW b \in 0 .. MaxActs,
         WindowOK(v, calls, mk, b),
         \A c \in fewer : \E d \in calls : d.run = c.run /\ (Open(c) => Open(d)),
         \A c, d \in fewer : c.run = d.run => c = d,
         launches \in [Runs -> Nat], wanted \in [Runs -> Nat]
  PROVE  /\ WindowOK(v, fewer, mk, b) /\ LiveRuns(v, fewer) \subseteq LiveRuns(v, calls)
         /\ Even(v, calls, mk) => Even(v, fewer, mk)
<1>1. LiveRuns(v, fewer) \subseteq LiveRuns(v, calls) /\ LiveRuns(v, calls) \in SUBSET Runs
  BY DEF LiveRuns
<1>2. WindowOK(v, fewer, mk, b)
  BY DEF WindowOK, WindowFits
<1>3. ASSUME Even(v, calls, mk) PROVE Even(v, fewer, mk)
  <2>1. v.queue \in Seq(Prompts)
    BY WindowFields DEF WindowOK
  <2> QED BY <1>1, <1>3, <2>1, BalanceShrinks DEF Even
<1> QED BY <1>1, <1>2, <1>3

\* A run that is started.
LEMMA StartedFits ==
  ASSUME NEW v, NEW m \in Runs, NEW others, NEW b, NEW d \in 0 .. MaxActs,
         WindowOK(v, others, made, b), Len(made) + 1 + Len(v.queue) <= d,
         Starts(v, m, others)
  PROVE  /\ WindowOK(win', turns', made', d)
         /\ win'.queue = v.queue
         /\ LiveRuns(win', turns') \subseteq LiveRuns(v, others) \cup {Len(made) + 1}
         /\ made' = Append(made, [message |-> m, epoch |-> v.epoch])
         /\ [message |-> m, epoch |-> v.epoch] \in Made
         /\ Len(made) + 1 \in Runs
         /\ \A s \in 1 .. Len(made) : win'.runs[s] = v.runs[s]
         /\ \A c \in turns' : c \in others \/ (c.run = Len(made) + 1 /\ c.pc = "sent" /\ ~c.consent)
<1> DEFINE r == Len(made) + 1
           x == [message |-> m, epoch |-> v.epoch]
           y == [phase |-> "admitting", own |-> TRUE]
           c0 == [run |-> r, consent |-> FALSE, pc |-> "sent"]
           f == [v.runs EXCEPT ![r] = y]
<1>1. v \in Windows /\ others \in SUBSET Calls /\ made \in Seq(Made) /\ WindowFits(v, others, made, b)
  BY DEF WindowOK
<1>2. Len(made) \in Nat /\ Len(v.queue) \in Nat /\ v.queue \in Seq(Prompts)
      /\ v.runs \in [Runs -> RunViews] /\ v.epoch \in Nat
  BY <1>1, WindowFields, LenProperties
<1>3. r \in Runs /\ r \in MessageIds /\ Runs = 1 .. MaxActs
  <2>1. d \in Nat /\ d <= MaxActs /\ MaxActs \in Nat
    BY TurnBounds
  <2>2. r \in Nat /\ 1 <= r /\ r <= d
    <3>1. \A i, j, k \in Nat : i + 1 + j <= k => i + 1 <= k /\ i + 1 \in Nat /\ 1 <= i + 1
      OBVIOUS
    <3> QED BY <1>2, <2>1, <3>1
  <2>3. r <= MaxActs
    BY <2>1, <2>2
  <2> QED BY <2>1, <2>2, <2>3 DEF Runs, MessageIds
<1>4. x \in Made /\ y \in RunViews /\ c0 \in Calls
  BY <1>2, <1>3 DEF Made, RunViews, RunPhases, Calls
<1>5. made' = Append(made, x) /\ made' \in Seq(Made) /\ Len(made') = r
  BY <1>1, <1>4, AppendProperties DEF Starts
<1>6. turns' = others \cup {c0} /\ turns' \in SUBSET Calls
  BY <1>1, <1>4 DEF Starts
<1>7. f \in [Runs -> RunViews] /\ f[r] = y /\ \A s \in Runs : s # r => f[s] = v.runs[s]
  BY <1>2, <1>3, <1>4
<1>8. win' = [v EXCEPT !.active = r, !.runs = f]
  BY DEF Starts
<1> HIDE DEF f, x, y, c0
<1>9. win' \in Windows /\ win'.active = r /\ win'.runs = f /\ win'.queue = v.queue
      /\ win'.pending = v.pending
  BY <1>1, <1>3, <1>7, <1>8 DEF Windows
<1>10. /\ v.active \in 0 .. Len(made) /\ v.pending \in 0 .. Len(made)
       /\ \A c \in others : c.run \in 1 .. Len(made) /\ ~Prompting(v, c.run)
       /\ \A c, e \in others : c.run = e.run => c = e
  BY <1>1 DEF WindowFits
<1>11. \A s \in 1 .. Len(made) : s \in Runs /\ s # r
  <2> SUFFICES ASSUME NEW s \in 1 .. Len(made) PROVE s \in Runs /\ s # r
    OBVIOUS
  <2>1. r \in 1 .. MaxActs /\ MaxActs \in Nat
    BY <1>3, TurnBounds
  <2>2. s \in 1 .. MaxActs /\ s # r
    BY <1>2, <2>1
  <2> QED BY <1>3, <2>2
<1>12. \A s \in Runs : Prompting(win', s) => Prompting(v, s)
  <2>1. y.phase # "needs-consent"
    BY DEF y
  <2> QED BY <1>7, <1>9, <2>1 DEF Prompting
<1>13. ~Prompting(win', r)
  BY <1>2, <1>9, <1>10 DEF Prompting
<1>14. c0.run = r /\ c0.pc = "sent" /\ ~c0.consent
  BY DEF c0
<1>15. /\ \A c \in turns' : c.run \in 1 .. Len(made') /\ ~Prompting(win', c.run)
       /\ \A c, e \in turns' : c.run = e.run => c = e
  <2>1. ASSUME NEW c \in others PROVE c.run \in 1 .. r /\ ~Prompting(win', c.run) /\ c.run # r
    BY <1>2, <1>10, <1>11, <1>12, <2>1
  <2>2. r \in 1 .. r
    BY <1>2
  <2> QED BY <1>5, <1>6, <1>10, <1>13, <1>14, <2>1, <2>2
<1>16. WindowFits(win', turns', made', d)
  <2>1. Len(made') + Len(win'.queue) <= d
    BY <1>5, <1>9
  <2>2. win'.active \in 0 .. Len(made') /\ win'.pending \in 0 .. Len(made')
    BY <1>2, <1>5, <1>9, <1>10
  <2>3. win'.runs[win'.active].phase \notin Terminal \cup {"none"}
    BY <1>7, <1>9 DEF y, Terminal
  <2> QED BY <1>15, <2>1, <2>2, <2>3 DEF WindowFits
<1>17. LiveRuns(win', turns') \subseteq LiveRuns(v, others) \cup {r}
  BY <1>6, <1>12, <1>14 DEF LiveRuns
<1>18. \A s \in 1 .. Len(made) : win'.runs[s] = v.runs[s]
  BY <1>7, <1>9, <1>11
<1>19. \A c \in turns' : c \in others \/ (c.run = r /\ c.pc = "sent" /\ ~c.consent)
  BY <1>6, <1>14
<1> QED BY <1>3, <1>4, <1>5, <1>6, <1>9, <1>16, <1>17, <1>18, <1>19 DEF WindowOK, x

\* A set of numbers has a least one.
LEMMA LeastIn ==
  ASSUME NEW S \in SUBSET Nat, S # {}
  PROVE  Min(S) \in S
<1>1. IsWellFoundedOn(OpToRel(<, Nat), Nat)
  BY NatLessThanWellFounded
<1> DEFINE R == OpToRel(<, Nat)
<1>2. PICK x \in S : \A y \in S : ~ (<<y, x>> \in R)
  <2> HIDE DEF R
  <2> QED BY <1>1, WFMin DEF R
<1>3. \A y \in S : ~ (y < x)
  BY <1>2 DEF OpToRel
<1>4. \A y \in S : x =< y
  BY <1>3
<1> QED BY <1>4 DEF Min

(* What a dispatch of v leaves. *)
Dispatches(v, others, b) ==
  /\ WindowOK(win', turns', made', b)
  /\ Even(v, others, made) =>
       Balance(win'.queue, LiveRuns(win', turns'), made', launches, wanted)
  /\ \A r \in 1 .. Len(made) : win'.runs[r] = v.runs[r]
  /\ Len(made) <= Len(made')
  /\ \A c \in turns' : c \in others \/ (c.run = Len(made) + 1 /\ c.pc = "sent" /\ ~c.consent)

\* A dispatch that finds nothing to send leaves the window as it is.
LEMMA StaysFits ==
  ASSUME NEW v, NEW others, NEW b, WindowOK(v, others, made, b), Stays(v, others)
  PROVE  Dispatches(v, others, b)
<1>1. win' = v /\ turns' = others /\ made' = made /\ Len(made) \in Nat
  BY LenProperties DEF Stays, WindowOK
<1> QED BY <1>1 DEF Dispatches, Even

\* A dispatch that sends the first queued message: its run takes its place in the balance.
LEMMA DispatchFits ==
  ASSUME NEW v, NEW others, NEW b \in 0 .. MaxActs, WindowOK(v, others, made, b),
         DispatchQueued(v, others), launches \in [Runs -> Nat], wanted \in [Runs -> Nat]
  PROVE  Dispatches(v, others, b)
<1> DEFINE ready == {i \in DOMAIN v.queue : v.queue[i].state = "queued"}
           i == Min(ready)
<1>1. v \in Windows /\ made \in Seq(Made) /\ v.queue \in Seq(Prompts) /\ Len(v.queue) \in Nat
      /\ DOMAIN v.queue = 1 .. Len(v.queue) /\ Len(made) \in Nat
      /\ WindowFits(v, others, made, b)
  BY WindowFields, LenProperties DEF WindowOK
<1>2. ASSUME ready # {} PROVE i \in 1 .. Len(v.queue)
  <2>1. ready \in SUBSET Nat
    BY <1>1
  <2>2. i \in ready
    BY <1>2, <2>1, LeastIn
  <2> HIDE DEF i
  <2> QED BY <1>1, <2>2
<1> HIDE DEF i
<1>3. CASE Busy(v) \/ ready = {}
  BY <1>3, StaysFits DEF DispatchQueued
<1>4. CASE ~(Busy(v) \/ ready = {}) /\ ~MaySend(v)
  <2> DEFINE e == [v.queue[i] EXCEPT !.state = "reopen-required"]
             p == [v.queue EXCEPT ![i] = e]
             w == [v EXCEPT !.queue = p]
  <2>1. i \in 1 .. Len(v.queue) /\ v.queue[i] \in Prompts
    BY <1>1, <1>2, <1>4, ElementOfSeq
  <2>2. e \in Prompts /\ e.message = v.queue[i].message
    BY <2>1 DEF Prompts
  <2>3. Stays(w, others)
    BY <1>4 DEF DispatchQueued, i
  <2> HIDE DEF e
  <2>4. p \in Seq(Prompts) /\ Len(p) = Len(v.queue)
        /\ \A j \in 1 .. Len(v.queue) : p[j] = IF j = i THEN e ELSE v.queue[j]
    BY <1>1, <2>1, <2>2, ExceptSeq
  <2>5. SameMessages(p, v.queue)
    BY <2>2, <2>4 DEF SameMessages
  <2> HIDE DEF p
  <2>6. w \in Windows /\ w.queue = p /\ w.pending = v.pending /\ w.active = v.active
        /\ w.runs = v.runs
    BY <1>1, <2>4 DEF Windows
  <2> HIDE DEF w
  <2>7. Calmer(v, w, Len(made))
    BY <1>1, <2>5, <2>6 DEF Calmer, Prompting, WindowFits
  <2>8. WindowOK(w, others, made, b) /\ (Even(v, others, made) => Even(w, others, made))
    BY <2>6, <2>7, CalmerFits
  <2>9. Dispatches(w, others, b)
    BY <2>3, <2>8, StaysFits
  <2> QED BY <2>6, <2>8, <2>9 DEF Dispatches
<1>5. CASE ~(Busy(v) \/ ready = {}) /\ MaySend(v)
  <2> DEFINE p == RemoveAt(v.queue, i)
             w == [v EXCEPT !.queue = p]
             m == v.queue[i].message
             x == [message |-> m, epoch |-> w.epoch]
  <2>1. i \in 1 .. Len(v.queue) /\ v.queue[i] \in Prompts
    BY <1>1, <1>2, <1>5, ElementOfSeq
  <2>2. m \in Runs
    BY <2>1 DEF Prompts
  <2>3. Starts(w, m, others)
    BY <1>5 DEF DispatchQueued, i
  <2>4. p \in Seq(Prompts) /\ Len(p) = Len(v.queue) - 1
    BY <1>1, <2>1, Removing
  <2> HIDE DEF p
  <2>5. w \in Windows /\ w.queue = p /\ w.pending = v.pending /\ w.active = v.active
        /\ w.runs = v.runs
    BY <1>1, <2>4 DEF Windows
  <2> HIDE DEF w
  <2>6. Len(made) + Len(v.queue) <= b
    BY <1>1 DEF WindowFits
  <2>7. WindowOK(w, others, made, b)
    <3>1. Len(made) + Len(w.queue) <= b
      BY <1>1, <2>4, <2>5, <2>6
    <3> QED BY <1>1, <2>5, <3>1 DEF WindowOK, WindowFits, Prompting
  <2>8. Len(made) + 1 + Len(w.queue) <= b
    BY <1>1, <2>4, <2>5, <2>6
  <2>9. /\ WindowOK(win', turns', made', b) /\ win'.queue = w.queue
        /\ LiveRuns(win', turns') \subseteq LiveRuns(w, others) \cup {Len(made) + 1}
        /\ made' = Append(made, x) /\ x \in Made /\ Len(made) + 1 \in Runs
        /\ \A s \in 1 .. Len(made) : win'.runs[s] = w.runs[s]
        /\ \A c \in turns' : c \in others \/ (c.run = Len(made) + 1 /\ c.pc = "sent" /\ ~c.consent)
    BY <2>2, <2>3, <2>7, <2>8, StartedFits
  <2>10. x.message = m
    OBVIOUS
  <2> HIDE DEF x, m
  <2>11. Len(made') = Len(made) + 1
    BY <1>1, <2>9, AppendProperties
  <2>12. ASSUME Even(v, others, made)
         PROVE  Balance(win'.queue, LiveRuns(win', turns'), made', launches, wanted)
    <3>1. LiveRuns(w, others) = LiveRuns(v, others)
      BY <2>5 DEF LiveRuns, Prompting
    <3>2. LiveRuns(v, others) \in SUBSET Runs /\ LiveRuns(v, others) \subseteq 1 .. Len(made)
      BY <1>1 DEF LiveRuns, WindowFits, Prompting, Runs
    <3>3. Balance(v.queue, LiveRuns(v, others), made, launches, wanted)
      BY <2>12 DEF Even
    <3>4. x.message = v.queue[i].message
      BY <2>10 DEF m
    <3>5. Balance(p, LiveRuns(v, others) \cup {Len(made) + 1}, Append(made, x), launches, wanted)
      BY <1>1, <2>1, <2>9, <3>2, <3>3, <3>4, BalanceStarts DEF p
    <3>6. LiveRuns(v, others) \cup {Len(made) + 1} \in SUBSET Runs
      BY <2>9, <3>2
    <3>7. LiveRuns(win', turns') \in SUBSET (LiveRuns(v, others) \cup {Len(made) + 1})
      BY <2>9, <3>1
    <3> QED BY <2>4, <2>5, <2>9, <3>5, <3>6, <3>7, BalanceShrinks
  <2> QED BY <1>1, <2>5, <2>9, <2>11, <2>12 DEF Dispatches
<1> QED BY <1>3, <1>4, <1>5

\* The runs of a window are among the runs.
LEMMA RunsOf ==
  ASSUME NEW v, NEW calls, NEW mk, NEW b \in 0 .. MaxActs, WindowOK(v, calls, mk, b)
  PROVE  /\ v \in Windows /\ mk \in Seq(Made) /\ v.queue \in Seq(Prompts)
         /\ Len(v.queue) \in Nat /\ Len(mk) \in Nat /\ Len(mk) + Len(v.queue) <= b
         /\ \A r \in 1 .. Len(mk) : r \in Runs /\ mk[r] \in Made /\ mk[r].message \in Runs
         /\ v.active \in 0 .. Len(mk) /\ v.pending \in 0 .. Len(mk)
         /\ v.active # 0 => v.active \in 1 .. Len(mk)
         /\ v.pending # 0 => v.pending \in 1 .. Len(mk)
         /\ 0 \notin Runs
<1>1. v \in Windows /\ mk \in Seq(Made) /\ v.queue \in Seq(Prompts) /\ Len(v.queue) \in Nat
      /\ Len(mk) \in Nat
  BY WindowFields, LenProperties DEF WindowOK
<1>2. v.pending \in 0 .. Len(mk) /\ v.active \in 0 .. Len(mk) /\ Len(mk) + Len(v.queue) <= b
  BY DEF WindowOK, WindowFits
<1>3. ASSUME NEW r \in 1 .. Len(mk) PROVE r \in Runs
  <2>1. \A i, j, k, n \in Nat : i <= j /\ j + k <= n => i <= n
    OBVIOUS
  <2>2. b \in Nat /\ MaxActs \in Nat /\ b <= MaxActs
    BY TurnBounds
  <2>3. r \in Nat /\ 1 <= r /\ r <= Len(mk)
    BY <1>1
  <2>4. r <= b
    BY <1>1, <1>2, <2>1, <2>2, <2>3
  <2>5. r <= MaxActs
    BY <2>2, <2>3, <2>4
  <2>6. r \in 1 .. MaxActs
    BY <2>2, <2>3, <2>5
  <2> QED BY <2>6 DEF Runs
<1>4. ASSUME NEW r \in 1 .. Len(mk) PROVE mk[r] \in Made /\ mk[r].message \in Runs
  <2>1. mk[r] \in Made
    BY <1>1, ElementOfSeq
  <2> QED BY <2>1 DEF Made
<1>5. 0 \notin Runs
  BY TurnBounds DEF Runs
<1>6. (v.active # 0 => v.active \in 1 .. Len(mk)) /\ (v.pending # 0 => v.pending \in 1 .. Len(mk))
  BY <1>1, <1>2
<1> QED BY <1>1, <1>2, <1>3, <1>4, <1>5, <1>6

\* Giving a pending consent up asks for less.
LEMMA ReleasedFits ==
  ASSUME NEW v, NEW calls, NEW b \in 0 .. MaxActs, WindowOK(v, calls, made, b), v.pending # 0,
         launches \in [Runs -> Nat], wanted \in [Runs -> Nat]
  PROVE  /\ WindowOK(Released(v), calls, made, b)
         /\ Even(v, calls, made) => Even(Released(v), calls, made)
         /\ \A r \in Runs : Released(v).runs[r].phase \in {"failed", v.runs[r].phase}
         /\ \A r \in Runs : v.runs[r].phase \in Terminal =>
              Released(v).runs[r].phase = v.runs[r].phase
         /\ Released(v).queue = v.queue /\ Released(v).pending = 0
<1>1. /\ v \in Windows /\ Len(made) \in Nat /\ Len(v.queue) \in Nat
      /\ \A r \in 1 .. Len(made) : r \in Runs /\ made[r].message \in Runs
      /\ v.active \in 0 .. Len(made) /\ v.pending \in 1 .. Len(made) /\ 0 \notin Runs
      /\ v.active # 0 => v.active \in Runs
  BY RunsOf
<1>2. WindowFits(v, calls, made, b)
  BY DEF WindowOK
<1> DEFINE w == Released(v)
<1>5. /\ w \in Windows /\ w.queue = v.queue /\ w.pending = 0
      /\ w.active = IF v.active = v.pending THEN 0 ELSE v.active
      /\ \A s \in Runs : w.runs[s].phase =
           IF s = v.pending /\ v.runs[s].phase \notin Terminal THEN "failed" ELSE v.runs[s].phase
  BY <1>1, ReleasedIs
<1> HIDE DEF w
<1>6. Calmer(v, w, Len(made))
  <2>1. SameMessages(w.queue, v.queue)
    BY <1>1, <1>5 DEF SameMessages
  <2>2. w.pending \in 0 .. Len(made) /\ w.active \in 0 .. Len(made)
    BY <1>1, <1>5
  <2>3. \A r \in Runs : ~Prompting(w, r)
    BY <1>1, <1>5 DEF Prompting
  <2>4. ASSUME w.active # 0 PROVE w.runs[w.active].phase \notin Terminal \cup {"none"}
    <3>1. w.active = v.active /\ v.active # v.pending /\ v.active # 0
      BY <1>5, <2>4
    <3> QED BY <1>1, <1>2, <1>5, <3>1 DEF WindowFits
  <2> QED BY <2>1, <2>2, <2>3, <2>4 DEF Calmer
<1>7. WindowOK(w, calls, made, b) /\ (Even(v, calls, made) => Even(w, calls, made))
  BY <1>5, <1>6, CalmerFits
<1> QED BY <1>5, <1>7 DEF w

\* The window after the consents that are past their deadline.
LEMMA FreshFits ==
  ASSUME NEW v, NEW calls, NEW b \in 0 .. MaxActs, WindowOK(v, calls, made, b),
         launches \in [Runs -> Nat], wanted \in [Runs -> Nat]
  PROVE  /\ WindowOK(Fresh(v), calls, made, b)
         /\ Even(v, calls, made) => Even(Fresh(v), calls, made)
         /\ \A r \in Runs : Fresh(v).runs[r].phase \in {"failed", v.runs[r].phase}
         /\ \A r \in Runs : v.runs[r].phase \in Terminal =>
              Fresh(v).runs[r].phase = v.runs[r].phase
         /\ Fresh(v).queue = v.queue
<1>2. CASE Lapsed(v)
  BY <1>2, ReleasedFits DEF Fresh, Lapsed
<1>3. CASE ~Lapsed(v)
  BY <1>3 DEF Fresh
<1> QED BY <1>2, <1>3

-----------------------------------------------------------------------------
\* The service: its fields, its challenges and its events.

\* What may disturb the messages is bounded.
LEMMA Counts1 ==
  ASSUME WindowPart, count' = count \/ Disturbs
  PROVE  /\ count' \in Counts /\ Asked' <= MaxActs /\ count'.messages = count.messages
         /\ Asked \in 0 .. MaxActs /\ Asked' \in 0 .. MaxActs /\ Asked <= Asked'
<1>1. count.messages \in Nat /\ count.others \in Nat /\ count \in Counts /\ Asked <= MaxActs
  BY DEF WindowPart, Counts
<1>2. CASE count' = count
  BY <1>1, <1>2, TurnBounds DEF Asked
<1>3. CASE Disturbs
  <2>1. count' = [count EXCEPT !["others"] = @ + 1] /\ count.messages + count.others < MaxActs
    BY <1>3 DEF Disturbs, Acts
  <2>2. count' \in Counts /\ count'.messages = count.messages /\ count'.others = count.others + 1
    BY <1>1, <2>1 DEF Counts
  <2> QED BY <1>1, <2>1, <2>2, TurnBounds DEF Asked
<1> QED BY <1>2, <1>3

\* A greater bound fits a window, too.
LEMMA Raised ==
  ASSUME NEW v, NEW calls, NEW mk, NEW b \in 0 .. MaxActs, NEW d \in 0 .. MaxActs, b <= d,
         WindowOK(v, calls, mk, b)
  PROVE  WindowOK(v, calls, mk, d)
<1>1. Len(v.queue) \in Nat /\ Len(mk) \in Nat /\ Len(mk) + Len(v.queue) <= b
  BY RunsOf
<1>2. b \in Nat /\ d \in Nat
  BY TurnBounds
<1>3. Len(mk) + Len(v.queue) <= d
  BY <1>1, <1>2
<1> QED BY <1>3 DEF WindowOK, WindowFits

\* A step that leaves the window alone.
LEMMA WindowStill ==
  ASSUME WindowPart, count' = count \/ Disturbs, cancels' \in SUBSET Cancels, gaps \subseteq gaps',
         win' = win, turns' = turns, made' = made, launches' = launches, wanted' = wanted
  PROVE  WindowPart'
<1>1. /\ count' \in Counts /\ Asked' <= MaxActs /\ count'.messages = count.messages
      /\ Asked \in 0 .. MaxActs /\ Asked' \in 0 .. MaxActs /\ Asked <= Asked'
  BY Counts1
<1>2. WindowOK(win', turns', made', Asked')
  BY <1>1, Raised DEF WindowPart
<1>3. ("shelved" \in gaps \/ Even(win, turns, made)) => ("shelved" \in gaps' \/ Even(win, turns, made)')
  BY DEF Even, LiveRuns, Prompting
<1> QED BY <1>1, <1>2, <1>3 DEF WindowPart

\* A step that leaves the window and what is over alone.
LEMMA EndsStill ==
  ASSUME ServicePart, EndsPart, win' = win, over' = over, gaps \subseteq gaps',
         status'.run \in {0, svc.run, status.run}
  PROVE  EndsPart'
<1>1. \A r \in over : r # 0 /\ r # svc.run
  BY DEF ServicePart, OverFits, Past, Gone
<1> QED BY <1>1 DEF EndsPart, Settled

\* The fields of the service.
LEMMA ServiceFields ==
  ASSUME NEW s \in Services
  PROVE  /\ s.epoch \in Nat /\ s.binds \in Nat /\ s.state \in {"idle", "pending", "running", "canceling"}
         /\ s.run \in MessageIds /\ s.started \in BOOLEAN /\ s.challenge \in MessageIds
         /\ s.claims \in SUBSET Runs /\ s.granted \in BOOLEAN /\ s.usable \in BOOLEAN
         /\ s.last \in Events
         /\ s.last.run \in MessageIds
BY DEF Services, Events

(* A service that challenges and runs nothing that it did not. *)
Quieter(s, t) ==
  /\ t.claims = s.claims /\ t.challenge \in {0, s.challenge} /\ t.run \in {0, s.run}
  /\ t.last = s.last

\* A service that drops a challenge or a run, and claims what it did, keeps its parts.
LEMMA QuieterFits ==
  ASSUME NEW s, NEW t, NEW calls, NEW n, NEW q, NEW ov, NEW st, Quieter(s, t),
         SvcFits(s, calls, n), EventsFit(q, s), OverFits(ov, q, s), StatusFits(st, s),
         s.claims \subseteq Runs
  PROVE  SvcFits(t, calls, n) /\ EventsFit(q, t) /\ OverFits(ov, q, t) /\ StatusFits(st, t)
<1>0. 0 \notin Runs
  BY TurnBounds DEF Runs
<1>1. \A r \in Runs : (Gone(s, r) => Gone(t, r)) /\ (Past(s, r) => Past(t, r))
  BY <1>0 DEF Quieter, Gone, Past
<1>2. SvcFits(t, calls, n)
  BY <1>0, <1>1 DEF SvcFits, Quieter, Gone
<1>3. \A r : Past(s, r) => r \in Runs
  BY DEF Past, Gone
<1>4. EventsFit(q, t)
  BY <1>1, <1>3 DEF EventsFit, Quieter
<1>5. OverFits(ov, q, t)
  BY <1>1, <1>3 DEF OverFits
<1>6. StatusFits(st, t)
  BY DEF StatusFits, Quieter
<1> QED BY <1>2, <1>4, <1>5, <1>6

\* What the service drops when a challenge is past its deadline.
LEMMA SweptFits ==
  ASSUME svc \in Services
  PROVE  /\ Swept \in Services /\ Quieter(svc, Swept)
         /\ Swept.epoch = svc.epoch /\ Swept.run = svc.run
         /\ Swept.started = svc.started
         /\ svc.challenge = 0 \/ Swept.challenge = 0 \/ Swept = svc
<1>1. 0 \in MessageIds
  BY TurnBounds DEF MessageIds
<1>2. CASE svc.challenge # 0 /\ svc.challenge \in expired
  <2> DEFINE st == IF svc.state = "pending" THEN "idle" ELSE svc.state
             t == [svc EXCEPT !.challenge = 0, !.state = st]
  <2>1. Swept = t
    BY <1>2 DEF Swept
  <2>2. st \in {"idle", "pending", "running", "canceling"}
    BY ServiceFields
  <2> HIDE DEF st
  <2>3. t \in Services /\ t.claims = svc.claims /\ t.challenge = 0 /\ t.run = svc.run
        /\ t.last = svc.last /\ t.epoch = svc.epoch /\ t.started = svc.started
    BY <1>1, <2>2 DEF Services
  <2> QED BY <2>1, <2>3 DEF Quieter
<1>3. CASE ~(svc.challenge # 0 /\ svc.challenge \in expired)
  BY <1>3 DEF Swept, Quieter
<1> QED BY <1>2, <1>3

\* A sequence of events with one more at its end.
LEMMA EventAdded ==
  ASSUME NEW q \in Seq(Events), NEW e \in Events
  PROVE  /\ Append(q, e) \in Seq(Events) /\ DOMAIN Append(q, e) = 1 .. Len(q) + 1
         /\ DOMAIN q = 1 .. Len(q) /\ Len(q) \in Nat
         /\ Append(q, e)[Len(q) + 1] = e /\ \A i \in 1 .. Len(q) : Append(q, e)[i] = q[i]
<1>1. Append(q, e) \in Seq(Events) /\ Len(Append(q, e)) = Len(q) + 1 /\ Len(q) \in Nat
  BY AppendProperties, LenProperties
<1>2. DOMAIN Append(q, e) = 1 .. Len(q) + 1 /\ DOMAIN q = 1 .. Len(q)
  BY <1>1, LenProperties
<1>3. Append(q, e)[Len(q) + 1] = e /\ \A i \in 1 .. Len(q) : Append(q, e)[i] = q[i]
  BY AppendProperties
<1> QED BY <1>1, <1>2, <1>3

\* An event of a run that is not past, or its end.
LEMMA EmitsFits ==
  ASSUME NEW q \in Seq(Events), NEW e \in Events, NEW s, NEW ov,
         EventsFit(q, s), OverFits(ov, q, s),
         e.kind \in {"changed", "started"} \cup Terminal,
         IF e.kind = "changed" THEN e.run = 0 ELSE e.run \in s.claims,
         e.kind \in Terminal => Past(s, e.run),
         e.kind # "changed" => e.run \notin ov,
         e.kind # "changed" => \A i \in DOMAIN q : q[i].kind \in Terminal => q[i].run # e.run,
         0 \notin s.claims
  PROVE  EventsFit(Append(q, e), s) /\ OverFits(ov, Append(q, e), s)
<1> DEFINE p == Append(q, e)
           n == Len(q) + 1
<1>1. /\ DOMAIN p = 1 .. n /\ DOMAIN q = 1 .. Len(q) /\ Len(q) \in Nat
      /\ p[n] = e /\ \A i \in 1 .. Len(q) : p[i] = q[i]
  BY EventAdded
<1> HIDE DEF p
<1>2. \A i \in DOMAIN p : i = n \/ (i \in DOMAIN q /\ p[i] = q[i])
  BY <1>1
<1>3. \A i \in DOMAIN q : q[i].kind \in Terminal => q[i].run # e.run
  <2>1. CASE e.kind = "changed"
    <3>1. \A i \in DOMAIN q : q[i].kind \in Terminal => q[i].run \in s.claims
      BY DEF EventsFit, Terminal
    <3> QED BY <2>1, <3>1
  <2> QED BY <2>1
<1>4. \A i \in DOMAIN p : i # n => \A j \in DOMAIN p : j > i /\ j # n => j \in DOMAIN q
  BY <1>2
<1>5. ASSUME NEW i \in DOMAIN p
      PROVE  /\ p[i].kind \in Terminal =>
                  Past(s, p[i].run) /\ \A j \in DOMAIN p : j > i => p[j].run # p[i].run
             /\ p[i].kind \in {"changed", "started"} \cup Terminal
             /\ IF p[i].kind = "changed" THEN p[i].run = 0 ELSE p[i].run \in s.claims
  <2>1. CASE i = n
    <3>1. \A j \in DOMAIN p : ~(j > n)
      BY <1>1
    <3> QED BY <1>1, <2>1, <3>1
  <2>2. CASE i # n
    <3>1. i \in DOMAIN q /\ p[i] = q[i]
      BY <1>2, <2>2
    <3>2. ASSUME p[i].kind \in Terminal, NEW j \in DOMAIN p, j > i PROVE p[j].run # p[i].run
      <4>1. CASE j = n
        BY <1>1, <1>3, <3>1, <3>2, <4>1
      <4>2. CASE j # n
        BY <1>2, <3>1, <3>2, <4>2 DEF EventsFit
      <4> QED BY <4>1, <4>2
    <3> QED BY <3>1, <3>2 DEF EventsFit
  <2> QED BY <2>1, <2>2
<1>6. EventsFit(p, s)
  BY <1>5 DEF EventsFit
<1>7. OverFits(ov, p, s)
  <2>1. ASSUME NEW r \in ov PROVE e.run # r
    <3>1. r \in s.claims
      BY DEF OverFits, Past, Gone
    <3> QED BY <3>1
  <2> QED BY <1>1, <1>2, <2>1 DEF OverFits
<1> QED BY <1>6, <1>7 DEF p

-----------------------------------------------------------------------------
\* Steps of the service that leave the window alone.

\* What the service claims are runs.
LEMMA ClaimsPositive == ServicePart => 0 \notin svc.claims /\ svc.claims \subseteq Runs /\ svc \in Services
<1>1. 0 \notin Runs
  BY TurnBounds DEF Runs
<1> QED BY <1>1, ServiceFields DEF ServicePart

\* The parts of the service that a step which leaves the window alone keeps.
LEMMA ServiceStill ==
  ASSUME ServicePart, made' = made, turns' = turns, over' = over,
         svc' \in Services, events' \in Seq(Events), status' \in Statuses,
         SvcFits(svc', turns, Len(made)), EventsFit(events', svc'), OverFits(over, events', svc'),
         StatusFits(status', svc')
  PROVE  ServicePart'
BY DEF ServicePart

\* A repository that is bound or unbound.
LEMMA RebindsStep == TurnInv /\ Rebinds => TurnInv'
<1> SUFFICES ASSUME WindowPart, ServicePart, EndsPart, Rebinds PROVE TurnInv'
  BY DEF TurnInv
<1>1. /\ win' = win /\ made' = made /\ turns' = turns /\ cancels' = cancels /\ events' = events
      /\ count' = count /\ launches' = launches /\ wanted' = wanted /\ over' = over /\ gaps' = gaps
  BY DEF Rebinds
<1>2. WindowPart'
  BY <1>1, WindowStill DEF WindowPart
<1>3. svc \in Services /\ 0 \in MessageIds /\ svc.claims \subseteq Runs /\ status \in Statuses
  BY ClaimsPositive, TurnBounds DEF MessageIds, ServicePart
<1>4. svc' \in Services /\ Quieter(svc, svc')
  <2>1. CASE Head(rebinds) = "unbind"
    <3> DEFINE st == IF svc.state = "pending" THEN "idle" ELSE svc.state
    <3>1. svc' = [svc EXCEPT !.epoch = 0, !.challenge = 0, !.state = st]
      BY <2>1 DEF Rebinds
    <3>2. st \in {"idle", "pending", "running", "canceling"}
      BY <1>3, ServiceFields
    <3> HIDE DEF st
    <3> QED BY <1>3, <3>1, <3>2 DEF Services, Quieter
  <2>2. CASE Head(rebinds) # "unbind"
    <3>1. svc' = [svc EXCEPT !.epoch = svc.binds + 1, !.binds = svc.binds + 1]
      BY <1>3, <2>2 DEF Rebinds
    <3>2. svc.binds + 1 \in Nat
      BY <1>3, ServiceFields
    <3> QED BY <1>3, <3>1, <3>2 DEF Services, Quieter
  <2> QED BY <2>1, <2>2
<1>5. status' \in Statuses /\ (status' = status \/ (status'.run = 0 /\ status'.pc = "sent"))
  <2>1. CASE status' = status
    BY <1>3, <2>1
  <2>2. CASE status' = Asks(svc.binds + 1)
    <3>1. svc.binds + 1 \in Nat
      BY <1>3, ServiceFields
    <3> QED BY <1>3, <2>2, <3>1 DEF Asks, NoStatus, Statuses
  <2> QED BY <2>1, <2>2 DEF Rebinds
<1>6. ServicePart'
  <2>1. SvcFits(svc, turns, Len(made)) /\ EventsFit(events, svc) /\ OverFits(over, events, svc)
        /\ StatusFits(status, svc)
    BY DEF ServicePart
  <2>2. SvcFits(svc', turns, Len(made)) /\ EventsFit(events, svc') /\ OverFits(over, events, svc')
        /\ StatusFits(status, svc')
    BY <1>3, <1>4, <2>1, QuieterFits
  <2>3. StatusFits(status', svc')
    BY <1>5, <2>2 DEF StatusFits
  <2> QED BY <1>1, <1>4, <1>5, <2>2, <2>3, ServiceStill DEF ServicePart
<1>7. EndsPart'
  BY <1>1, <1>5, EndsStill
<1> QED BY <1>2, <1>6, <1>7 DEF TurnInv

\* The service tells that a run has started.
LEMMA RunStartedStep == TurnInv /\ RunStarted => TurnInv'
<1> SUFFICES ASSUME WindowPart, ServicePart, EndsPart, RunStarted PROVE TurnInv'
  BY DEF TurnInv
<1> DEFINE e == Event(svc.run, "started", "event", FALSE)
<1>1. /\ win' = win /\ made' = made /\ turns' = turns /\ cancels' = cancels /\ status' = status
      /\ count' = count /\ launches' = launches /\ wanted' = wanted /\ over' = over /\ gaps' = gaps
      /\ events' = Append(events, e) /\ svc' = [svc EXCEPT !.started = TRUE] /\ svc.run # 0
  BY DEF RunStarted
<1>2. WindowPart'
  BY <1>1, WindowStill DEF WindowPart
<1>3. svc \in Services /\ 0 \notin svc.claims /\ svc.claims \subseteq Runs
  BY ClaimsPositive
<1>4. svc' \in Services /\ Quieter(svc, svc') /\ svc'.run = svc.run
  BY <1>1, <1>3 DEF Services, Quieter
<1>5. e \in Events /\ e.run = svc.run /\ e.kind = "started"
  BY <1>3, ServiceFields DEF Event, Events
<1> HIDE DEF e
<1>6. SvcFits(svc, turns, Len(made)) /\ EventsFit(events, svc) /\ OverFits(over, events, svc)
      /\ StatusFits(status, svc) /\ events \in Seq(Events) /\ status \in Statuses
  BY DEF ServicePart
<1>7. SvcFits(svc', turns, Len(made)) /\ EventsFit(events, svc') /\ OverFits(over, events, svc')
        /\ StatusFits(status, svc')
  BY <1>3, <1>4, <1>6, QuieterFits
<1>8. /\ e.run \in svc'.claims /\ e.run \notin over /\ 0 \notin svc'.claims
      /\ \A i \in DOMAIN events : events[i].kind \in Terminal => events[i].run # e.run
  BY <1>1, <1>3, <1>4, <1>5, <1>6 DEF SvcFits, OverFits, EventsFit, Past, Gone, Quieter
<1>9. EventsFit(events', svc') /\ OverFits(over, events', svc')
  <2>1. "started" # "changed" /\ "started" \notin Terminal
    BY DEF Terminal
  <2> QED BY <1>1, <1>5, <1>6, <1>7, <1>8, <2>1, EmitsFits
<1>10. ServicePart'
  BY <1>1, <1>4, <1>5, <1>6, <1>7, <1>9, EventAdded, ServiceStill
<1>11. EndsPart'
  BY <1>1, EndsStill
<1> QED BY <1>2, <1>10, <1>11 DEF TurnInv

\* A run ends at the service.
LEMMA RunEndsStep == TurnInv /\ RunEnds => TurnInv'
<1> SUFFICES ASSUME WindowPart, ServicePart, EndsPart, RunEnds PROVE TurnInv'
  BY DEF TurnInv
<1>1. /\ win' = win /\ made' = made /\ turns' = turns /\ cancels' = cancels /\ status' = status
      /\ count' = count /\ launches' = launches /\ wanted' = wanted /\ over' = over /\ gaps' = gaps
      /\ events' = events /\ svc.run # 0 /\ svc.last.run = 0
  BY DEF RunEnds
<1>2. WindowPart'
  BY <1>1, WindowStill DEF WindowPart
<1>3. svc \in Services /\ 0 \notin svc.claims /\ svc.claims \subseteq Runs /\ svc.run \in MessageIds
      /\ 0 \in MessageIds
  BY ClaimsPositive, ServiceFields, TurnBounds DEF MessageIds
<1>4. PICK e \in Events :
        /\ svc' = [svc EXCEPT !.run = 0, !.state = "idle", !.last = e]
        /\ e.run = svc.run /\ e.kind \in Terminal
  <2>1. PICK kind \in Terminal, via \in {"event", "status"}, answered \in BOOLEAN :
          svc' = [svc EXCEPT !.run = 0, !.state = "idle", !.last = Event(svc.run, kind, via, answered)]
    BY DEF RunEnds, Terminal
  <2>2. Event(svc.run, kind, via, answered) \in Events
        /\ Event(svc.run, kind, via, answered).run = svc.run
        /\ Event(svc.run, kind, via, answered).kind = kind
    BY <1>3, <2>1 DEF Event, Events
  <2> QED BY <2>1, <2>2
<1>5. svc' \in Services /\ svc'.claims = svc.claims /\ svc'.challenge = svc.challenge
      /\ svc'.run = 0 /\ svc'.last = e
  BY <1>3, <1>4 DEF Services
<1>6. SvcFits(svc, turns, Len(made)) /\ EventsFit(events, svc) /\ OverFits(over, events, svc)
      /\ StatusFits(status, svc) /\ events \in Seq(Events) /\ status \in Statuses
  BY DEF ServicePart
<1>7. \A r : Past(svc, r) => Past(svc', r)
  BY <1>3, <1>4, <1>5 DEF Past, Gone
<1>8. SvcFits(svc', turns, Len(made))
  BY <1>1, <1>3, <1>4, <1>5, <1>6 DEF SvcFits, Gone
<1>9. EventsFit(events, svc') /\ OverFits(over, events, svc') /\ StatusFits(status, svc')
  BY <1>5, <1>6, <1>7 DEF EventsFit, OverFits, StatusFits
<1>10. ServicePart'
  BY <1>1, <1>5, <1>6, <1>8, <1>9, ServiceStill
<1>11. EndsPart'
  BY <1>1, EndsStill
<1> QED BY <1>2, <1>10, <1>11 DEF TurnInv

\* The end of a run is on its way.
LEMMA EmitsEndStep == TurnInv /\ EmitsEnd => TurnInv'
<1> SUFFICES ASSUME WindowPart, ServicePart, EndsPart, EmitsEnd PROVE TurnInv'
  BY DEF TurnInv
<1> DEFINE e == svc.last
           z == Event(0, "none", "event", FALSE)
<1>1. /\ win' = win /\ made' = made /\ turns' = turns /\ cancels' = cancels /\ status' = status
      /\ count' = count /\ launches' = launches /\ wanted' = wanted /\ over' = over /\ gaps' = gaps
      /\ events' = Append(events, e) /\ svc' = [svc EXCEPT !.last = z] /\ e.run # 0
  BY DEF EmitsEnd
<1>2. WindowPart'
  BY <1>1, WindowStill DEF WindowPart
<1>3. svc \in Services /\ 0 \notin svc.claims /\ svc.claims \subseteq Runs /\ e \in Events
  BY ClaimsPositive, ServiceFields
<1>4. z \in Events /\ z.run = 0
  BY TurnBounds DEF Event, Events, MessageIds
<1> HIDE DEF z
<1>5. svc' \in Services /\ svc'.claims = svc.claims /\ svc'.challenge = svc.challenge
      /\ svc'.run = svc.run /\ svc'.last.run = 0
  BY <1>1, <1>3, <1>4 DEF Services
<1>6. SvcFits(svc, turns, Len(made)) /\ EventsFit(events, svc) /\ OverFits(over, events, svc)
      /\ StatusFits(status, svc) /\ events \in Seq(Events) /\ status \in Statuses
  BY DEF ServicePart
<1>7. Gone(svc, e.run) /\ e.kind \in Terminal
  BY <1>1, <1>6 DEF SvcFits
<1>8. (\A r : Past(svc, r) => Past(svc', r)) /\ Past(svc', e.run)
  BY <1>3, <1>5, <1>7 DEF Past, Gone
<1>9. SvcFits(svc', turns, Len(made)) /\ EventsFit(events, svc') /\ OverFits(over, events, svc')
      /\ StatusFits(status, svc')
  BY <1>5, <1>6, <1>8 DEF SvcFits, EventsFit, OverFits, StatusFits, Gone
<1>10. /\ e.run \in svc'.claims /\ e.run \notin over /\ 0 \notin svc'.claims
       /\ \A i \in DOMAIN events : events[i].kind \in Terminal => events[i].run # e.run
  BY <1>3, <1>5, <1>6, <1>7 DEF OverFits, EventsFit, Past, Gone
<1>11. EventsFit(events', svc') /\ OverFits(over, events', svc')
  <2>1. e.kind # "changed"
    BY <1>7 DEF Terminal
  <2> HIDE DEF e
  <2> QED BY <1>1, <1>3, <1>6, <1>7, <1>8, <1>9, <1>10, <2>1, EmitsFits
<1>12. events' \in Seq(Events)
  BY <1>1, <1>3, <1>6, EventAdded
<1>13. ServicePart'
  BY <1>1, <1>5, <1>6, <1>9, <1>11, <1>12, ServiceStill
<1>14. EndsPart'
  BY <1>1, EndsStill
<1> QED BY <1>2, <1>13, <1>14 DEF TurnInv

\* The service answers a status request.
LEMMA StatusServedStep == TurnInv /\ StatusServed => TurnInv'
<1> SUFFICES ASSUME WindowPart, ServicePart, EndsPart, StatusServed PROVE TurnInv'
  BY DEF TurnInv
<1>1. /\ win' = win /\ made' = made /\ turns' = turns /\ cancels' = cancels /\ events' = events
      /\ count' = count /\ launches' = launches /\ wanted' = wanted /\ over' = over /\ gaps' = gaps
      /\ svc' \in {svc, Swept}
  BY DEF StatusServed
<1>2. WindowPart'
  BY <1>1, WindowStill DEF WindowPart
<1>3. svc \in Services /\ 0 \notin svc.claims /\ svc.claims \subseteq Runs
  BY ClaimsPositive
<1>4. svc' \in Services /\ Quieter(svc, svc')
  BY <1>1, <1>3, SweptFits DEF Quieter
<1>5. SvcFits(svc, turns, Len(made)) /\ EventsFit(events, svc) /\ OverFits(over, events, svc)
      /\ StatusFits(status, svc) /\ events \in Seq(Events) /\ status \in Statuses
  BY DEF ServicePart
<1>6. SvcFits(svc', turns, Len(made)) /\ EventsFit(events, svc') /\ OverFits(over, events, svc')
  BY <1>3, <1>4, <1>5, QuieterFits
<1> DEFINE found == IF status.epoch = svc.epoch THEN svc.epoch ELSE 0
           state == IF svc.state = "canceling" THEN "canceling" ELSE "running"
<1>7. status' = [status EXCEPT !.pc = "answered", !.found = found, !.available = svc.usable,
                   !.run = svc.run, !.state = state]
  BY DEF StatusServed
<1>8. found \in Nat /\ state \in {"running", "canceling"} /\ svc.run \in MessageIds
      /\ svc.usable \in BOOLEAN
  BY <1>3, ServiceFields
<1> HIDE DEF found, state
<1>9. status' \in Statuses /\ status'.run = svc.run /\ status'.pc = "answered" /\ status'.state = state
  BY <1>5, <1>7, <1>8 DEF Statuses
<1>10. StatusFits(status', svc')
  BY <1>4, <1>5, <1>8, <1>9 DEF StatusFits, SvcFits, Quieter
<1>11. ServicePart'
  BY <1>1, <1>4, <1>5, <1>6, <1>9, <1>10, ServiceStill
<1>12. EndsPart'
  BY <1>1, <1>9, EndsStill
<1> QED BY <1>2, <1>11, <1>12 DEF TurnInv

\* The settings change.
LEMMA ChangeStep == TurnInv /\ Change => TurnInv'
<1> SUFFICES ASSUME WindowPart, ServicePart, EndsPart, Change PROVE TurnInv'
  BY DEF TurnInv
<1> DEFINE e == Event(0, "changed", "event", FALSE)
<1>1. /\ win' = win /\ made' = made /\ turns' = turns /\ cancels' = cancels /\ status' = status
      /\ Disturbs /\ launches' = launches /\ wanted' = wanted /\ over' = over /\ gaps' = gaps
      /\ events' = Append(events, e)
  BY DEF Change
<1>2. WindowPart'
  BY <1>1, WindowStill DEF WindowPart
<1>3. svc \in Services /\ 0 \notin svc.claims /\ svc.claims \subseteq Runs
  BY ClaimsPositive
<1>4. svc' \in Services /\ Quieter(svc, svc')
  <2>1. PICK usable \in BOOLEAN : svc' = [svc EXCEPT !.usable = usable]
    BY DEF Change
  <2> QED BY <1>3, <2>1 DEF Services, Quieter
<1>5. e \in Events /\ e.run = 0 /\ e.kind = "changed"
  BY TurnBounds DEF Event, Events, MessageIds
<1> HIDE DEF e
<1>6. SvcFits(svc, turns, Len(made)) /\ EventsFit(events, svc) /\ OverFits(over, events, svc)
      /\ StatusFits(status, svc) /\ events \in Seq(Events) /\ status \in Statuses
  BY DEF ServicePart
<1>7. SvcFits(svc', turns, Len(made)) /\ EventsFit(events, svc') /\ OverFits(over, events, svc')
        /\ StatusFits(status, svc')
  BY <1>3, <1>4, <1>6, QuieterFits
<1>8. 0 \notin svc'.claims /\ "changed" \notin Terminal
  BY <1>3, <1>4 DEF Quieter, Terminal
<1>9. EventsFit(events', svc') /\ OverFits(over, events', svc')
  BY <1>1, <1>5, <1>6, <1>7, <1>8, EmitsFits
<1>10. ServicePart'
  BY <1>1, <1>4, <1>5, <1>6, <1>7, <1>9, EventAdded, ServiceStill
<1>11. EndsPart'
  BY <1>1, EndsStill
<1> QED BY <1>2, <1>10, <1>11 DEF TurnInv

\* A challenge passes its deadline.
LEMMA ExpireStep == TurnInv /\ Expire => TurnInv'
<1> SUFFICES ASSUME WindowPart, ServicePart, EndsPart, Expire PROVE TurnInv'
  BY DEF TurnInv
<1>1. /\ win' = win /\ made' = made /\ turns' = turns /\ cancels' = cancels /\ status' = status
      /\ Disturbs /\ launches' = launches /\ wanted' = wanted /\ over' = over /\ gaps' = gaps
      /\ events' = events /\ svc' = svc
  BY DEF Expire
<1>2. WindowPart'
  BY <1>1, WindowStill DEF WindowPart
<1>3. ServicePart'
  BY <1>1 DEF ServicePart
<1>4. EndsPart'
  BY <1>1, EndsStill
<1> QED BY <1>2, <1>3, <1>4 DEF TurnInv

-----------------------------------------------------------------------------
\* The calls at the service.

(* The service t claims, challenges or runs r, and is s otherwise. *)
Claims(s, t, r) ==
  /\ t.last = s.last /\ t.claims = s.claims \cup {r} /\ t.challenge \in {0, s.challenge, r}
  /\ t.run \in {s.run, r} /\ (t.run = r => t.challenge # r)

\* A run is claimed, challenged or launched by its own call only.
LEMMA ClaimFits ==
  ASSUME NEW s, NEW t, NEW calls, NEW fewer, NEW n, NEW q, NEW ov, NEW st, NEW r, t.claims \subseteq 1 .. n,
         SvcFits(s, calls, n), EventsFit(q, s), OverFits(ov, q, s), StatusFits(st, s),
         0 \notin s.claims, r # 0, r \notin s.claims \/ s.challenge = r,
         Claims(s, t, r), \A d \in fewer : d.pc = "sent" => d \in calls /\ d.run # r
  PROVE  SvcFits(t, fewer, n) /\ EventsFit(q, t) /\ OverFits(ov, q, t) /\ StatusFits(st, t)
<1> USE DEF Claims
<1>1. \A p : Gone(s, p) => Gone(t, p)
  BY DEF Gone
<1>2. \A p : Past(s, p) => Past(t, p)
  BY <1>1 DEF Past
<1>3. SvcFits(t, fewer, n)
  <2>1. t.claims \subseteq 1 .. n /\ (t.challenge # 0 => t.challenge \in t.claims)
    BY DEF SvcFits
  <2>2. ASSUME t.run # 0 PROVE t.run \in t.claims /\ t.challenge # t.run
    <3>1. CASE t.run = r
      BY <3>1
    <3>2. CASE t.run # r
      BY <2>2, <3>2 DEF SvcFits
    <3> QED BY <3>1, <3>2
  <2>3. t.last.run # 0 => Gone(t, t.last.run) /\ t.last.kind \in Terminal
    BY <1>1 DEF SvcFits
  <2>4. \A d \in fewer : d.pc = "sent" /\ ~d.consent => d.run \notin t.claims
    BY DEF SvcFits
  <2> QED BY <2>1, <2>2, <2>3, <2>4 DEF SvcFits
<1>4. EventsFit(q, t)
  BY <1>2 DEF EventsFit
<1>5. OverFits(ov, q, t)
  BY <1>2 DEF OverFits
<1>6. StatusFits(st, t)
  BY DEF StatusFits
<1> QED BY <1>3, <1>4, <1>5, <1>6

\* The answer of a turn.
LEMMA AnswerFits ==
  ASSUME WindowPart, NEW c \in turns, c.pc = "sent",
         NEW how \in {"accepted", "needs-consent", "rejected"}, Answers(c, how),
         count' = count \/ Disturbs, win' = win, made' = made, wanted' = wanted
  PROVE  /\ WindowOK(win', turns', made', Asked')
         /\ Even(win, turns, made) => Even(win, turns', made)
         /\ c.run \in LiveRuns(win, turns) /\ c.run \in 1 .. Len(made) /\ c.run \in Runs /\ c.run # 0
         /\ made[c.run].message \in Runs
         /\ how = "accepted" => LiveRuns(win, turns') \subseteq LiveRuns(win, turns) \ {c.run}
         /\ \A d \in turns' : d.pc = "sent" => d \in turns /\ d.run # c.run
         /\ Asked' \in 0 .. MaxActs
<1> DEFINE a == [c EXCEPT !.pc = how]
<1>1. /\ WindowOK(win, turns, made, Asked) /\ turns \in SUBSET Calls /\ WindowFits(win, turns, made, Asked)
      /\ launches \in [Runs -> Nat] /\ wanted \in [Runs -> Nat]
  BY DEF WindowPart, WindowOK
<1>2. Asked \in 0 .. MaxActs /\ Asked' \in 0 .. MaxActs /\ Asked <= Asked'
  BY Counts1
<1>3. c \in Calls /\ c.run \in 1 .. Len(made) /\ ~Prompting(win, c.run)
      /\ \A d \in turns : d.run = c.run => d = c
  BY <1>1 DEF WindowFits
<1>4. /\ a \in Calls /\ a.run = c.run /\ a.consent = c.consent /\ a.pc = how
  BY <1>3 DEF Calls
<1>5. turns' = (turns \ {c}) \cup {a}
  BY DEF Answers
<1> HIDE DEF a
<1>6. turns' \in SUBSET Calls
  BY <1>1, <1>4, <1>5
<1>7. /\ \A d \in turns' : \E e \in turns : e.run = d.run /\ (Open(d) => Open(e))
      /\ \A d, e \in turns' : d.run = e.run => d = e
  <2>1. Open(c)
    BY DEF Open
  <2>2. \A d, e \in turns : d.run = e.run => d = e
    BY <1>1 DEF WindowFits
  <2> QED BY <1>3, <1>4, <1>5, <2>1, <2>2
<1>8. /\ WindowOK(win, turns', made, Asked)
      /\ Even(win, turns, made) => Even(win, turns', made)
  BY <1>1, <1>2, <1>6, <1>7, CallsFit
<1>9. WindowOK(win', turns', made', Asked')
  BY <1>2, <1>8, Raised
<1>10. c.run \in Runs /\ c.run # 0 /\ made[c.run].message \in Runs
  BY <1>1, <1>2, <1>3, RunsOf
<1>11. c.run \in LiveRuns(win, turns)
  BY <1>10 DEF LiveRuns, Open
<1>12. ASSUME how = "accepted" PROVE LiveRuns(win, turns') \subseteq LiveRuns(win, turns) \ {c.run}
  <2>1. ~Open(a)
    BY <1>4, <1>12 DEF Open
  <2> QED BY <1>3, <1>4, <1>5, <2>1 DEF LiveRuns
<1>13. \A d \in turns' : d.pc = "sent" => d \in turns /\ d.run # c.run
  BY <1>3, <1>4, <1>5
<1> QED BY <1>2, <1>3, <1>8, <1>9, <1>10, <1>11, <1>12, <1>13

\* An answer that launches nothing keeps the part of the window.
LEMMA AnswerStep ==
  ASSUME WindowPart, NEW c \in turns, c.pc = "sent",
         NEW how \in {"needs-consent", "rejected"}, Answers(c, how),
         count' = count \/ Disturbs, win' = win, made' = made, wanted' = wanted,
         launches' = launches, cancels' = cancels, gaps' = gaps
  PROVE  WindowPart'
<1>1. /\ WindowOK(win', turns', made', Asked')
      /\ Even(win, turns, made) => Even(win, turns', made)
  BY AnswerFits
<1>2. /\ count' \in Counts /\ Asked' <= MaxActs /\ count'.messages = count.messages
  BY Counts1
<1>3. ("shelved" \in gaps \/ Even(win, turns, made)) => ("shelved" \in gaps' \/ Even(win, turns, made)')
  BY <1>1 DEF Even, LiveRuns, Prompting
<1> QED BY <1>1, <1>2, <1>3 DEF WindowPart

\* So does the answer that launches a run.
LEMMA LaunchStep ==
  ASSUME WindowPart, NEW c \in turns, c.pc = "sent", Answers(c, "accepted"),
         count' = count, win' = win, made' = made, wanted' = wanted,
         launches' = [launches EXCEPT ![made[c.run].message] = @ + 1],
         cancels' = cancels, gaps' = gaps
  PROVE  WindowPart'
<1>1. /\ WindowOK(win', turns', made', Asked')
      /\ c.run \in LiveRuns(win, turns) /\ made[c.run].message \in Runs
      /\ LiveRuns(win, turns') \subseteq LiveRuns(win, turns) \ {c.run}
  BY AnswerFits
<1>2. /\ launches \in [Runs -> Nat] /\ wanted \in [Runs -> Nat] /\ win.queue \in Seq(Prompts)
      /\ count \in Counts /\ Asked <= MaxActs /\ Asked' = Asked
  BY WindowFields DEF WindowPart, WindowOK, Asked
<1>3. launches' \in [Runs -> Nat]
  BY <1>1, <1>2
<1>4. ASSUME Even(win, turns, made)
      PROVE  Balance(win.queue, LiveRuns(win, turns'), made, launches', wanted)
  <2>1. LiveRuns(win, turns) \in SUBSET Runs
    BY DEF LiveRuns
  <2>2. Balance(win.queue, LiveRuns(win, turns) \ {c.run}, made, launches', wanted)
    BY <1>1, <1>2, <1>4, <2>1, BalanceLaunches DEF Even
  <2> DEFINE L == LiveRuns(win, turns) \ {c.run}
             K == LiveRuns(win, turns')
             la == launches'
  <2>3. L \in SUBSET Runs /\ K \in SUBSET L /\ la \in [Runs -> Nat]
    BY <1>1, <1>3, <2>1
  <2>4. Balance(win.queue, L, made, la, wanted)
    BY <2>2
  <2> HIDE DEF L, K, la
  <2>5. Balance(win.queue, K, made, la, wanted)
    BY <1>2, <2>3, <2>4, BalanceShrinks
  <2> QED BY <2>5 DEF K, la
<1>5. ("shelved" \in gaps \/ Even(win, turns, made)) => ("shelved" \in gaps' \/ Even(win, turns, made)')
  BY <1>4 DEF Even, LiveRuns, Prompting
<1> QED BY <1>1, <1>2, <1>3, <1>5 DEF WindowPart

\* The service takes a turn.
LEMMA StartTurnStep == TurnInv /\ (\E c \in turns : StartTurn(c)) => TurnInv'
<1> SUFFICES ASSUME WindowPart, ServicePart, EndsPart, NEW c \in turns, StartTurn(c) PROVE TurnInv'
  BY DEF TurnInv
<1> DEFINE r == c.run
           s == Swept
           claims == s.claims \cup {r}
           claimed == [s EXCEPT !.claims = claims]
<1>1. /\ c.pc = "sent" /\ win' = win /\ made' = made /\ cancels' = cancels /\ status' = status
      /\ events' = events /\ wanted' = wanted /\ over' = over /\ gaps' = gaps
      /\ count' = count \/ Disturbs
  BY DEF StartTurn, Launches
<1>2. svc \in Services /\ 0 \notin svc.claims /\ svc.claims \subseteq Runs /\ s \in Services
      /\ Quieter(svc, s) /\ 0 \in MessageIds /\ s.claims = svc.claims
  BY ClaimsPositive, SweptFits, TurnBounds DEF MessageIds, Quieter
<1>3. SvcFits(svc, turns, Len(made)) /\ EventsFit(events, svc) /\ OverFits(over, events, svc)
      /\ StatusFits(status, svc) /\ events \in Seq(Events) /\ status \in Statuses
      /\ over \subseteq 1 .. Len(made)
  BY DEF ServicePart
<1>4. SvcFits(s, turns, Len(made)) /\ EventsFit(events, s) /\ OverFits(over, events, s)
      /\ StatusFits(status, s)
  BY <1>2, <1>3, QuieterFits
<1>5. EndsPart'
  BY <1>1, EndsStill
<1>6. c.run \in 1 .. Len(made) /\ c.run \in Runs /\ c.run # 0 /\ c.run \in MessageIds
  <2>1. Asked \in 0 .. MaxActs
    BY <1>1, Counts1
  <2>2. c.run \in 1 .. Len(made)
    BY DEF WindowPart, WindowOK, WindowFits
  <2>3. c.run \in Runs /\ 0 \notin Runs
    BY <2>1, <2>2, RunsOf DEF WindowPart
  <2> QED BY <2>2, <2>3, TurnBounds DEF Runs, MessageIds
<1>7. claimed \in Services /\ claimed.claims = s.claims \cup {r} /\ claimed.last = s.last
      /\ claimed.challenge = s.challenge /\ claimed.run = s.run
  BY <1>2, <1>6 DEF Services
<1> HIDE DEF s, claimed
<1>8. ASSUME NEW t \in Services, Refuses(c, t), Quieter(svc, t)
      PROVE  TurnInv'
  <2>1. Answers(c, "rejected") /\ svc' = t /\ launches' = launches
    BY <1>8 DEF Refuses
  <2>2. WindowPart'
    BY <1>1, <2>1, AnswerStep
  <2>3. \A d \in turns' : d.pc = "sent" => d \in turns /\ d.run # c.run
    BY <1>1, <2>1, AnswerFits
  <2>4. SvcFits(t, turns, Len(made)) /\ EventsFit(events, t) /\ OverFits(over, events, t)
        /\ StatusFits(status, t)
    BY <1>2, <1>3, <1>8, QuieterFits
  <2>5. SvcFits(t, turns', Len(made))
    BY <2>3, <2>4 DEF SvcFits
  <2>6. ServicePart'
    BY <1>1, <1>3, <1>8, <2>1, <2>4, <2>5 DEF ServicePart
  <2> QED BY <1>5, <2>2, <2>6 DEF TurnInv
<1>9. ASSUME NEW t \in Services, svc' = t, WindowPart', r \notin s.claims \/ s.challenge = r,
             t.last = s.last, t.claims = s.claims \cup {r}, t.challenge \in {0, s.challenge, r},
             t.run \in {s.run, r}, t.run = r => t.challenge # r,
             \A d \in turns' : d.pc = "sent" => d \in turns /\ d.run # c.run
      PROVE  TurnInv'
  <2>1. SvcFits(t, turns', Len(made)) /\ EventsFit(events, t) /\ OverFits(over, events, t)
        /\ StatusFits(status, t)
    <3>1. c.run \in 1 .. Len(made) /\ c.run # 0 /\ 0 \notin s.claims
          /\ (c.run \notin s.claims \/ s.challenge = c.run)
      BY <1>2, <1>6, <1>9
    <3>2. Claims(s, t, c.run)
      BY <1>9 DEF Claims
    <3>3. \A d \in turns' : d.pc = "sent" => d \in turns /\ d.run # c.run
      BY <1>9
    <3>4. t.claims \subseteq 1 .. Len(made)
      BY <1>4, <1>6, <1>9 DEF SvcFits
    <3> HIDE DEF r, claims
    <3> QED BY <1>4, <3>1, <3>2, <3>3, <3>4, ClaimFits
  <2>2. ServicePart'
    BY <1>1, <1>3, <1>9, <2>1 DEF ServicePart
  <2> QED BY <1>5, <1>9, <2>2 DEF TurnInv
<1>10. ASSUME NEW t \in Services, Launches(c, t), r \notin s.claims \/ s.challenge = r,
              t.last = s.last, t.claims = s.claims \cup {r}, t.run = s.run,
              t.challenge \in {0, s.challenge}, t.challenge # r
       PROVE  TurnInv'
  <2>1. CASE /\ Answers(c, "accepted")
             /\ svc' = [t EXCEPT !.state = "running", !.run = c.run, !.started = FALSE]
             /\ launches' = [launches EXCEPT ![made[c.run].message] = @ + 1]
             /\ UNCHANGED count
    <3>1. WindowPart'
      BY <1>1, <2>1, LaunchStep
    <3>2. \A d \in turns' : d.pc = "sent" => d \in turns /\ d.run # c.run
      BY <1>1, <2>1, AnswerFits
    <3>3. svc' \in Services /\ svc'.last = t.last /\ svc'.claims = t.claims
          /\ svc'.challenge = t.challenge /\ svc'.run = r
      BY <1>6, <2>1 DEF Services
    <3> QED BY <1>9, <1>10, <3>1, <3>2, <3>3
  <2>2. CASE Disturbs /\ Refuses(c, [t EXCEPT !.state = "idle"])
    <3>1. Answers(c, "rejected") /\ svc' = [t EXCEPT !.state = "idle"] /\ launches' = launches
      BY <2>2 DEF Refuses
    <3>2. WindowPart'
      BY <1>1, <3>1, AnswerStep
    <3>3. \A d \in turns' : d.pc = "sent" => d \in turns /\ d.run # c.run
      BY <1>1, <3>1, AnswerFits
    <3>4. svc' \in Services /\ svc'.last = t.last /\ svc'.claims = t.claims
          /\ svc'.challenge = t.challenge /\ svc'.run = t.run
      BY <3>1 DEF Services
    <3> QED BY <1>9, <1>10, <3>2, <3>3, <3>4
  <2> QED BY <1>10, <2>1, <2>2 DEF Launches
<1>11. CASE made[r].epoch # s.epoch \/ (r \in s.claims /\ ~c.consent)
  <2>1. Refuses(c, svc)
    BY <1>11 DEF StartTurn, s
  <2>2. Quieter(svc, svc)
    BY DEF Quieter
  <2> QED BY <1>2, <1>8, <2>1, <2>2
<1>12. CASE ~(made[r].epoch # s.epoch \/ (r \in s.claims /\ ~c.consent))
            /\ (~s.usable \/ s.state \in {"running", "canceling"})
  <2>1. Refuses(c, s)
    BY <1>12 DEF StartTurn, s
  <2> QED BY <1>2, <1>8, <2>1
<1>13. CASE /\ ~(made[r].epoch # s.epoch \/ (r \in s.claims /\ ~c.consent))
            /\ ~(~s.usable \/ s.state \in {"running", "canceling"})
            /\ s.state = "pending"
  <2> DEFINE t == [s EXCEPT !.challenge = 0, !.granted = TRUE]
  <2>1. CASE Refuses(c, s)
    BY <1>2, <1>8, <2>1
  <2>2. CASE ~(~c.consent \/ s.challenge # r) /\ Launches(c, t)
    <3>1. t \in Services /\ t.last = s.last /\ t.claims = s.claims /\ t.run = s.run
          /\ t.challenge = 0
      BY <1>2 DEF Services
    <3>2. r \in s.claims
      BY <1>4, <1>6, <2>2 DEF SvcFits
    <3> HIDE DEF t
    <3> QED BY <1>6, <1>10, <2>2, <3>1, <3>2
  <2> QED BY <1>13, <2>1, <2>2 DEF StartTurn, s
<1>14. CASE /\ ~(made[r].epoch # s.epoch \/ (r \in s.claims /\ ~c.consent))
            /\ ~(~s.usable \/ s.state \in {"running", "canceling"})
            /\ s.state # "pending"
  <2>1. CASE Refuses(c, s)
    BY <1>2, <1>8, <2>1
  <2>2. CASE /\ ~c.consent /\ Answers(c, "needs-consent") /\ UNCHANGED launches
             /\ svc' = [claimed EXCEPT !.state = "pending", !.challenge = r]
    <3>1. WindowPart'
      BY <1>1, <2>2, AnswerStep
    <3>2. \A d \in turns' : d.pc = "sent" => d \in turns /\ d.run # c.run
      BY <1>1, <2>2, AnswerFits
    <3>3. svc' \in Services /\ svc'.last = s.last /\ svc'.claims = s.claims \cup {r}
          /\ svc'.challenge = r /\ svc'.run = s.run
      BY <1>6, <1>7, <2>2 DEF Services
    <3>4. r \notin s.claims /\ s.run # r
      BY <1>4, <1>6, <1>14, <2>2 DEF SvcFits
    <3> QED BY <1>9, <3>1, <3>2, <3>3, <3>4
  <2>3. CASE ~c.consent /\ Launches(c, claimed)
    <3>1. r \notin s.claims /\ s.challenge # r
      BY <1>4, <1>6, <1>14, <2>3 DEF SvcFits
    <3> QED BY <1>7, <1>10, <2>3, <3>1
  <2> QED BY <1>14, <2>1, <2>2, <2>3 DEF StartTurn, s, claimed
<1> QED BY <1>11, <1>12, <1>13, <1>14

\* The service serves a cancel.
LEMMA CancelServedStep == TurnInv /\ (\E c \in cancels : CancelServed(c)) => TurnInv'
<1> SUFFICES ASSUME WindowPart, ServicePart, EndsPart, NEW c \in cancels, CancelServed(c) PROVE TurnInv'
  BY DEF TurnInv
<1>1. /\ win' = win /\ made' = made /\ turns' = turns /\ status' = status
      /\ count' = count /\ launches' = launches /\ wanted' = wanted /\ over' = over /\ gaps' = gaps
  BY DEF CancelServed
<1>2. cancels' \in SUBSET Cancels
  <2>1. c \in Cancels /\ cancels \in SUBSET Cancels
    BY DEF WindowPart
  <2>2. PICK how \in {"done", "rejected"} : cancels' = (cancels \ {c}) \cup {[c EXCEPT !.pc = how]}
    BY DEF CancelServed
  <2>3. [c EXCEPT !.pc = how] \in Cancels
    BY <2>1 DEF Cancels
  <2> QED BY <2>1, <2>2, <2>3
<1>3. WindowPart'
  BY <1>1, <1>2, WindowStill
<1>4. svc \in Services /\ 0 \notin svc.claims /\ svc.claims \subseteq Runs /\ c \in Cancels
      /\ 0 \in MessageIds
  BY ClaimsPositive, TurnBounds DEF WindowPart, MessageIds
<1>5. SvcFits(svc, turns, Len(made)) /\ EventsFit(events, svc) /\ OverFits(over, events, svc)
      /\ StatusFits(status, svc) /\ events \in Seq(Events) /\ status \in Statuses
  BY DEF ServicePart
<1>6. EndsPart'
  BY <1>1, EndsStill
<1>7. ASSUME NEW t \in Services, Quieter(svc, t), svc' = t, events' = events PROVE ServicePart'
  <2>1. SvcFits(t, turns, Len(made)) /\ EventsFit(events, t) /\ OverFits(over, events, t)
        /\ StatusFits(status, t)
    BY <1>4, <1>5, <1>7, QuieterFits
  <2> QED BY <1>1, <1>5, <1>7, <2>1, ServiceStill
<1>8. CASE svc.run = c.run
  <2>1. svc' = [svc EXCEPT !.state = "canceling"] /\ events' = events
    BY <1>8 DEF CancelServed
  <2>2. svc' \in Services /\ Quieter(svc, svc')
    BY <1>4, <2>1 DEF Services, Quieter
  <2>3. ServicePart'
    BY <1>7, <2>1, <2>2
  <2> QED BY <1>3, <1>6, <2>3 DEF TurnInv
<1>9. CASE svc.run # c.run /\ svc.state = "pending" /\ svc.challenge = c.run
  <2> DEFINE e == Event(c.run, "canceled", "status", FALSE)
             t == [svc EXCEPT !.challenge = 0, !.state = "idle"]
  <2>1. svc' = t /\ events' = Append(events, e)
    BY <1>9 DEF CancelServed
  <2>2. c.run \in Runs /\ c.run # 0 /\ c.run \in MessageIds
    BY <1>4, TurnBounds DEF Cancels, Runs, MessageIds
  <2>3. e \in Events /\ e.run = c.run /\ e.kind = "canceled"
    BY <2>2 DEF Event, Events, Terminal
  <2>4. t \in Services /\ t.claims = svc.claims /\ t.challenge = 0 /\ t.run = svc.run
        /\ t.last = svc.last
    BY <1>4 DEF Services
  <2> HIDE DEF e, t
  <2>5. Quieter(svc, t)
    BY <2>4 DEF Quieter
  <2>6. SvcFits(t, turns, Len(made)) /\ EventsFit(events, t) /\ OverFits(over, events, t)
        /\ StatusFits(status, t)
    BY <1>4, <1>5, <2>5, QuieterFits
  <2>7. c.run \in svc.claims
    BY <1>5, <1>9, <2>2 DEF SvcFits
  <2>8. Past(t, c.run)
    BY <1>5, <1>9, <2>2, <2>4, <2>7 DEF Past, Gone, SvcFits
  <2>9. /\ c.run \notin over
        /\ \A i \in DOMAIN events : events[i].kind \in Terminal => events[i].run # c.run
    BY <1>5, <1>9 DEF OverFits, EventsFit, Past, Gone
  <2>10. "canceled" # "changed" /\ "canceled" \in Terminal
    BY DEF Terminal
  <2>11. EventsFit(Append(events, e), t) /\ OverFits(over, Append(events, e), t)
    BY <1>4, <1>5, <2>3, <2>4, <2>6, <2>7, <2>8, <2>9, <2>10, EmitsFits
  <2>12. ServicePart'
    BY <1>1, <1>5, <2>1, <2>3, <2>4, <2>6, <2>11, EventAdded, ServiceStill
  <2> QED BY <1>3, <1>6, <2>12 DEF TurnInv
<1>10. CASE svc.run # c.run /\ ~(svc.state = "pending" /\ svc.challenge = c.run)
  <2>1. svc' = svc /\ events' = events
    BY <1>10 DEF CancelServed
  <2>2. Quieter(svc, svc)
    BY DEF Quieter
  <2>3. ServicePart'
    BY <1>4, <1>7, <2>1, <2>2
  <2> QED BY <1>3, <1>6, <2>3 DEF TurnInv
<1> QED BY <1>8, <1>9, <1>10

-----------------------------------------------------------------------------
\* Steps of the window that ask for nothing.

\* The parts of the service that a step of the window keeps.
LEMMA ServiceKept ==
  ASSUME ServicePart, svc' = svc, events' = events, over' = over,
         status' = status \/ status' = NoStatus, Len(made) \in Nat, Len(made') \in Nat,
         Len(made) <= Len(made'),
         \A d \in turns' : d \in turns \/ d.pc # "sent" \/ d.consent \/ d.run = Len(made) + 1
  PROVE  ServicePart'
<1>1. SvcFits(svc, turns, Len(made)) /\ EventsFit(events, svc) /\ OverFits(over, events, svc)
      /\ StatusFits(status, svc) /\ events \in Seq(Events) /\ status \in Statuses
      /\ svc \in Services /\ over \subseteq 1 .. Len(made)
  BY DEF ServicePart
<1>2. 1 .. Len(made) \subseteq 1 .. Len(made') /\ Len(made) + 1 \notin 1 .. Len(made)
  OBVIOUS
<1>3. svc.claims \subseteq 1 .. Len(made') /\ over \subseteq 1 .. Len(made')
      /\ Len(made) + 1 \notin svc.claims
  BY <1>1, <1>2 DEF SvcFits
<1>4. SvcFits(svc', turns', Len(made'))
  BY <1>1, <1>3 DEF SvcFits
<1>5. NoStatus \in Statuses /\ StatusFits(NoStatus, svc)
  BY TurnBounds DEF NoStatus, Statuses, StatusFits, MessageIds
<1> QED BY <1>1, <1>3, <1>4, <1>5 DEF ServicePart

(* No run that has ended, and none that was cleared, is live again. *)
Lasts(v, w) ==
  \A r \in 1 .. Len(made) :
    /\ v.runs[r].phase \in Terminal => w.runs[r].phase \in Terminal
    /\ v.runs[r].phase = "none" => w.runs[r].phase \in Terminal \cup {"none"}

\* A step that leaves the ends in the window as they are keeps them settled.
LEMMA EndsKept ==
  ASSUME ServicePart, EndsPart, Lasts(win, win'), over' = over, gaps \subseteq gaps',
         status' = status \/ status' = NoStatus
  PROVE  EndsPart'
<1>1. \A r \in over : r # 0 /\ r \in 1 .. Len(made)
  <2>1. 0 \notin svc.claims
    BY ClaimsPositive
  <2> QED BY <2>1 DEF ServicePart, OverFits, Past, Gone
<1>2. NoStatus.run = 0
  BY DEF NoStatus
<1> QED BY <1>1, <1>2 DEF EndsPart, Settled, Lasts

\* The part of the window, put together.
LEMMA WindowMade ==
  ASSUME WindowPart, WindowOK(win', turns', made', Asked'), cancels' \in SUBSET Cancels,
         count' = count \/ Disturbs, launches' = launches, wanted' = wanted, gaps \subseteq gaps',
         "shelved" \in gaps' \/ (Even(win, turns, made)
            => Balance(win'.queue, LiveRuns(win', turns'), made', launches, wanted))
  PROVE  WindowPart'
<1>1. /\ count' \in Counts /\ Asked' <= MaxActs /\ count'.messages = count.messages
  BY Counts1
<1>2. "shelved" \in gaps' \/ Even(win, turns, made)'
  BY DEF Even, LiveRuns, Prompting, WindowPart
<1> QED BY <1>1, <1>2 DEF WindowPart

\* What the parts say about the window.
LEMMA Basics ==
  ASSUME WindowPart
  PROVE  /\ WindowOK(win, turns, made, Asked) /\ Asked \in 0 .. MaxActs
         /\ win \in Windows /\ turns \in SUBSET Calls /\ made \in Seq(Made)
         /\ launches \in [Runs -> Nat] /\ wanted \in [Runs -> Nat] /\ Len(made) \in Nat
         /\ win.queue \in Seq(Prompts) /\ Len(win.queue) \in Nat /\ cancels \in SUBSET Cancels
         /\ \A r \in 1 .. Len(made) : r \in Runs /\ made[r].message \in Runs
         /\ win.active \in 0 .. Len(made) /\ win.pending \in 0 .. Len(made) /\ 0 \notin Runs
         /\ win.active # 0 => win.active \in 1 .. Len(made)
         /\ win.pending # 0 => win.pending \in 1 .. Len(made)
         /\ 0 \in MessageIds /\ Runs \subseteq MessageIds
<1>1. Asked \in 0 .. MaxActs
  <2>1. count.messages \in Nat /\ count.others \in Nat /\ Asked <= MaxActs
    BY DEF WindowPart, Counts
  <2> QED BY <2>1, TurnBounds DEF Asked
<1>2. WindowOK(win, turns, made, Asked) /\ turns \in SUBSET Calls
      /\ launches \in [Runs -> Nat] /\ wanted \in [Runs -> Nat] /\ cancels \in SUBSET Cancels
  BY DEF WindowPart, WindowOK
<1>3. 0 \in MessageIds /\ Runs \subseteq MessageIds
  BY TurnBounds DEF Runs, MessageIds
<1> QED BY <1>1, <1>2, <1>3, RunsOf

(* In w the phase of the run r is p. *)
Phased(v, w, r, p) ==
  w.queue = v.queue /\ w.runs = [v.runs EXCEPT ![r].phase = p]

(* And no other run is active or pending than in v, nor is r if it is over. *)
Held(v, w, r, p) ==
  /\ w.active \in 0 .. Len(made) /\ w.pending \in {0, v.pending}
  /\ p = "needs-consent" => w.pending # r
  /\ w.active = r => p \notin Terminal \cup {"none"}
  /\ w.active \in {0, r, v.active}

\* A window in which the phase of one run is set.
LEMMA PhasedFits ==
  ASSUME NEW v, NEW w \in Windows, NEW calls, NEW b \in 0 .. MaxActs, WindowOK(v, calls, made, b),
         NEW r \in Runs, NEW p \in RunPhases, Phased(v, w, r, p), Held(v, w, r, p),
         launches \in [Runs -> Nat], wanted \in [Runs -> Nat]
  PROVE  /\ WindowOK(w, calls, made, b) /\ (Even(v, calls, made) => Even(w, calls, made))
         /\ \A s \in Runs : w.runs[s].phase = IF s = r THEN p ELSE v.runs[s].phase
<1> USE DEF Held
<1>1. /\ v \in Windows /\ v.runs \in [Runs -> RunViews] /\ Len(made) \in Nat
      /\ v.pending \in 0 .. Len(made) /\ WindowFits(v, calls, made, b)
      /\ \A s \in 1 .. Len(made) : s \in Runs
  BY RunsOf, WindowFields DEF WindowOK
<1>2. \A s \in Runs : w.runs[s].phase = IF s = r THEN p ELSE v.runs[s].phase
  BY <1>1, PhaseSet DEF Phased
<1>3. Calmer(v, w, Len(made))
  <2>1. SameMessages(w.queue, v.queue) /\ w.pending \in 0 .. Len(made)
    BY <1>1 DEF SameMessages, Phased
  <2>2. \A s \in Runs : Prompting(w, s) => Prompting(v, s)
    <3> SUFFICES ASSUME NEW s \in Runs, w.pending = s, w.runs[s].phase = "needs-consent"
                 PROVE  v.pending = s /\ v.runs[s].phase = "needs-consent"
      BY DEF Prompting
    <3>1. s # 0
      BY TurnBounds DEF Runs
    <3> QED BY <1>2, <3>1
  <2>3. ASSUME w.active # 0 PROVE w.runs[w.active].phase \notin Terminal \cup {"none"}
    <3>1. w.active \in Runs
      BY <1>1, <2>3
    <3> QED BY <1>1, <1>2, <2>3, <3>1 DEF WindowFits
  <2> QED BY <2>1, <2>2, <2>3 DEF Calmer
<1> QED BY <1>2, <1>3, CalmerFits

\* The same, its hypotheses taken together.
Shows(v, w, calls, b, r, p) ==
  /\ w \in Windows /\ b \in 0 .. MaxActs /\ WindowOK(v, calls, made, b) /\ r \in Runs /\ p \in RunPhases
  /\ Phased(v, w, r, p) /\ Held(v, w, r, p) /\ launches \in [Runs -> Nat] /\ wanted \in [Runs -> Nat]

\* A window that shows run r in phase p fits.
LEMMA ShownFits ==
  ASSUME NEW v, NEW w, NEW calls, NEW b, NEW r, NEW p, Shows(v, w, calls, b, r, p)
  PROVE  /\ WindowOK(w, calls, made, b) /\ (Even(v, calls, made) => Even(w, calls, made))
         /\ \A s \in Runs : w.runs[s].phase = IF s = r THEN p ELSE v.runs[s].phase
  BY PhasedFits DEF Shows

(* In w the run r waits for the user. *)
Waits(v, w, r) ==
  /\ Phased(v, w, r, "needs-consent")
  /\ w.active \in {v.active, r} /\ w.pending \in {v.pending, r}

\* A window that waits for the user: the call of the run has been answered.
LEMMA PromptFits ==
  ASSUME NEW v, NEW w \in Windows, NEW calls, NEW b \in 0 .. MaxActs, WindowOK(v, calls, made, b),
         NEW c \in calls, Open(c), Waits(v, w, c.run),
         launches \in [Runs -> Nat], wanted \in [Runs -> Nat]
  PROVE  /\ WindowOK(w, calls \ {c}, made, b)
         /\ Even(v, calls, made) => Even(w, calls \ {c}, made)
         /\ \A s \in Runs : w.runs[s].phase =
              IF s = c.run THEN "needs-consent" ELSE v.runs[s].phase
<1> USE DEF Waits
<1> DEFINE r == c.run
<1>1. /\ v \in Windows /\ v.runs \in [Runs -> RunViews] /\ Len(made) \in Nat
      /\ v.pending \in 0 .. Len(made) /\ v.active \in 0 .. Len(made)
      /\ WindowFits(v, calls, made, b) /\ calls \in SUBSET Calls
      /\ \A s \in 1 .. Len(made) : s \in Runs
  BY RunsOf, WindowFields DEF WindowOK
<1>2. r \in 1 .. Len(made) /\ r \in Runs /\ \A d \in calls : d.run = r => d = c
  BY <1>1 DEF WindowFits
<1>3. \A s \in Runs : w.runs[s].phase = IF s = r THEN "needs-consent" ELSE v.runs[s].phase
  BY <1>1, <1>2, PhaseSet DEF RunPhases, Phased
<1>4. ASSUME NEW s \in Runs, s # r, Prompting(w, s) PROVE Prompting(v, s)
  BY <1>3, <1>4 DEF Prompting
<1>5. ASSUME NEW d \in calls \ {c} PROVE d.run \in 1 .. Len(made) /\ ~Prompting(w, d.run)
  <2>1. d.run # r /\ d.run \in 1 .. Len(made) /\ d.run \in Runs /\ ~Prompting(v, d.run)
    BY <1>1, <1>2 DEF WindowFits
  <2> QED BY <1>4, <2>1
<1>6. w.active # 0 => w.runs[w.active].phase \notin Terminal \cup {"none"}
  <2> SUFFICES ASSUME w.active # 0 PROVE w.runs[w.active].phase \notin Terminal \cup {"none"}
    OBVIOUS
  <2>1. w.active \in Runs
    BY <1>1, <1>2
  <2>2. CASE w.active = r
    BY <1>3, <2>1, <2>2 DEF Terminal
  <2>3. CASE w.active # r
    BY <1>1, <1>3, <2>1, <2>3 DEF WindowFits
  <2> QED BY <2>2, <2>3
<1>7. WindowOK(w, calls \ {c}, made, b)
  BY <1>1, <1>2, <1>5, <1>6 DEF WindowOK, WindowFits, Phased
<1>8. LiveRuns(w, calls \ {c}) \subseteq LiveRuns(v, calls) /\ LiveRuns(v, calls) \in SUBSET Runs
  BY <1>2, <1>4 DEF LiveRuns
<1>9. ASSUME Even(v, calls, made) PROVE Even(w, calls \ {c}, made)
  <2>1. v.queue \in Seq(Prompts)
    BY <1>1, WindowFields
  <2> DEFINE L == LiveRuns(v, calls)
             K == LiveRuns(w, calls \ {c})
  <2>2. L \in SUBSET Runs /\ K \in SUBSET L /\ Balance(v.queue, L, made, launches, wanted)
    BY <1>8, <1>9 DEF Even
  <2> HIDE DEF L, K
  <2>3. Balance(v.queue, K, made, launches, wanted)
    BY <2>1, <2>2, BalanceShrinks
  <2> QED BY <2>3 DEF Even, K, Phased
<1> QED BY <1>3, <1>7, <1>9

\* The user opens the repository.
LEMMA EnterStep == TurnInv /\ Enter => TurnInv'
<1> SUFFICES ASSUME WindowPart, ServicePart, EndsPart, Enter PROVE TurnInv'
  BY DEF TurnInv
<1>1. /\ made' = made /\ turns' = turns /\ cancels' = cancels /\ events' = events /\ svc' = svc
      /\ count' = count /\ launches' = launches /\ wanted' = wanted /\ over' = over /\ gaps' = gaps
      /\ status' = status /\ win' = [win EXCEPT !.phase = "binding"]
  BY DEF Enter
<1>2. win' \in Windows /\ win'.queue = win.queue /\ win'.pending = win.pending
      /\ win'.active = win.active /\ win'.runs = win.runs
  BY <1>1, Basics DEF Windows
<1>3. WindowOK(win', turns', made', Asked')
  BY <1>1, <1>2, Basics DEF WindowOK, WindowFits, Prompting, Asked
<1>4. LiveRuns(win', turns) = LiveRuns(win, turns)
  BY <1>2 DEF LiveRuns, Prompting
<1>5. WindowPart'
  BY <1>1, <1>2, <1>3, <1>4, WindowMade, Basics DEF Even
<1>6. ServicePart' /\ EndsPart'
  BY <1>1, <1>2, Basics, ServiceKept, EndsKept DEF Lasts
<1> QED BY <1>5, <1>6 DEF TurnInv

\* The user cancels a run.
LEMMA CancelRunStep == TurnInv /\ (\E r \in Runs : CancelRun(r)) => TurnInv'
<1> SUFFICES ASSUME WindowPart, ServicePart, EndsPart, NEW r \in Runs, CancelRun(r) PROVE TurnInv'
  BY DEF TurnInv
<1>1. /\ made' = made /\ turns' = turns /\ events' = events /\ svc' = svc
      /\ Disturbs /\ launches' = launches /\ wanted' = wanted /\ over' = over /\ gaps' = gaps
      /\ status' = status /\ win.runs[r].phase \in {"running", "needs-consent"}
  BY DEF CancelRun
<1>2. Asked' \in 0 .. MaxActs /\ Asked <= Asked'
  BY <1>1, Counts1
<1>3. ASSUME WindowOK(win', turns, made, Asked), Even(win, turns, made) => Even(win', turns, made),
             Lasts(win, win'), cancels' \in SUBSET Cancels
      PROVE  TurnInv'
  <2>1. WindowOK(win', turns', made', Asked')
    BY <1>1, <1>2, <1>3, Basics, Raised
  <2>2. WindowPart'
    BY <1>1, <1>3, <2>1, WindowMade DEF Even
  <2>3. ServicePart' /\ EndsPart'
    BY <1>1, <1>3, Basics, ServiceKept, EndsKept
  <2> QED BY <2>2, <2>3 DEF TurnInv
<1>4. CASE win.pending = r /\ Lapsed(win)
  <2>1. win' = Released(win) /\ cancels' = cancels /\ win.pending # 0
    BY <1>4 DEF CancelRun, Lapsed
  <2>2. /\ WindowOK(win', turns, made, Asked)
        /\ Even(win, turns, made) => Even(win', turns, made)
        /\ \A s \in Runs : win'.runs[s].phase \in {"failed", win.runs[s].phase}
    BY <2>1, Basics, ReleasedFits
  <2>3. Lasts(win, win')
    BY <2>2, Basics DEF Lasts, Terminal
  <2> QED BY <1>3, <2>1, <2>2, <2>3, Basics
<1>5. CASE ~(win.pending = r /\ Lapsed(win))
  <2> DEFINE f == [win.runs EXCEPT ![r].phase = "canceling"]
             x == [run |-> r, before |-> win.runs[r].phase, pc |-> "sent"]
  <2>1. win' = [win EXCEPT !.runs = f] /\ cancels' = cancels \cup {x}
    BY <1>5 DEF CancelRun
  <2>2. x \in Cancels
    BY <1>1 DEF Cancels
  <2>3. f \in [Runs -> RunViews] /\ "canceling" \in RunPhases
    BY PhaseSet, WindowFields, Basics DEF RunPhases
  <2> HIDE DEF x, f
  <2>4. win' \in Windows /\ win'.queue = win.queue /\ win'.pending = win.pending
        /\ win'.active = win.active /\ win'.runs = f
    BY <2>1, <2>3, Basics DEF Windows
  <2>5. /\ WindowOK(win', turns, made, Asked)
        /\ Even(win, turns, made) => Even(win', turns, made)
        /\ \A s \in Runs : win'.runs[s].phase = IF s = r THEN "canceling" ELSE win.runs[s].phase
    <3>1. WindowOK(win, turns, made, Asked) /\ Asked \in 0 .. MaxActs
          /\ launches \in [Runs -> Nat] /\ wanted \in [Runs -> Nat]
      BY Basics
    <3>2. Phased(win, win', r, "canceling") /\ Held(win, win', r, "canceling")
      BY <2>4, Basics DEF f, Phased, Held, Terminal
    <3> QED BY <2>3, <2>4, <3>1, <3>2, PhasedFits
  <2>6. Lasts(win, win')
    BY <1>1, <2>5, Basics DEF Lasts, Terminal
  <2> QED BY <1>3, <2>1, <2>2, <2>5, <2>6, Basics
<1> QED BY <1>4, <1>5

\* The conversation is cleared.
LEMMA ClearStep == TurnInv /\ ClearConversation => TurnInv'
<1> SUFFICES ASSUME WindowPart, ServicePart, EndsPart, ClearConversation PROVE TurnInv'
  BY DEF TurnInv
<1> DEFINE f == [r \in Runs |-> NoRun]
<1>1. /\ made' = made /\ turns' = turns /\ cancels' = cancels /\ events' = events /\ svc' = svc
      /\ Disturbs /\ launches' = launches /\ wanted' = wanted /\ over' = over
      /\ status' = status /\ win.active = 0 /\ win.pending = 0
      /\ win' = [win EXCEPT !.runs = f, !.queue = << >>, !.failed = 0]
      /\ gaps' = IF status.pc = "answered" /\ status.run # 0 THEN gaps \cup {"revived"} ELSE gaps
  BY DEF ClearConversation, Has, Busy
<1>2. Asked' \in 0 .. MaxActs /\ Asked <= Asked'
  BY <1>1, Counts1
<1>3. f \in [Runs -> RunViews] /\ \A r \in Runs : f[r].phase = "none"
  BY DEF NoRun, RunViews, RunPhases
<1>4. << >> \in Seq(Prompts) /\ Len(<< >>) = 0
  BY EmptySeq
<1> HIDE DEF f
<1>5. win' \in Windows /\ win'.queue = << >> /\ win'.pending = 0
      /\ win'.active = 0 /\ win'.runs = f
  BY <1>1, <1>3, <1>4, Basics DEF Windows
<1>6. \A r : ~Prompting(win', r) \/ r \notin Runs
  BY <1>5, Basics DEF Prompting
<1>7. WindowOK(win', turns, made, Asked)
  <2>1. Len(made) + Len(win.queue) <= Asked /\ Asked \in Nat
    BY Basics, TurnBounds DEF WindowOK, WindowFits
  <2>2. Len(made) + 0 <= Asked
    BY <2>1, Basics
  <2>3. \A c \in turns : c.run \in Runs
    BY Basics DEF Calls
  <2> QED BY <1>4, <1>5, <1>6, <2>2, <2>3, Basics DEF WindowOK, WindowFits
<1>8. WindowOK(win', turns', made', Asked')
  BY <1>1, <1>2, <1>7, Basics, Raised
<1>9. ASSUME Even(win, turns, made) PROVE Balance(win'.queue, LiveRuns(win', turns'), made', launches, wanted)
  <2>1. LiveRuns(win', turns) \in SUBSET LiveRuns(win, turns) /\ LiveRuns(win, turns) \in SUBSET Runs
    BY <1>6 DEF LiveRuns
  <2> SUFFICES ASSUME NEW m \in Runs
               PROVE  launches[m] + Cardinality(Staged(<< >>, m))
                        + Cardinality(Carriers(LiveRuns(win', turns), made, m)) <= wanted[m]
    BY <1>1, <1>5 DEF Balance
  <2>2. Balance(win.queue, LiveRuns(win', turns), made, launches, wanted)
    BY <1>9, <2>1, Basics, BalanceShrinks DEF Even
  <2>3. launches[m] + Cardinality(Staged(win.queue, m))
          + Cardinality(Carriers(LiveRuns(win', turns), made, m)) <= wanted[m]
    BY <2>2 DEF Balance
  <2>4. Staged(<< >>, m) = {}
    BY DEF Staged
  <2>5. Cardinality(Staged(<< >>, m)) = 0
    BY <2>4, FS_EmptySet
  <2>6. LiveRuns(win', turns) \in SUBSET Runs
    BY <2>1
  <2>7. Cardinality(Staged(win.queue, m)) \in Nat
        /\ Cardinality(Carriers(LiveRuns(win', turns), made, m)) \in Nat
    BY <2>6, Basics, Counted
  <2>8. launches[m] \in Nat /\ wanted[m] \in Nat
    BY Basics
  <2>9. \A i, j, k, n \in Nat : i + j + k <= n => i + 0 + k <= n
    OBVIOUS
  <2> QED BY <2>3, <2>5, <2>7, <2>8, <2>9
<1>10. WindowPart'
  BY <1>1, <1>8, <1>9, Basics, WindowMade
<1>11. ServicePart'
  BY <1>1, Basics, ServiceKept
<1>12. EndsPart'
  <2>1. CASE "revived" \in gaps'
    BY <2>1 DEF EndsPart
  <2>2. CASE "revived" \notin gaps'
    <3>1. status.run = 0
      BY <1>1, <2>2 DEF ServicePart, StatusFits
    <3>2. \A r \in over : r \in Runs /\ r # 0
      BY Basics DEF ServicePart
    <3> QED BY <1>1, <1>3, <1>5, <3>1, <3>2 DEF EndsPart, Settled
  <2> QED BY <2>1, <2>2
<1> QED BY <1>10, <1>11, <1>12 DEF TurnInv

-----------------------------------------------------------------------------
\* Answers that arrive in the window.

\* The answer of a turn arrives in the window.
LEMMA TurnReturnsStep == TurnInv /\ (\E c \in turns : TurnReturns(c)) => TurnInv'
<1> SUFFICES ASSUME WindowPart, ServicePart, EndsPart, NEW c \in turns, TurnReturns(c) PROVE TurnInv'
  BY DEF TurnInv
<1> DEFINE r == c.run
           others == turns \ {c}
<1>1. /\ made' = made /\ cancels' = cancels /\ events' = events /\ svc' = svc
      /\ count' = count /\ launches' = launches /\ wanted' = wanted /\ over' = over /\ gaps' = gaps
      /\ status' = status /\ turns' = others /\ c.pc # "sent" /\ Asked' = Asked
  BY DEF TurnReturns, Asked
<1>2. /\ WindowOK(win, turns, made, Asked) /\ Asked \in 0 .. MaxActs /\ win \in Windows
      /\ launches \in [Runs -> Nat] /\ wanted \in [Runs -> Nat] /\ turns \in SUBSET Calls
      /\ win.runs \in [Runs -> RunViews]
  BY Basics, WindowFields
<1>3. r \in Runs /\ r \in 1 .. Len(made) /\ r \in MessageIds /\ made[r].message \in MessageIds
  <2>1. r \in 1 .. Len(made)
    BY <1>2 DEF WindowOK, WindowFits
  <2> QED BY <2>1, Basics
<1>4. /\ WindowOK(win, others, made, Asked)
      /\ Even(win, turns, made) => Even(win, others, made)
  <2>1. \A d \in others : \E e \in turns : e.run = d.run /\ (Open(d) => Open(e))
    OBVIOUS
  <2>2. others \in SUBSET Calls /\ \A d, e \in others : d.run = e.run => d = e
    BY <1>2 DEF WindowOK, WindowFits
  <2> HIDE DEF others
  <2> QED BY <1>2, <2>1, <2>2, CallsFit
<1>5. ASSUME WindowOK(win', others, made, Asked),
             Even(win, turns, made) => Even(win', others, made), Lasts(win, win')
      PROVE  TurnInv'
  <2>1. WindowOK(win', turns', made', Asked')
    BY <1>1, <1>5
  <2>2. WindowPart'
    BY <1>1, <1>5, <2>1, Basics, WindowMade DEF Even
  <2>3. ServicePart' /\ EndsPart'
    BY <1>1, <1>5, Basics, ServiceKept, EndsKept
  <2> QED BY <2>2, <2>3 DEF TurnInv
<1>6. CASE win.runs[r].phase # "admitting"
  <2>1. win' = win
    BY <1>6 DEF TurnReturns
  <2>2. Lasts(win, win')
    BY <2>1 DEF Lasts
  <2> QED BY <1>4, <1>5, <2>1, <2>2
<1>7. ASSUME win.runs[r].phase = "admitting", NEW p \in RunPhases,
             \A s \in Runs : win'.runs[s].phase = IF s = r THEN p ELSE win.runs[s].phase
      PROVE  Lasts(win, win')
  BY <1>7, Basics DEF Lasts, Terminal
<1>8. ASSUME win.runs[r].phase = "admitting", NEW p \in RunPhases, win' \in Windows,
             Phased(win, win', r, p), Held(win, win', r, p)
      PROVE  TurnInv'
  <2>1. /\ WindowOK(win', others, made, Asked)
        /\ Even(win, others, made) => Even(win', others, made)
        /\ \A s \in Runs : win'.runs[s].phase = IF s = r THEN p ELSE win.runs[s].phase
    <3> HIDE DEF others
    <3> QED BY <1>2, <1>3, <1>4, <1>8, PhasedFits
  <2>2. Lasts(win, win')
    BY <1>7, <1>8, <2>1
  <2> QED BY <1>4, <1>5, <2>1, <2>2
<1>9. ASSUME win.runs[r].phase = "admitting", win' \in Windows, Open(c), Waits(win, win', r)
      PROVE  TurnInv'
  <2>1. /\ WindowOK(win', others, made, Asked)
        /\ Even(win, turns, made) => Even(win', others, made)
        /\ \A s \in Runs : win'.runs[s].phase = IF s = r THEN "needs-consent" ELSE win.runs[s].phase
    <3>1. Waits(win, win', c.run) /\ win' \in Windows /\ Open(c)
      BY <1>9
    <3>2. WindowOK(win, turns, made, Asked) /\ Asked \in 0 .. MaxActs
          /\ launches \in [Runs -> Nat] /\ wanted \in [Runs -> Nat]
      BY <1>2
    <3>3. /\ WindowOK(win', turns \ {c}, made, Asked)
          /\ Even(win, turns, made) => Even(win', turns \ {c}, made)
          /\ \A s \in Runs : win'.runs[s].phase =
               IF s = c.run THEN "needs-consent" ELSE win.runs[s].phase
      <4> HIDE DEF r, others
      <4> QED BY <3>1, <3>2, PromptFits
    <3> QED BY <3>3
  <2>2. Lasts(win, win')
    BY <1>7, <1>9, <2>1 DEF RunPhases
  <2> QED BY <1>5, <2>1, <2>2
<1>10. {"running", "needs-consent", "failed"} \subseteq RunPhases
  BY DEF RunPhases, Terminal
<1>11. CASE win.runs[r].phase = "admitting" /\ c.pc = "accepted"
  <2> DEFINE f == [win.runs EXCEPT ![r].phase = "running"]
             a == IF win.active = 0 THEN r ELSE win.active
             q == IF win.pending = r THEN 0 ELSE win.pending
  <2>1. win' = [win EXCEPT !.runs = f, !.active = a, !.pending = q]
    BY <1>11 DEF TurnReturns
  <2>2. f \in [Runs -> RunViews] /\ a \in MessageIds /\ q \in MessageIds
    BY <1>2, <1>3, <1>10, PhaseSet, WindowFields, Basics
  <2>3. a \in {r, win.active} /\ q \in {0, win.pending} /\ q # r /\ a \in 0 .. Len(made)
    BY <1>3, Basics
  <2> HIDE DEF f, a, q
  <2>4. win' \in Windows /\ win'.queue = win.queue /\ win'.runs = f
        /\ win'.active = a /\ win'.pending = q
    BY <1>2, <2>1, <2>2 DEF Windows
  <2>5. Phased(win, win', r, "running") /\ Held(win, win', r, "running")
    BY <2>3, <2>4 DEF Phased, Held, f, Terminal
  <2> QED BY <1>8, <1>10, <1>11, <2>4, <2>5
<1>12. CASE /\ win.runs[r].phase = "admitting" /\ c.pc = "needs-consent"
            /\ made[r].epoch >= win.floor /\ win.runs[r].own
  <2> DEFINE f == [win.runs EXCEPT ![r].phase = "needs-consent"]
  <2>1. win' = [win EXCEPT !.runs = f, !.active = r, !.pending = r]
    BY <1>12 DEF TurnReturns
  <2>2. f \in [Runs -> RunViews]
    BY <1>2, <1>3, <1>10, PhaseSet
  <2> HIDE DEF f
  <2>3. win' \in Windows /\ win'.queue = win.queue /\ win'.runs = f
        /\ win'.active = r /\ win'.pending = r
    BY <1>2, <1>3, <2>1, <2>2 DEF Windows
  <2>4. Waits(win, win', r) /\ Open(c)
    BY <1>12, <2>3 DEF Waits, Phased, f, Open
  <2> QED BY <1>9, <1>12, <2>3, <2>4
<1>13. CASE win.runs[r].phase = "admitting" /\ c.pc = "rejected" /\ c.consent
  <2> DEFINE f == [win.runs EXCEPT ![r].phase = "needs-consent"]
  <2>1. win' = [win EXCEPT !.runs = f]
    BY <1>13 DEF TurnReturns
  <2>2. f \in [Runs -> RunViews]
    BY <1>2, <1>3, <1>10, PhaseSet
  <2> HIDE DEF f
  <2>3. win' \in Windows /\ win'.queue = win.queue /\ win'.runs = f
        /\ win'.active = win.active /\ win'.pending = win.pending
    BY <1>2, <2>1, <2>2 DEF Windows
  <2>4. Waits(win, win', r) /\ Open(c)
    BY <1>13, <2>3 DEF Waits, Phased, f, Open
  <2> QED BY <1>9, <1>13, <2>3, <2>4
<1>14. CASE /\ win.runs[r].phase = "admitting" /\ c.pc # "accepted"
            /\ ~(c.pc = "needs-consent" /\ made[r].epoch >= win.floor /\ win.runs[r].own)
            /\ ~(c.pc = "rejected" /\ c.consent)
  <2> DEFINE f == [win.runs EXCEPT ![r].phase = "failed"]
             a == Free(win, r)
             m == IF win.runs[r].own THEN made[r].message ELSE win.failed
  <2>1. win' = [win EXCEPT !.runs = f, !.active = a, !.failed = m]
    BY <1>14 DEF TurnReturns
  <2>2. f \in [Runs -> RunViews] /\ a \in MessageIds /\ m \in MessageIds
    BY <1>2, <1>3, <1>10, PhaseSet, WindowFields, Basics DEF Free
  <2>3. a \in {0, win.active} /\ a # r /\ a \in 0 .. Len(made)
    BY <1>3, Basics DEF Free
  <2> HIDE DEF f, a, m
  <2>4. win' \in Windows /\ win'.queue = win.queue /\ win'.runs = f
        /\ win'.active = a /\ win'.pending = win.pending
    BY <1>2, <2>1, <2>2 DEF Windows
  <2>5. Phased(win, win', r, "failed") /\ Held(win, win', r, "failed")
    BY <2>3, <2>4 DEF Phased, Held, f
  <2> QED BY <1>8, <1>10, <1>14, <2>4, <2>5
<1> QED BY <1>6, <1>11, <1>12, <1>13, <1>14

\* The answer of a cancel arrives in the window.
LEMMA CancelReturnsStep == TurnInv /\ (\E c \in cancels : CancelReturns(c)) => TurnInv'
<1> SUFFICES ASSUME WindowPart, ServicePart, EndsPart, NEW c \in cancels, CancelReturns(c) PROVE TurnInv'
  BY DEF TurnInv
<1> DEFINE r == c.run
<1>1. /\ made' = made /\ turns' = turns /\ events' = events /\ svc' = svc
      /\ count' = count /\ launches' = launches /\ wanted' = wanted /\ over' = over /\ gaps' = gaps
      /\ status' = status /\ cancels' = cancels \ {c} /\ Asked' = Asked
  BY DEF CancelReturns, Asked
<1>2. /\ WindowOK(win, turns, made, Asked) /\ Asked \in 0 .. MaxActs /\ win \in Windows
      /\ launches \in [Runs -> Nat] /\ wanted \in [Runs -> Nat]
      /\ win.runs \in [Runs -> RunViews] /\ cancels \in SUBSET Cancels
  BY Basics, WindowFields
<1>3. r \in Runs /\ r # 0 /\ c.before \in {"running", "needs-consent"}
  BY <1>2, Basics DEF Cancels
<1>4. ASSUME WindowOK(win', turns, made, Asked),
             Even(win, turns, made) => Even(win', turns, made), Lasts(win, win')
      PROVE  TurnInv'
  <2>1. WindowOK(win', turns', made', Asked')
    BY <1>1, <1>4
  <2>2. WindowPart'
    BY <1>1, <1>2, <1>4, <2>1, Basics, WindowMade DEF Even
  <2>3. ServicePart' /\ EndsPart'
    BY <1>1, <1>4, Basics, ServiceKept, EndsKept
  <2> QED BY <2>2, <2>3 DEF TurnInv
<1>5. CASE win' = win
  BY <1>2, <1>4, <1>5 DEF Lasts
<1>6. CASE win.runs[r].phase = "canceling" /\ win.pending = r /\ win' = Released(win)
  <2>1. /\ WindowOK(win', turns, made, Asked)
        /\ Even(win, turns, made) => Even(win', turns, made)
        /\ \A s \in Runs : win'.runs[s].phase \in {"failed", win.runs[s].phase}
    BY <1>2, <1>3, <1>6, ReleasedFits
  <2>2. Lasts(win, win')
    BY <2>1, Basics DEF Lasts, Terminal
  <2> QED BY <1>4, <2>1, <2>2
<1>7. CASE win.runs[r].phase = "canceling" /\ win.pending # r
           /\ win' = [win EXCEPT !.runs[r].phase = c.before]
  <2> DEFINE f == [win.runs EXCEPT ![r].phase = c.before]
  <2>1. win' = [win EXCEPT !.runs = f]
    BY <1>7
  <2>2. f \in [Runs -> RunViews] /\ c.before \in RunPhases
    <3>1. c.before \in RunPhases
      BY <1>3 DEF RunPhases
    <3> QED BY <1>2, <3>1, PhaseSet
  <2> HIDE DEF f
  <2>3. win' \in Windows /\ win'.queue = win.queue /\ win'.runs = f
        /\ win'.active = win.active /\ win'.pending = win.pending
    BY <1>2, <2>1, <2>2 DEF Windows
  <2>4. Phased(win, win', r, c.before) /\ Held(win, win', r, c.before)
    BY <1>3, <1>7, <2>3, Basics DEF Phased, Held, f, Terminal
  <2>5. /\ WindowOK(win', turns, made, Asked)
        /\ Even(win, turns, made) => Even(win', turns, made)
        /\ \A s \in Runs : win'.runs[s].phase = IF s = r THEN c.before ELSE win.runs[s].phase
    BY <1>2, <1>3, <2>2, <2>3, <2>4, PhasedFits
  <2>6. Lasts(win, win')
    BY <1>7, <2>5, Basics DEF Lasts, Terminal
  <2> QED BY <1>4, <2>5, <2>6
<1> QED BY <1>5, <1>6, <1>7 DEF CancelReturns

\* The user allows the pending run.
LEMMA AllowStep == TurnInv /\ AllowAndSend => TurnInv'
<1> SUFFICES ASSUME WindowPart, ServicePart, EndsPart, AllowAndSend PROVE TurnInv'
  BY DEF TurnInv
<1> DEFINE r == win.pending
<1>1. /\ made' = made /\ cancels' = cancels /\ events' = events /\ svc' = svc
      /\ count' = count /\ launches' = launches /\ wanted' = wanted /\ over' = over /\ gaps' = gaps
      /\ status' = status /\ Asked' = Asked /\ r # 0
  BY DEF AllowAndSend, Stays, Asked
<1>2. /\ WindowOK(win, turns, made, Asked) /\ Asked \in 0 .. MaxActs /\ win \in Windows
      /\ launches \in [Runs -> Nat] /\ wanted \in [Runs -> Nat]
      /\ win.runs \in [Runs -> RunViews] /\ turns \in SUBSET Calls /\ WindowFits(win, turns, made, Asked)
      /\ Len(made) \in Nat /\ win.queue \in Seq(Prompts)
  BY Basics, WindowFields DEF WindowOK
<1>3. r \in Runs /\ r \in 1 .. Len(made)
  BY <1>1, Basics
<1>4. CASE Lapsed(win)
  <2>1. win' = Released(win) /\ turns' = turns
    BY <1>4 DEF AllowAndSend, Stays
  <2>2. /\ WindowOK(win', turns, made, Asked)
        /\ Even(win, turns, made) => Even(win', turns, made)
        /\ \A s \in Runs : win'.runs[s].phase \in {"failed", win.runs[s].phase}
    BY <1>1, <1>2, <2>1, ReleasedFits
  <2>3. Lasts(win, win')
    BY <2>2, Basics DEF Lasts, Terminal
  <2>4. WindowPart'
    BY <1>1, <1>2, <2>1, <2>2, Basics, WindowMade DEF Even
  <2>5. ServicePart' /\ EndsPart'
    BY <1>1, <2>1, <2>3, Basics, ServiceKept, EndsKept
  <2> QED BY <2>4, <2>5 DEF TurnInv
<1>5. CASE ~Lapsed(win)
  <2> DEFINE f == [win.runs EXCEPT ![r].phase = "admitting"]
             x == [run |-> r, consent |-> TRUE, pc |-> "sent"]
  <2>1. win' = [win EXCEPT !.runs = f] /\ turns' = turns \cup {x}
        /\ win.runs[r].phase = "needs-consent"
    BY <1>5 DEF AllowAndSend, Stays
  <2>2. f \in [Runs -> RunViews]
        /\ \A s \in Runs : f[s].phase = IF s = r THEN "admitting" ELSE win.runs[s].phase
    <3>1. "admitting" \in RunPhases
      BY DEF RunPhases
    <3>2. win.runs \in [Runs -> RunViews] /\ r \in Runs
      BY <1>2, <1>3
    <3> HIDE DEF r
    <3> QED BY <3>1, <3>2, PhaseSet DEF f
  <2>3. x \in Calls /\ x.run = r /\ x.consent
    BY <1>3 DEF Calls
  <2> HIDE DEF f, x
  <2>4. win' \in Windows /\ win'.queue = win.queue /\ win'.runs = f
        /\ win'.active = win.active /\ win'.pending = r
    BY <1>2, <2>1, <2>2 DEF Windows
  <2>5. Prompting(win, r)
    BY <2>1 DEF Prompting
  <2>6. \A s \in Runs : ~Prompting(win', s)
    BY <2>2, <2>4 DEF Prompting
  <2>7. \A c \in turns : c.run # r /\ c.run \in 1 .. Len(made)
    BY <1>2, <2>5 DEF WindowFits
  <2>8. /\ \A c \in turns' : c.run \in 1 .. Len(made) /\ ~Prompting(win', c.run)
        /\ \A c, d \in turns' : c.run = d.run => c = d
    <3>1. \A c \in turns' : c.run \in 1 .. Len(made) /\ c.run \in Runs
      BY <1>3, <2>1, <2>3, <2>7, Basics
    <3>2. \A c, d \in turns : c.run = d.run => c = d
      BY <1>2 DEF WindowFits
    <3>3. \A c, d \in turns' : c.run = d.run => c = d
      BY <2>1, <2>3, <2>7, <3>2
    <3> QED BY <2>6, <3>1, <3>3
  <2>9. win'.active # 0 => win'.runs[win'.active].phase \notin Terminal \cup {"none"}
    <3> SUFFICES ASSUME win.active # 0 PROVE f[win.active].phase \notin Terminal \cup {"none"}
      BY <2>4
    <3>1. win.active \in Runs
      BY Basics
    <3>2. CASE win.active = r
      BY <2>2, <3>1, <3>2 DEF Terminal
    <3>3. CASE win.active # r
      BY <1>2, <2>2, <3>1, <3>3 DEF WindowFits
    <3> QED BY <3>2, <3>3
  <2>10. turns' \in SUBSET Calls
    BY <1>2, <2>1, <2>3
  <2>11. WindowOK(win', turns', made', Asked')
    BY <1>1, <1>2, <2>4, <2>8, <2>9, <2>10, Basics DEF WindowOK, WindowFits
  <2>12. LiveRuns(win', turns') \in SUBSET LiveRuns(win, turns) /\ LiveRuns(win, turns) \in SUBSET Runs
    BY <1>3, <2>1, <2>3, <2>5, <2>6 DEF LiveRuns
  <2>13. ASSUME Even(win, turns, made)
         PROVE  Balance(win'.queue, LiveRuns(win', turns'), made', launches, wanted)
    <3> DEFINE L == LiveRuns(win, turns)
               K == LiveRuns(win', turns')
    <3>1. Balance(win.queue, L, made, launches, wanted)
      BY <2>13 DEF Even
    <3> HIDE DEF L, K
    <3>2. Balance(win.queue, K, made, launches, wanted)
      BY <1>2, <2>12, <3>1, BalanceShrinks DEF L, K
    <3> QED BY <1>1, <2>4, <3>2 DEF K
  <2>14. Lasts(win, win')
    BY <2>1, <2>2, <2>4, Basics DEF Lasts, Terminal
  <2>15. WindowPart'
    BY <1>1, <2>11, <2>13, Basics, WindowMade
  <2>16. ServicePart' /\ EndsPart'
    <3>1. \A d \in turns' : d \in turns \/ d.consent
      BY <2>1, <2>3
    <3> QED BY <1>1, <2>14, <3>1, Basics, ServiceKept, EndsKept
  <2> QED BY <2>15, <2>16 DEF TurnInv
<1> QED BY <1>4, <1>5

-----------------------------------------------------------------------------
\* The user submits or retries a message.

(* The messages of the runs, of the queue and of the last failure. *)
InPlay(v, mk) ==
  {mk[r].message : r \in 1 .. Len(mk)} \cup {v.queue[i].message : i \in 1 .. Len(v.queue)}
    \cup ({v.failed} \ {0})

(* All of them have been submitted. *)
Submitted == \A m \in InPlay(win, made) : m <= count.messages

(* The message m is asked for once more. *)
AsksFor(m) ==
  /\ count' \in Counts /\ Asked' = Asked + 1 /\ Asked' <= MaxActs
  /\ wanted' \in [Runs -> Nat]
  /\ \A k \in Runs : k > count'.messages => wanted'[k] = 0
  /\ \A k \in Runs : wanted'[k] = IF k = m THEN wanted[k] + 1 ELSE wanted[k]
  /\ launches' = launches /\ cancels' = cancels /\ svc' = svc /\ events' = events
  /\ over' = over /\ gaps' = gaps /\ status' = status

(* The window v, which asks for no more than the window. *)
Before(v) ==
  /\ WindowOK(v, turns, made, Asked) /\ (Even(win, turns, made) => Even(v, turns, made))
  /\ Lasts(win, v)

\* The next bound on the messages and what disturbs them.
LEMMA AskedMore ==
  ASSUME WindowPart, NEW m, AsksFor(m)
  PROVE  Asked' \in 0 .. MaxActs /\ Asked \in 0 .. MaxActs /\ Asked <= Asked' /\ Asked \in Nat
<1>1. Asked \in 0 .. MaxActs /\ Asked \in Nat
  BY Basics
<1>2. Asked' = Asked + 1 /\ Asked' <= MaxActs
  BY DEF AsksFor
<1> QED BY <1>1, <1>2, TurnBounds

\* A message that is asked for and starts at once.
LEMMA AskedStarts ==
  ASSUME TurnInv, NEW v, NEW m \in Runs, Before(v), AsksFor(m), Starts(v, m, turns)
  PROVE  TurnInv'
<1> DEFINE r == Len(made) + 1
           x == [message |-> m, epoch |-> v.epoch]
<1>0. WindowPart /\ ServicePart /\ EndsPart
  BY DEF TurnInv
<1>1. Asked' \in 0 .. MaxActs /\ Asked \in 0 .. MaxActs /\ Asked' = Asked + 1 /\ Asked \in Nat
  BY <1>0, AskedMore DEF AsksFor
<1>2. WindowOK(v, turns, made, Asked)
  BY DEF Before
<1>3. /\ v.queue \in Seq(Prompts) /\ Len(v.queue) \in Nat /\ Len(made) \in Nat /\ made \in Seq(Made)
      /\ Len(made) + Len(v.queue) <= Asked /\ \A s \in 1 .. Len(made) : s \in Runs
      /\ v.pending \in 0 .. Len(made) /\ 0 \notin Runs
  BY <1>1, <1>2, RunsOf
<1>4. Len(made) + 1 + Len(v.queue) <= Asked'
  <2>1. \A i, j, k \in Nat : i + j <= k => i + 1 + j <= k + 1
    OBVIOUS
  <2> QED BY <1>1, <1>3, <2>1
<1>5. /\ WindowOK(win', turns', made', Asked') /\ win'.queue = v.queue
      /\ LiveRuns(win', turns') \subseteq LiveRuns(v, turns) \cup {r}
      /\ made' = Append(made, x) /\ x \in Made /\ r \in Runs
      /\ \A s \in 1 .. Len(made) : win'.runs[s] = v.runs[s]
      /\ \A c \in turns' : c \in turns \/ (c.run = r /\ c.pc = "sent" /\ ~c.consent)
  BY <1>1, <1>2, <1>4, StartedFits
<1>6. x.message = m
  OBVIOUS
<1> HIDE DEF x
<1>7. Len(made') \in Nat /\ Len(made) <= Len(made')
  BY <1>3, <1>5, AppendProperties
<1>8. ASSUME Even(win, turns, made)
      PROVE  Balance(win'.queue, LiveRuns(win', turns'), made', launches', wanted')
  <2> DEFINE L == LiveRuns(v, turns)
             K == LiveRuns(win', turns')
  <2>1. Balance(v.queue, L, made, launches, wanted)
    BY <1>8 DEF Before, Even
  <2>2. L \in SUBSET Runs /\ L \subseteq 1 .. Len(made)
    BY <1>2, <1>3 DEF LiveRuns, WindowOK, WindowFits, Prompting
  <2>3. launches \in [Runs -> Nat] /\ wanted \in [Runs -> Nat] /\ wanted' \in [Runs -> Nat]
        /\ launches' = launches
    BY <1>0, Basics DEF AsksFor
  <2>4. \A k \in Runs : wanted'[k] = IF k = x.message THEN wanted[k] + 1 ELSE wanted[k]
    BY <1>6 DEF AsksFor
  <2>5. K \in SUBSET (L \cup {r}) /\ L \cup {r} \in SUBSET Runs
    BY <1>5, <2>2
  <2> HIDE DEF L, K
  <2>6. Balance(v.queue, L \cup {r}, Append(made, x), launches, wanted')
    BY <1>3, <1>5, <2>1, <2>2, <2>3, <2>4, BalanceAsks
  <2>7. Balance(v.queue, K, Append(made, x), launches, wanted')
    BY <1>3, <2>3, <2>5, <2>6, BalanceShrinks
  <2> QED BY <1>5, <2>3, <2>7 DEF K
<1>9. WindowPart'
  <2>1. "shelved" \in gaps' \/ Even(win, turns, made)'
    BY <1>0, <1>8 DEF Even, WindowPart, AsksFor, LiveRuns, Prompting
  <2>2. cancels' \in SUBSET Cancels /\ launches' \in [Runs -> Nat]
    BY <1>0, Basics DEF AsksFor
  <2> QED BY <1>5, <2>1, <2>2 DEF WindowPart, AsksFor
<1>10. Lasts(win, win')
  BY <1>3, <1>5 DEF Lasts, Before
<1>11. ServicePart' /\ EndsPart'
  BY <1>0, <1>3, <1>5, <1>7, <1>10, ServiceKept, EndsKept DEF AsksFor
<1> QED BY <1>9, <1>11 DEF TurnInv

\* A message that is asked for and has to wait.
LEMMA AskedWaits ==
  ASSUME TurnInv, NEW v, NEW m \in Runs, Before(v), AsksFor(m), NEW e \in Prompts, e.message = m,
         Stays([v EXCEPT !.queue = Append(@, e)], turns)
  PROVE  TurnInv'
<1> DEFINE w == [v EXCEPT !.queue = Append(v.queue, e)]
           x == [message |-> m, epoch |-> 0]
<1>0. WindowPart /\ ServicePart /\ EndsPart
  BY DEF TurnInv
<1>1. Asked' \in 0 .. MaxActs /\ Asked \in 0 .. MaxActs /\ Asked' = Asked + 1 /\ Asked \in Nat
  BY <1>0, AskedMore DEF AsksFor
<1>2. WindowOK(v, turns, made, Asked)
  BY DEF Before
<1>3. /\ v \in Windows /\ v.queue \in Seq(Prompts) /\ Len(v.queue) \in Nat /\ Len(made) \in Nat
      /\ made \in Seq(Made) /\ Len(made) + Len(v.queue) <= Asked
      /\ \A s \in 1 .. Len(made) : s \in Runs
      /\ v.pending \in 0 .. Len(made) /\ 0 \notin Runs
  BY <1>1, <1>2, RunsOf
<1>4. Append(v.queue, e) \in Seq(Prompts) /\ Len(Append(v.queue, e)) = Len(v.queue) + 1
  BY <1>3, AppendProperties
<1>5. win' = w /\ turns' = turns /\ made' = made
  BY DEF Stays
<1>6. /\ win' \in Windows /\ win'.queue = Append(v.queue, e) /\ win'.pending = v.pending
      /\ win'.active = v.active /\ win'.runs = v.runs
  BY <1>3, <1>4, <1>5 DEF Windows
<1> HIDE DEF w
<1>7. Len(made) + Len(win'.queue) <= Asked'
  BY <1>1, <1>3, <1>4, <1>6
<1>8. WindowOK(win', turns', made', Asked')
  BY <1>2, <1>5, <1>6, <1>7 DEF WindowOK, WindowFits, Prompting
<1>9. LiveRuns(win', turns) = LiveRuns(v, turns)
  BY <1>6 DEF LiveRuns, Prompting
<1>10. ASSUME Even(win, turns, made)
       PROVE  Balance(win'.queue, LiveRuns(win', turns'), made', launches', wanted')
  <2> DEFINE L == LiveRuns(v, turns)
  <2>1. Balance(v.queue, L, made, launches, wanted)
    BY <1>10 DEF Before, Even
  <2>2. L \in SUBSET Runs /\ L \subseteq 1 .. Len(made)
    BY <1>2, <1>3 DEF LiveRuns, WindowOK, WindowFits, Prompting
  <2>3. launches \in [Runs -> Nat] /\ wanted \in [Runs -> Nat] /\ wanted' \in [Runs -> Nat]
        /\ launches' = launches
    BY <1>0, Basics DEF AsksFor
  <2>4. x \in Made /\ x.message = m
    BY DEF Made
  <2>5. \A k \in Runs : wanted'[k] = IF k = x.message THEN wanted[k] + 1 ELSE wanted[k]
    BY <2>4 DEF AsksFor
  <2>6. Len(made) + 1 \in Runs
    <3>1. \A i, j, k, n \in Nat : i + j <= k /\ k + 1 <= n => i + 1 \in 1 .. n
      OBVIOUS
    <3>2. Asked + 1 <= MaxActs /\ MaxActs \in Nat
      BY <1>1, TurnBounds
    <3> QED BY <1>1, <1>3, <3>1, <3>2 DEF Runs
  <2> HIDE DEF L, x
  <2>7. Balance(Append(v.queue, e), L, made, launches, wanted')
    BY <1>3, <2>1, <2>2, <2>3, <2>4, <2>5, <2>6, BalanceAsks
  <2> QED BY <1>5, <1>6, <1>9, <2>3, <2>7 DEF L
<1>11. WindowPart'
  <2>1. "shelved" \in gaps' \/ Even(win, turns, made)'
    BY <1>0, <1>10 DEF Even, WindowPart, AsksFor, LiveRuns, Prompting
  <2>2. cancels' \in SUBSET Cancels /\ launches' \in [Runs -> Nat]
    BY <1>0, Basics DEF AsksFor
  <2> QED BY <1>8, <2>1, <2>2 DEF WindowPart, AsksFor
<1>12. Lasts(win, win')
  BY <1>6 DEF Lasts, Before
<1>13. ServicePart' /\ EndsPart'
  BY <1>0, <1>3, <1>5, <1>12, ServiceKept, EndsKept DEF AsksFor
<1> QED BY <1>11, <1>13 DEF TurnInv

\* The window after its expired consent.
LEMMA FreshBefore ==
  ASSUME WindowPart
  PROVE  Before(Fresh(win)) /\ Fresh(win) \in Windows
<1>1. /\ WindowOK(Fresh(win), turns, made, Asked)
      /\ Even(win, turns, made) => Even(Fresh(win), turns, made)
      /\ \A r \in Runs : Fresh(win).runs[r].phase \in {"failed", win.runs[r].phase}
  BY Basics, FreshFits
<1>2. Lasts(win, Fresh(win))
  BY <1>1, Basics DEF Lasts, Terminal
<1> QED BY <1>1, <1>2 DEF Before, WindowOK

\* The user submits a message.
LEMMA SubmitStep == TurnInv /\ Submit => TurnInv'
<1> SUFFICES ASSUME TurnInv, Submit PROVE TurnInv'
  OBVIOUS
<1> DEFINE v == Fresh(win)
           m == count.messages + 1
           e == [message |-> m, state |-> "queued"]
<1>1. WindowPart /\ Before(v)
  BY FreshBefore DEF TurnInv
<1>2. count.messages \in Nat /\ count.others \in Nat /\ Asked < MaxActs
      /\ count' = [count EXCEPT !["messages"] = @ + 1]
  BY <1>1 DEF WindowPart, Counts, Submit, Acts, Asked
<1>3. count' \in Counts /\ count'.messages = m /\ count'.others = count.others
  BY <1>1, <1>2 DEF WindowPart, Counts
<1>4. m \in Runs /\ m \in Nat
  BY <1>2, TurnBounds DEF Runs, Asked
<1>5. Asked' = Asked + 1 /\ Asked' <= MaxActs
  BY <1>2, <1>3, TurnBounds DEF Asked
<1>6. wanted \in [Runs -> Nat] /\ wanted[m] = 0 /\ wanted' = [wanted EXCEPT ![m] = 1]
      /\ \A k \in Runs : k > count.messages => wanted[k] = 0
  BY <1>1, <1>2, <1>4 DEF WindowPart, Submit
<1>7. AsksFor(m)
  <2>1. wanted' \in [Runs -> Nat] /\ \A k \in Runs : wanted'[k] = IF k = m THEN wanted[k] + 1 ELSE wanted[k]
    BY <1>4, <1>6
  <2>2. \A k \in Runs : k \in Nat
    BY TurnBounds DEF Runs
  <2>3. \A k \in Runs : k > count'.messages => wanted'[k] = 0
    <3> SUFFICES ASSUME NEW k \in Runs, k > m PROVE wanted'[k] = 0
      BY <1>3
    <3>1. k > count.messages /\ k # m
      BY <1>2, <1>4, <2>2
    <3> QED BY <1>6, <3>1
  <2> QED BY <1>3, <1>5, <2>1, <2>3 DEF AsksFor, Submit
<1>8. e \in Prompts /\ e.message = m
  BY <1>4 DEF Prompts
<1>9. IF Busy(v) THEN Stays([v EXCEPT !.queue = Append(@, e)], turns) ELSE Starts(v, m, turns)
  BY DEF Submit
<1> HIDE DEF v, m, e
<1>10. CASE Busy(v)
  BY <1>1, <1>4, <1>7, <1>8, <1>9, <1>10, AskedWaits
<1>11. CASE ~Busy(v)
  BY <1>1, <1>4, <1>7, <1>9, <1>11, AskedStarts
<1> QED BY <1>10, <1>11

\* The user retries the message that failed.
LEMMA RetryStep == TurnInv /\ Submitted /\ RetryLastFailed => TurnInv'
<1> SUFFICES ASSUME TurnInv, Submitted, RetryLastFailed PROVE TurnInv'
  OBVIOUS
<1> DEFINE v == Fresh(win)
           w == [v EXCEPT !.failed = 0]
           m == v.failed
<1>1. WindowPart /\ Before(v) /\ v \in Windows
  BY FreshBefore DEF TurnInv
<1>2. Disturbs /\ m # 0 /\ Starts(w, m, turns) /\ wanted' = [wanted EXCEPT ![m] = @ + 1]
  BY DEF RetryLastFailed
<1>3. m \in MessageIds
  BY <1>1, WindowFields
<1>4. m \in Runs
  BY <1>2, <1>3, TurnBounds DEF MessageIds, Runs
<1>5. count' \in Counts /\ count'.messages = count.messages /\ Asked' = Asked + 1 /\ Asked' <= MaxActs
  <2>1. count.messages \in Nat /\ count.others \in Nat /\ count \in Counts
    BY <1>1 DEF WindowPart, Counts
  <2>2. count' = [count EXCEPT !["others"] = @ + 1] /\ count.messages + count.others < MaxActs
    BY <1>2 DEF Disturbs, Acts
  <2>3. count' \in Counts /\ count'.messages = count.messages /\ count'.others = count.others + 1
    BY <2>1, <2>2 DEF Counts
  <2> QED BY <2>1, <2>2, <2>3, TurnBounds DEF Asked
<1>10. m <= count.messages
  <2>1. \A r \in 1 .. Len(made) : made[r].message \in InPlay(win, made)
    BY DEF InPlay
  <2>2. win.failed # 0 => win.failed \in InPlay(win, made)
    BY DEF InPlay
  <2>3. m = win.failed \/ (win.pending # 0 /\ m = made[win.pending].message)
    <3>1. CASE Lapsed(win)
      <4>1. m = made[win.pending].message
        BY <1>1, <3>1, Basics DEF Fresh, Released, Windows
      <4> QED BY <3>1, <4>1 DEF Lapsed
    <3>2. CASE ~Lapsed(win)
      BY <3>2 DEF Fresh
    <3> QED BY <3>1, <3>2
  <2>4. win.pending # 0 => win.pending \in 1 .. Len(made)
    BY <1>1, Basics
  <2>5. m \in InPlay(win, made)
    BY <1>2, <2>1, <2>2, <2>3, <2>4
  <2> QED BY <2>5 DEF Submitted
<1> HIDE DEF m
<1>6. v.queue \in Seq(Prompts) /\ 0 \in MessageIds
  BY <1>1, Basics, WindowFields
<1> HIDE DEF v
<1>7. w \in Windows /\ w.queue = v.queue /\ w.pending = v.pending /\ w.active = v.active
      /\ w.runs = v.runs
  BY <1>1, <1>6 DEF Windows
<1> HIDE DEF w
<1>8. Before(w)
  <2>1. WindowOK(w, turns, made, Asked)
    BY <1>1, <1>7 DEF Before, WindowOK, WindowFits, Prompting
  <2>2. LiveRuns(w, turns) = LiveRuns(v, turns)
    BY <1>7 DEF LiveRuns, Prompting
  <2>3. Even(w, turns, made) <=> Even(v, turns, made)
    BY <1>7, <2>2 DEF Even
  <2>4. Lasts(win, w)
    BY <1>1, <1>7 DEF Before, Lasts
  <2> QED BY <1>1, <2>1, <2>3, <2>4 DEF Before
<1>9. AsksFor(m)
  <2>1. wanted \in [Runs -> Nat]
    BY <1>1, Basics
  <2>2. wanted' \in [Runs -> Nat] /\ \A k \in Runs : wanted'[k] = IF k = m THEN wanted[k] + 1 ELSE wanted[k]
    BY <1>2, <1>4, <2>1
  <2>3. \A k \in Runs : k > count'.messages => wanted'[k] = 0
    <3>1. \A k \in Runs : k \in Nat
      BY TurnBounds DEF Runs
    <3>2. m \in Nat /\ count.messages \in Nat /\ m <= count.messages
      BY <1>1, <1>4, <1>10, <3>1 DEF WindowPart, Counts
    <3>3. \A k \in Runs : k > count.messages => wanted[k] = 0
      BY <1>1 DEF WindowPart
    <3>4. \A k \in Runs : k > count.messages => k # m
      BY <3>1, <3>2
    <3> QED BY <1>5, <2>2, <3>3, <3>4
  <2> QED BY <1>5, <2>2, <2>3 DEF AsksFor, RetryLastFailed
<1> QED BY <1>2, <1>4, <1>8, <1>9, AskedStarts

-----------------------------------------------------------------------------
\* The repository is closed.

\* A queue in which every state is set.
LEMMA Remapped ==
  ASSUME NEW q \in Seq(Prompts), NEW x \in {"queued", "reopen-required"}
  PROVE  LET p == [i \in DOMAIN q |-> [q[i] EXCEPT !.state = x]] IN
         p \in Seq(Prompts) /\ Len(p) = Len(q) /\ \A i \in 1 .. Len(q) : p[i].message = q[i].message
<1> DEFINE p == [i \in DOMAIN q |-> [q[i] EXCEPT !.state = x]]
<1>1. Len(q) \in Nat /\ DOMAIN q = 1 .. Len(q)
  BY LenProperties
<1>2. ASSUME NEW i \in 1 .. Len(q)
      PROVE  p[i] \in Prompts /\ p[i].message = q[i].message
  <2>1. q[i] \in Prompts /\ p[i] = [q[i] EXCEPT !.state = x]
    BY <1>1, ElementOfSeq
  <2> HIDE DEF p
  <2> QED BY <2>1 DEF Prompts
<1>3. p \in Seq(Prompts) /\ Len(p) = Len(q)
  <2>1. p = [i \in 1 .. Len(q) |-> p[i]]
    BY <1>1
  <2>2. \A i \in 1 .. Len(q) : p[i] \in Prompts
    BY <1>2
  <2> HIDE DEF p
  <2> QED BY <1>1, <2>1, <2>2, IsASeq, LenProperties
<1> QED BY <1>2, <1>3

\* What leaving the repository makes of a window.
LEMMA ShelvedIs ==
  ASSUME WindowPart
  PROVE  LET w == Shelved(win) IN
         /\ w \in Windows
         /\ win.pending = 0 =>
              SameMessages(w.queue, win.queue) /\ w.active = win.active /\ w.runs = win.runs
         /\ win.pending # 0 =>
              /\ \E e \in Prompts : /\ e.message = made[win.pending].message
                                    /\ SameMessages(w.queue, Append(win.queue, e))
              /\ w.active = Free(win, win.pending)
              /\ w.runs \in [Runs -> RunViews]
              /\ \A s \in Runs : w.runs[s].phase =
                   IF s = win.pending /\ win.runs[s].phase \notin Terminal THEN "canceled"
                   ELSE win.runs[s].phase
         /\ w.pending = 0 /\ w.failed = win.failed
<1>1. /\ win \in Windows /\ win.queue \in Seq(Prompts) /\ win.runs \in [Runs -> RunViews]
      /\ 0 \in MessageIds /\ win.active \in MessageIds
  BY Basics, WindowFields
<1>2. CASE win.pending = 0
  <2> DEFINE p == [i \in DOMAIN win.queue |-> [win.queue[i] EXCEPT !.state = "reopen-required"]]
             w == [win EXCEPT !.queue = p, !.hydrated = 0, !.phase = "unbound"]
  <2>1. Shelved(win) = w
    BY <1>2 DEF Shelved
  <2>2. p \in Seq(Prompts) /\ SameMessages(p, win.queue)
    BY <1>1, Remapped DEF SameMessages
  <2> HIDE DEF p
  <2>3. w \in Windows /\ w.queue = p /\ w.active = win.active /\ w.runs = win.runs
        /\ w.pending = 0 /\ w.failed = win.failed
    BY <1>1, <1>2, <2>2 DEF Windows
  <2> HIDE DEF w
  <2> QED BY <1>2, <2>1, <2>2, <2>3
<1>3. CASE win.pending # 0
  <2> DEFINE r == win.pending
             e == [message |-> made[r].message, state |-> "queued"]
             q == Append(win.queue, e)
             p == [i \in DOMAIN q |-> [q[i] EXCEPT !.state = "reopen-required"]]
             c == IF Ended(win, r) THEN win.runs[r].phase ELSE "canceled"
             f == [win.runs EXCEPT ![r].phase = c]
             w == [win EXCEPT !.pending = 0, !.active = Free(win, r), !.runs = f, !.queue = p,
                      !.hydrated = 0, !.phase = "unbound"]
  <2>1. r \in Runs /\ made[r].message \in Runs
    BY <1>3, Basics
  <2>2. e \in Prompts /\ e.message = made[r].message
    BY <2>1 DEF Prompts
  <2>3. Shelved(win) = w
    <3> DEFINE u == [win EXCEPT !.pending = 0, !.active = Free(win, r), !.runs = f, !.queue = q]
    <3>1. u.queue = q
      BY <1>1 DEF Windows
    <3>2. Shelved(win) = [u EXCEPT !.queue = [i \in DOMAIN @ |-> [@[i] EXCEPT !.state = "reopen-required"]],
                                   !.hydrated = 0, !.phase = "unbound"]
      BY <1>3 DEF Shelved
    <3>3. Shelved(win) = [u EXCEPT !.queue = p, !.hydrated = 0, !.phase = "unbound"]
      <4> HIDE DEF q, u
      <4> QED BY <3>1, <3>2
    <3> HIDE DEF q, p, f
    <3> QED BY <1>1, <3>3 DEF Windows
  <2> HIDE DEF e
  <2>4. q \in Seq(Prompts)
    BY <1>1, <2>2, AppendProperties
  <2> HIDE DEF q
  <2>5. p \in Seq(Prompts) /\ SameMessages(p, q)
    BY <2>4, Remapped DEF SameMessages
  <2> HIDE DEF p
  <2>6. c \in RunPhases
    BY <1>1, <2>1 DEF RunPhases, RunViews, Terminal
  <2>7. /\ f \in [Runs -> RunViews]
        /\ \A s \in Runs : f[s].phase = IF s = r THEN c ELSE win.runs[s].phase
    <3>1. r \in Runs
      BY <2>1
    <3> HIDE DEF r, c
    <3> QED BY <1>1, <2>6, <3>1, PhaseSet DEF f
  <2> HIDE DEF f
  <2>8. \A s \in Runs : f[s].phase =
          IF s = r /\ win.runs[s].phase \notin Terminal THEN "canceled" ELSE win.runs[s].phase
    BY <2>7 DEF c, Ended
  <2>9. Free(win, r) \in MessageIds
    BY <1>1 DEF Free
  <2>10. w \in Windows /\ w.queue = p /\ w.active = Free(win, r) /\ w.runs = f
         /\ w.pending = 0 /\ w.failed = win.failed
    BY <1>1, <2>5, <2>7, <2>9 DEF Windows
  <2> HIDE DEF w
  <2> QED BY <1>3, <2>2, <2>3, <2>5, <2>7, <2>8, <2>10 DEF q
<1> QED BY <1>2, <1>3

\* The user leaves the repository.
LEMMA LeaveStep == TurnInv /\ Leave => TurnInv'
<1> SUFFICES ASSUME WindowPart, ServicePart, EndsPart, Leave PROVE TurnInv'
  BY DEF TurnInv
<1>1. /\ made' = made /\ turns' = turns /\ cancels' = cancels /\ events' = events /\ svc' = svc
      /\ Disturbs /\ launches' = launches /\ wanted' = wanted /\ over' = over
      /\ status' = NoStatus /\ win' = Shelved(win)
      /\ Has("shelved", win.pending # 0 /\ win.runs[win.pending].phase # "needs-consent")
  BY DEF Leave
<1>2. gaps \subseteq gaps'
      /\ (win.pending # 0 /\ win.runs[win.pending].phase # "needs-consent" => "shelved" \in gaps')
  BY <1>1 DEF Has
<1>3. Asked' \in 0 .. MaxActs /\ Asked \in 0 .. MaxActs /\ Asked <= Asked' /\ Asked' = Asked + 1
  <2>1. count.messages \in Nat /\ count.others \in Nat /\ count \in Counts
    BY DEF WindowPart, Counts
  <2>2. count' = [count EXCEPT !["others"] = @ + 1]
    BY <1>1 DEF Disturbs, Acts
  <2>3. count'.messages = count.messages /\ count'.others = count.others + 1
    BY <2>1, <2>2 DEF Counts
  <2> QED BY <1>1, <2>1, <2>3, Counts1 DEF Asked
<1>4. /\ WindowOK(win, turns, made, Asked) /\ launches \in [Runs -> Nat] /\ wanted \in [Runs -> Nat]
      /\ Len(made) \in Nat /\ win.queue \in Seq(Prompts) /\ Len(win.queue) \in Nat
      /\ \A r \in 1 .. Len(made) : r \in Runs /\ made[r].message \in Runs
      /\ 0 \notin Runs /\ win.active \in 0 .. Len(made) /\ WindowFits(win, turns, made, Asked)
      /\ (win.active # 0 => win.active \in Runs) /\ (win.pending # 0 => win.pending \in Runs)
      /\ turns \in SUBSET Calls
  BY Basics DEF WindowOK
<1> DEFINE w == win'
<1>5. /\ w \in Windows /\ w.pending = 0
      /\ win.pending = 0 =>
           SameMessages(w.queue, win.queue) /\ w.active = win.active /\ w.runs = win.runs
      /\ win.pending # 0 =>
           /\ \E e \in Prompts : /\ e.message = made[win.pending].message
                                 /\ SameMessages(w.queue, Append(win.queue, e))
           /\ w.active = Free(win, win.pending)
           /\ \A s \in Runs : w.runs[s].phase =
                IF s = win.pending /\ win.runs[s].phase \notin Terminal THEN "canceled"
                ELSE win.runs[s].phase
  BY <1>1, ShelvedIs
<1>6. ServicePart'
  BY <1>1, <1>4, ServiceKept
<1>7. CASE win.pending = 0
  <2>1. Calmer(win, win', Len(made))
    BY <1>4, <1>5, <1>7 DEF Calmer, Prompting, WindowFits
  <2>2. WindowOK(win', turns, made, Asked) /\ (Even(win, turns, made) => Even(win', turns, made))
    BY <1>3, <1>4, <1>5, <2>1, CalmerFits
  <2>3. WindowOK(win', turns', made', Asked')
    BY <1>1, <1>3, <2>2, Raised
  <2>4. WindowPart'
    BY <1>1, <1>2, <2>2, <2>3, Basics, WindowMade DEF Even
  <2>5. Lasts(win, win')
    BY <1>4, <1>5, <1>7 DEF Lasts
  <2> QED BY <1>1, <1>2, <1>6, <2>4, <2>5, EndsKept DEF TurnInv
<1>8. CASE win.pending # 0
  <2> DEFINE r == win.pending
  <2>1. PICK e \in Prompts : e.message = made[r].message /\ SameMessages(win'.queue, Append(win.queue, e))
    BY <1>5, <1>8
  <2> DEFINE q == Append(win.queue, e)
  <2>2. q \in Seq(Prompts) /\ Len(q) = Len(win.queue) + 1
    BY <1>4, AppendProperties
  <2>3. win'.queue \in Seq(Prompts) /\ Len(win'.queue) = Len(q)
        /\ \A i \in 1 .. Len(q) : win'.queue[i].message = q[i].message
    BY <1>5, <2>1, WindowFields DEF SameMessages
  <2>4. win'.active \in 0 .. Len(made) /\ win'.active # r
        /\ (win'.active # 0 => win'.active = win.active)
    BY <1>4, <1>5, <1>8 DEF Free
  <2>5. \A s \in Runs : ~Prompting(win', s)
    BY <1>4, <1>5 DEF Prompting
  <2>6. WindowOK(win', turns', made', Asked')
    <3>1. Len(made) + Len(win'.queue) <= Asked'
      <4>1. \A i, j, k \in Nat : i + j <= k => i + (j + 1) <= k + 1
        OBVIOUS
      <4>2. Len(made) + Len(win.queue) <= Asked /\ Asked \in Nat
        BY <1>3, <1>4 DEF WindowFits
      <4> QED BY <1>3, <1>4, <2>2, <2>3, <4>1, <4>2
    <3>2. ASSUME win'.active # 0 PROVE win'.runs[win'.active].phase \notin Terminal \cup {"none"}
      <4>1. win'.active = win.active /\ win.active # 0 /\ win.active \in Runs
        BY <1>4, <2>4, <3>2
      <4> QED BY <1>4, <1>5, <1>8, <2>4, <4>1 DEF WindowFits
    <3>3. \A c \in turns : c.run \in Runs
      BY <1>4 DEF Calls
    <3>4. 0 \in 0 .. Len(made)
      BY <1>4
    <3> QED BY <1>1, <1>4, <1>5, <2>4, <2>5, <3>1, <3>2, <3>3, <3>4 DEF WindowOK, WindowFits
  <2>7. ASSUME Even(win, turns, made), "shelved" \notin gaps'
        PROVE  Balance(win'.queue, LiveRuns(win', turns'), made', launches, wanted)
    <3> DEFINE L == LiveRuns(win, turns)
               K == LiveRuns(win', turns')
    <3>1. Prompting(win, r)
      BY <1>2, <1>8, <2>7 DEF Prompting
    <3>2. L \in SUBSET Runs /\ r \in L
      BY <1>4, <1>8, <3>1 DEF LiveRuns
    <3>3. \A c \in turns : c.run # r
      BY <1>4, <3>1 DEF WindowFits
    <3>4. K \in SUBSET (L \ {r}) /\ L \ {r} \in SUBSET Runs
      BY <1>1, <2>5, <3>2, <3>3 DEF LiveRuns
    <3>5. Balance(win.queue, L, made, launches, wanted)
      BY <2>7 DEF Even
    <3> HIDE DEF L, K, r
    <3>6. Balance(q, L \ {r}, made, launches, wanted)
      BY <1>4, <2>1, <3>2, <3>5, BalanceShelves
    <3> HIDE DEF q
    <3>7. Balance(win'.queue, K, made, launches, wanted)
      BY <1>4, <2>2, <2>3, <3>4, <3>6, BalanceShrinks
    <3> QED BY <1>1, <3>7 DEF K
  <2>8. WindowPart'
    BY <1>1, <1>2, <2>6, <2>7, Basics, WindowMade
  <2>9. Lasts(win, win')
    <3> SUFFICES ASSUME NEW s \in 1 .. Len(made)
                 PROVE  /\ win.runs[s].phase \in Terminal => win'.runs[s].phase \in Terminal
                        /\ win.runs[s].phase = "none" => win'.runs[s].phase \in Terminal \cup {"none"}
      BY DEF Lasts
    <3>1. s \in Runs
      BY <1>4
    <3> QED BY <1>5, <1>8, <3>1 DEF Terminal
  <2> QED BY <1>1, <1>2, <1>6, <2>8, <2>9, EndsKept DEF TurnInv
<1> QED BY <1>7, <1>8

-----------------------------------------------------------------------------
\* A status arrives.

\* The part of the window after a dispatch of v.
LEMMA DispatchedWindow ==
  ASSUME WindowPart, NEW v, Dispatches(v, turns, Asked), Even(win, turns, made) => Even(v, turns, made),
         cancels' = cancels, count' = count, launches' = launches, wanted' = wanted, gaps \subseteq gaps'
  PROVE  WindowPart'
<1>1. Asked' = Asked
  BY DEF Asked
<1>2. WindowOK(win', turns', made', Asked')
  BY <1>1 DEF Dispatches
<1> QED BY <1>2, Basics, WindowMade DEF Dispatches

\* And the service: the calls of the window are of runs it has not claimed.
LEMMA DispatchedService ==
  ASSUME WindowPart, ServicePart, NEW v, Dispatches(v, turns, Asked), svc' = svc
  PROVE  /\ SvcFits(svc', turns', Len(made')) /\ over \subseteq 1 .. Len(made')
         /\ 1 .. Len(made) \subseteq 1 .. Len(made')
<1>1. Len(made) \in Nat /\ Len(made') \in Nat /\ Len(made) <= Len(made')
  <2>1. made' \in Seq(Made)
    BY DEF Dispatches, WindowOK
  <2> QED BY <2>1, Basics, LenProperties DEF Dispatches
<1>2. 1 .. Len(made) \subseteq 1 .. Len(made') /\ Len(made) + 1 \notin 1 .. Len(made)
  BY <1>1
<1>3. SvcFits(svc, turns, Len(made)) /\ over \subseteq 1 .. Len(made)
  BY DEF ServicePart
<1>4. svc.claims \subseteq 1 .. Len(made') /\ Len(made) + 1 \notin svc.claims
  BY <1>2, <1>3 DEF SvcFits
<1> QED BY <1>2, <1>3, <1>4 DEF SvcFits, Dispatches

\* The runs of a dispatched window that are over.
LEMMA DispatchedEnds ==
  ASSUME NEW v, Dispatches(v, turns, Asked), NEW ov \in SUBSET (1 .. Len(made)), NEW s, Settled(v, ov, s)
  PROVE  Settled(win', ov, s)
BY DEF Dispatches, Settled

(* What a status makes of the window, before the first turn is dispatched. *)
Opened ==
  [win EXCEPT !.floor = status.found, !.epoch = status.found, !.hydrated = status.found,
              !.available = status.available, !.phase = "ready",
              !.queue = [i \in DOMAIN @ |-> [@[i] EXCEPT !.state = "queued"]]]

\* The window of an opened repository has its messages back, all of them queued.
LEMMA OpenedIs ==
  ASSUME WindowPart, ServicePart
  PROVE  /\ Opened \in Windows /\ SameMessages(Opened.queue, win.queue)
         /\ Opened.runs = win.runs /\ Opened.active = win.active /\ Opened.pending = win.pending
         /\ Opened.failed = win.failed
<1> DEFINE p == [i \in DOMAIN win.queue |-> [win.queue[i] EXCEPT !.state = "queued"]]
<1>1. win \in Windows /\ win.queue \in Seq(Prompts) /\ status.found \in Nat /\ status.available \in BOOLEAN
  BY Basics DEF ServicePart, Statuses
<1>2. p \in Seq(Prompts) /\ SameMessages(p, win.queue)
  BY <1>1, Remapped DEF SameMessages
<1>3. Opened = [win EXCEPT !.floor = status.found, !.epoch = status.found, !.hydrated = status.found,
                           !.available = status.available, !.phase = "ready", !.queue = p]
  BY DEF Opened
<1> HIDE DEF p
<1> QED BY <1>1, <1>2, <1>3 DEF Windows

\* A run that a status lists.
LEMMA AdoptedFits ==
  ASSUME WindowPart, ServicePart, EndsPart
  PROVE  LET v == Adopted(Opened) IN
         /\ WindowOK(v, turns, made, Asked) /\ (Even(win, turns, made) => Even(v, turns, made))
         /\ "revived" \in gaps \/ Settled(v, over, 0)
         /\ SameMessages(v.queue, win.queue) /\ v.failed = win.failed
<1> DEFINE u == Opened
<1>1. /\ u \in Windows /\ SameMessages(u.queue, win.queue)
      /\ u.runs = win.runs /\ u.active = win.active /\ u.pending = win.pending
      /\ u.failed = win.failed
  BY OpenedIs
<1>2. /\ WindowOK(win, turns, made, Asked) /\ launches \in [Runs -> Nat] /\ wanted \in [Runs -> Nat]
      /\ Len(made) \in Nat /\ Asked \in 0 .. MaxActs
      /\ \A r \in 1 .. Len(made) : r \in Runs
      /\ 0 \notin Runs /\ win.active \in 0 .. Len(made) /\ WindowFits(win, turns, made, Asked)
      /\ win.pending \in 0 .. Len(made) /\ Runs \subseteq MessageIds
  BY Basics DEF WindowOK
<1> HIDE DEF u
<1>3. Calmer(win, u, Len(made))
  BY <1>1, <1>2 DEF Calmer, Prompting, WindowFits
<1>4. WindowOK(u, turns, made, Asked) /\ (Even(win, turns, made) => Even(u, turns, made))
  BY <1>1, <1>2, <1>3, CalmerFits
<1>5. "revived" \in gaps \/ Settled(win, over, status.run)
  BY DEF EndsPart
<1>6. \A r \in over : r \in 1 .. Len(made) /\ r # 0
  BY <1>2 DEF ServicePart
<1>7. CASE status.run = 0 \/ (status.run \in Runs /\ Ended(u, status.run))
  <2>1. Adopted(u) = u
    BY <1>7 DEF Adopted
  <2>2. "revived" \in gaps \/ Settled(u, over, 0)
    BY <1>1, <1>5, <1>6 DEF Settled
  <2> QED BY <1>1, <1>4, <2>1, <2>2 DEF u
<1>8. CASE ~(status.run = 0 \/ (status.run \in Runs /\ Ended(u, status.run)))
  <2> DEFINE r == status.run
             p == status.state
             f == [u.runs EXCEPT ![r].phase = p]
             a == IF u.active = 0 THEN r ELSE u.active
             w == [u EXCEPT !.runs = f, !.active = a]
  <2>1. Adopted(u) = w
    BY <1>8 DEF Adopted
  <2>2. r \in 1 .. Len(made) /\ r \in Runs /\ status.state \in {"running", "canceling"}
    <3>1. r \in svc.claims /\ status.state # "none" /\ svc.claims \subseteq 1 .. Len(made)
          /\ status \in Statuses
      BY <1>8 DEF ServicePart, StatusFits, SvcFits
    <3> QED BY <1>2, <3>1 DEF Statuses
  <2>3. win.runs[r].phase \notin Terminal
    BY <1>1, <1>8, <2>2 DEF Ended
  <2>4. status.state \in RunPhases /\ u.runs \in [Runs -> RunViews]
    BY <1>1, <2>2, WindowFields DEF RunPhases
  <2> HIDE DEF r
  <2>5. f \in [Runs -> RunViews]
        /\ \A s \in Runs : f[s].phase = IF s = r THEN p ELSE u.runs[s].phase
    <3>1. p \in RunPhases
      BY <2>4
    <3> DEFINE g == u.runs
    <3>2. g \in [Runs -> RunViews]
      BY <2>4
    <3> HIDE DEF p, g
    <3>3. [g EXCEPT ![r].phase = p] \in [Runs -> RunViews]
      BY <3>1, <3>2, PhaseSet
    <3>4. \A s \in Runs : [g EXCEPT ![r].phase = p][s].phase = IF s = r THEN p ELSE g[s].phase
      BY <3>1, <3>2, PhaseSet
    <3> QED BY <3>3, <3>4 DEF g
  <2>6. a \in MessageIds /\ a \in 0 .. Len(made) /\ a \in {0, r, u.active}
    BY <1>1, <1>2, <2>2
  <2> HIDE DEF a, f
  <2>7. w \in Windows /\ w.queue = u.queue /\ w.runs = f /\ w.active = a /\ w.pending = u.pending
        /\ w.failed = u.failed
    BY <1>1, <2>5, <2>6 DEF Windows
  <2> HIDE DEF w
  <2>8. Phased(u, w, r, status.state) /\ Held(u, w, r, status.state)
    BY <2>2, <2>6, <2>7 DEF Phased, Held, f, Terminal
  <2>9. /\ WindowOK(w, turns, made, Asked) /\ (Even(u, turns, made) => Even(w, turns, made))
        /\ \A s \in Runs : w.runs[s].phase = IF s = r THEN status.state ELSE u.runs[s].phase
    BY <1>2, <1>4, <2>2, <2>4, <2>7, <2>8, PhasedFits
  <2>10. "revived" \in gaps \/ Settled(w, over, 0)
    <3> SUFFICES ASSUME "revived" \notin gaps, NEW x \in over
                 PROVE  w.runs[x].phase \in Terminal \/ (w.runs[x].phase = "none" /\ 0 # x)
      BY DEF Settled
    <3>1. x \in Runs /\ x # 0
      BY <1>2, <1>6
    <3>2. win.runs[x].phase \in Terminal \/ (win.runs[x].phase = "none" /\ r # x)
      BY <1>5 DEF Settled, r
    <3>3. x # r
      BY <2>3, <3>2
    <3>4. w.runs[x].phase = win.runs[x].phase
      BY <1>1, <2>9, <3>1, <3>3
    <3> QED BY <3>1, <3>2, <3>4
  <2> QED BY <1>1, <1>4, <2>1, <2>7, <2>9, <2>10 DEF u
<1> QED BY <1>7, <1>8

\* A status arrives in the window.
LEMMA HydrateStep == TurnInv /\ HydrateStatus => TurnInv'
<1> SUFFICES ASSUME WindowPart, ServicePart, EndsPart, HydrateStatus PROVE TurnInv'
  BY DEF TurnInv
<1>1. /\ status' = NoStatus /\ cancels' = cancels /\ svc' = svc /\ events' = events /\ count' = count
      /\ launches' = launches /\ wanted' = wanted /\ over' = over /\ gaps' = gaps
  BY DEF HydrateStatus
<1>2. /\ WindowOK(win, turns, made, Asked) /\ launches \in [Runs -> Nat] /\ wanted \in [Runs -> Nat]
      /\ Len(made) \in Nat /\ Asked \in 0 .. MaxActs /\ win \in Windows
  BY Basics
<1>3. ASSUME NEW v, Dispatches(v, turns, Asked), Even(win, turns, made) => Even(v, turns, made),
             "revived" \in gaps \/ Settled(v, over, 0)
      PROVE  TurnInv'
  <2>1. WindowPart'
    BY <1>1, <1>3, DispatchedWindow
  <2>2. SvcFits(svc', turns', Len(made')) /\ over' \subseteq 1 .. Len(made')
    BY <1>1, <1>3, DispatchedService
  <2>3. NoStatus \in Statuses /\ StatusFits(NoStatus, svc) /\ NoStatus.run = 0
    BY TurnBounds DEF NoStatus, Statuses, StatusFits, MessageIds
  <2>4. ServicePart'
    BY <1>1, <2>2, <2>3 DEF ServicePart
  <2>5. "revived" \in gaps \/ Settled(win', over, 0)
    BY <1>3, DispatchedEnds DEF ServicePart
  <2>6. EndsPart'
    BY <1>1, <2>3, <2>5 DEF EndsPart
  <2> QED BY <2>1, <2>4, <2>6 DEF TurnInv
<1>4. "revived" \in gaps \/ Settled(win, over, 0)
  <2>1. 0 \notin over
    BY DEF ServicePart
  <2> QED BY <2>1 DEF EndsPart, Settled
<1>5. CASE status.found = 0
  <2> DEFINE v == [win EXCEPT !.phase = "error", !.hydrated = 0]
  <2>1. Stays(v, turns)
    BY <1>5 DEF HydrateStatus
  <2>2. v \in Windows /\ v.queue = win.queue /\ v.runs = win.runs /\ v.active = win.active
        /\ v.pending = win.pending
    BY <1>2 DEF Windows
  <2> HIDE DEF v
  <2>3. WindowOK(v, turns, made, Asked)
    BY <1>2, <2>2 DEF WindowOK, WindowFits, Prompting
  <2>4. Even(win, turns, made) => Even(v, turns, made)
    BY <2>2 DEF Even, LiveRuns, Prompting
  <2>5. "revived" \in gaps \/ Settled(v, over, 0)
    BY <1>4, <2>2 DEF Settled
  <2>6. Dispatches(v, turns, Asked)
    BY <2>1, <2>3, StaysFits
  <2> QED BY <1>3, <2>4, <2>5, <2>6
<1>6. CASE status.found # 0 /\ status.found < win.floor
  <2>1. Stays(win, turns)
    BY <1>6 DEF HydrateStatus
  <2>2. Dispatches(win, turns, Asked)
    BY <1>2, <2>1, StaysFits
  <2> QED BY <1>3, <1>4, <2>2
<1>7. CASE status.found # 0 /\ ~(status.found < win.floor)
  <2> DEFINE v == Adopted(Opened)
  <2>1. DispatchQueued(v, turns) \/ Stays(v, turns)
    BY <1>7 DEF HydrateStatus, Opened
  <2>2. /\ WindowOK(v, turns, made, Asked) /\ (Even(win, turns, made) => Even(v, turns, made))
        /\ "revived" \in gaps \/ Settled(v, over, 0)
    BY AdoptedFits
  <2> HIDE DEF v
  <2>3. Dispatches(v, turns, Asked)
    BY <1>2, <2>1, <2>2, StaysFits, DispatchFits
  <2> QED BY <1>3, <2>2, <2>3
<1> QED BY <1>5, <1>6, <1>7

-----------------------------------------------------------------------------
\* An event arrives.

\* The first of the events is taken.
LEMMA EventTaken ==
  ASSUME NEW q \in Seq(Events), q # << >>, NEW s, NEW ov, EventsFit(q, s), OverFits(ov, q, s)
  PROVE  /\ Head(q) \in Events /\ Tail(q) \in Seq(Events)
         /\ EventsFit(Tail(q), s) /\ OverFits(ov, Tail(q), s)
         /\ Head(q).kind \in {"changed", "started"} \cup Terminal
         /\ IF Head(q).kind = "changed" THEN Head(q).run = 0 ELSE Head(q).run \in s.claims
         /\ Head(q).run \notin ov
         /\ Head(q).kind \in Terminal =>
              Past(s, Head(q).run) /\ \A i \in DOMAIN Tail(q) : Tail(q)[i].run # Head(q).run
<1> DEFINE p == Tail(q)
           e == Head(q)
<1>1. /\ e \in Events /\ p \in Seq(Events) /\ Len(p) = Len(q) - 1 /\ Len(q) \in Nat /\ Len(q) > 0
      /\ \A i \in 1 .. Len(p) : p[i] = q[i + 1]
      /\ e = q[1] /\ DOMAIN q = 1 .. Len(q) /\ DOMAIN p = 1 .. Len(p)
  <2>1. /\ p \in Seq(Events) /\ Len(p) = Len(q) - 1 /\ e \in Events /\ e = q[1]
        /\ \A i \in 1 .. Len(p) : p[i] = q[i + 1]
    BY HeadTailProperties
  <2>2. Len(q) \in Nat /\ Len(q) # 0
    BY EmptySeq, LenProperties
  <2>3. DOMAIN q = 1 .. Len(q)
    BY LenProperties
  <2> HIDE DEF p, e
  <2>4. DOMAIN p = 1 .. Len(p)
    BY <2>1, LenProperties
  <2>5. Len(q) \in Nat /\ Len(q) > 0
    BY <2>2
  <2>6. e \in Events /\ e = q[1] /\ p \in Seq(Events)
    BY <2>1
  <2>7. Len(p) = Len(q) - 1 /\ \A i \in 1 .. Len(p) : p[i] = q[i + 1]
    BY <2>1
  <2> QED BY <2>3, <2>4, <2>5, <2>6, <2>7
<1> HIDE DEF p, e
<1>2. /\ 1 \in DOMAIN q /\ \A i \in DOMAIN p : i + 1 \in DOMAIN q /\ p[i] = q[i + 1] /\ i + 1 > 1
      /\ \A i, j \in DOMAIN p : j > i => j + 1 > i + 1
  BY <1>1
<1>3. ASSUME NEW i \in DOMAIN q
      PROVE  /\ q[i].kind \in Terminal =>
                  Past(s, q[i].run) /\ \A j \in DOMAIN q : j > i => q[j].run # q[i].run
             /\ q[i].kind \in {"changed", "started"} \cup Terminal
             /\ IF q[i].kind = "changed" THEN q[i].run = 0 ELSE q[i].run \in s.claims
  BY DEF EventsFit
<1>4. EventsFit(p, s)
  <2> SUFFICES ASSUME NEW i \in DOMAIN p
               PROVE  /\ p[i].kind \in Terminal =>
                           Past(s, p[i].run) /\ \A j \in DOMAIN p : j > i => p[j].run # p[i].run
                      /\ p[i].kind \in {"changed", "started"} \cup Terminal
                      /\ IF p[i].kind = "changed" THEN p[i].run = 0 ELSE p[i].run \in s.claims
    BY DEF EventsFit
  <2>1. i + 1 \in DOMAIN q /\ p[i] = q[i + 1]
    BY <1>2
  <2>2. ASSUME p[i].kind \in Terminal, NEW j \in DOMAIN p, j > i PROVE p[j].run # p[i].run
    <3>1. j + 1 \in DOMAIN q /\ p[j] = q[j + 1] /\ j + 1 > i + 1
      BY <1>2, <2>2
    <3> QED BY <1>3, <2>1, <2>2, <3>1
  <2> QED BY <1>3, <2>1, <2>2
<1>5. OverFits(ov, p, s) /\ e.run \notin ov
  BY <1>1, <1>2 DEF OverFits
<1>6. ASSUME e.kind \in Terminal
      PROVE  Past(s, e.run) /\ \A i \in DOMAIN p : p[i].run # e.run
  BY <1>1, <1>2, <1>3, <1>6
<1> QED BY <1>1, <1>2, <1>3, <1>4, <1>5, <1>6 DEF p, e

(* The window when an event of the run r arrives. *)
Seen(r) == IF win.runs[r].phase = "none" THEN [win EXCEPT !.runs[r].phase = "running"] ELSE win

\* A run the window learns of from the service: it is shown as running, and nothing else changes.
LEMMA SeenFits ==
  ASSUME WindowPart, NEW r \in Runs
  PROVE  LET v == Seen(r) IN
         /\ WindowOK(v, turns, made, Asked) /\ (Even(win, turns, made) => Even(v, turns, made))
         /\ \A s \in Runs : v.runs[s].phase =
              IF s = r /\ win.runs[r].phase = "none" THEN "running" ELSE win.runs[s].phase
         /\ v.queue = win.queue /\ v.failed = win.failed /\ v.runs[r].phase # "none"
<1>1. /\ WindowOK(win, turns, made, Asked) /\ Asked \in 0 .. MaxActs /\ win \in Windows
      /\ launches \in [Runs -> Nat] /\ wanted \in [Runs -> Nat] /\ win.runs \in [Runs -> RunViews]
      /\ r \in Runs /\ win.active \in 0 .. Len(made) /\ win.pending \in 0 .. Len(made)
  BY Basics, WindowFields
<1>2. CASE win.runs[r].phase # "none"
  BY <1>1, <1>2 DEF Seen
<1>3. CASE win.runs[r].phase = "none"
  <2> DEFINE f == [win.runs EXCEPT ![r].phase = "running"]
  <2>1. Seen(r) = [win EXCEPT !.runs = f]
    BY <1>3 DEF Seen
  <2>2. "running" \in RunPhases
    BY DEF RunPhases
  <2>3. f \in [Runs -> RunViews]
    BY <1>1, <2>2, PhaseSet
  <2> HIDE DEF f
  <2>4. Seen(r) \in Windows /\ Seen(r).queue = win.queue /\ Seen(r).runs = f
        /\ Seen(r).active = win.active /\ Seen(r).pending = win.pending /\ Seen(r).failed = win.failed
    BY <1>1, <2>1, <2>3 DEF Windows
  <2>5. Phased(win, Seen(r), r, "running") /\ Held(win, Seen(r), r, "running")
    BY <1>1, <2>4 DEF Phased, Held, f, Terminal
  <2>6. /\ WindowOK(Seen(r), turns, made, Asked)
        /\ Even(win, turns, made) => Even(Seen(r), turns, made)
        /\ \A s \in Runs : Seen(r).runs[s].phase = IF s = r THEN "running" ELSE win.runs[s].phase
    <3> DEFINE p == "running"
               w == Seen(r)
    <3>1. p \in RunPhases /\ w \in Windows /\ Phased(win, w, r, p) /\ Held(win, w, r, p)
      BY <2>2, <2>4, <2>5
    <3> HIDE DEF p, w
    <3>2. /\ WindowOK(w, turns, made, Asked) /\ (Even(win, turns, made) => Even(w, turns, made))
          /\ \A s \in Runs : w.runs[s].phase = IF s = r THEN p ELSE win.runs[s].phase
      BY <1>1, <3>1, PhasedFits
    <3> QED BY <3>2 DEF p, w
  <2> QED BY <1>1, <1>3, <2>4, <2>6
<1> QED BY <1>2, <1>3

(* The window v when the run r is started. *)
Started(v, r) ==
  IF Ended(v, r) \/ v.runs[r].phase = "canceling" THEN v
  ELSE [v EXCEPT !.runs[r].phase = "running", !.pending = IF @ = r THEN 0 ELSE @]

\* A run that is started.
LEMMA ShownStarted ==
  ASSUME WindowPart, NEW r \in Runs, NEW v, v = Seen(r)
  PROVE  LET w == Started(v, r) IN
         /\ WindowOK(w, turns, made, Asked) /\ (Even(win, turns, made) => Even(w, turns, made))
         /\ \A s \in Runs : s # r => w.runs[s].phase = win.runs[s].phase
         /\ w.queue = win.queue /\ w.failed = win.failed
<1> DEFINE w == Started(v, r)
<1>1. /\ WindowOK(v, turns, made, Asked) /\ (Even(win, turns, made) => Even(v, turns, made))
      /\ \A s \in Runs : s # r => v.runs[s].phase = win.runs[s].phase
      /\ v.queue = win.queue /\ v.failed = win.failed
  BY SeenFits
<1>2. CASE Ended(v, r) \/ v.runs[r].phase = "canceling"
  BY <1>1, <1>2 DEF Started
<1>3. CASE ~(Ended(v, r) \/ v.runs[r].phase = "canceling")
  <2> DEFINE f == [v.runs EXCEPT ![r].phase = "running"]
             q == IF v.pending = r THEN 0 ELSE v.pending
  <2>1. w = [v EXCEPT !.runs = f, !.pending = q]
    BY <1>3 DEF Started
  <2>2. /\ v \in Windows /\ v.runs \in [Runs -> RunViews] /\ r \in Runs /\ 0 \in MessageIds
        /\ v.active \in 0 .. Len(made) /\ v.pending \in MessageIds
        /\ launches \in [Runs -> Nat] /\ wanted \in [Runs -> Nat] /\ Asked \in 0 .. MaxActs
    <3>1. Asked \in 0 .. MaxActs
      BY Basics
    <3> QED BY <1>1, <3>1, Basics, RunsOf, WindowFields
  <2>3. "running" \in RunPhases
    BY DEF RunPhases
  <2>4. f \in [Runs -> RunViews]
    BY <2>2, <2>3, PhaseSet
  <2>5. q \in MessageIds /\ q \in {0, v.pending}
    BY <2>2
  <2> HIDE DEF f, q, w
  <2>6. w \in Windows /\ w.queue = v.queue /\ w.runs = f
        /\ w.active = v.active /\ w.pending = q /\ w.failed = v.failed
    BY <2>1, <2>2, <2>4, <2>5 DEF Windows
  <2>7. Phased(v, w, r, "running") /\ Held(v, w, r, "running")
    BY <2>2, <2>5, <2>6 DEF Phased, Held, f, Terminal
  <2>8. /\ WindowOK(w, turns, made, Asked) /\ (Even(v, turns, made) => Even(w, turns, made))
        /\ \A s \in Runs : w.runs[s].phase = IF s = r THEN "running" ELSE v.runs[s].phase
    <3> DEFINE p == "running"
    <3>1. p \in RunPhases /\ Phased(v, w, r, p) /\ Held(v, w, r, p)
      BY <2>3, <2>7
    <3>2. WindowOK(v, turns, made, Asked)
      BY <1>1
    <3> HIDE DEF p
    <3>3. /\ WindowOK(w, turns, made, Asked) /\ (Even(v, turns, made) => Even(w, turns, made))
          /\ \A s \in Runs : w.runs[s].phase = IF s = r THEN p ELSE v.runs[s].phase
      BY <2>2, <2>6, <3>1, <3>2, PhasedFits
    <3> QED BY <3>3 DEF p
  <2> QED BY <1>1, <2>6, <2>8 DEF w
<1> QED BY <1>2, <1>3

(* A run that is known, and its end. *)
EndOf(r, kind) == made[r].message \in Runs /\ kind \in Terminal

\* A run that ends, and the dispatch that follows.
LEMMA ShownEnded ==
  ASSUME WindowPart, NEW r \in Runs, NEW v, v = Seen(r), NEW kind, EndOf(r, kind), NEW answered,
         FinishRun(v, r, kind, answered)
  PROVE  \E w : /\ Dispatches(w, turns, Asked) /\ (Even(win, turns, made) => Even(w, turns, made))
                /\ \A s \in Runs : s # r => w.runs[s].phase = win.runs[s].phase
                /\ w.runs[r].phase \in Terminal
<1>1. /\ WindowOK(v, turns, made, Asked) /\ (Even(win, turns, made) => Even(v, turns, made))
      /\ \A s \in Runs : s # r => v.runs[s].phase = win.runs[s].phase
  BY SeenFits
<1>2. /\ v \in Windows /\ v.runs \in [Runs -> RunViews] /\ r \in Runs /\ 0 \in MessageIds
      /\ v.active \in 0 .. Len(made) /\ v.active \in MessageIds /\ v.pending \in MessageIds
      /\ v.failed \in MessageIds /\ made[r].message \in MessageIds
      /\ launches \in [Runs -> Nat] /\ wanted \in [Runs -> Nat] /\ Asked \in 0 .. MaxActs
  <2>1. Asked \in 0 .. MaxActs
    BY Basics
  <2> QED BY <1>1, <2>1, Basics, RunsOf, WindowFields DEF EndOf
<1>3. CASE Ended(v, r)
  <2>1. Stays(v, turns)
    BY <1>3 DEF FinishRun
  <2>2. Dispatches(v, turns, Asked)
    BY <1>1, <1>2, <2>1, StaysFits
  <2> QED BY <1>1, <1>3, <2>2 DEF Ended
<1>4. CASE ~Ended(v, r)
  <2> DEFINE failed == kind = "failed" \/ (kind = "done" /\ ~answered)
             kept == IF v.pending = r THEN made[r].message
                     ELSE IF failed /\ v.runs[r].own THEN made[r].message ELSE v.failed
             f == [v.runs EXCEPT ![r].phase = kind]
             a == Free(v, r)
             q == IF v.pending = r THEN 0 ELSE v.pending
             w == [v EXCEPT !.runs = f, !.active = a, !.failed = kept, !.pending = q]
  <2>1. DispatchQueued(w, turns)
    BY <1>4 DEF FinishRun
  <2>2. kind \in RunPhases /\ kind \in Terminal
    BY DEF RunPhases, EndOf
  <2>3. f \in [Runs -> RunViews]
    BY <1>2, <2>2, PhaseSet
  <2>4. /\ q \in MessageIds /\ q \in {0, v.pending} /\ a \in MessageIds /\ a \in {0, v.active}
        /\ a # r /\ kept \in MessageIds /\ a \in 0 .. Len(made)
    <3>1. r # 0
      BY <1>2, TurnBounds DEF Runs
    <3>2. 0 \in 0 .. Len(made)
      BY Basics
    <3> QED BY <1>2, <3>1, <3>2 DEF Free
  <2> HIDE DEF f, q, a, kept
  <2>5. w \in Windows /\ w.queue = v.queue /\ w.runs = f
        /\ w.active = a /\ w.pending = q
    BY <1>2, <2>3, <2>4 DEF Windows
  <2> HIDE DEF w
  <2>6. Phased(v, w, r, kind) /\ Held(v, w, r, kind)
    BY <2>2, <2>4, <2>5 DEF Phased, Held, f, Terminal
  <2>7. /\ WindowOK(w, turns, made, Asked) /\ (Even(v, turns, made) => Even(w, turns, made))
        /\ \A s \in Runs : w.runs[s].phase = IF s = r THEN kind ELSE v.runs[s].phase
    <3> DEFINE p == kind
    <3>1. p \in RunPhases /\ Phased(v, w, r, p) /\ Held(v, w, r, p) /\ w \in Windows
      BY <2>2, <2>5, <2>6
    <3>2. WindowOK(v, turns, made, Asked)
      BY <1>1
    <3>4. Asked \in 0 .. MaxActs /\ launches \in [Runs -> Nat] /\ wanted \in [Runs -> Nat]
      BY <1>2
    <3> HIDE DEF p, failed
    <3>5. Shows(v, w, turns, Asked, r, p)
      BY <3>1, <3>2, <3>4 DEF Shows
    <3>3. /\ WindowOK(w, turns, made, Asked) /\ (Even(v, turns, made) => Even(w, turns, made))
          /\ \A s \in Runs : w.runs[s].phase = IF s = r THEN p ELSE v.runs[s].phase
      BY <3>5, ShownFits
    <3> QED BY <3>3 DEF p
  <2>8. Dispatches(w, turns, Asked)
    BY <1>2, <2>1, <2>7, DispatchFits
  <2> QED BY <1>1, <1>2, <2>2, <2>7, <2>8
<1> QED BY <1>3, <1>4

\* An event arrives in the window.
LEMMA IngestStep == TurnInv /\ Ingest => TurnInv'
<1> SUFFICES ASSUME WindowPart, ServicePart, EndsPart, Ingest PROVE TurnInv'
  BY DEF TurnInv
<1> DEFINE e == Head(events)
           r == e.run
           v == Seen(r)
           old == e.via = "status" /\ win.epoch # made[r].epoch
<1>1. /\ events # << >> /\ events' = Tail(events) /\ cancels' = cancels /\ svc' = svc
      /\ count' = count /\ launches' = launches /\ wanted' = wanted
  BY DEF Ingest
<1>2. /\ WindowOK(win, turns, made, Asked) /\ launches \in [Runs -> Nat] /\ wanted \in [Runs -> Nat]
      /\ Len(made) \in Nat /\ Asked \in 0 .. MaxActs /\ win \in Windows
      /\ \A s \in 1 .. Len(made) : s \in Runs /\ made[s].message \in Runs
  BY Basics
<1>3. /\ e \in Events /\ Tail(events) \in Seq(Events)
      /\ EventsFit(Tail(events), svc) /\ OverFits(over, Tail(events), svc)
      /\ e.kind \in {"changed", "started"} \cup Terminal
      /\ IF e.kind = "changed" THEN r = 0 ELSE r \in svc.claims
      /\ r \notin over
      /\ e.kind \in Terminal => Past(svc, r) /\ \A i \in DOMAIN Tail(events) : Tail(events)[i].run # r
  BY <1>1, EventTaken DEF ServicePart
<1>4. svc.claims \subseteq 1 .. Len(made) /\ over \subseteq 1 .. Len(made) /\ status \in Statuses
      /\ StatusFits(status, svc) /\ svc \in Services
  BY DEF ServicePart, SvcFits
<1>5. ASSUME NEW w, Dispatches(w, turns, Asked), Even(win, turns, made) => Even(w, turns, made),
             "revived" \in gaps \/ Settled(w, over', status.run), gaps \subseteq gaps',
             over' \subseteq 1 .. Len(made), OverFits(over', Tail(events), svc),
             status' \in Statuses, StatusFits(status', svc), status'.run \in {0, status.run}
      PROVE  TurnInv'
  <2>1. WindowPart'
    BY <1>1, <1>5, DispatchedWindow
  <2>2. SvcFits(svc', turns', Len(made')) /\ 1 .. Len(made) \subseteq 1 .. Len(made')
    BY <1>1, <1>5, DispatchedService
  <2>3. ServicePart'
    BY <1>1, <1>3, <1>4, <1>5, <2>2 DEF ServicePart
  <2>4. "revived" \in gaps \/ Settled(win', over', status.run)
    BY <1>5, DispatchedEnds
  <2>5. "revived" \in gaps' \/ Settled(win', over', status'.run)
    <3>1. 0 \notin over'
      BY <1>5
    <3> QED BY <1>5, <2>4, <3>1 DEF Settled
  <2> QED BY <2>1, <2>3, <2>5 DEF TurnInv, EndsPart
<1>6. status.run \in {0, status.run}
  OBVIOUS
<1>7. "revived" \in gaps \/ Settled(win, over, status.run)
  BY DEF EndsPart
<1>8. CASE e.kind = "changed"
  <2>1. Stays(win, turns) /\ over' = over /\ gaps' = gaps
        /\ status' = IF repo /\ rebinds = << >> THEN Asks(svc.epoch) ELSE status
    BY <1>8 DEF Ingest
  <2>2. Dispatches(win, turns, Asked)
    BY <1>2, <2>1, StaysFits
  <2>3. status' \in Statuses /\ StatusFits(status', svc) /\ status'.run \in {0, status.run}
    <3>1. svc.epoch \in Nat /\ 0 \in MessageIds
      BY <1>4, ServiceFields, Basics
    <3>2. /\ Asks(svc.epoch) \in Statuses /\ StatusFits(Asks(svc.epoch), svc)
          /\ Asks(svc.epoch).run = 0
      BY <3>1 DEF Asks, NoStatus, Statuses, StatusFits
    <3> HIDE DEF e
    <3> QED BY <1>4, <2>1, <3>2
  <2> QED BY <1>3, <1>4, <1>5, <1>7, <2>1, <2>2, <2>3
<1>9. CASE e.kind = "started"
  <2> DEFINE w == Started(v, r)
  <2>1. Stays(w, turns) /\ over' = over /\ gaps' = gaps /\ status' = status
    BY <1>9 DEF Ingest, Seen, Started
  <2>2. r \in Runs
    BY <1>2, <1>3, <1>4, <1>9
  <2>3. /\ WindowOK(w, turns, made, Asked) /\ (Even(win, turns, made) => Even(w, turns, made))
        /\ \A s \in Runs : s # r => w.runs[s].phase = win.runs[s].phase
    BY <2>2, ShownStarted
  <2> HIDE DEF w
  <2>4. Dispatches(w, turns, Asked)
    BY <2>1, <2>3, StaysFits
  <2>5. "revived" \in gaps \/ Settled(w, over, status.run)
    BY <1>2, <1>3, <1>4, <1>7, <2>3 DEF Settled
  <2> QED BY <1>3, <1>4, <1>5, <1>6, <2>1, <2>3, <2>4, <2>5
<1>10. CASE e.kind \in Terminal /\ old
  <2>1. e.kind # "changed" /\ e.kind # "started"
    BY <1>10 DEF Terminal
  <2>2. Stays(win, turns) /\ over' = over /\ gaps \subseteq gaps' /\ status' = status
    BY <1>10, <2>1 DEF Ingest, Has
  <2>3. Dispatches(win, turns, Asked)
    BY <1>2, <2>2, StaysFits
  <2> QED BY <1>3, <1>4, <1>5, <1>6, <1>7, <2>2, <2>3
<1>11. CASE e.kind \in Terminal /\ ~old
  <2>1. e.kind # "changed" /\ e.kind # "started"
    BY <1>11 DEF Terminal
  <2>2. FinishRun(v, r, e.kind, e.answered) /\ over' = over \cup {r} /\ gaps \subseteq gaps'
        /\ status' = status
    BY <1>11, <2>1 DEF Ingest, Has, Seen
  <2>3. r \in 1 .. Len(made) /\ r \in svc.claims /\ r \in Runs /\ made[r].message \in Runs
    BY <1>2, <1>3, <1>4, <2>1
  <2>4. PICK w : /\ Dispatches(w, turns, Asked) /\ (Even(win, turns, made) => Even(w, turns, made))
                 /\ \A s \in Runs : s # r => w.runs[s].phase = win.runs[s].phase
                 /\ w.runs[r].phase \in Terminal
    BY <1>11, <2>2, <2>3, ShownEnded DEF EndOf
  <2>5. "revived" \in gaps \/ Settled(w, over', status.run)
    BY <1>2, <1>4, <1>7, <2>2, <2>4 DEF Settled
  <2>6. over' \subseteq 1 .. Len(made) /\ OverFits(over', Tail(events), svc)
    BY <1>3, <1>4, <1>11, <2>2, <2>3 DEF OverFits
  <2> QED BY <1>4, <1>5, <1>6, <2>2, <2>4, <2>5, <2>6
<1> QED BY <1>3, <1>8, <1>9, <1>10, <1>11

-----------------------------------------------------------------------------
\* The messages in play have been submitted.

\* The messages in play have been submitted: more of them only by a submission.
LEMMA SubmittedKept ==
  ASSUME WindowPart, Submitted, count' = count \/ Disturbs,
         InPlay(win', made') \subseteq InPlay(win, made)
  PROVE  Submitted'
BY Counts1 DEF Submitted

\* A window that knows no other messages.
LEMMA PlayShrinks ==
  ASSUME NEW v, NEW w, NEW mk, v.queue \in Seq(Prompts), w.queue \in Seq(Prompts),
         SameMessages(w.queue, v.queue),
         w.failed \in {0, v.failed} \cup {mk[r].message : r \in 1 .. Len(mk)}
  PROVE  InPlay(w, mk) \subseteq InPlay(v, mk)
BY DEF InPlay, SameMessages

\* A run that is started knows one message more.
LEMMA PlayStarts ==
  ASSUME NEW v \in Windows, NEW m, NEW others, made \in Seq(Made), m \in Runs, Starts(v, m, others)
  PROVE  InPlay(win', made') \subseteq InPlay(v, made) \cup {m}
<1> DEFINE x == [message |-> m, epoch |-> v.epoch]
           f == [v.runs EXCEPT ![Len(made) + 1] = [phase |-> "admitting", own |-> TRUE]]
<1>1. win' = [v EXCEPT !.active = Len(made) + 1, !.runs = f] /\ made' = Append(made, x)
  BY DEF Starts
<1>2. x \in Made /\ x.message = m
  BY WindowFields DEF Made
<1> HIDE DEF x, f
<1>3. win'.queue = v.queue /\ win'.failed = v.failed
  BY <1>1 DEF Windows
<1>4. /\ Len(made') = Len(made) + 1 /\ Len(made) \in Nat /\ made'[Len(made) + 1] = x
      /\ \A r \in 1 .. Len(made) : made'[r] = made[r]
  BY <1>1, <1>2, AppendProperties, LenProperties
<1>5. \A r \in 1 .. Len(made') : r = Len(made) + 1 \/ r \in 1 .. Len(made)
  BY <1>4
<1>6. \A r \in 1 .. Len(made') : made'[r].message = m \/ \E s \in 1 .. Len(made) : made'[r].message = made[s].message
  BY <1>2, <1>4, <1>5
<1> QED BY <1>3, <1>6 DEF InPlay

\* A dispatch knows no other messages.
LEMMA PlayDispatches ==
  ASSUME NEW v \in Windows, NEW others, made \in Seq(Made),
         DispatchQueued(v, others) \/ Stays(v, others)
  PROVE  InPlay(win', made') \subseteq InPlay(v, made)
<1> DEFINE ready == {i \in DOMAIN v.queue : v.queue[i].state = "queued"}
           i == Min(ready)
<1>1. v \in Windows /\ made \in Seq(Made) /\ v.queue \in Seq(Prompts) /\ Len(v.queue) \in Nat
      /\ DOMAIN v.queue = 1 .. Len(v.queue)
  BY WindowFields, LenProperties
<1>2. ASSUME ready # {} PROVE i \in 1 .. Len(v.queue)
  <2>1. ready \in SUBSET Nat
    BY <1>1
  <2>2. i \in ready
    BY <1>2, <2>1, LeastIn
  <2> HIDE DEF i
  <2> QED BY <1>1, <2>2
<1> HIDE DEF i
<1>3. CASE Stays(v, others)
  BY <1>3 DEF Stays
<1>4. CASE DispatchQueued(v, others) /\ ~(Busy(v) \/ ready = {}) /\ ~MaySend(v)
  <2> DEFINE e == [v.queue[i] EXCEPT !.state = "reopen-required"]
             p == [v.queue EXCEPT ![i] = e]
  <2>1. i \in 1 .. Len(v.queue) /\ v.queue[i] \in Prompts
    BY <1>1, <1>2, <1>4, ElementOfSeq
  <2>2. e \in Prompts /\ e.message = v.queue[i].message
    BY <2>1 DEF Prompts
  <2>3. win' = [v EXCEPT !.queue = p] /\ made' = made
    BY <1>4 DEF DispatchQueued, Stays, i
  <2> HIDE DEF e
  <2>4. p \in Seq(Prompts) /\ Len(p) = Len(v.queue)
        /\ \A j \in 1 .. Len(v.queue) : p[j] = IF j = i THEN e ELSE v.queue[j]
    BY <1>1, <2>1, <2>2, ExceptSeq
  <2>5. SameMessages(p, v.queue)
    BY <2>2, <2>4 DEF SameMessages
  <2> HIDE DEF p
  <2>6. win'.queue = p /\ win'.failed = v.failed
    BY <1>1, <2>3 DEF Windows
  <2> QED BY <1>1, <2>3, <2>4, <2>5, <2>6, PlayShrinks
<1>5. CASE DispatchQueued(v, others) /\ ~(Busy(v) \/ ready = {}) /\ MaySend(v)
  <2> DEFINE p == RemoveAt(v.queue, i)
             w == [v EXCEPT !.queue = p]
             m == v.queue[i].message
  <2>1. i \in 1 .. Len(v.queue) /\ v.queue[i] \in Prompts
    BY <1>1, <1>2, <1>5, ElementOfSeq
  <2>2. m \in Runs /\ m \in InPlay(v, made)
    BY <2>1 DEF Prompts, InPlay
  <2>3. Starts(w, m, others)
    BY <1>5 DEF DispatchQueued, i
  <2>4. /\ p \in Seq(Prompts) /\ Len(p) = Len(v.queue) - 1
        /\ \A j \in 1 .. Len(v.queue) - 1 : p[j] = IF j < i THEN v.queue[j] ELSE v.queue[j + 1]
    BY <1>1, <2>1, Removing
  <2>5. \A j \in 1 .. Len(p) : \E k \in 1 .. Len(v.queue) : p[j].message = v.queue[k].message
    <3> SUFFICES ASSUME NEW j \in 1 .. Len(p)
                 PROVE  \E k \in 1 .. Len(v.queue) : p[j].message = v.queue[k].message
      OBVIOUS
    <3>1. j \in 1 .. Len(v.queue) - 1 /\ p[j] = IF j < i THEN v.queue[j] ELSE v.queue[j + 1]
      BY <2>4
    <3>2. j \in 1 .. Len(v.queue) /\ j + 1 \in 1 .. Len(v.queue)
      BY <1>1, <3>1
    <3> QED BY <3>1, <3>2
  <2> HIDE DEF p
  <2>6. w \in Windows /\ w.queue = p /\ w.failed = v.failed
    BY <1>1, <2>4 DEF Windows
  <2> HIDE DEF w, m
  <2>7. InPlay(w, made) \subseteq InPlay(v, made)
    <3> SUFFICES ASSUME NEW x \in InPlay(w, made) PROVE x \in InPlay(v, made)
      OBVIOUS
    <3>1. CASE \E j \in 1 .. Len(p) : x = p[j].message
      BY <2>5, <3>1 DEF InPlay
    <3>2. CASE ~(\E j \in 1 .. Len(p) : x = p[j].message)
      BY <2>6, <3>2 DEF InPlay
    <3> QED BY <3>1, <3>2
  <2>8. InPlay(win', made') \subseteq InPlay(w, made) \cup {m}
    BY <1>1, <2>2, <2>3, <2>6, PlayStarts
  <2> QED BY <2>2, <2>7, <2>8
<1>6. CASE DispatchQueued(v, others) /\ (Busy(v) \/ ready = {})
  <2>1. Stays(v, others)
    BY <1>6 DEF DispatchQueued
  <2> QED BY <2>1 DEF Stays
<1> QED BY <1>3, <1>4, <1>5, <1>6

\* Giving a pending consent up knows no other messages.
LEMMA PlayReleased ==
  ASSUME WindowPart, win.pending # 0
  PROVE  InPlay(Released(win), made) \subseteq InPlay(win, made)
<1> DEFINE w == Released(win)
<1>1. win \in Windows /\ win.queue \in Seq(Prompts) /\ win.pending \in 1 .. Len(made)
  BY Basics
<1>2. w.queue = win.queue
  BY Basics, ReleasedFits
<1>3. w.failed = made[win.pending].message
  BY <1>1 DEF Released, Windows
<1> HIDE DEF w
<1>4. SameMessages(w.queue, win.queue)
  BY <1>2 DEF SameMessages
<1> QED BY <1>1, <1>2, <1>3, <1>4, PlayShrinks DEF w

\* A window that differs only in its runs, or in what waits for it.
LEMMA PlaySame ==
  ASSUME NEW v, NEW w, NEW mk, w.queue = v.queue, w.failed = v.failed
  PROVE  InPlay(w, mk) = InPlay(v, mk)
BY DEF InPlay

\* A submission.
LEMMA SubmitPlay == TurnInv /\ Submitted /\ Submit => Submitted'
<1> SUFFICES ASSUME WindowPart, Submitted, Submit PROVE Submitted'
  BY DEF TurnInv
<1> DEFINE v == Fresh(win)
           m == count.messages + 1
           e == [message |-> m, state |-> "queued"]
           P == InPlay(win, made)
<1>1. v \in Windows /\ WindowOK(v, turns, made, Asked)
  BY FreshBefore DEF Before
<1>2. count \in Counts /\ count.messages \in Nat /\ count.others \in Nat
      /\ count.messages + count.others < MaxActs /\ count' = [count EXCEPT !["messages"] = @ + 1]
  BY DEF WindowPart, Counts, Submit, Acts
<1>3. count'.messages = m
  BY <1>2 DEF Counts
<1>4. m \in Runs
  BY <1>2, TurnBounds DEF Runs
<1>5. InPlay(v, made) \subseteq P
  <2>1. CASE Lapsed(win)
    BY <2>1, PlayReleased DEF Fresh, Lapsed
  <2>2. CASE ~Lapsed(win)
    BY <2>2 DEF Fresh
  <2> QED BY <2>1, <2>2
<1>6. made \in Seq(Made) /\ v.queue \in Seq(Prompts) /\ Len(v.queue) \in Nat
  BY <1>1, Basics, WindowFields, LenProperties
<1>7. IF Busy(v) THEN Stays([v EXCEPT !.queue = Append(@, e)], turns) ELSE Starts(v, m, turns)
  BY DEF Submit
<1>8. e \in Prompts /\ e.message = m
  BY <1>4 DEF Prompts
<1> HIDE DEF v, m, e
<1>9. ASSUME InPlay(win', made') \subseteq P \cup {m} PROVE Submitted'
  <2>1. \A x \in P : x \in Nat /\ x <= count.messages
    <3>1. \A r \in 1 .. Len(made) : made[r].message \in Nat
      <4>1. \A r \in 1 .. Len(made) : made[r].message \in Runs
        BY Basics
      <4> QED BY <4>1, TurnBounds DEF Runs
    <3>2. \A i \in 1 .. Len(win.queue) : win.queue[i].message \in Nat
      <4>1. \A i \in 1 .. Len(win.queue) : win.queue[i] \in Prompts
        BY Basics, ElementOfSeq
      <4> QED BY <4>1, TurnBounds DEF Prompts, Runs
    <3>3. win.failed \in Nat
      BY Basics, WindowFields, TurnBounds DEF MessageIds
    <3> QED BY <3>1, <3>2, <3>3 DEF Submitted, InPlay
  <2>2. \A x \in P \cup {m} : x <= m
    BY <1>2, <2>1 DEF m
  <2> HIDE DEF P
  <2> QED BY <1>3, <1>9, <2>2 DEF Submitted
<1>10. CASE Busy(v)
  <2> DEFINE q == Append(v.queue, e)
  <2>1. win' = [v EXCEPT !.queue = q] /\ made' = made
    BY <1>7, <1>10 DEF Stays
  <2>2. /\ Len(q) = Len(v.queue) + 1 /\ q[Len(v.queue) + 1] = e
        /\ \A i \in 1 .. Len(v.queue) : q[i] = v.queue[i]
    BY <1>6, <1>8, AppendProperties
  <2> HIDE DEF q
  <2>3. win'.queue = q /\ win'.failed = v.failed
    BY <1>1, <2>1 DEF Windows
  <2>4. \A i \in 1 .. Len(q) : i = Len(v.queue) + 1 \/ i \in 1 .. Len(v.queue)
    BY <1>6, <2>2
  <2>5. \A i \in 1 .. Len(q) : q[i].message = m \/ \E j \in 1 .. Len(v.queue) : q[i].message = v.queue[j].message
    BY <1>8, <2>2, <2>4
  <2>6. InPlay(win', made') \subseteq InPlay(v, made) \cup {m}
    BY <2>1, <2>3, <2>5 DEF InPlay
  <2> QED BY <1>5, <2>6, <1>9
<1>11. CASE ~Busy(v)
  <2>1. InPlay(win', made') \subseteq InPlay(v, made) \cup {m}
    BY <1>1, <1>4, <1>6, <1>7, <1>11, PlayStarts
  <2> QED BY <1>5, <2>1, <1>9
<1> QED BY <1>10, <1>11

-----------------------------------------------------------------------------
\* Which the steps of the user and the arrivals keep.

\* What the user does, apart from submitting.
LEMMA UserPlay ==
  TurnInv /\ Submitted
    /\ (AllowAndSend \/ RetryLastFailed \/ ClearConversation \/ (\E r \in Runs : CancelRun(r))
        \/ Leave \/ Enter)
  => Submitted'
<1> SUFFICES ASSUME WindowPart, ServicePart, Submitted,
                    AllowAndSend \/ RetryLastFailed \/ ClearConversation
                      \/ (\E r \in Runs : CancelRun(r)) \/ Leave \/ Enter
             PROVE  Submitted'
  BY DEF TurnInv
<1> USE DEF SameMessages
<1>1. /\ win \in Windows /\ win.queue \in Seq(Prompts) /\ win.runs \in [Runs -> RunViews]
      /\ made \in Seq(Made) /\ Len(win.queue) \in Nat
  BY Basics, WindowFields
<1>2. CASE AllowAndSend
  <2>1. count' = count /\ made' = made
    BY <1>2 DEF AllowAndSend, Stays
  <2>2. CASE Lapsed(win)
    <3>1. win' = Released(win) /\ win.pending # 0
      BY <1>2, <2>2 DEF AllowAndSend, Stays, Lapsed
    <3> QED BY <2>1, <3>1, PlayReleased, SubmittedKept
  <2>3. CASE ~Lapsed(win)
    <3> DEFINE f == [win.runs EXCEPT ![win.pending].phase = "admitting"]
    <3>1. win' = [win EXCEPT !.runs = f]
      BY <1>2, <2>3 DEF AllowAndSend, Stays
    <3> HIDE DEF f
    <3>2. win'.queue = win.queue /\ win'.failed = win.failed
      BY <1>1, <3>1 DEF Windows
    <3> QED BY <2>1, <3>2, PlaySame, SubmittedKept
  <2> QED BY <2>2, <2>3
<1>3. CASE RetryLastFailed
  <2> DEFINE v == Fresh(win)
             w == [v EXCEPT !.failed = 0]
             m == v.failed
  <2>1. Disturbs /\ m # 0 /\ Starts(w, m, turns) /\ v \in Windows
    BY <1>3, FreshBefore DEF RetryLastFailed
  <2>2. m \in Runs /\ 0 \in MessageIds
    BY <2>1, WindowFields, TurnBounds DEF MessageIds, Runs
  <2>3. InPlay(v, made) \subseteq InPlay(win, made)
    <3>1. CASE Lapsed(win)
      BY <3>1, PlayReleased DEF Fresh, Lapsed
    <3>2. CASE ~Lapsed(win)
      BY <3>2 DEF Fresh
    <3> QED BY <3>1, <3>2
  <2>4. m \in InPlay(v, made)
    BY <2>1 DEF InPlay
  <2> HIDE DEF v
  <2>5. w \in Windows /\ w.queue = v.queue /\ w.failed = 0
    BY <2>1, <2>2 DEF Windows
  <2> HIDE DEF w, m
  <2>6. InPlay(w, made) \subseteq InPlay(v, made)
    BY <2>5 DEF InPlay
  <2>7. InPlay(win', made') \subseteq InPlay(w, made) \cup {m}
    BY <1>1, <2>1, <2>2, <2>5, PlayStarts
  <2> QED BY <2>1, <2>3, <2>4, <2>6, <2>7, SubmittedKept
<1>4. CASE ClearConversation
  <2> DEFINE f == [r \in Runs |-> NoRun]
  <2>1. Disturbs /\ made' = made /\ win' = [win EXCEPT !.runs = f, !.queue = << >>, !.failed = 0]
    BY <1>4 DEF ClearConversation
  <2> HIDE DEF f
  <2>2. win'.queue = << >> /\ win'.failed = 0
    BY <1>1, <2>1 DEF Windows
  <2>3. \A i \in 1 .. Len(win'.queue) : FALSE
    BY <2>2, EmptySeq
  <2>4. InPlay(win', made') \subseteq InPlay(win, made)
    BY <2>1, <2>2, <2>3 DEF InPlay
  <2> QED BY <2>1, <2>4, SubmittedKept
<1>5. CASE \E r \in Runs : CancelRun(r)
  <2> SUFFICES ASSUME NEW r \in Runs, CancelRun(r) PROVE Submitted'
    BY <1>5
  <2>1. Disturbs /\ made' = made
    BY DEF CancelRun
  <2>2. CASE win.pending = r /\ Lapsed(win)
    <3>1. win' = Released(win) /\ win.pending # 0
      BY <2>2 DEF CancelRun, Lapsed
    <3> QED BY <2>1, <3>1, PlayReleased, SubmittedKept
  <2>3. CASE ~(win.pending = r /\ Lapsed(win))
    <3> DEFINE f == [win.runs EXCEPT ![r].phase = "canceling"]
    <3>1. win' = [win EXCEPT !.runs = f]
      BY <2>3 DEF CancelRun
    <3> HIDE DEF f
    <3>2. win'.queue = win.queue /\ win'.failed = win.failed
      BY <1>1, <3>1 DEF Windows
    <3> QED BY <2>1, <3>2, PlaySame, SubmittedKept
  <2> QED BY <2>2, <2>3
<1>6. CASE Leave
  <2>1. Disturbs /\ made' = made /\ win' = Shelved(win)
    BY <1>6 DEF Leave
  <2> DEFINE w == Shelved(win)
  <2>2. /\ w \in Windows /\ w.failed = win.failed
        /\ win.pending = 0 => SameMessages(w.queue, win.queue)
        /\ win.pending # 0 =>
             \E e \in Prompts : /\ e.message = made[win.pending].message
                                /\ SameMessages(w.queue, Append(win.queue, e))
    BY ShelvedIs
  <2>3. win.pending # 0 => win.pending \in 1 .. Len(made)
    BY Basics
  <2> HIDE DEF w
  <2>4. \A i \in 1 .. Len(w.queue) : w.queue[i].message \in InPlay(win, made)
    <3> SUFFICES ASSUME NEW i \in 1 .. Len(w.queue) PROVE w.queue[i].message \in InPlay(win, made)
      OBVIOUS
    <3>1. CASE win.pending = 0
      BY <2>2, <3>1 DEF InPlay
    <3>2. CASE win.pending # 0
      <4>1. PICK e \in Prompts : /\ e.message = made[win.pending].message
                                 /\ SameMessages(w.queue, Append(win.queue, e))
        BY <2>2, <3>2
      <4>2. /\ Len(Append(win.queue, e)) = Len(win.queue) + 1
            /\ Append(win.queue, e)[Len(win.queue) + 1] = e
            /\ \A j \in 1 .. Len(win.queue) : Append(win.queue, e)[j] = win.queue[j]
        BY <1>1, AppendProperties
      <4>3. i = Len(win.queue) + 1 \/ i \in 1 .. Len(win.queue)
        BY <1>1, <4>1, <4>2
      <4>4. w.queue[i].message = Append(win.queue, e)[i].message
        BY <4>1
      <4>5. CASE i = Len(win.queue) + 1
        BY <2>3, <3>2, <4>1, <4>2, <4>4, <4>5 DEF InPlay
      <4>6. CASE i \in 1 .. Len(win.queue)
        BY <4>2, <4>4, <4>6 DEF InPlay
      <4> QED BY <4>3, <4>5, <4>6
    <3> QED BY <3>1, <3>2
  <2>5. InPlay(w, made) \subseteq InPlay(win, made)
    <3>1. w.failed = win.failed
      BY <2>2
    <3>2. ASSUME NEW m \in InPlay(w, made) PROVE m \in InPlay(win, made)
      <4>1. CASE \E i \in 1 .. Len(w.queue) : m = w.queue[i].message
        BY <2>4, <4>1
      <4>2. CASE ~(\E i \in 1 .. Len(w.queue) : m = w.queue[i].message)
        BY <3>1, <3>2, <4>2 DEF InPlay
      <4> QED BY <4>1, <4>2
    <3> QED BY <3>2
  <2> QED BY <2>1, <2>5, SubmittedKept DEF w
<1>7. CASE Enter
  <2>1. count' = count /\ made' = made /\ win' = [win EXCEPT !.phase = "binding"]
    BY <1>7 DEF Enter
  <2>2. win'.queue = win.queue /\ win'.failed = win.failed
    BY <1>1, <2>1 DEF Windows
  <2> QED BY <2>1, <2>2, PlaySame, SubmittedKept
<1> QED BY <1>2, <1>3, <1>4, <1>5, <1>6, <1>7

\* A status and an event.
LEMMA ArrivalsPlay == TurnInv /\ Submitted /\ (HydrateStatus \/ Ingest) => Submitted'
<1> SUFFICES ASSUME WindowPart, ServicePart, EndsPart, Submitted, HydrateStatus \/ Ingest
             PROVE  Submitted'
  BY DEF TurnInv
<1>1. /\ win \in Windows /\ win.queue \in Seq(Prompts) /\ win.runs \in [Runs -> RunViews]
      /\ made \in Seq(Made) /\ WindowOK(win, turns, made, Asked) /\ Asked \in 0 .. MaxActs
  BY Basics, WindowFields
<1>2. count' = count
  BY DEF HydrateStatus, Ingest
<1>3. ASSUME NEW v \in Windows, InPlay(v, made) \subseteq InPlay(win, made),
             DispatchQueued(v, turns) \/ Stays(v, turns)
      PROVE  Submitted'
  <2>1. InPlay(win', made') \subseteq InPlay(v, made)
    BY <1>1, <1>3, PlayDispatches
  <2> QED BY <1>2, <1>3, <2>1, SubmittedKept
<1>4. ASSUME Stays(win, turns) PROVE Submitted'
  BY <1>1, <1>3, <1>4
<1>5. CASE HydrateStatus
  <2>1. CASE status.found = 0
    <3>1. win' = [win EXCEPT !.phase = "error", !.hydrated = 0] /\ made' = made
      BY <1>5, <2>1 DEF HydrateStatus, Stays
    <3>2. win'.queue = win.queue /\ win'.failed = win.failed
      BY <1>1, <3>1 DEF Windows
    <3> QED BY <1>2, <3>1, <3>2, PlaySame, SubmittedKept
  <2>2. CASE status.found # 0 /\ status.found < win.floor
    BY <1>4, <1>5, <2>2 DEF HydrateStatus
  <2>3. CASE status.found # 0 /\ ~(status.found < win.floor)
    <3> DEFINE v == Adopted(Opened)
    <3>1. DispatchQueued(v, turns) \/ Stays(v, turns)
      BY <1>5, <2>3 DEF HydrateStatus, Opened
    <3>2. v \in Windows /\ SameMessages(v.queue, win.queue) /\ v.failed = win.failed
      BY AdoptedFits DEF WindowOK
    <3> HIDE DEF v
    <3>3. InPlay(v, made) \subseteq InPlay(win, made)
      BY <3>2 DEF InPlay, SameMessages
    <3> QED BY <1>3, <3>1, <3>2, <3>3
  <2> QED BY <2>1, <2>2, <2>3
<1>6. CASE Ingest
  <2> DEFINE e == Head(events)
             r == e.run
             v == Seen(r)
             old == e.via = "status" /\ win.epoch # made[r].epoch
  <2>1. CASE e.kind = "changed"
    BY <1>4, <1>6, <2>1 DEF Ingest
  <2>2. ASSUME e.kind # "changed" PROVE r \in 1 .. Len(made) /\ r \in Runs
    <3>1. r \in svc.claims
      BY <1>6, <2>2, EventTaken DEF ServicePart, Ingest
    <3>2. svc.claims \subseteq 1 .. Len(made)
      BY DEF ServicePart, SvcFits
    <3> QED BY <3>1, <3>2, Basics
  <2>3. CASE e.kind = "started"
    <3> DEFINE w == Started(v, r)
    <3>1. Stays(w, turns)
      BY <1>6, <2>3 DEF Ingest, Seen, Started
    <3>2. w \in Windows /\ w.queue = win.queue /\ w.failed = win.failed
      BY <2>2, <2>3, ShownStarted DEF WindowOK
    <3> HIDE DEF w
    <3> QED BY <1>3, <3>1, <3>2, PlaySame
  <2>4. CASE e.kind # "changed" /\ e.kind # "started"
    <3>1. IF old THEN Stays(win, turns) ELSE FinishRun(v, r, e.kind, e.answered)
      BY <1>6, <2>4 DEF Ingest, Seen
    <3>2. CASE old
      BY <1>4, <3>1, <3>2
    <3>3. CASE FinishRun(v, r, e.kind, e.answered)
      <4>1. /\ WindowOK(v, turns, made, Asked) /\ v.queue = win.queue /\ v.failed = win.failed
            /\ r \in 1 .. Len(made)
        BY <2>2, <2>4, SeenFits
      <4>2. e.kind \in Terminal
        BY <1>6, <2>4, EventTaken DEF ServicePart, Ingest
      <4>3. v \in Windows
        BY <4>1 DEF WindowOK
      <4> HIDE DEF v, e
      <4>4. CASE Stays(v, turns)
        <5>1. InPlay(v, made) = InPlay(win, made)
          BY <4>1, PlaySame
        <5> QED BY <1>3, <4>3, <4>4, <5>1
      <4>5. CASE ~Ended(v, r)
        <5> DEFINE failed == e.kind = "failed" \/ (e.kind = "done" /\ ~e.answered)
                   kept == IF v.pending = r THEN made[r].message
                           ELSE IF failed /\ v.runs[r].own THEN made[r].message ELSE v.failed
                   f == [v.runs EXCEPT ![r].phase = e.kind]
                   a == Free(v, r)
                   q == IF v.pending = r THEN 0 ELSE v.pending
                   w == [v EXCEPT !.runs = f, !.active = a, !.failed = kept, !.pending = q]
        <5>1. DispatchQueued(w, turns)
          BY <3>3, <4>5 DEF FinishRun
        <5>2. kept = v.failed \/ kept = made[r].message
          OBVIOUS
        <5>3. f \in [Runs -> RunViews]
          <6>1. v.runs \in [Runs -> RunViews] /\ e.kind \in RunPhases
            BY <4>2, <4>3, WindowFields DEF RunPhases
          <6> QED BY <6>1, PhaseSet
        <5>4. /\ a \in MessageIds /\ q \in MessageIds
          BY <4>3, Basics, WindowFields DEF Free
        <5>5. kept \in MessageIds
          BY <4>1, <4>3, <5>2, Basics, WindowFields
        <5> HIDE DEF f, a, q, kept
        <5>6. w \in Windows /\ w.queue = v.queue /\ w.failed = kept
          BY <4>3, <5>3, <5>4, <5>5 DEF Windows
        <5> HIDE DEF w
        <5>7. InPlay(w, made) \subseteq InPlay(win, made)
          BY <4>1, <5>2, <5>6 DEF InPlay
        <5> QED BY <1>3, <5>1, <5>6, <5>7
      <4> QED BY <3>3, <4>4, <4>5 DEF FinishRun
    <3> QED BY <3>1, <3>2, <3>3
  <2> QED BY <2>1, <2>3, <2>4
<1> QED BY <1>5, <1>6

-----------------------------------------------------------------------------
\* The theorems.

\* Answers of turns and of cancels.
LEMMA AnswersPlay ==
  TurnInv /\ Submitted
    /\ ((\E c \in turns : TurnReturns(c)) \/ (\E c \in cancels : CancelReturns(c)))
  => Submitted'
<1> SUFFICES ASSUME WindowPart, Submitted,
                    (\E c \in turns : TurnReturns(c)) \/ (\E c \in cancels : CancelReturns(c))
             PROVE  Submitted'
  BY DEF TurnInv
<1>1. /\ win \in Windows /\ win.queue \in Seq(Prompts) /\ turns \in SUBSET Calls
      /\ WindowFits(win, turns, made, Asked)
  BY Basics DEF WindowOK
<1>2. ASSUME made' = made, count' = count, win'.queue = win.queue,
             win'.failed \in {0, win.failed} \cup {made[r].message : r \in 1 .. Len(made)}
      PROVE  Submitted'
  <2>1. InPlay(win', made') \subseteq InPlay(win, made)
    BY <1>1, <1>2, PlayShrinks DEF SameMessages
  <2> QED BY <1>2, <2>1, SubmittedKept
<1>3. CASE \E c \in turns : TurnReturns(c)
  <2> SUFFICES ASSUME NEW c \in turns, TurnReturns(c) PROVE Submitted'
    BY <1>3
  <2> DEFINE r == c.run
  <2>1. made' = made /\ count' = count /\ r \in 1 .. Len(made)
    BY <1>1 DEF TurnReturns, WindowFits
  <2>2. CASE win' = win
    BY <1>2, <2>1, <2>2
  <2>3. ASSUME win'.queue = win.queue, win'.failed = win.failed \/ win'.failed = made[r].message
        PROVE  Submitted'
    BY <1>2, <2>1, <2>3
  <2> DEFINE f == [win.runs EXCEPT ![r].phase = "running"]
             g == [win.runs EXCEPT ![r].phase = "needs-consent"]
             h == [win.runs EXCEPT ![r].phase = "failed"]
             a == IF win.active = 0 THEN r ELSE win.active
             q == IF win.pending = r THEN 0 ELSE win.pending
             b == Free(win, r)
             m == IF win.runs[r].own THEN made[r].message ELSE win.failed
  <2>4. \/ win' = win
        \/ win' = [win EXCEPT !.runs = f, !.active = a, !.pending = q]
        \/ win' = [win EXCEPT !.runs = g, !.active = r, !.pending = r]
        \/ win' = [win EXCEPT !.runs = g]
        \/ win' = [win EXCEPT !.runs = h, !.active = b, !.failed = m]
    BY DEF TurnReturns
  <2>5. m = win.failed \/ m = made[r].message
    OBVIOUS
  <2> HIDE DEF f, g, h, a, q, b, m
  <2>6. CASE win' = [win EXCEPT !.runs = f, !.active = a, !.pending = q]
    BY <1>1, <2>3, <2>6 DEF Windows
  <2>7. CASE win' = [win EXCEPT !.runs = g, !.active = r, !.pending = r]
    BY <1>1, <2>3, <2>7 DEF Windows
  <2>8. CASE win' = [win EXCEPT !.runs = g]
    BY <1>1, <2>3, <2>8 DEF Windows
  <2>9. CASE win' = [win EXCEPT !.runs = h, !.active = b, !.failed = m]
    BY <1>1, <2>3, <2>5, <2>9 DEF Windows
  <2> QED BY <2>2, <2>4, <2>6, <2>7, <2>8, <2>9
<1>4. CASE \E c \in cancels : CancelReturns(c)
  <2> SUFFICES ASSUME NEW c \in cancels, CancelReturns(c) PROVE Submitted'
    BY <1>4
  <2>1. made' = made /\ count' = count /\ c.run # 0
    <3>1. c.run \in Runs
      BY Basics DEF Cancels
    <3> QED BY <3>1, Basics DEF CancelReturns
  <2>2. CASE win' = win
    BY <1>2, <2>1, <2>2
  <2>3. CASE win.pending = c.run /\ win' = Released(win)
    BY <2>1, <2>3, PlayReleased, SubmittedKept
  <2>4. CASE win' = [win EXCEPT !.runs[c.run].phase = c.before]
    <3> DEFINE f == [win.runs EXCEPT ![c.run].phase = c.before]
    <3>1. win' = [win EXCEPT !.runs = f]
      BY <2>4
    <3> HIDE DEF f
    <3>2. win'.queue = win.queue /\ win'.failed = win.failed
      BY <1>1, <3>1 DEF Windows
    <3> QED BY <1>2, <2>1, <3>2
  <2> QED BY <2>2, <2>3, <2>4 DEF CancelReturns
<1> QED BY <1>3, <1>4

\* The steps of the service, and those that leave everything alone.
LEMMA ServicePlay ==
  TurnInv /\ Submitted
    /\ (Rebinds \/ RunStarted \/ RunEnds \/ EmitsEnd \/ StatusServed \/ Change \/ Expire
        \/ (\E c \in turns : StartTurn(c)) \/ (\E c \in cancels : CancelServed(c))
        \/ UNCHANGED turnVars)
  => Submitted'
<1> SUFFICES ASSUME WindowPart, Submitted,
                    Rebinds \/ RunStarted \/ RunEnds \/ EmitsEnd \/ StatusServed \/ Change \/ Expire
                      \/ (\E c \in turns : StartTurn(c)) \/ (\E c \in cancels : CancelServed(c))
                      \/ UNCHANGED turnVars
             PROVE  Submitted'
  BY DEF TurnInv
<1>1. win' = win /\ made' = made
  BY DEF Rebinds, RunStarted, RunEnds, EmitsEnd, StatusServed, Change, Expire, StartTurn,
         CancelServed, turnVars
<1>2. count' = count \/ Disturbs
  <2>1. ASSUME NEW c \in turns, StartTurn(c) PROVE count' = count \/ Disturbs
    BY <2>1 DEF StartTurn, Launches
  <2> QED BY <2>1 DEF Rebinds, RunStarted, RunEnds, EmitsEnd, StatusServed, Change, Expire,
                      CancelServed, turnVars
<1> QED BY <1>1, <1>2, SubmittedKept

\* The initial states.
LEMMA TurnBegins == TurnInit => TurnInv /\ Submitted
<1> SUFFICES ASSUME TurnInit PROVE TurnInv /\ Submitted
  OBVIOUS
<1> DEFINE f == [r \in Runs |-> NoRun]
           z == [m \in Runs |-> 0]
<1>1. 0 \in MessageIds /\ MaxActs \in Nat
  BY TurnBounds DEF MessageIds
<1>2. f \in [Runs -> RunViews] /\ z \in [Runs -> Nat] /\ \A m \in Runs : z[m] = 0
  BY DEF NoRun, RunViews, RunPhases
<1>3. << >> \in Seq(Prompts) /\ << >> \in Seq(Made) /\ << >> \in Seq(Events) /\ Len(<< >>) = 0
  BY EmptySeq
<1> HIDE DEF f, z
<1>4. /\ win = [phase |-> "ready", hydrated |-> 1, floor |-> 1, epoch |-> 1, available |-> TRUE,
                active |-> 0, pending |-> 0, failed |-> 0, queue |-> << >>, runs |-> f]
      /\ made = << >> /\ turns = {} /\ cancels = {} /\ status = NoStatus
      /\ events = << >> /\ over = {} /\ launches = z /\ wanted = z
      /\ count = [messages |-> 0, others |-> 0]
  BY DEF TurnInit, f, z
<1>5. /\ win \in Windows /\ win.queue = << >> /\ win.pending = 0 /\ win.active = 0 /\ win.failed = 0
      /\ count \in Counts /\ count.messages = 0 /\ count.others = 0
  BY <1>1, <1>2, <1>3, <1>4 DEF Windows, Counts
<1>6. Asked = 0
  BY <1>5 DEF Asked
<1>7. WindowOK(win, turns, made, Asked)
  BY <1>3, <1>4, <1>5, <1>6 DEF WindowOK, WindowFits
<1>8. Even(win, turns, made)
  <2>1. LiveRuns(win, turns) = {}
    BY <1>4, <1>5, TurnBounds DEF LiveRuns, Prompting, Runs
  <2> SUFFICES ASSUME NEW m \in Runs
               PROVE  launches[m] + Cardinality(Staged(<< >>, m)) + Cardinality(Carriers({}, made, m))
                        <= wanted[m]
    BY <1>5, <2>1 DEF Even, Balance
  <2>2. Staged(<< >>, m) = {} /\ Carriers({}, made, m) = {}
    BY DEF Staged, Carriers
  <2>3. Cardinality(Staged(<< >>, m)) = 0 /\ Cardinality(Carriers({}, made, m)) = 0
    BY <2>2, FS_EmptySet
  <2> QED BY <1>2, <1>4, <2>3
<1>9. WindowPart
  BY <1>1, <1>2, <1>4, <1>5, <1>6, <1>7, <1>8 DEF WindowPart
<1>10. svc \in Services /\ svc.claims = {} /\ svc.challenge = 0 /\ svc.run = 0 /\ svc.last.run = 0
  BY <1>1 DEF TurnInit, Services, Events, Event
<1>11. NoStatus \in Statuses /\ StatusFits(NoStatus, svc)
  BY <1>1 DEF NoStatus, Statuses, StatusFits
<1>12. ServicePart
  <2>1. SvcFits(svc, turns, Len(made))
    BY <1>4, <1>10 DEF SvcFits
  <2>2. EventsFit(events, svc) /\ OverFits(over, events, svc)
    BY <1>4 DEF EventsFit, OverFits
  <2> QED BY <1>3, <1>4, <1>10, <1>11, <2>1, <2>2 DEF ServicePart
<1>13. EndsPart
  BY <1>4 DEF EndsPart, Settled
<1>14. Submitted
  <2>1. \A i : i \notin 1 .. Len(<< >>)
    BY <1>3
  <2>2. InPlay(win, made) = {}
    BY <1>4, <1>5, <2>1 DEF InPlay
  <2> QED BY <2>2 DEF Submitted
<1> QED BY <1>9, <1>12, <1>13, <1>14 DEF TurnInv

\* A step that changes nothing.
LEMMA TurnStutters == TurnInv /\ UNCHANGED turnVars => TurnInv'
<1> SUFFICES ASSUME WindowPart, ServicePart, EndsPart, UNCHANGED turnVars PROVE TurnInv'
  BY DEF TurnInv
<1> USE DEF turnVars
<1>1. WindowPart'
  BY WindowStill DEF WindowPart
<1>2. ServicePart'
  BY ServiceStill DEF ServicePart
<1>3. EndsPart'
  BY EndsStill
<1> QED BY <1>1, <1>2, <1>3 DEF TurnInv

\* Every step keeps the invariant.
LEMMA TurnSteps == TurnInv /\ Submitted /\ [TurnNext]_turnVars => TurnInv' /\ Submitted'
<1> SUFFICES ASSUME TurnInv, Submitted, [TurnNext]_turnVars PROVE TurnInv' /\ Submitted'
  OBVIOUS
<1>1. CASE Submit
  BY <1>1, SubmitStep, SubmitPlay
<1>2. CASE AllowAndSend
  BY <1>2, AllowStep, UserPlay
<1>3. CASE RetryLastFailed
  BY <1>3, RetryStep, UserPlay
<1>4. CASE ClearConversation
  BY <1>4, ClearStep, UserPlay
<1>5. CASE \E r \in Runs : CancelRun(r)
  BY <1>5, CancelRunStep, UserPlay
<1>6. CASE Leave \/ Enter
  BY <1>6, LeaveStep, EnterStep, UserPlay
<1>7. CASE Change \/ Expire
  BY <1>7, ChangeStep, ExpireStep, ServicePlay
<1>8. CASE HydrateStatus \/ Ingest
  BY <1>8, HydrateStep, IngestStep, ArrivalsPlay
<1>9. CASE Rebinds \/ RunStarted \/ RunEnds \/ EmitsEnd \/ StatusServed
  BY <1>9, RebindsStep, RunStartedStep, RunEndsStep, EmitsEndStep, StatusServedStep, ServicePlay
<1>10. CASE \E c \in turns : StartTurn(c)
  BY <1>10, StartTurnStep, ServicePlay
<1>11. CASE \E c \in turns : TurnReturns(c)
  BY <1>11, TurnReturnsStep, AnswersPlay
<1>12. CASE \E c \in cancels : CancelServed(c)
  BY <1>12, CancelServedStep, ServicePlay
<1>13. CASE \E c \in cancels : CancelReturns(c)
  BY <1>13, CancelReturnsStep, AnswersPlay
<1>14. CASE UNCHANGED turnVars
  BY <1>14, TurnStutters, ServicePlay
<1> QED BY <1>1, <1>2, <1>3, <1>4, <1>5, <1>6, <1>7, <1>8, <1>9, <1>10, <1>11, <1>12, <1>13, <1>14
        DEF TurnNext, TurnContinues

\* The invariant of the conversation, in every reachable state.
THEOREM TurnInvariance == TurnSpec => [](TurnInv /\ Submitted)
<1>1. TurnInit => TurnInv /\ Submitted
  BY TurnBegins
<1>2. TurnInv /\ Submitted /\ [TurnNext]_turnVars => (TurnInv /\ Submitted)'
  BY TurnSteps
<1> QED BY <1>1, <1>2, PTL DEF TurnSpec

\* It says that no message runs more often than it was asked for.
LEMMA AskedFor == WindowPart => OncePerAsking
<1> SUFFICES ASSUME WindowPart, "shelved" \notin gaps, NEW m \in DOMAIN wanted
             PROVE  launches[m] <= wanted[m]
  BY DEF OncePerAsking
<1>1. /\ m \in Runs /\ launches[m] \in Nat /\ wanted[m] \in Nat
      /\ win.queue \in Seq(Prompts) /\ LiveRuns(win, turns) \in SUBSET Runs
  BY Basics DEF LiveRuns
<1>2. launches[m] + Cardinality(Staged(win.queue, m)) + Cardinality(Carriers(LiveRuns(win, turns), made, m))
        <= wanted[m]
  BY <1>1 DEF WindowPart, Even, Balance
<1>3. /\ Cardinality(Staged(win.queue, m)) \in Nat
      /\ Cardinality(Carriers(LiveRuns(win, turns), made, m)) \in Nat
  BY <1>1, Counted
<1>4. \A i, j, k, n \in Nat : i + j + k <= n => i <= n
  OBVIOUS
<1> QED BY <1>1, <1>2, <1>3, <1>4

\* And that the active run is not one that has ended.
LEMMA ActiveIsLive == WindowPart /\ ServicePart /\ EndsPart => EndsOnce
<1> SUFFICES ASSUME WindowPart, ServicePart, EndsPart, win.active \in over, "revived" \notin gaps
             PROVE  FALSE
  BY DEF EndsOnce
<1>1. win.active # 0
  BY Basics DEF ServicePart
<1>2. win.runs[win.active].phase \notin Terminal \cup {"none"}
  BY <1>1 DEF WindowPart, WindowOK, WindowFits
<1> QED BY <1>2 DEF EndsPart, Settled

\* TurnsOnce: a message is run as often as it was asked for, and each of its runs ends once.
THEOREM TurnsRunOnce == TurnSpec => []TurnsOnce
<1>1. TurnInv /\ Submitted => TurnsOnce
  BY AskedFor, ActiveIsLive DEF TurnInv, TurnsOnce
<1> QED BY <1>1, TurnInvariance, PTL
=============================================================================
