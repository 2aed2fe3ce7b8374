-------------------------- MODULE DeadLetter_proofs --------------------------
(***************************************************************************)
(* Proofs about DeadLetter.  The properties count copies, list by list;    *)
(* the inductive invariant says instead which messages each list holds,    *)
(* that no message is in two of them or twice in one, and what a message   *)
(* in hand still owes the normalized queue.                                *)
(***************************************************************************)
EXTENDS DeadLetter, SequenceTheorems, FiniteSetTheorems, TLAPS

\* Lists: LPUSH puts one element in front and moves the others back.
LEMMA PushFront ==
    ASSUME NEW S, NEW s \in Seq(S), NEW x \in S, NEW t, t = <<x>> \o s
    PROVE  /\ t \in Seq(S) /\ Len(s) \in Nat /\ Len(t) = Len(s) + 1
           /\ DOMAIN s = 1..Len(s) /\ DOMAIN t = 1..Len(t)
           /\ t[1] = x
           /\ \A j \in DOMAIN s : t[j + 1] = s[j]
           /\ \A j \in DOMAIN t \ {1} : j - 1 \in DOMAIN s /\ t[j] = s[j - 1]
  <1>1. <<x>> \in Seq(S) /\ Len(<<x>>) = 1 /\ <<x>>[1] = x
    OBVIOUS
  <1>2. /\ t \in Seq(S) /\ Len(t) = Len(<<x>>) + Len(s)
        /\ \A j \in 1..(Len(<<x>>) + Len(s)) :
              t[j] = IF j <= Len(<<x>>) THEN <<x>>[j] ELSE s[j - Len(<<x>>)]
    BY <1>1, ConcatProperties
  <1>3. Len(s) \in Nat /\ DOMAIN s = 1..Len(s) /\ DOMAIN t = 1..Len(t)
    BY <1>2, LenProperties
  <1>4. t[1] = x
    BY <1>1, <1>2, <1>3
  <1>5. \A j \in 1..Len(s) : t[j + 1] = s[j]
    BY <1>1, <1>2, <1>3
  <1>6. \A j \in 1..Len(t) : j # 1 => j - 1 \in 1..Len(s) /\ t[j] = s[j - 1]
    BY <1>1, <1>2, <1>3
  <1> QED BY <1>1, <1>2, <1>3, <1>4, <1>5, <1>6

\* LTRIM keeps a prefix.
LEMMA Trim ==
    ASSUME NEW S, NEW s \in Seq(S), NEW n \in Nat, n <= Len(s),
           NEW t, t = SubSeq(s, 1, n)
    PROVE  /\ t \in Seq(S) /\ Len(t) = n
           /\ DOMAIN s = 1..Len(s) /\ DOMAIN t = 1..n /\ Len(s) \in Nat
           /\ \A j \in DOMAIN t : j \in DOMAIN s /\ t[j] = s[j]
  <1>1. Len(s) \in Nat /\ DOMAIN s = 1..Len(s)
    BY LenProperties
  <1>2. \A j \in 1..n : s[j] \in S
    BY <1>1, ElementOfSeq
  <1>3. /\ t \in Seq(S) /\ Len(t) = IF 1 <= n THEN n - 1 + 1 ELSE 0
        /\ \A j \in 1..(n - 1 + 1) : t[j] = s[1 + j - 1]
    BY <1>2, SubSeqProperties
  <1>4. Len(t) = n /\ \A j \in 1..n : t[j] = s[j]
    BY <1>3
  <1>5. DOMAIN t = 1..n
    BY <1>3, <1>4, LenProperties
  <1> QED BY <1>1, <1>3, <1>4, <1>5

\* RPOP takes the last element and leaves the others in place.
LEMMA PopBack ==
    ASSUME NEW S, NEW s \in Seq(S), s # <<>>, NEW t, t = Front(s)
    PROVE  /\ t \in Seq(S) /\ Len(s) \in Nat \ {0} /\ Len(t) = Len(s) - 1
           /\ DOMAIN s = 1..Len(s) /\ DOMAIN t = 1..(Len(s) - 1)
           /\ Back(s) \in S /\ Back(s) = s[Len(s)]
           /\ \A j \in DOMAIN t : t[j] = s[j]
  <1>1. Len(s) \in Nat \ {0} /\ DOMAIN s = 1..Len(s)
    <2>1. \A q \in Seq(S) : q # <<>> => Len(q) \in Nat \ {0}
      BY EmptySeq
    <2> QED BY <2>1, LenProperties
  <1>2. PICK n : n \in Nat /\ n = Len(s) - 1
    <2>1. Len(s) - 1 \in Nat
      BY <1>1
    <2> QED BY <2>1
  <1>3. t = SubSeq(s, 1, n)
    BY <1>2 DEF Front
  <1>4. /\ t \in Seq(S) /\ Len(t) = n /\ DOMAIN t = 1..n
        /\ \A j \in DOMAIN t : t[j] = s[j]
    <2>1. n <= Len(s)
      BY <1>1, <1>2
    <2> QED BY <1>2, <1>3, <2>1, Trim
  <1>5. DOMAIN t = 1..(Len(s) - 1)
    BY <1>2, <1>4
  <1>6. Back(s) \in S /\ Back(s) = s[Len(s)]
    BY <1>1, ElementOfSeq DEF Back
  <1> QED BY <1>1, <1>2, <1>4, <1>5, <1>6

-----------------------------------------------------------------------------
(* Types.                                                                  *)

LEMMA EntryTyped ==
    ASSUME TypeOK, NEW w \in Worker, hand[w] # None
    PROVE  /\ hand[w] \in Entry /\ hand[w].msg \in Message /\ hand[w].retries \in Nat
           /\ hand[w] = [msg |-> hand[w].msg, retries |-> hand[w].retries]
  BY DEF TypeOK, Entry

\* A failed replay counts one more.
LEMMA Bumped ==
    ASSUME NEW x \in Entry, NEW y, y = [x EXCEPT !.retries = @ + 1]
    PROVE  y \in Entry /\ y.msg = x.msg /\ y.retries = x.retries + 1
  BY DEF Entry

LEMMA NotNone == \A e \in Entry : e # None
  BY DeadLetterAssumption

\* PushToDLQ puts an entry in front; its LTRIM keeps a list of entries, and
\* touches messages.
LEMMA DeadTyped ==
    ASSUME dlq \in Seq(Entry), NEW w, NEW e \in Entry, PushToDLQ(w, e)
    PROVE  dlq' \in Seq(Entry)
  BY PushFront DEF PushToDLQ

\* The prefix that LTRIM keeps, and what falls off.
LEMMA TrimKeeps ==
    ASSUME dlq \in Seq(Entry), NEW w, TrimDLQ(w)
    PROVE  \E n \in Nat :
             /\ n <= Len(dlq) /\ n <= MaxDLQSize /\ Len(dlq) \in Nat
             /\ DOMAIN dlq = 1..Len(dlq) /\ DOMAIN dlq' = 1..n
             /\ dlq' \in Seq(Entry)
             /\ \A j \in 1..n : dlq'[j] = dlq[j]
             /\ faulted' = faulted \cup {dlq[j].msg : j \in (MaxDLQSize + 1)..Len(dlq)}
             /\ \A j \in DOMAIN dlq : j \in 1..n \/ j \in (MaxDLQSize + 1)..Len(dlq)
  <1>1. Len(dlq) \in Nat /\ DOMAIN dlq = 1..Len(dlq) /\ MaxDLQSize \in Nat
    BY LenProperties, DeadLetterAssumption
  <1>2. PICK n : n = IF Len(dlq) < MaxDLQSize THEN Len(dlq) ELSE MaxDLQSize
    OBVIOUS
  <1>3. dlq' = SubSeq(dlq, 1, n)
    BY <1>2, Zenon DEF TrimDLQ
  <1>4. /\ n \in Nat /\ n <= Len(dlq) /\ n <= MaxDLQSize
        /\ \A j \in DOMAIN dlq : j \in 1..n \/ j \in (MaxDLQSize + 1)..Len(dlq)
    <2>1. CASE Len(dlq) < MaxDLQSize
      <3>1. n = Len(dlq)
        BY <1>2, <2>1
      <3> QED BY <1>1, <2>1, <3>1
    <2>2. CASE ~(Len(dlq) < MaxDLQSize)
      <3>1. n = MaxDLQSize
        BY <1>2, <2>2
      <3> QED BY <1>1, <2>2, <3>1
    <2> QED BY <2>1, <2>2
  <1>5. /\ dlq' \in Seq(Entry) /\ DOMAIN dlq' = 1..n
        /\ \A j \in DOMAIN dlq' : dlq'[j] = dlq[j]
    BY <1>3, <1>4, Trim
  <1>6. faulted' = faulted \cup {dlq[j].msg : j \in (MaxDLQSize + 1)..Len(dlq)}
    BY Zenon DEF TrimDLQ
  <1> QED BY <1>1, <1>4, <1>5, <1>6

LEMMA TrimTyped ==
    ASSUME dlq \in Seq(Entry), faulted \subseteq Message, NEW w, TrimDLQ(w)
    PROVE  dlq' \in Seq(Entry) /\ faulted' \subseteq Message
  <1>0. \A e \in Entry : e.msg \in Message
    BY DEF Entry
  <1>1. \A j \in 1..Len(dlq) : dlq[j].msg \in Message
    BY <1>0, ElementOfSeq
  <1>2. MaxDLQSize \in Nat /\ Len(dlq) \in Nat
    BY LenProperties, DeadLetterAssumption
  <1>3. \A j \in (MaxDLQSize + 1)..Len(dlq) : dlq[j].msg \in Message
    BY <1>1, <1>2
  <1> QED BY <1>3, TrimKeeps

LEMMA ReleaseTyped ==
    ASSUME TypeOK, NEW w \in Worker, NEW s \in Step \ {"took", "pushing"}, Release(w, s)
    PROVE  /\ pc' \in [Worker -> Step] /\ hand' \in [Worker -> Entry \cup {None}]
           /\ todo' \in [Worker -> Nat]
           /\ \A v \in Worker : hand'[v] # None <=> pc'[v] \in {"took", "pushing"}
  BY DEF TypeOK, Release

LEMMA TakeTyped ==
    ASSUME TypeOK, NEW w \in Worker, NEW e \in Entry,
           hand' = [hand EXCEPT ![w] = e], pc' = [pc EXCEPT ![w] = "took"]
    PROVE  /\ pc' \in [Worker -> Step] /\ hand' \in [Worker -> Entry \cup {None}]
           /\ \A v \in Worker : hand'[v] # None <=> pc'[v] \in {"took", "pushing"}
  BY NotNone DEF TypeOK, Step

LEMMA AgainTyped == \A w \in Worker : Again(w) \in Step \ {"took", "pushing"}
  BY DEF Again, Step

LEMMA TypeInit == Init => TypeOK
  <1> SUFFICES ASSUME Init PROVE TypeOK
    OBVIOUS
  <1>1. <<>> \in Seq(Message) /\ <<>> \in Seq(Entry)
    BY EmptySeq
  <1> QED BY <1>1 DEF Init, TypeOK, Step

LEMMA TypeStep == TypeOK /\ [Next]_vars => TypeOK'
  <1> SUFFICES ASSUME TypeOK, [Next]_vars PROVE TypeOK'
    OBVIOUS
  <1> USE DEF TypeOK
  <1>1. CASE UNCHANGED vars
    BY <1>1 DEF vars
  <1>2. ASSUME NEW m \in Message, HandleGenericWebhook(m) PROVE TypeOK'
    <2>1. raw' \in Seq(Message)
      BY <1>2, PushFront DEF HandleGenericWebhook
    <2> QED BY <1>2, <2>1 DEF HandleGenericWebhook
  <1>3. ASSUME NEW m \in Message, Deploy(m) PROVE TypeOK'
    BY <1>3 DEF Deploy
  <1>4. ASSUME NEW e \in Engine, TakeRaw(e) PROVE TypeOK'
    <2>1. raw' \in Seq(Message) /\ Back(raw) \in Message
      BY <1>4, PopBack DEF TakeRaw
    <2>2. e \in Worker /\ [msg |-> Back(raw), retries |-> 0] \in Entry
      BY <2>1 DEF Worker, Entry
    <2> QED BY <1>4, <2>1, <2>2, TakeTyped DEF TakeRaw
  <1>5. ASSUME NEW c \in Replay, StartReplay(c) PROVE TypeOK'
    <2>1. Len(dlq) \in Nat /\ ReplayLimit \in Nat
      BY LenProperties, DeadLetterAssumption
    <2>2. pc' = [pc EXCEPT ![c] = "between"] /\ pc[c] = "idle"
      BY <1>5 DEF StartReplay
    <2>3. pc' \in [Worker -> Step]
      BY <2>2 DEF Step
    <2>4. \A w \in Worker : hand'[w] # None <=> pc'[w] \in {"took", "pushing"}
      BY <1>5, <2>2 DEF StartReplay
    <2>5. left' \in [Worker -> Nat]
      BY <1>5, <2>1 DEF StartReplay
    <2> QED BY <1>5, <2>3, <2>4, <2>5 DEF StartReplay
  <1>6. ASSUME NEW c \in Replay, TakeDead(c) PROVE TypeOK'
    <2>1. dlq' \in Seq(Entry) /\ Back(dlq) \in Entry
      BY <1>6, PopBack DEF TakeDead
    <2>2. c \in Worker
      BY DEF Worker
    <2>3. left' \in [Worker -> Nat]
      BY <1>6, <2>2 DEF TakeDead
    <2> QED BY <1>6, <2>1, <2>2, <2>3, TakeTyped DEF TakeDead
  <1>7. ASSUME NEW c \in Replay, EndReplay(c) PROVE TypeOK'
    <2>1. pc' = [pc EXCEPT ![c] = "idle"] /\ pc[c] = "between"
      BY <1>7 DEF EndReplay
    <2>2. pc' \in [Worker -> Step]
      BY <2>1 DEF Step
    <2>3. \A w \in Worker : hand'[w] # None <=> pc'[w] \in {"took", "pushing"}
      BY <1>7, <2>1 DEF EndReplay
    <2> QED BY <1>7, <2>2, <2>3 DEF EndReplay
  <1>8. ASSUME NEW w \in Worker, Map(w) PROVE TypeOK'
    <2>1. pc' = [pc EXCEPT ![w] = "pushing"] /\ pc[w] = "took" /\ hand' = hand
      BY <1>8 DEF Map
    <2>2. pc' \in [Worker -> Step]
      BY <2>1 DEF Step
    <2>3. \A v \in Worker : hand'[v] # None <=> pc'[v] \in {"took", "pushing"}
      BY <2>1
    <2>4. Yield[hand[w].msg] \in Nat
      BY <2>1, EntryTyped, DeadLetterAssumption
    <2>5. todo' \in [Worker -> Nat]
      BY <1>8, <2>4 DEF Map
    <2> QED BY <1>8, <2>2, <2>3, <2>5 DEF Map
  <1>9. ASSUME NEW w \in Worker, PushIncident(w) \/ LoseIncident(w) PROVE TypeOK'
    <2>1. hand[w].msg \in Message
      BY <1>9, EntryTyped DEF PushIncident, LoseIncident
    <2>2. todo[w] \in Nat \ {0} /\ todo' = [todo EXCEPT ![w] = @ - 1]
      BY <1>9 DEF PushIncident, LoseIncident
    <2>3. todo' \in [Worker -> Nat]
      BY <2>2
    <2>4. CASE PushIncident(w)
      <3>1. pushed' = [pushed EXCEPT ![hand[w].msg] = @ + 1] /\ faulted' = faulted
        BY <2>4 DEF PushIncident
      <3>2. pushed' \in [Message -> Nat]
        BY <2>1, <3>1
      <3> QED BY <2>3, <2>4, <3>1, <3>2 DEF PushIncident
    <2>5. CASE LoseIncident(w)
      BY <2>1, <2>3, <2>5 DEF LoseIncident
    <2> QED BY <1>9, <2>4, <2>5
  <1>10. ASSUME NEW w \in Worker, Finish(w) PROVE TypeOK'
    <2>1. Release(w, Again(w))
      BY <1>10 DEF Finish
    <2> QED BY <1>10, <2>1, AgainTyped, ReleaseTyped DEF Finish
  <1>11. ASSUME NEW e \in Engine, Park(e) PROVE TypeOK'
    <2> DEFINE x == [msg |-> hand[e].msg, retries |-> 0]
    <2>1. e \in Worker /\ "trimming" \in Step \ {"took", "pushing"}
      BY DEF Worker, Step
    <2>2. x \in Entry
      <3>1. hand[e].msg \in Message
        BY <1>11, <2>1, EntryTyped DEF Park
      <3> QED BY <3>1 DEF Entry
    <2>3. PushToDLQ(e, x)
      BY <1>11 DEF Park
    <2>4. dlq' \in Seq(Entry) /\ Release(e, "trimming")
      <3> HIDE DEF x
      <3> QED BY <2>2, <2>3, DeadTyped DEF PushToDLQ
    <2> QED BY <1>11, <2>1, <2>4, ReleaseTyped DEF Park
  <1>12. ASSUME NEW c \in Replay, Retry(c) PROVE TypeOK'
    <2> DEFINE e == [hand[c] EXCEPT !.retries = @ + 1]
    <2>1. c \in Worker /\ {"between", "trimming"} \subseteq Step \ {"took", "pushing"}
      BY DEF Worker, Step
    <2>2. hand[c].msg \in Message /\ hand[c] \in Entry
      BY <1>12, <2>1, EntryTyped DEF Retry
    <2>3. e \in Entry
      BY <2>2, Bumped
    <2>4. \/ poison' = poison \cup {e} /\ UNCHANGED dlq /\ Release(c, "between")
          \/ PushToDLQ(c, e) /\ UNCHANGED poison
      BY <1>12 DEF Retry
    <2>5. PICK s \in {"between", "trimming"} :
             dlq' \in Seq(Entry) /\ poison' \subseteq Entry /\ Release(c, s)
      <3> HIDE DEF e
      <3> QED BY <2>3, <2>4, DeadTyped DEF PushToDLQ
    <2>6. attempts' \in [Message -> Nat]
      BY <1>12, <2>2 DEF Retry
    <2> QED BY <1>12, <2>1, <2>5, <2>6, ReleaseTyped DEF Retry
  <1>13. ASSUME NEW w \in Worker, LoseEntry(w) PROVE TypeOK'
    <2>1. hand[w].msg \in Message /\ Release(w, Again(w))
      BY <1>13, EntryTyped DEF LoseEntry
    <2> QED BY <1>13, <2>1, AgainTyped, ReleaseTyped DEF LoseEntry
  <1>14. ASSUME NEW w \in Worker, Crash(w) PROVE TypeOK'
    <2>1. hand[w].msg \in Message /\ Release(w, "idle")
      BY <1>14, EntryTyped DEF Crash
    <2>2. "idle" \in Step \ {"took", "pushing"}
      BY DEF Step
    <2> QED BY <1>14, <2>1, <2>2, ReleaseTyped DEF Crash
  <1>15. ASSUME NEW w \in Worker, TrimDLQ(w) \/ SkipTrim(w) PROVE TypeOK'
    <2>1. Release(w, Again(w))
      BY <1>15 DEF TrimDLQ, SkipTrim
    <2>2. dlq' \in Seq(Entry) /\ faulted' \subseteq Message
      BY <1>15, TrimTyped DEF SkipTrim
    <2> QED BY <1>15, <2>1, <2>2, AgainTyped, ReleaseTyped DEF TrimDLQ, SkipTrim
  <1> QED BY <1>1, <1>2, <1>3, <1>4, <1>5, <1>6, <1>7, <1>8, <1>9, <1>10, <1>11,
             <1>12, <1>13, <1>14, <1>15
          DEF Next, EngineStep, ReplayStep, Worker

\* The lists hold messages and entries, and a worker has an entry in hand
\* exactly at the steps of an entry.
THEOREM Typed == Spec => []TypeOK
  BY TypeInit, TypeStep, PTL DEF Spec

-----------------------------------------------------------------------------
(* Where the messages are.                                                 *)

Raw == {raw[j] : j \in DOMAIN raw}
Dead == {dlq[j].msg : j \in DOMAIN dlq}
Parked == {e.msg : e \in poison}
Busy == {w \in Worker : hand[w] # None}
Held == {hand[w].msg : w \in Busy}

OnceRaw == \A j, k \in DOMAIN raw : raw[j] = raw[k] => j = k
OnceDead == \A j, k \in DOMAIN dlq : dlq[j].msg = dlq[k].msg => j = k
OnceParked == \A e, f \in poison : e.msg = f.msg => e = f
OnceHeld == \A v, w \in Busy : hand[v].msg = hand[w].msg => v = w

LEMMA RawPush ==
    ASSUME raw \in Seq(Message), OnceRaw, NEW m \in Message \ Raw, raw' = <<m>> \o raw
    PROVE  Raw' = Raw \cup {m} /\ OnceRaw'
  <1>1. /\ DOMAIN raw = 1..Len(raw) /\ DOMAIN raw' = 1..(Len(raw) + 1) /\ Len(raw) \in Nat
        /\ raw'[1] = m
        /\ \A j \in DOMAIN raw : raw'[j + 1] = raw[j]
        /\ \A j \in DOMAIN raw' \ {1} : j - 1 \in DOMAIN raw /\ raw'[j] = raw[j - 1]
    BY PushFront
  <1>2. \A j \in DOMAIN raw : j + 1 \in DOMAIN raw'
    BY <1>1
  <1>3. 1 \in DOMAIN raw'
    BY <1>1
  <1>4. Raw \cup {m} \subseteq Raw'
    <2>1. m \in Raw'
      BY <1>1, <1>3 DEF Raw
    <2>2. \A j \in DOMAIN raw : raw[j] \in Raw'
      BY <1>1, <1>2 DEF Raw
    <2> QED BY <2>1, <2>2 DEF Raw
  <1>5. Raw' \subseteq Raw \cup {m}
    BY <1>1 DEF Raw
  <1>6. OnceRaw'
    <2>1. \A j \in DOMAIN raw' \ {1} : raw'[j] # m
      BY <1>1 DEF Raw
    <2>2. \A j, k \in DOMAIN raw' \ {1} : raw'[j] = raw'[k] => j - 1 = k - 1
      BY <1>1 DEF OnceRaw
    <2>3. \A j, k \in DOMAIN raw' \ {1} : j - 1 = k - 1 => j = k
      BY <1>1
    <2> QED BY <1>1, <2>1, <2>2, <2>3 DEF OnceRaw
  <1> QED BY <1>4, <1>5, <1>6

LEMMA RawPop ==
    ASSUME raw \in Seq(Message), OnceRaw, raw # <<>>, raw' = Front(raw)
    PROVE  /\ Back(raw) \in Raw /\ Raw' = Raw \ {Back(raw)} /\ OnceRaw'
  <1> DEFINE n == Len(raw)
  <1>0. /\ n \in Nat \ {0} /\ Len(raw') = n - 1
        /\ DOMAIN raw = 1..n /\ DOMAIN raw' = 1..(n - 1)
        /\ Back(raw) = raw[n]
        /\ \A j \in DOMAIN raw' : raw'[j] = raw[j]
    BY PopBack
  <1> HIDE DEF n
  <1>1. /\ DOMAIN raw' = DOMAIN raw \ {n} /\ n \in DOMAIN raw
        /\ Back(raw) = raw[n]
        /\ \A j \in DOMAIN raw' : raw'[j] = raw[j]
    BY <1>0
  <1>2. Back(raw) \in Raw
    BY <1>1 DEF Raw
  <1>3. Raw' = Raw \ {Back(raw)}
    <2>1. Raw' \subseteq Raw \ {Back(raw)}
      BY <1>1 DEF Raw, OnceRaw
    <2>2. Raw \ {Back(raw)} \subseteq Raw'
      BY <1>1 DEF Raw
    <2> QED BY <2>1, <2>2
  <1>4. OnceRaw'
    BY <1>1 DEF OnceRaw
  <1> QED BY <1>2, <1>3, <1>4

LEMMA DeadPop ==
    ASSUME dlq \in Seq(Entry), OnceDead, dlq # <<>>, dlq' = Front(dlq)
    PROVE  /\ Back(dlq).msg \in Dead /\ Dead' = Dead \ {Back(dlq).msg} /\ OnceDead'
           /\ \E k \in DOMAIN dlq : Back(dlq) = dlq[k]
           /\ \A j \in DOMAIN dlq' : j \in DOMAIN dlq /\ dlq'[j] = dlq[j]
  <1> DEFINE n == Len(dlq)
  <1>0. /\ n \in Nat \ {0} /\ Len(dlq') = n - 1
        /\ DOMAIN dlq = 1..n /\ DOMAIN dlq' = 1..(n - 1)
        /\ Back(dlq) = dlq[n]
        /\ \A j \in DOMAIN dlq' : dlq'[j] = dlq[j]
    BY PopBack
  <1> HIDE DEF n
  <1>1. /\ DOMAIN dlq' = DOMAIN dlq \ {n} /\ n \in DOMAIN dlq
        /\ Back(dlq) = dlq[n]
        /\ \A j \in DOMAIN dlq' : dlq'[j] = dlq[j]
    BY <1>0
  <1>2. Back(dlq).msg \in Dead
    BY <1>1 DEF Dead
  <1>3. Dead' = Dead \ {Back(dlq).msg}
    <2>1. Dead' \subseteq Dead \ {Back(dlq).msg}
      BY <1>1 DEF Dead, OnceDead
    <2>2. Dead \ {Back(dlq).msg} \subseteq Dead'
      BY <1>1 DEF Dead
    <2> QED BY <2>1, <2>2
  <1>4. OnceDead'
    BY <1>1 DEF OnceDead
  <1> QED BY <1>1, <1>2, <1>3, <1>4

\* The list after a push: the new entry and what was there.
LEMMA DeadPush ==
    ASSUME dlq \in Seq(Entry), OnceDead,
           NEW w, NEW e \in Entry, e.msg \notin Dead, PushToDLQ(w, e)
    PROVE  /\ OnceDead' /\ Dead' = Dead \cup {e.msg}
           /\ \A j \in DOMAIN dlq' : dlq'[j] = e \/ \E k \in DOMAIN dlq : dlq'[j] = dlq[k]
  <1>1. /\ Len(dlq) \in Nat /\ Len(dlq') = Len(dlq) + 1
        /\ DOMAIN dlq = 1..Len(dlq) /\ DOMAIN dlq' = 1..Len(dlq')
        /\ dlq'[1] = e
        /\ \A j \in DOMAIN dlq : dlq'[j + 1] = dlq[j]
        /\ \A j \in DOMAIN dlq' \ {1} : j - 1 \in DOMAIN dlq /\ dlq'[j] = dlq[j - 1]
    BY PushFront DEF PushToDLQ
  <1>2. 1 \in DOMAIN dlq' /\ \A j \in DOMAIN dlq : j + 1 \in DOMAIN dlq'
    BY <1>1
  <1>3. Dead' = Dead \cup {e.msg}
    <2>1. Dead' \subseteq Dead \cup {e.msg}
      BY <1>1 DEF Dead
    <2>2. e.msg \in Dead'
      BY <1>1, <1>2 DEF Dead
    <2>3. \A j \in DOMAIN dlq : dlq[j].msg \in Dead'
      BY <1>1, <1>2 DEF Dead
    <2> QED BY <2>1, <2>2, <2>3 DEF Dead
  <1>4. OnceDead'
    <2>1. \A j \in DOMAIN dlq' \ {1} : dlq'[j].msg # e.msg
      BY <1>1 DEF Dead
    <2>2. \A j, k \in DOMAIN dlq' \ {1} : dlq'[j].msg = dlq'[k].msg => j - 1 = k - 1
      BY <1>1 DEF OnceDead
    <2>3. \A j, k \in DOMAIN dlq' : j - 1 = k - 1 => j = k
      BY <1>1
    <2> QED BY <1>1, <2>1, <2>2, <2>3 DEF OnceDead
  <1> QED BY <1>1, <1>3, <1>4

\* The list after a trim: a part of what was there, and the rest is faulted.
LEMMA DeadTrim ==
    ASSUME dlq \in Seq(Entry), OnceDead, NEW w, TrimDLQ(w)
    PROVE  /\ OnceDead' /\ Dead' \subseteq Dead
           /\ Dead \subseteq Dead' \cup faulted' /\ faulted \subseteq faulted'
           /\ \A j \in DOMAIN dlq' : j \in DOMAIN dlq /\ dlq'[j] = dlq[j]
  <1>1. PICK n \in Nat :
             /\ n <= Len(dlq) /\ n <= MaxDLQSize /\ Len(dlq) \in Nat
             /\ DOMAIN dlq = 1..Len(dlq) /\ DOMAIN dlq' = 1..n
             /\ \A j \in 1..n : dlq'[j] = dlq[j]
             /\ faulted' = faulted \cup {dlq[j].msg : j \in (MaxDLQSize + 1)..Len(dlq)}
             /\ \A j \in DOMAIN dlq : j \in 1..n \/ j \in (MaxDLQSize + 1)..Len(dlq)
    BY TrimKeeps
  <1>2. \A j \in DOMAIN dlq' : j \in DOMAIN dlq /\ dlq'[j] = dlq[j]
    BY <1>1
  <1>3. \A j \in DOMAIN dlq : dlq[j].msg \in Dead' \/ dlq[j].msg \in faulted'
    BY <1>1 DEF Dead
  <1>4. Dead \subseteq Dead' \cup faulted' /\ Dead' \subseteq Dead
    BY <1>2, <1>3 DEF Dead
  <1>5. OnceDead'
    BY <1>2 DEF OnceDead
  <1> QED BY <1>1, <1>2, <1>4, <1>5

LEMMA Takes ==
    ASSUME TypeOK, OnceHeld, NEW w \in Worker \ Busy,
           NEW e \in Entry, e.msg \notin Held, hand' = [hand EXCEPT ![w] = e]
    PROVE  /\ Busy' = Busy \cup {w} /\ Held' = Held \cup {e.msg} /\ OnceHeld'
           /\ hand'[w] = e /\ \A v \in Busy : hand'[v] = hand[v]
  <1>1. hand \in [Worker -> Entry \cup {None}]
    BY DEF TypeOK
  <1>2. hand'[w] = e /\ \A v \in Worker \ {w} : hand'[v] = hand[v]
    BY <1>1
  <1>3. Busy' = Busy \cup {w}
    BY <1>2, NotNone DEF Busy
  <1>4. Held' = Held \cup {e.msg}
    BY <1>2, <1>3 DEF Held, Busy
  <1>5. OnceHeld'
    BY <1>2, <1>3 DEF OnceHeld, Held, Busy
  <1> QED BY <1>2, <1>3, <1>4, <1>5 DEF Busy

LEMMA Releases ==
    ASSUME TypeOK, OnceHeld, NEW w \in Busy, NEW s, Release(w, s)
    PROVE  /\ Busy' = Busy \ {w} /\ Held' = Held \ {hand[w].msg} /\ OnceHeld'
           /\ \A v \in Busy' : hand'[v] = hand[v] /\ pc'[v] = pc[v] /\ todo'[v] = todo[v]
  <1>1. w \in Worker /\ hand'[w] = None
        /\ \A v \in Worker \ {w} : hand'[v] = hand[v] /\ pc'[v] = pc[v] /\ todo'[v] = todo[v]
    BY DEF Release, TypeOK, Busy
  <1>2. Busy' = Busy \ {w}
    BY <1>1 DEF Busy
  <1>3. \A v \in Busy' : hand'[v] = hand[v] /\ pc'[v] = pc[v] /\ todo'[v] = todo[v]
    BY <1>1, <1>2 DEF Busy
  <1>4. Held' \subseteq Held \ {hand[w].msg}
    BY <1>2, <1>3 DEF Held, OnceHeld
  <1>5. Held \ {hand[w].msg} \subseteq Held'
    BY <1>2, <1>3 DEF Held
  <1>6. OnceHeld'
    BY <1>2, <1>3 DEF OnceHeld
  <1> QED BY <1>2, <1>3, <1>4, <1>5, <1>6

LEMMA SamePlaces ==
    UNCHANGED <<raw, dlq, poison, hand>> =>
        /\ Raw' = Raw /\ Dead' = Dead /\ Parked' = Parked /\ Held' = Held /\ Busy' = Busy
        /\ OnceRaw' = OnceRaw /\ OnceDead' = OnceDead
        /\ OnceParked' = OnceParked /\ OnceHeld' = OnceHeld
  BY DEF Raw, Dead, Parked, Held, Busy, OnceRaw, OnceDead, OnceParked, OnceHeld

LEMMA SameRaw == raw' = raw => Raw' = Raw /\ OnceRaw' = OnceRaw
  BY DEF Raw, OnceRaw
LEMMA SameDead == dlq' = dlq => Dead' = Dead /\ OnceDead' = OnceDead
  BY DEF Dead, OnceDead
LEMMA SameParked == poison' = poison => Parked' = Parked /\ OnceParked' = OnceParked
  BY DEF Parked, OnceParked
LEMMA SameHeld == hand' = hand => Busy' = Busy /\ Held' = Held /\ OnceHeld' = OnceHeld
  BY DEF Busy, Held, OnceHeld

-----------------------------------------------------------------------------
(* The inductive invariant.                                                *)

\* No message is in two places, or twice in one.
OnePlace ==
    /\ OnceRaw /\ OnceDead /\ OnceParked /\ OnceHeld
    /\ Raw \cap Dead = {} /\ Raw \cap Parked = {} /\ Raw \cap Held = {}
    /\ Dead \cap Parked = {} /\ Dead \cap Held = {} /\ Parked \cap Held = {}

Somewhere == Raw \cup Dead \cup Parked \cup Held

\* What was never posted is nowhere.
Known ==
    /\ Somewhere \subseteq accepted
    /\ \A m \in Message \ accepted : pushed[m] = 0 /\ attempts[m] = 0

\* A message on a list has pushed nothing; one of the raw queue was never replayed.
Waiting ==
    /\ \A m \in Raw \cup Dead \cup Parked : pushed[m] = 0
    /\ \A m \in Raw : attempts[m] = 0

\* What worker w owes: all its incidents before it maps, what is left of them after.
Owes(w) ==
    /\ pc[w] = "took" => pushed[hand[w].msg] = 0
    /\ pc[w] = "pushing" =>
          /\ pushed[hand[w].msg] + todo[w] <= Yield[hand[w].msg]
          /\ hand[w].msg \notin faulted =>
                pushed[hand[w].msg] + todo[w] = Yield[hand[w].msg]
    /\ hand[w].retries = attempts[hand[w].msg] /\ hand[w].retries < MaxDLQRetries
    /\ w \in Engine => hand[w].retries = 0

InHand == \A w \in Busy : Owes(w)

\* A message that is nowhere any more has pushed all, unless a fault touched it.
Gone ==
    \A m \in Message \ Somewhere :
        /\ pushed[m] <= Yield[m]
        /\ m \in accepted \ faulted => pushed[m] = Yield[m]

DLInv == OnePlace /\ Known /\ Waiting /\ InHand /\ Gone /\ RetriesCounted

LEMMA InvInit == Init => DLInv
  <1> SUFFICES ASSUME Init PROVE DLInv
    OBVIOUS
  <1>1. DOMAIN raw = {} /\ DOMAIN dlq = {} /\ poison = {}
    BY DEF Init
  <1>2. Busy = {} /\ Raw = {} /\ Dead = {} /\ Parked = {}
    BY <1>1 DEF Busy, Init, Raw, Dead, Parked
  <1>3. Held = {}
    BY <1>2 DEF Held
  <1>5. OnePlace
    BY <1>1, <1>2, <1>3 DEF OnePlace, OnceRaw, OnceDead, OnceParked, OnceHeld
  <1>6. Known /\ Waiting /\ InHand /\ RetriesCounted
    BY <1>1, <1>2, <1>3 DEF Known, Waiting, InHand, RetriesCounted, Somewhere, Init
  <1>7. Gone
    BY DeadLetterAssumption DEF Gone, Init
  <1> QED BY <1>5, <1>6, <1>7 DEF DLInv

\* The entry in hand, and the lists it is not on.
LEMMA Holding ==
    ASSUME TypeOK, DLInv, NEW w \in Worker, hand[w] # None
    PROVE  /\ w \in Busy /\ hand[w] \in Entry /\ hand[w].msg \in Held \cap Message
           /\ hand[w].msg \in accepted
           /\ hand[w].msg \notin Raw \cup Dead \cup Parked
           /\ \A v \in Busy \ {w} : hand[v].msg # hand[w].msg
           /\ Owes(w)
  <1>1. w \in Busy /\ hand[w].msg \in Held
    BY DEF Busy, Held
  <1>2. hand[w] \in Entry /\ hand[w].msg \in Message
    BY EntryTyped
  <1>3. hand[w].msg \in accepted
    BY <1>1 DEF DLInv, Known, Somewhere
  <1>4. hand[w].msg \notin Raw \cup Dead \cup Parked
    BY <1>1 DEF DLInv, OnePlace
  <1>5. \A v \in Busy \ {w} : hand[v].msg # hand[w].msg
    BY <1>1 DEF DLInv, OnePlace, OnceHeld
  <1> QED BY <1>1, <1>2, <1>3, <1>4, <1>5 DEF DLInv, InHand

LEMMA BusyTyped ==
    ASSUME TypeOK, NEW w \in Busy
    PROVE  w \in Worker /\ hand[w] \in Entry /\ hand[w].msg \in Message /\ hand[w].msg \in Held
           /\ hand[w] # None /\ pc[w] \in {"took", "pushing"}
  BY EntryTyped DEF Busy, Held, TypeOK

-----------------------------------------------------------------------------
(* The steps, one lemma for each kind.                                     *)

LEMMA QuietStep ==
    ASSUME TypeOK, DLInv,
           UNCHANGED <<raw, dlq, poison, pushed, accepted, hand, faulted, attempts>>,
           \A w \in Busy : pc'[w] = pc[w] /\ todo'[w] = todo[w]
    PROVE  DLInv'
  <1>1. OnePlace' /\ Somewhere' = Somewhere /\ Busy' = Busy
    BY SamePlaces DEF DLInv, OnePlace, Somewhere
  <1>2. RetriesCounted'
    BY DEF DLInv, RetriesCounted
  <1>3. Known' /\ Gone'
    BY <1>1 DEF DLInv, Known, Gone
  <1>4. Waiting'
    BY SamePlaces DEF DLInv, Waiting
  <1>5. InHand'
    BY <1>1 DEF DLInv, InHand, Owes
  <1> QED BY <1>1, <1>2, <1>3, <1>4, <1>5 DEF DLInv

LEMMA PostStep ==
    ASSUME TypeOK, DLInv, NEW m \in Message, HandleGenericWebhook(m)
    PROVE  DLInv'
  <1>1. /\ m \notin accepted /\ accepted' = accepted \cup {m} /\ raw' = <<m>> \o raw
        /\ UNCHANGED <<dlq, poison, pushed, pc, hand, todo, faulted, attempts>>
    BY DEF HandleGenericWebhook
  <1>2. m \notin Somewhere
    BY <1>1 DEF DLInv, Known
  <1>3. Raw' = Raw \cup {m} /\ OnceRaw'
    <2>1. m \in Message \ Raw
      BY <1>2 DEF Somewhere
    <2> QED BY <1>1, <2>1, RawPush DEF DLInv, OnePlace, TypeOK
  <1>4. /\ Dead' = Dead /\ Parked' = Parked /\ Held' = Held /\ Busy' = Busy
        /\ OnceDead' = OnceDead /\ OnceParked' = OnceParked /\ OnceHeld' = OnceHeld
    BY <1>1, SameDead, SameParked, SameHeld
  <1>5. Somewhere' = Somewhere \cup {m}
    BY <1>3, <1>4 DEF Somewhere
  <1>6. OnePlace'
    BY <1>2, <1>3, <1>4 DEF DLInv, OnePlace, Somewhere
  <1>7. Known'
    BY <1>1, <1>5 DEF DLInv, Known
  <1>8. Waiting'
    BY <1>1, <1>3, <1>4 DEF DLInv, Waiting, Known
  <1>9. InHand'
    BY <1>1, <1>4 DEF DLInv, InHand, Owes
  <1>10. Gone'
    BY <1>1, <1>5 DEF DLInv, Gone
  <1>11. RetriesCounted'
    BY <1>1 DEF DLInv, RetriesCounted
  <1> QED BY <1>4, <1>6, <1>7, <1>8, <1>9, <1>10, <1>11 DEF DLInv

LEMMA TakeRawStep ==
    ASSUME TypeOK, DLInv, NEW e \in Engine, TakeRaw(e)
    PROVE  DLInv'
  <1> DEFINE b == Back(raw)
             x == [msg |-> b, retries |-> 0]
  <1>1. /\ raw # <<>> /\ raw' = Front(raw) /\ pc[e] = "idle"
        /\ hand' = [hand EXCEPT ![e] = x] /\ pc' = [pc EXCEPT ![e] = "took"]
        /\ UNCHANGED <<dlq, poison, pushed, accepted, todo, faulted, attempts>>
    BY DEF TakeRaw
  <1>2. b \in Raw /\ Raw' = Raw \ {b} /\ OnceRaw'
    BY <1>1, RawPop DEF DLInv, OnePlace, TypeOK
  <1>3. b \in Message
    BY <1>1, PopBack DEF TypeOK
  <1>4. x \in Entry /\ x.msg = b /\ x.retries = 0
    BY <1>3 DEF Entry
  <1>5. e \in Worker \ Busy
    BY <1>1 DEF Busy, TypeOK, Worker
  <1>6. b \notin Held
    BY <1>2 DEF DLInv, OnePlace
  <1> HIDE DEF x, b
  <1>7. /\ Busy' = Busy \cup {e} /\ Held' = Held \cup {b} /\ OnceHeld'
        /\ hand'[e] = x /\ \A v \in Busy : hand'[v] = hand[v]
    BY <1>1, <1>4, <1>5, <1>6, Takes DEF DLInv, OnePlace
  <1>8. /\ Dead' = Dead /\ Parked' = Parked
        /\ OnceDead' = OnceDead /\ OnceParked' = OnceParked
    BY <1>1, SameDead, SameParked
  <1>9. Somewhere' = Somewhere
    BY <1>2, <1>7, <1>8 DEF Somewhere
  <1>10. OnePlace'
    BY <1>2, <1>7, <1>8 DEF DLInv, OnePlace
  <1>11. Known' /\ Gone' /\ RetriesCounted'
    BY <1>1, <1>9 DEF DLInv, Known, Gone, RetriesCounted
  <1>12. Waiting'
    BY <1>1, <1>2, <1>8 DEF DLInv, Waiting
  <1>13. InHand'
    <2>1. pc' = [pc EXCEPT ![e] = "took"] /\ pc \in [Worker -> Step] /\ e \in Worker
      BY <1>1, <1>5 DEF TypeOK
    <2>2. Owes(e)'
      <3>1. pc'[e] = "took" /\ pushed[b] = 0 /\ attempts[b] = 0
        BY <1>2, <2>1 DEF DLInv, Waiting
      <3> QED BY <1>1, <1>4, <1>7, <3>1, DeadLetterAssumption DEF Owes
    <2>3. ASSUME NEW v \in Busy PROVE Owes(v)'
      <3>1. v # e /\ v \in Worker /\ Owes(v)
        BY <1>5 DEF DLInv, InHand, Busy
      <3>2. pc'[v] = pc[v] /\ hand'[v] = hand[v]
        BY <1>7, <2>1, <3>1
      <3> QED BY <1>1, <3>1, <3>2 DEF Owes
    <2> QED BY <1>7, <2>2, <2>3 DEF InHand
  <1> QED BY <1>8, <1>10, <1>11, <1>12, <1>13 DEF DLInv

LEMMA TakeDeadStep ==
    ASSUME TypeOK, DLInv, NEW c \in Replay, TakeDead(c)
    PROVE  DLInv'
  <1> DEFINE x == Back(dlq)
  <1>1. /\ dlq # <<>> /\ dlq' = Front(dlq) /\ pc[c] = "between"
        /\ hand' = [hand EXCEPT ![c] = x] /\ pc' = [pc EXCEPT ![c] = "took"]
        /\ UNCHANGED <<raw, poison, pushed, accepted, todo, faulted, attempts>>
    BY DEF TakeDead
  <1>2. /\ x.msg \in Dead /\ Dead' = Dead \ {x.msg} /\ OnceDead'
        /\ \E k \in DOMAIN dlq : x = dlq[k]
        /\ \A j \in DOMAIN dlq' : j \in DOMAIN dlq /\ dlq'[j] = dlq[j]
    BY <1>1, DeadPop DEF DLInv, OnePlace, TypeOK
  <1>3. x \in Entry
    BY <1>1, PopBack DEF TypeOK
  <1>4. c \in Worker \ Busy /\ c \notin Engine
    BY <1>1, DeadLetterAssumption DEF Busy, TypeOK, Worker
  <1> HIDE DEF x
  <1>5. x.msg \notin Held
    BY <1>2 DEF DLInv, OnePlace
  <1>6. /\ Busy' = Busy \cup {c} /\ Held' = Held \cup {x.msg} /\ OnceHeld'
        /\ hand'[c] = x /\ \A v \in Busy : hand'[v] = hand[v]
    BY <1>1, <1>3, <1>4, <1>5, Takes DEF DLInv, OnePlace
  <1>7. /\ Raw' = Raw /\ Parked' = Parked /\ OnceRaw' = OnceRaw /\ OnceParked' = OnceParked
    BY <1>1, SameRaw, SameParked
  <1>8. Somewhere' = Somewhere
    BY <1>2, <1>6, <1>7 DEF Somewhere
  <1>9. OnePlace'
    BY <1>2, <1>6, <1>7 DEF DLInv, OnePlace
  <1>11. Known' /\ Gone'
    BY <1>1, <1>8 DEF DLInv, Known, Gone
  <1>12. RetriesCounted'
    BY <1>1, <1>2 DEF DLInv, RetriesCounted
  <1>13. Waiting'
    BY <1>1, <1>2, <1>7 DEF DLInv, Waiting
  <1>14. InHand'
    <2>1. pc' = [pc EXCEPT ![c] = "took"] /\ pc \in [Worker -> Step] /\ c \in Worker
      BY <1>1, <1>4 DEF TypeOK
    <2>2. Owes(c)'
      <3>1. pc'[c] = "took" /\ pushed[x.msg] = 0
        BY <1>2, <2>1 DEF DLInv, Waiting
      <3>2. x.retries = attempts[x.msg] /\ x.retries < MaxDLQRetries
        BY <1>2 DEF DLInv, RetriesCounted
      <3> QED BY <1>1, <1>4, <1>6, <3>1, <3>2 DEF Owes
    <2>3. ASSUME NEW v \in Busy PROVE Owes(v)'
      <3>1. v # c /\ v \in Worker /\ Owes(v)
        BY <1>4 DEF DLInv, InHand, Busy
      <3>2. pc'[v] = pc[v] /\ hand'[v] = hand[v]
        BY <1>6, <2>1, <3>1
      <3> QED BY <1>1, <3>1, <3>2 DEF Owes
    <2> QED BY <1>6, <2>2, <2>3 DEF InHand
  <1> QED BY <1>9, <1>11, <1>12, <1>13, <1>14 DEF DLInv

LEMMA MapStep ==
    ASSUME TypeOK, DLInv, NEW w \in Worker, Map(w)
    PROVE  DLInv'
  <1>1. /\ pc[w] = "took" /\ pc' = [pc EXCEPT ![w] = "pushing"]
        /\ todo' = [todo EXCEPT ![w] = Yield[hand[w].msg]]
        /\ UNCHANGED <<raw, dlq, poison, pushed, accepted, hand, faulted, attempts>>
    BY DEF Map
  <1>2. OnePlace' /\ Somewhere' = Somewhere /\ Busy' = Busy
    BY <1>1, SamePlaces DEF DLInv, OnePlace, Somewhere
  <1>3. RetriesCounted'
    BY <1>1 DEF DLInv, RetriesCounted
  <1>4. Known' /\ Gone'
    BY <1>1, <1>2 DEF DLInv, Known, Gone
  <1>5. Waiting'
    BY <1>1, SamePlaces DEF DLInv, Waiting
  <1>6. InHand'
    <2>1. hand[w] # None
      BY <1>1 DEF TypeOK
    <2>2. Owes(w) /\ Yield[hand[w].msg] \in Nat
      BY <2>1, Holding, DeadLetterAssumption
    <2>3. pc'[w] = "pushing" /\ todo'[w] = Yield[hand[w].msg]
      BY <1>1 DEF TypeOK
    <2>4. Owes(w)'
      BY <1>1, <2>2, <2>3 DEF Owes
    <2>5. ASSUME NEW v \in Busy, v # w PROVE Owes(v)'
      <3>1. pc'[v] = pc[v] /\ todo'[v] = todo[v] /\ Owes(v)
        BY <1>1, <2>5 DEF DLInv, InHand, Busy, TypeOK
      <3> QED BY <1>1, <3>1 DEF Owes
    <2> QED BY <1>2, <2>4, <2>5 DEF InHand
  <1> QED BY <1>2, <1>3, <1>4, <1>5, <1>6 DEF DLInv

LEMMA PushStep ==
    ASSUME TypeOK, DLInv, NEW w \in Worker, PushIncident(w) \/ LoseIncident(w)
    PROVE  DLInv'
  <1> DEFINE m == hand[w].msg
  <1>1. /\ pc[w] = "pushing" /\ todo[w] > 0 /\ todo' = [todo EXCEPT ![w] = @ - 1]
        /\ \/ pushed' = [pushed EXCEPT ![m] = @ + 1] /\ faulted' = faulted
           \/ pushed' = pushed /\ faulted' = faulted \cup {m}
        /\ UNCHANGED <<raw, dlq, poison, accepted, pc, hand, attempts>>
    BY DEF PushIncident, LoseIncident
  <1>2. OnePlace' /\ Somewhere' = Somewhere /\ Busy' = Busy
    BY <1>1, SamePlaces DEF DLInv, OnePlace, Somewhere
  <1>3. RetriesCounted'
    BY <1>1 DEF DLInv, RetriesCounted
  <1>4. /\ w \in Busy /\ m \in Message /\ m \in Held /\ m \in accepted
        /\ m \notin Raw \cup Dead \cup Parked
        /\ \A v \in Busy \ {w} : hand[v].msg # m
        /\ Owes(w)
    <2>1. hand[w] # None
      BY <1>1 DEF TypeOK
    <2> QED BY <2>1, Holding
  <1>5. m \in Somewhere
    BY <1>4 DEF Somewhere
  <1>6. \A k \in Message \ {m} : /\ pushed'[k] = pushed[k]
                                 /\ k \in faulted' => k \in faulted
                                 /\ k \in faulted => k \in faulted'
    BY <1>1 DEF TypeOK
  <1> HIDE DEF m
  <1>7. Known'
    BY <1>1, <1>2, <1>4, <1>6 DEF DLInv, Known
  <1>8. Gone'
    <2>1. \A k \in Message \ Somewhere : k # m
      BY <1>5
    <2> QED BY <1>1, <1>2, <1>6, <2>1 DEF DLInv, Gone
  <1>9. Waiting'
    <2>1. Raw \cup Dead \cup Parked \subseteq Message
      BY <1>2 DEF DLInv, Known, Somewhere, TypeOK
    <2>2. Raw' = Raw /\ Dead' = Dead /\ Parked' = Parked
      BY <1>1, SamePlaces
    <2> QED BY <1>1, <1>4, <1>6, <2>1, <2>2 DEF DLInv, Waiting
  <1>10. InHand'
    <2>1. /\ todo[w] \in Nat \ {0} /\ todo'[w] = todo[w] - 1
          /\ pushed[m] \in Nat /\ Yield[m] \in Nat
      BY <1>1, <1>4, DeadLetterAssumption DEF TypeOK
    <2>2. \/ pushed'[m] = pushed[m] + 1 /\ faulted' = faulted
          \/ pushed'[m] = pushed[m] /\ m \in faulted'
      BY <1>1, <1>4 DEF TypeOK
    <2>3. /\ pushed[m] + todo[w] <= Yield[m]
          /\ m \notin faulted => pushed[m] + todo[w] = Yield[m]
          /\ hand[w].retries = attempts[m] /\ hand[w].retries < MaxDLQRetries
          /\ w \in Engine => hand[w].retries = 0
      BY <1>1, <1>4 DEF Owes, m
    <2>4. /\ pushed'[m] + todo'[w] <= Yield[m]
          /\ m \notin faulted' => pushed'[m] + todo'[w] = Yield[m]
      BY <2>1, <2>2, <2>3
    <2>5. Owes(w)'
      BY <1>1, <2>3, <2>4 DEF Owes, m
    <2>6. ASSUME NEW v \in Busy, v # w PROVE Owes(v)'
      <3>1. todo'[v] = todo[v] /\ Owes(v) /\ hand[v].msg \in Message \ {m}
        BY <1>1, <1>4, <2>6, BusyTyped DEF DLInv, InHand, Busy, TypeOK
      <3>2. /\ pushed'[hand[v].msg] = pushed[hand[v].msg]
            /\ hand[v].msg \notin faulted' => hand[v].msg \notin faulted
        BY <1>6, <3>1
      <3> QED BY <1>1, <3>1, <3>2 DEF Owes
    <2> QED BY <1>2, <2>5, <2>6 DEF InHand
  <1> QED BY <1>2, <1>3, <1>7, <1>8, <1>9, <1>10 DEF DLInv

\* A worker lets go of a message that is done with or that a fault has touched.
LEMMA DropStep ==
    ASSUME TypeOK, DLInv, NEW w \in Worker, hand[w] # None, NEW s, Release(w, s),
           faulted' = faulted \/ faulted' = faulted \cup {hand[w].msg},
           (pc[w] = "pushing" /\ todo[w] = 0) \/ hand[w].msg \in faulted',
           UNCHANGED <<raw, dlq, poison, pushed, accepted, attempts>>
    PROVE  DLInv'
  <1> DEFINE m == hand[w].msg
  <1>1. /\ w \in Busy /\ m \in Message /\ m \in Held /\ m \in accepted
        /\ m \notin Raw \cup Dead \cup Parked
        /\ Owes(w)
    BY Holding
  <1>2. /\ Busy' = Busy \ {w} /\ Held' = Held \ {m} /\ OnceHeld'
        /\ \A v \in Busy' : hand'[v] = hand[v] /\ pc'[v] = pc[v] /\ todo'[v] = todo[v]
    BY <1>1, Releases DEF DLInv, OnePlace
  <1>3. /\ Raw' = Raw /\ Dead' = Dead /\ Parked' = Parked
        /\ OnceRaw' = OnceRaw /\ OnceDead' = OnceDead /\ OnceParked' = OnceParked
    BY SameRaw, SameDead, SameParked
  <1>4. \A k \in Message \ {m} : k \in faulted' <=> k \in faulted
    OBVIOUS
  <1>5. pushed[m] <= Yield[m] /\ (m \notin faulted' => pushed[m] = Yield[m])
    <2>1. pc[w] \in {"took", "pushing"} /\ pushed[m] \in Nat /\ todo[w] \in Nat /\ Yield[m] \in Nat
      BY <1>1, DeadLetterAssumption DEF TypeOK
    <2>2. CASE pc[w] = "took"
      BY <1>1, <2>1, <2>2 DEF Owes
    <2>3. CASE pc[w] = "pushing" /\ todo[w] = 0
      BY <1>1, <2>1, <2>3 DEF Owes
    <2>4. CASE pc[w] = "pushing" /\ m \in faulted'
      BY <1>1, <2>1, <2>4 DEF Owes
    <2> QED BY <2>1, <2>2, <2>3, <2>4
  <1> HIDE DEF m
  <1>6. Somewhere' = Somewhere \ {m}
    BY <1>1, <1>2, <1>3 DEF Somewhere
  <1>7. OnePlace'
    BY <1>2, <1>3 DEF DLInv, OnePlace
  <1>8. Known' /\ Waiting' /\ RetriesCounted'
    BY <1>3, <1>6 DEF DLInv, Known, Waiting, RetriesCounted
  <1>9. InHand'
    <2>1. ASSUME NEW v \in Busy, v # w PROVE Owes(v)'
      <3>1. /\ hand'[v] = hand[v] /\ pc'[v] = pc[v] /\ todo'[v] = todo[v] /\ Owes(v)
        BY <1>2, <2>1 DEF DLInv, InHand
      <3>2. hand[v].msg \notin faulted' => hand[v].msg \notin faulted
        OBVIOUS
      <3> QED BY <3>1, <3>2 DEF Owes
    <2> QED BY <1>2, <2>1 DEF InHand
  <1>10. Gone'
    BY <1>4, <1>5, <1>6 DEF DLInv, Gone
  <1> QED BY <1>3, <1>7, <1>8, <1>9, <1>10 DEF DLInv

\* A message goes back to the dead-letter list, with its count.
LEMMA ReturnStep ==
    ASSUME TypeOK, DLInv, NEW w \in Worker, pc[w] = "took",
           NEW e \in Entry, e.msg = hand[w].msg, PushToDLQ(w, e),
           e.retries = attempts'[e.msg], e.retries < MaxDLQRetries,
           \A k \in Message \ {e.msg} : attempts'[k] = attempts[k],
           UNCHANGED <<raw, poison, pushed, accepted, faulted>>
    PROVE  DLInv'
  <1> DEFINE m == e.msg
  <1>1. hand[w] # None
    BY DEF TypeOK
  <1>2. /\ w \in Busy /\ m \in Message /\ m \in Held /\ m \in accepted
        /\ m \notin Raw \cup Dead \cup Parked
        /\ \A v \in Busy \ {w} : hand[v].msg # m
        /\ Owes(w)
    BY <1>1, Holding
  <1>3. pushed[m] = 0
    BY <1>2 DEF Owes
  <1>4. /\ Busy' = Busy \ {w} /\ Held' = Held \ {m} /\ OnceHeld'
        /\ \A v \in Busy' : hand'[v] = hand[v] /\ pc'[v] = pc[v] /\ todo'[v] = todo[v]
    BY <1>2, Releases DEF DLInv, OnePlace, PushToDLQ
  <1>5. Raw' = Raw /\ Parked' = Parked /\ OnceRaw' = OnceRaw /\ OnceParked' = OnceParked
    BY SameRaw, SameParked
  <1>7. /\ OnceDead' /\ Dead' = Dead \cup {m}
        /\ \A j \in DOMAIN dlq' : dlq'[j] = e \/ \E k \in DOMAIN dlq : dlq'[j] = dlq[k]
    BY <1>2, DeadPush DEF DLInv, OnePlace, TypeOK
  <1> HIDE DEF m
  <1>8. Somewhere' = Somewhere
    BY <1>2, <1>4, <1>5, <1>7 DEF Somewhere
  <1>9. OnePlace'
    BY <1>2, <1>4, <1>5, <1>7 DEF DLInv, OnePlace
  <1>10. Known'
    <2>1. \A k \in Message \ accepted : attempts'[k] = attempts[k]
      BY <1>2 DEF m
    <2> QED BY <1>8, <2>1 DEF DLInv, Known
  <1>11. Waiting'
    <2>1. \A k \in Raw : attempts'[k] = attempts[k]
      BY <1>2 DEF DLInv, Known, Somewhere, TypeOK, m
    <2> QED BY <1>3, <1>5, <1>7, <2>1 DEF DLInv, Waiting
  <1>12. InHand'
    <2>1. ASSUME NEW v \in Busy, v # w PROVE Owes(v)'
      <3>1. /\ hand'[v] = hand[v] /\ pc'[v] = pc[v] /\ todo'[v] = todo[v] /\ Owes(v)
        BY <1>4, <2>1 DEF DLInv, InHand
      <3>2. attempts'[hand[v].msg] = attempts[hand[v].msg]
        BY <1>2, <2>1, BusyTyped DEF m
      <3> QED BY <3>1, <3>2 DEF Owes
    <2> QED BY <1>4, <2>1 DEF InHand
  <1>13. Gone'
    BY <1>8 DEF DLInv, Gone
  <1>14. RetriesCounted'
    <2>1. ASSUME NEW j \in DOMAIN dlq'
          PROVE  dlq'[j].retries = attempts'[dlq'[j].msg] /\ dlq'[j].retries < MaxDLQRetries
      <3>1. CASE dlq'[j] = e
        BY <3>1
      <3>2. ASSUME NEW k \in DOMAIN dlq, dlq'[j] = dlq[k] 
             PROVE  /\ dlq'[j].retries = attempts'[dlq'[j].msg]
                    /\ dlq'[j].retries < MaxDLQRetries
        <4>1. dlq[k].msg \in Dead /\ dlq[k].msg # m
          BY <1>2 DEF Dead
        <4>2. dlq[k].msg \in Message
          BY <4>1 DEF DLInv, Known, Somewhere, TypeOK
        <4> QED BY <3>2, <4>1, <4>2 DEF DLInv, RetriesCounted, m
      <3> QED BY <1>7, <3>1, <3>2
    <2>2. ASSUME NEW f \in poison
          PROVE  f.retries = attempts'[f.msg] /\ f.retries = MaxDLQRetries
      <3>1. f.msg \in Message /\ f.msg # m
        BY <1>2 DEF Parked, TypeOK, Entry
      <3> QED BY <3>1 DEF DLInv, RetriesCounted, m
    <2> QED BY <2>1, <2>2 DEF RetriesCounted
  <1> QED BY <1>7, <1>9, <1>10, <1>11, <1>12, <1>13, <1>14 DEF DLInv

\* LTRIM drops entries of others; what it drops is faulted.
LEMMA TrimStep ==
    ASSUME TypeOK, DLInv, NEW w \in Worker, TrimDLQ(w)
    PROVE  DLInv'
  <1>1. /\ pc[w] = "trimming" /\ Release(w, Again(w))
        /\ UNCHANGED <<raw, poison, pushed, accepted, attempts>>
    BY DEF TrimDLQ
  <1>2. w \notin Busy /\ hand[w] = None
    BY <1>1, BusyTyped DEF Busy
  <1>3. hand' = hand /\ \A v \in Busy : pc'[v] = pc[v] /\ todo'[v] = todo[v]
    BY <1>1, <1>2, BusyTyped DEF Release, TypeOK
  <1>4. /\ OnceDead' /\ Dead' \subseteq Dead
        /\ Dead \subseteq Dead' \cup faulted' /\ faulted \subseteq faulted'
        /\ \A j \in DOMAIN dlq' : j \in DOMAIN dlq /\ dlq'[j] = dlq[j]
    BY DeadTrim DEF DLInv, OnePlace, TypeOK
  <1>5. /\ Raw' = Raw /\ Parked' = Parked /\ Held' = Held /\ Busy' = Busy
        /\ OnceRaw' = OnceRaw /\ OnceParked' = OnceParked /\ OnceHeld' = OnceHeld
    BY <1>1, <1>3, SameRaw, SameParked, SameHeld
  <1>6. Somewhere' \subseteq Somewhere /\ Somewhere \subseteq Somewhere' \cup (Dead \cap faulted')
    BY <1>4, <1>5 DEF Somewhere
  <1>7. OnePlace'
    BY <1>4, <1>5 DEF DLInv, OnePlace
  <1>8. Known' /\ Waiting'
    BY <1>1, <1>4, <1>5, <1>6 DEF DLInv, Known, Waiting
  <1>9. InHand'
    BY <1>1, <1>3, <1>4, <1>5 DEF DLInv, InHand, Owes
  <1>10. Gone'
    <2>1. ASSUME NEW k \in Message, k \notin Somewhere'
          PROVE  pushed[k] <= Yield[k] /\ (k \in accepted \ faulted' => pushed[k] = Yield[k])
      <3>1. CASE k \in Dead \cap faulted'
        <4>1. pushed[k] = 0 /\ Yield[k] \in Nat
          BY <3>1, DeadLetterAssumption DEF DLInv, Waiting
        <4> QED BY <3>1, <4>1
      <3>2. CASE k \notin Somewhere
        BY <1>4, <3>2 DEF DLInv, Gone
      <3> QED BY <1>6, <2>1, <3>1, <3>2
    <2> QED BY <1>1, <2>1 DEF Gone
  <1>11. RetriesCounted'
    BY <1>1, <1>4 DEF DLInv, RetriesCounted
  <1> QED BY <1>5, <1>7, <1>8, <1>9, <1>10, <1>11 DEF DLInv

\* A message whose last replay failed is parked, with all its retries used.
LEMMA PoisonStep ==
    ASSUME TypeOK, DLInv, NEW w \in Worker, pc[w] = "took", NEW s, Release(w, s),
           NEW e \in Entry, e.msg = hand[w].msg, poison' = poison \cup {e},
           e.retries = attempts'[e.msg], e.retries = MaxDLQRetries,
           \A k \in Message \ {e.msg} : attempts'[k] = attempts[k],
           UNCHANGED <<raw, dlq, pushed, accepted, faulted>>
    PROVE  DLInv'
  <1> DEFINE m == e.msg
  <1>1. hand[w] # None
    BY DEF TypeOK
  <1>2. /\ w \in Busy /\ m \in Message /\ m \in Held /\ m \in accepted
        /\ m \notin Raw \cup Dead \cup Parked
        /\ \A v \in Busy \ {w} : hand[v].msg # m
        /\ Owes(w)
    BY <1>1, Holding
  <1>3. pushed[m] = 0
    BY <1>2 DEF Owes
  <1>4. /\ Busy' = Busy \ {w} /\ Held' = Held \ {m} /\ OnceHeld'
        /\ \A v \in Busy' : hand'[v] = hand[v] /\ pc'[v] = pc[v] /\ todo'[v] = todo[v]
    BY <1>2, Releases DEF DLInv, OnePlace
  <1>5. /\ Raw' = Raw /\ OnceRaw' = OnceRaw /\ Dead' = Dead /\ OnceDead' = OnceDead
    BY SameRaw, SameDead
  <1>6. Parked' = Parked \cup {m}
    BY DEF Parked
  <1>7. OnceParked'
    <2>1. \A f \in poison : f.msg # e.msg
      BY <1>2 DEF Parked
    <2> QED BY <2>1 DEF DLInv, OnePlace, OnceParked
  <1> HIDE DEF m
  <1>8. Somewhere' = Somewhere
    BY <1>2, <1>4, <1>5, <1>6 DEF Somewhere
  <1>9. OnePlace'
    BY <1>2, <1>4, <1>5, <1>6, <1>7 DEF DLInv, OnePlace
  <1>10. Known' /\ Gone'
    <2>1. \A k \in Message \ accepted : attempts'[k] = attempts[k]
      BY <1>2 DEF m
    <2> QED BY <1>8, <2>1 DEF DLInv, Known, Gone
  <1>11. Waiting'
    <2>1. \A k \in Raw : attempts'[k] = attempts[k]
      BY <1>2 DEF DLInv, Known, Somewhere, TypeOK, m
    <2> QED BY <1>3, <1>5, <1>6, <2>1 DEF DLInv, Waiting
  <1>12. InHand'
    <2>1. ASSUME NEW v \in Busy, v # w PROVE Owes(v)'
      <3>1. /\ hand'[v] = hand[v] /\ pc'[v] = pc[v] /\ todo'[v] = todo[v] /\ Owes(v)
        BY <1>4, <2>1 DEF DLInv, InHand
      <3>2. attempts'[hand[v].msg] = attempts[hand[v].msg]
        BY <1>2, <2>1, BusyTyped DEF m
      <3> QED BY <3>1, <3>2 DEF Owes
    <2> QED BY <1>4, <2>1 DEF InHand
  <1>13. RetriesCounted'
    <2>1. ASSUME NEW j \in DOMAIN dlq
          PROVE  dlq[j].retries = attempts'[dlq[j].msg] /\ dlq[j].retries < MaxDLQRetries
      <3>1. dlq[j].msg \in Dead /\ dlq[j].msg # m
        BY <1>2 DEF Dead
      <3>2. dlq[j].msg \in Message
        BY <3>1 DEF DLInv, Known, Somewhere, TypeOK
      <3> QED BY <3>1, <3>2 DEF DLInv, RetriesCounted, m
    <2>2. ASSUME NEW f \in poison
          PROVE  f.retries = attempts'[f.msg] /\ f.retries = MaxDLQRetries
      <3>1. f.msg \in Message /\ f.msg # m
        BY <1>2 DEF Parked, TypeOK, Entry
      <3> QED BY <3>1 DEF DLInv, RetriesCounted, m
    <2> QED BY <2>1, <2>2 DEF RetriesCounted
  <1> QED BY <1>5, <1>9, <1>10, <1>11, <1>12, <1>13 DEF DLInv

LEMMA RetryStep ==
    ASSUME TypeOK, DLInv, NEW c \in Replay, Retry(c)
    PROVE  DLInv'
  <1> DEFINE e == [hand[c] EXCEPT !.retries = @ + 1]
  <1>1. /\ c \in Worker /\ pc[c] = "took" /\ hand[c] # None
        /\ attempts' = [attempts EXCEPT ![hand[c].msg] = @ + 1]
        /\ \/ /\ e.retries >= MaxDLQRetries
              /\ poison' = poison \cup {e}
              /\ Release(c, "between") /\ UNCHANGED dlq
           \/ e.retries < MaxDLQRetries /\ PushToDLQ(c, e) /\ UNCHANGED poison
        /\ UNCHANGED <<raw, pushed, accepted, faulted>>
    BY DEF Retry, Worker, TypeOK
  <1>2. /\ hand[c] \in Entry /\ hand[c].msg \in Message
        /\ hand[c].retries = attempts[hand[c].msg] /\ hand[c].retries < MaxDLQRetries
    BY <1>1, Holding DEF Owes
  <1>3. e \in Entry /\ e.msg = hand[c].msg /\ e.retries = hand[c].retries + 1
    BY <1>2, Bumped
  <1> HIDE DEF e
  <1>4. /\ e.retries = attempts'[e.msg]
        /\ \A k \in Message \ {e.msg} : attempts'[k] = attempts[k]
    BY <1>1, <1>2, <1>3 DEF TypeOK
  <1>5. hand[c].retries \in Nat /\ MaxDLQRetries \in Nat
    BY <1>2, DeadLetterAssumption DEF Entry
  <1>6. CASE /\ e.retries >= MaxDLQRetries /\ poison' = poison \cup {e}
             /\ Release(c, "between") /\ UNCHANGED dlq
    <2>1. e.retries = MaxDLQRetries
      BY <1>2, <1>3, <1>5, <1>6
    <2> QED BY <1>1, <1>3, <1>4, <1>6, <2>1, PoisonStep
  <1>7. CASE e.retries < MaxDLQRetries /\ PushToDLQ(c, e) /\ UNCHANGED poison
    BY <1>1, <1>3, <1>4, <1>7, ReturnStep
  <1> QED BY <1>1, <1>6, <1>7

LEMMA ParkStep ==
    ASSUME TypeOK, DLInv, NEW e \in Engine, Park(e)
    PROVE  DLInv'
  <1> DEFINE x == [msg |-> hand[e].msg, retries |-> 0]
  <1>1. /\ e \in Worker /\ pc[e] = "took" /\ hand[e] # None
        /\ PushToDLQ(e, x)
        /\ UNCHANGED <<raw, poison, pushed, accepted, faulted, attempts>>
    BY DEF Park, Worker, TypeOK
  <1>2. hand[e].msg \in Message /\ attempts[hand[e].msg] = 0
    BY <1>1, Holding DEF Owes
  <1>3. x \in Entry /\ x.msg = hand[e].msg /\ x.retries = 0
    BY <1>2 DEF Entry
  <1> HIDE DEF x
  <1>4. x.retries = attempts'[x.msg] /\ x.retries < MaxDLQRetries
    BY <1>1, <1>2, <1>3, DeadLetterAssumption
  <1> QED BY <1>1, <1>3, <1>4, ReturnStep

LEMMA InvStep == TypeOK /\ DLInv /\ [Next]_vars => DLInv'
  <1> SUFFICES ASSUME TypeOK, DLInv, [Next]_vars PROVE DLInv'
    OBVIOUS
  <1>1. CASE UNCHANGED vars
    BY <1>1, QuietStep DEF vars
  <1>2. ASSUME NEW m \in Message, HandleGenericWebhook(m) PROVE DLInv'
    BY <1>2, PostStep
  <1>3. ASSUME NEW m \in Message, Deploy(m) PROVE DLInv'
    BY <1>3, QuietStep DEF Deploy
  <1>4. ASSUME NEW e \in Engine, TakeRaw(e) PROVE DLInv'
    BY <1>4, TakeRawStep
  <1>5. ASSUME NEW c \in Replay, StartReplay(c) \/ EndReplay(c) PROVE DLInv'
    <2>1. \A w \in Busy : w # c /\ pc'[w] = pc[w] /\ todo'[w] = todo[w]
      BY <1>5, BusyTyped DEF StartReplay, EndReplay, TypeOK
    <2> QED BY <1>5, <2>1, QuietStep DEF StartReplay, EndReplay
  <1>6. ASSUME NEW c \in Replay, TakeDead(c) PROVE DLInv'
    BY <1>6, TakeDeadStep
  <1>7. ASSUME NEW w \in Worker, Map(w) PROVE DLInv'
    BY <1>7, MapStep
  <1>8. ASSUME NEW w \in Worker, PushIncident(w) \/ LoseIncident(w) PROVE DLInv'
    BY <1>8, PushStep
  <1>9. ASSUME NEW w \in Worker, Finish(w) PROVE DLInv'
    <2>1. hand[w] # None
      BY <1>9 DEF Finish, TypeOK
    <2> QED BY <1>9, <2>1, DropStep DEF Finish
  <1>10. ASSUME NEW e \in Engine, Park(e) PROVE DLInv'
    BY <1>10, ParkStep
  <1>11. ASSUME NEW c \in Replay, Retry(c) PROVE DLInv'
    BY <1>11, RetryStep
  <1>12. ASSUME NEW w \in Worker, LoseEntry(w) PROVE DLInv'
    <2>1. hand[w] # None
      BY <1>12 DEF LoseEntry, TypeOK
    <2> QED BY <1>12, <2>1, DropStep DEF LoseEntry
  <1>13. ASSUME NEW w \in Worker, Crash(w) PROVE DLInv'
    BY <1>13, DropStep DEF Crash
  <1>14. ASSUME NEW w \in Worker, TrimDLQ(w) PROVE DLInv'
    BY <1>14, TrimStep
  <1>15. ASSUME NEW w \in Worker, SkipTrim(w) PROVE DLInv'
    <2>1. pc[w] = "trimming" /\ hand[w] = None /\ Release(w, Again(w))
      BY <1>15 DEF SkipTrim, TypeOK
    <2>2. hand' = hand /\ \A v \in Busy : pc'[v] = pc[v] /\ todo'[v] = todo[v]
      BY <2>1, BusyTyped DEF Release, TypeOK
    <2> QED BY <1>15, <2>2, QuietStep DEF SkipTrim
  <1> QED BY <1>1, <1>2, <1>3, <1>4, <1>5, <1>6, <1>7, <1>8, <1>9, <1>10, <1>11,
             <1>12, <1>13, <1>14, <1>15
          DEF Next, EngineStep, ReplayStep, Worker

LEMMA Invariant == Spec => [](TypeOK /\ DLInv)
  BY TypeInit, TypeStep, InvInit, InvStep, PTL DEF Spec

-----------------------------------------------------------------------------
(* Counting copies.                                                        *)

LEMMA CountNone == ASSUME NEW S, S = {} PROVE Cardinality(S) = 0
  BY FS_EmptySet

LEMMA CountOne == ASSUME NEW x, NEW S, S = {x} PROVE Cardinality(S) = 1
  BY FS_Singleton

LEMMA RawCopies ==
    ASSUME OnceRaw, NEW m
    PROVE  CopiesInRaw(m) = IF m \in Raw THEN 1 ELSE 0
  <1> DEFINE S == {j \in DOMAIN raw : raw[j] = m}
  <1>1. CASE m \in Raw
    <2>1. PICK j \in DOMAIN raw : raw[j] = m
      BY <1>1 DEF Raw
    <2>2. S = {j}
      BY <2>1 DEF OnceRaw
    <2> QED BY <1>1, <2>2, CountOne DEF CopiesInRaw
  <1>2. CASE m \notin Raw
    <2>1. S = {}
      BY <1>2 DEF Raw
    <2> QED BY <1>2, <2>1, CountNone DEF CopiesInRaw
  <1> QED BY <1>1, <1>2

LEMMA DLQCopies ==
    ASSUME OnceDead, NEW m
    PROVE  CopiesInDLQ(m) = IF m \in Dead THEN 1 ELSE 0
  <1> DEFINE S == {j \in DOMAIN dlq : dlq[j].msg = m}
  <1>1. CASE m \in Dead
    <2>1. PICK j \in DOMAIN dlq : dlq[j].msg = m
      BY <1>1 DEF Dead
    <2>2. S = {j}
      BY <2>1 DEF OnceDead
    <2> QED BY <1>1, <2>2, CountOne DEF CopiesInDLQ
  <1>2. CASE m \notin Dead
    <2>1. S = {}
      BY <1>2 DEF Dead
    <2> QED BY <1>2, <2>1, CountNone DEF CopiesInDLQ
  <1> QED BY <1>1, <1>2

LEMMA ParkedCopies ==
    ASSUME OnceParked, NEW m
    PROVE  CopiesParked(m) = IF m \in Parked THEN 1 ELSE 0
  <1> DEFINE S == {e \in poison : e.msg = m}
  <1>1. CASE m \in Parked
    <2>1. PICK e \in poison : e.msg = m
      BY <1>1 DEF Parked
    <2>2. S = {e}
      BY <2>1 DEF OnceParked
    <2> QED BY <1>1, <2>2, CountOne DEF CopiesParked
  <1>2. CASE m \notin Parked
    <2>1. S = {}
      BY <1>2 DEF Parked
    <2> QED BY <1>2, <2>1, CountNone DEF CopiesParked
  <1> QED BY <1>1, <1>2

LEMMA HandCopies ==
    ASSUME OnceHeld, NEW m
    PROVE  CopiesInHand(m) = IF m \in Held THEN 1 ELSE 0
  <1> DEFINE S == {w \in Worker : hand[w] # None /\ hand[w].msg = m}
  <1>1. CASE m \in Held
    <2>1. PICK w \in Busy : hand[w].msg = m
      BY <1>1 DEF Held
    <2>2. S = {w}
      BY <2>1 DEF OnceHeld, Busy
    <2> QED BY <1>1, <2>2, CountOne DEF CopiesInHand
  <1>2. CASE m \notin Held
    <2>1. S = {}
      BY <1>2 DEF Held, Busy
    <2> QED BY <1>2, <2>1, CountNone DEF CopiesInHand
  <1> QED BY <1>1, <1>2

\* As many copies as places, and there is at most one place.
LEMMA CopiesCounted ==
    ASSUME OnePlace, NEW m
    PROVE  /\ Copies(m) = IF m \in Somewhere THEN 1 ELSE 0
           /\ CopiesInRaw(m) + CopiesInDLQ(m) + CopiesParked(m) =
                 IF m \in Raw \cup Dead \cup Parked THEN 1 ELSE 0
  <1>1. /\ CopiesInRaw(m) = IF m \in Raw THEN 1 ELSE 0
        /\ CopiesInDLQ(m) = IF m \in Dead THEN 1 ELSE 0
        /\ CopiesParked(m) = IF m \in Parked THEN 1 ELSE 0
        /\ CopiesInHand(m) = IF m \in Held THEN 1 ELSE 0
    BY RawCopies, DLQCopies, ParkedCopies, HandCopies DEF OnePlace
  <1> QED BY <1>1 DEF OnePlace, Copies, Somewhere

LEMMA InvPushed ==
    ASSUME TypeOK, DLInv, NEW m \in Message
    PROVE  pushed[m] <= Yield[m] /\ (m \in Raw \cup Dead \cup Parked => pushed[m] = 0)
  <1>1. Yield[m] \in Nat /\ pushed[m] \in Nat
    BY DeadLetterAssumption DEF TypeOK
  <1>2. CASE m \in Raw \cup Dead \cup Parked
    BY <1>1, <1>2 DEF DLInv, Waiting
  <1>3. CASE m \in Held
    <2>1. PICK w \in Busy : hand[w].msg = m
      BY <1>3 DEF Held
    <2>2. /\ pc[w] \in {"took", "pushing"} /\ todo[w] \in Nat /\ Owes(w)
      BY <2>1, BusyTyped DEF DLInv, InHand, TypeOK
    <2>3. m \notin Raw \cup Dead \cup Parked
      BY <1>3 DEF DLInv, OnePlace
    <2> QED BY <1>1, <2>1, <2>2, <2>3 DEF Owes
  <1>4. CASE m \notin Somewhere
    BY <1>4 DEF DLInv, Gone, Somewhere
  <1> QED BY <1>2, <1>3, <1>4 DEF Somewhere

\* Whatever engines, overlapping replays, crashes and releases do, a message
\* is never in two lists or hands, and never yields more incidents than it maps to.
THEOREM NoDuplicates == Spec => []NeverTwice
  <1>1. TypeOK /\ DLInv => NeverTwice
    <2> SUFFICES ASSUME TypeOK, DLInv, NEW m \in Message
                 PROVE  /\ Copies(m) <= 1 /\ pushed[m] <= Yield[m]
                        /\ pushed[m] > 0 =>
                              CopiesInRaw(m) + CopiesInDLQ(m) + CopiesParked(m) = 0
      BY DEF NeverTwice
    <2>1. OnePlace
      BY DEF DLInv
    <2>2. Copies(m) <= 1
      BY <2>1, CopiesCounted
    <2>3. pushed[m] > 0 => m \notin Raw \cup Dead \cup Parked
      BY InvPushed
    <2> QED BY <2>1, <2>2, <2>3, CopiesCounted, InvPushed
  <1> QED BY <1>1, Invariant, PTL

\* A message the webhook accepted is in one place or has yielded all its
\* incidents, unless a crash, the trim or a failed Redis write has touched it.
THEOREM NothingVanishes == Spec => []AccountedFor
  <1>1. TypeOK /\ DLInv => AccountedFor
    <2> SUFFICES ASSUME TypeOK, DLInv, NEW m \in accepted \ faulted
                 PROVE  Copies(m) = 1 \/ pushed[m] = Yield[m]
      BY DEF AccountedFor
    <2>1. OnePlace /\ m \in Message
      BY DEF DLInv, TypeOK
    <2>2. CASE m \in Somewhere
      BY <2>1, <2>2, CopiesCounted
    <2>3. CASE m \notin Somewhere
      BY <2>1, <2>3 DEF DLInv, Gone
    <2> QED BY <2>2, <2>3
  <1> QED BY <1>1, Invariant, PTL

\* The retry count of an entry is the number of replays that failed on it,
\* and an entry is parked exactly when it is used up, with overlapping replays too.
THEOREM RetriesExact == Spec => []RetriesCounted
  BY Invariant, PTL DEF DLInv
=============================================================================
