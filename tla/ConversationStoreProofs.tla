----------------------- MODULE ConversationStoreProofs ----------------------
(***************************************************************************)
(* Theorems about ConversationStore, and their proofs.                     *)
(***************************************************************************)
EXTENDS ConversationStore, TLAPS, SequenceTheorems

-----------------------------------------------------------------------------
(* Sequences.                                                              *)

Distinct(q) == \A i, j \in DOMAIN q : q[i] = q[j] => i = j

LEMMA SeqFacts ==
    ASSUME NEW S, NEW q \in Seq(S)
    PROVE  /\ Len(q) \in Nat /\ DOMAIN q = 1 .. Len(q)
           /\ \A i \in 1 .. Len(q) : q[i] \in S
           /\ Entries(q) \subseteq S
           /\ \A x : x \in Entries(q) <=> \E i \in 1 .. Len(q) : x = q[i]
           /\ q = <<>> <=> Len(q) = 0
<1>1. Len(q) \in Nat /\ DOMAIN q = 1 .. Len(q)
  BY LenProperties
<1>2. \A i \in 1 .. Len(q) : q[i] \in S
  BY ElementOfSeq
<1>3. q = <<>> <=> Len(q) = 0
  BY EmptySeq, <1>1
<1> QED  BY <1>1, <1>2, <1>3 DEF Entries

LEMMA AppendFacts ==
    ASSUME NEW S, NEW q \in Seq(S), NEW x \in S
    PROVE  /\ Append(q, x) \in Seq(S)
           /\ Len(Append(q, x)) = Len(q) + 1
           /\ \A i \in 1 .. Len(q) : Append(q, x)[i] = q[i]
           /\ Append(q, x)[Len(q) + 1] = x
           /\ Append(q, x) # <<>>
           /\ Entries(Append(q, x)) = Entries(q) \cup {x}
<1>1. /\ Append(q, x) \in Seq(S)
      /\ Len(Append(q, x)) = Len(q) + 1
      /\ \A i \in 1 .. Len(q) : Append(q, x)[i] = q[i]
      /\ Append(q, x)[Len(q) + 1] = x
  BY AppendProperties, LenProperties
<1>2. Len(q) \in Nat
  BY SeqFacts
<1>3. Append(q, x) # <<>>
  BY <1>1, <1>2, EmptySeq
<1>4. /\ DOMAIN q = 1 .. Len(q)
      /\ DOMAIN Append(q, x) = 1 .. Len(q) + 1
  BY <1>1, SeqFacts
<1>5. Entries(Append(q, x)) = Entries(q) \cup {x}
  <2>1. 1 .. Len(q) + 1 = (1 .. Len(q)) \cup {Len(q) + 1}
    BY <1>2
  <2> QED  BY <1>1, <1>4, <2>1 DEF Entries
<1> QED  BY <1>1, <1>3, <1>5

LEMMA LastOfFacts ==
    ASSUME NEW S, NEW q \in Seq(S), NEW n \in Nat \ {0}
    PROVE  /\ LastOf(q, n) \in Seq(S)
           /\ Len(LastOf(q, n)) = IF Len(q) > n THEN n ELSE Len(q)
           /\ \A i \in 1 .. Len(LastOf(q, n)) :
                LastOf(q, n)[i] = q[i + (Len(q) - Len(LastOf(q, n)))]
<1> DEFINE m == IF Len(q) > n THEN Len(q) - n + 1 ELSE 1
<1>1. Len(q) \in Nat /\ \A i \in 1 .. Len(q) : q[i] \in S
  BY SeqFacts
<1>2. m \in Int /\ \A i \in m .. Len(q) : q[i] \in S
  BY <1>1
<1>3. /\ SubSeq(q, m, Len(q)) \in Seq(S)
      /\ Len(SubSeq(q, m, Len(q))) = IF m <= Len(q) THEN Len(q) - m + 1 ELSE 0
      /\ \A i \in 1 .. Len(q) - m + 1 : SubSeq(q, m, Len(q))[i] = q[m + i - 1]
  BY <1>1, <1>2, SubSeqProperties
<1> HIDE DEF m
<1>4. LastOf(q, n) = SubSeq(q, m, Len(q))
  BY DEF LastOf, m
<1>5. Len(LastOf(q, n)) = IF Len(q) > n THEN n ELSE Len(q)
  <2>1. CASE Len(q) > n
    <3>1. m = Len(q) - n + 1 /\ m <= Len(q) /\ Len(q) - m + 1 = n
      BY <1>1, <2>1 DEF m
    <3> QED  BY <1>3, <1>4, <2>1, <3>1
  <2>2. CASE ~(Len(q) > n)
    <3>1. m = 1
      BY <2>2 DEF m
    <3>2. Len(SubSeq(q, m, Len(q))) = Len(q)
      BY <1>1, <1>3, <3>1
    <3> QED  BY <1>4, <2>2, <3>2
  <2> QED  BY <2>1, <2>2
<1>6. ASSUME NEW i \in 1 .. Len(LastOf(q, n))
      PROVE  LastOf(q, n)[i] = q[i + (Len(q) - Len(LastOf(q, n)))]
  <2>1. i \in 1 .. Len(q) - m + 1 /\ m + i - 1 = i + (Len(q) - Len(LastOf(q, n)))
    BY <1>1, <1>5, <1>6 DEF m
  <2> QED  BY <1>3, <1>4, <2>1
<1> QED  BY <1>3, <1>4, <1>5, <1>6

LEMMA LastOfDistinct ==
    ASSUME NEW S, NEW q \in Seq(S), NEW n \in Nat \ {0}, Distinct(q)
    PROVE  Distinct(LastOf(q, n))
<1>1. /\ Len(q) \in Nat /\ DOMAIN q = 1 .. Len(q)
      /\ DOMAIN LastOf(q, n) = 1 .. Len(LastOf(q, n))
      /\ Len(LastOf(q, n)) \in Nat /\ Len(LastOf(q, n)) <= Len(q)
  BY SeqFacts, LastOfFacts
<1> SUFFICES ASSUME NEW i \in 1 .. Len(LastOf(q, n)), NEW j \in 1 .. Len(LastOf(q, n)),
                    LastOf(q, n)[i] = LastOf(q, n)[j]
             PROVE  i = j
  BY <1>1 DEF Distinct
<1> DEFINE l == Len(LastOf(q, n))
           d == Len(q) - l
<1>2. LastOf(q, n)[i] = q[i + d] /\ LastOf(q, n)[j] = q[j + d]
  BY LastOfFacts
<1>3. l \in Nat /\ l <= Len(q) /\ i \in 1 .. l /\ j \in 1 .. l
  BY <1>1
<1> HIDE DEF l
<1>4. i + d \in 1 .. Len(q) /\ j + d \in 1 .. Len(q)
  BY <1>1, <1>3
<1>5. i + d = j + d
  BY <1>1, <1>2, <1>4 DEF Distinct
<1> QED  BY <1>1, <1>3, <1>5

LEMMA AppendDistinct ==
    ASSUME NEW S, NEW q \in Seq(S), NEW x \in S, Distinct(q), x \notin Entries(q)
    PROVE  Distinct(Append(q, x))
<1> DEFINE w == Append(q, x)
<1>1. /\ Len(q) \in Nat /\ DOMAIN q = 1 .. Len(q)
      /\ \A i \in 1 .. Len(q) : q[i] # x
  BY SeqFacts
<1>2. /\ w \in Seq(S) /\ Len(w) = Len(q) + 1
      /\ \A i \in 1 .. Len(q) : w[i] = q[i]
      /\ w[Len(q) + 1] = x
  BY AppendFacts
<1>3. DOMAIN w = 1 .. Len(q) + 1
  BY <1>2, SeqFacts
<1> HIDE DEF w
<1>4. \A i, j \in 1 .. Len(q) : q[i] = q[j] => i = j
  BY <1>1 DEF Distinct
<1>5. ASSUME NEW i \in 1 .. Len(q) + 1, NEW j \in 1 .. Len(q) + 1, w[i] = w[j]
      PROVE  i = j
  <2>1. CASE i \in 1 .. Len(q) /\ j \in 1 .. Len(q)
    BY <1>2, <1>4, <1>5, <2>1
  <2>2. CASE i = Len(q) + 1 \/ j = Len(q) + 1
    BY <1>1, <1>2, <1>5, <2>2
  <2> QED  BY <1>1, <2>1, <2>2
<1>6. Distinct(w)
  BY <1>3, <1>5 DEF Distinct
<1> QED  BY <1>6 DEF w

-----------------------------------------------------------------------------
(* What the service remembers of the sessions in memory.                   *)

\* The eviction: the new order holds the session, no session twice, and no
\* session that was in memory neither before nor now.
LEMMA EnsuredFacts ==
    ASSUME recent \in Seq(Sessions), Distinct(recent), Len(recent) <= MaxSessions,
           NEW s \in Sessions
    PROVE  /\ Ensured(s) \in Seq(Sessions)
           /\ Len(Ensured(s)) <= MaxSessions
           /\ Distinct(Ensured(s))
           /\ Entries(Ensured(s)) \subseteq Entries(recent) \cup {s}
           /\ s \in Entries(Ensured(s))
<1> DEFINE q == Append(recent, s)
<1>0. MaxSessions \in Nat \ {0}
  BY StoreBounds
<1>1. CASE s \in Entries(recent)
  BY <1>1 DEF Ensured
<1>2. CASE s \notin Entries(recent)
  <2>1. /\ q \in Seq(Sessions) /\ Len(q) = Len(recent) + 1
        /\ q # <<>> /\ Entries(q) = Entries(recent) \cup {s}
        /\ q[Len(recent) + 1] = s
    BY AppendFacts
  <2>2. Distinct(Append(recent, s))
    BY <1>2, AppendDistinct
  <2>3. Len(recent) \in Nat /\ DOMAIN q = 1 .. Len(q)
    BY <2>1, SeqFacts
  <2>4. CASE Len(q) <= MaxSessions
    <3>1. Ensured(s) = q
      BY <1>0, <1>2, <2>1, <2>3, <2>4 DEF Ensured
    <3> QED  BY <2>1, <2>2, <2>4, <3>1
  <2>5. CASE Len(q) > MaxSessions
    <3>1. Ensured(s) = Tail(q)
      BY <1>2, <2>5 DEF Ensured
    <3> HIDE DEF q
    <3>2. /\ Tail(q) \in Seq(Sessions)
          /\ Len(Tail(q)) = Len(q) - 1
          /\ \A i \in 1 .. Len(Tail(q)) : Tail(q)[i] = q[i + 1]
      BY <2>1, HeadTailProperties
    <3>3. DOMAIN Tail(q) = 1 .. Len(recent) /\ Len(Tail(q)) = Len(recent)
      BY <2>1, <2>3, <3>2, SeqFacts
    <3>4. Distinct(Tail(q))
      <4>1. Distinct(q)
        BY <2>2 DEF q
      <4> QED  BY <2>1, <2>3, <3>2, <3>3, <4>1 DEF Distinct
    <3>5. Entries(Tail(q)) \subseteq Entries(q)
      BY <2>1, <2>3, <3>2, <3>3 DEF Entries
    <3>6. s \in Entries(Tail(q))
      <4>1. Len(recent) \in 1 .. Len(recent)
        BY <1>0, <2>1, <2>3, <2>5
      <4>2. Tail(q)[Len(recent)] = s
        BY <2>1, <3>2, <3>3, <4>1
      <4> QED  BY <3>3, <4>1, <4>2 DEF Entries
    <3> QED  BY <2>1, <3>1, <3>2, <3>3, <3>4, <3>5, <3>6
  <2> QED  BY <1>0, <2>1, <2>3, <2>4, <2>5
<1> QED  BY <1>1, <1>2

-----------------------------------------------------------------------------
(* The inductive invariant.                                                *)

Both == {"qa", "sessions"}

\* No turn is waited for that was seen before, and none twice.
Unseen(t) ==
    \A s \in Sessions : /\ t \notin Entries(turns[s])
                        /\ t \notin Entries(backup.turns[s])
                        /\ t \notin Entries(view[s].turns)
Fresh ==
    /\ \A t \in nextTurn .. MaxTurns : Unseen(t)
    /\ \A r \in waiting : r.turn < nextTurn /\ Unseen(r.turn)
    /\ \A r, u \in waiting : r.turn = u.turn => r = u

\* No row is there twice.
Unrepeated ==
    /\ Distinct(created) /\ Distinct(backup.created)
    /\ \A s \in Sessions : Distinct(turns[s]) /\ Distinct(backup.turns[s])

\* What is marked as imported in which phase of a start.
Stages ==
    /\ boot.phase = "qa" => meta = {}
    /\ boot.phase = "sessions" => meta = {"qa"} /\ boot.item # 0
    /\ boot.phase \in {"load", "up"} => meta = Both
    /\ boot.phase = "down" => meta \in {{}, {"qa"}, Both}
    /\ boot.phase # "up" => recent = <<>>
    /\ backups > 0 => backup.meta = Both

\* Until the sessions are marked, nothing but beginnings of them is stored.
Beginnings ==
    "sessions" \notin meta =>
        \A s \in Sessions :
            /\ Entries(turns[s]) \subseteq LegacyTurns
            /\ \A k \in DOMAIN Snapshot : Snapshot[k].id = s =>
                \A i \in DOMAIN turns[s] :
                    i \in DOMAIN Snapshot[k].turns /\ turns[s][i] = Snapshot[k].turns[i]

\* Entry k of the snapshot is in the rows.
Stored(k, cs, ts) ==
    LET s == Snapshot[k].id
    IN  /\ s \in Entries(cs)
        /\ Len(ts[s]) >= Len(Snapshot[k].turns)
        /\ \A i \in DOMAIN Snapshot[k].turns : ts[s][i] = Snapshot[k].turns[i]

\* What an import has written by the record it is at.
Progress ==
    /\ boot.phase = "qa" => \A k \in 1 .. LegacyFacts : k < boot.item => facts[k] > 0
    /\ boot.phase = "sessions" =>
        /\ \A k \in DOMAIN Snapshot : k < boot.item => Stored(k, created, turns)
        /\ boot.item \in DOMAIN Snapshot /\ boot.next # 0 =>
            /\ Imported.id \in Entries(created)
            /\ Len(turns[Imported.id]) >= boot.next - 1
    /\ "qa" \in meta => \A k \in 1 .. LegacyFacts : facts[k] > 0
    /\ "sessions" \in meta => \A k \in DOMAIN Snapshot : Stored(k, created, turns)
    /\ backups > 0 =>
        /\ \A k \in 1 .. LegacyFacts : backup.facts[k] > 0
        /\ \A k \in DOMAIN Snapshot : Stored(k, backup.created, backup.turns)

\* The context of a stored turn is that of the last one.
Follows(ts, cx) ==
    \A s \in Sessions :
        ts[s] # <<>> /\ Final(ts[s]) \notin LegacyTurns => cx[s].last = Final(ts[s])
Contexts == Follows(turns, context) /\ Follows(backup.turns, backup.context)

\* What v shows of ts is its end.
Latest(v, ts) ==
    \A i \in DOMAIN v, p \in DOMAIN ts :
        v[i] = ts[p] =>
            \A q \in p + 1 .. Len(ts) : \E j \in i + 1 .. Len(v) : v[j] = ts[q]

Asked(v, ts, c) ==
    v.turns # <<>> /\ Final(v.turns) \in Entries(ts) => v.pending = c.pending

Views == \A s \in Sessions :
            /\ Latest(view[s].turns, turns[s])
            /\ s \in abandoned \/ Asked(view[s], turns[s], context[s])

\* No turn, or one that is over and was stored nowhere, so that it never will be.
Spent(t, ts, bs, n, w) ==
    t # NoTurn =>
        /\ \A s \in Sessions : t \notin Entries(ts[s]) /\ t \notin Entries(bs.turns[s])
        /\ t \in 1 .. MaxTurns /\ t < n
        /\ \A r \in w : r.turn # t

Over(t) == Spent(t, turns, backup, nextTurn, waiting)
OverNext(t) == Spent(t, turns', backup', nextTurn', waiting')

\* A question that is not the stored one is of such a turn.
Questions == \A s \in Sessions : view[s].pending = context[s].pending \/ Over(view[s].pending)

IInv == TypeOK /\ Fresh /\ Unrepeated /\ Stages /\ Beginnings /\ Progress
            /\ Contexts /\ Views /\ Questions

-----------------------------------------------------------------------------
(* What is loaded and shown.                                               *)

LEMMA LoadedIsLatest ==
    ASSUME NEW S, NEW q \in Seq(S), NEW n \in Nat \ {0}, Distinct(q)
    PROVE  Latest(LastOf(q, n), q)
<1> DEFINE v == LastOf(q, n)
<1>1. /\ Len(q) \in Nat /\ DOMAIN q = 1 .. Len(q)
      /\ Len(v) \in Nat /\ Len(v) <= Len(q) /\ DOMAIN v = 1 .. Len(v)
      /\ \A i \in 1 .. Len(v) : v[i] = q[i + (Len(q) - Len(v))]
  BY SeqFacts, LastOfFacts
<1>2. \A i, j \in 1 .. Len(q) : q[i] = q[j] => i = j
  BY <1>1 DEF Distinct
<1> HIDE DEF v
<1>3. ASSUME NEW i \in 1 .. Len(v), NEW p \in 1 .. Len(q), v[i] = q[p],
             NEW x \in p + 1 .. Len(q)
      PROVE  \E j \in i + 1 .. Len(v) : v[j] = q[x]
  <2> DEFINE d == Len(q) - Len(v)
  <2>1. d \in Nat /\ i + d \in 1 .. Len(q) /\ v[i] = q[i + d]
    BY <1>1
  <2>2. p = i + d
    BY <1>2, <1>3, <2>1
  <2>3. x - d \in i + 1 .. Len(v) /\ x - d \in 1 .. Len(v) /\ (x - d) + d = x
    BY <1>1, <2>1, <2>2
  <2>4. v[x - d] = q[x]
    BY <1>1, <2>3
  <2> QED  BY <2>3, <2>4
<1>4. Latest(v, q)
  BY <1>1, <1>3 DEF Latest
<1> QED  BY <1>4 DEF v

\* A turn that neither was seen before goes last in both, or only in the one
\* that is shown.
LEMMA ShownIsLatest ==
    ASSUME NEW S, NEW v \in Seq(S), NEW ts \in Seq(S), NEW t \in S,
           NEW n \in Nat \ {0},
           t \notin Entries(v), t \notin Entries(ts), Latest(v, ts)
    PROVE  /\ Latest(LastOf(Append(v, t), n), Append(ts, t))
           /\ Latest(LastOf(Append(v, t), n), ts)
<1> DEFINE a == Append(v, t)
           b == Append(ts, t)
           w == LastOf(a, n)
<1>1. /\ Len(v) \in Nat /\ DOMAIN v = 1 .. Len(v) /\ \A i \in 1 .. Len(v) : v[i] # t
      /\ Len(ts) \in Nat /\ DOMAIN ts = 1 .. Len(ts) /\ \A i \in 1 .. Len(ts) : ts[i] # t
  BY SeqFacts
<1>2. /\ a \in Seq(S) /\ Len(a) = Len(v) + 1 /\ a[Len(v) + 1] = t
      /\ \A i \in 1 .. Len(v) : a[i] = v[i]
      /\ b \in Seq(S) /\ Len(b) = Len(ts) + 1 /\ b[Len(ts) + 1] = t
      /\ \A i \in 1 .. Len(ts) : b[i] = ts[i]
  BY AppendFacts
<1>3. DOMAIN b = 1 .. Len(ts) + 1
  BY <1>2, SeqFacts
<1> HIDE DEF a, b
<1>4. /\ w \in Seq(S) /\ Len(w) <= Len(a)
      /\ \A i \in 1 .. Len(w) : w[i] = a[i + (Len(a) - Len(w))]
  BY <1>1, <1>2, LastOfFacts
<1>5. Len(w) \in Nat /\ DOMAIN w = 1 .. Len(w)
  BY <1>4, SeqFacts
<1> HIDE DEF w
<1> DEFINE d == Len(a) - Len(w)
<1>6. d \in Nat /\ Len(w) + d = Len(v) + 1
  BY <1>1, <1>2, <1>4, <1>5
<1>7. \A i \in 1 .. Len(w) : w[i] = a[i + d] /\ i + d \in 1 .. Len(v) + 1
  BY <1>4, <1>5, <1>6, <1>1
<1> HIDE DEF d
<1>8. \A i \in 1 .. Len(v), p \in 1 .. Len(ts) :
        v[i] = ts[p] =>
            \A q \in p + 1 .. Len(ts) : \E j \in i + 1 .. Len(v) : v[j] = ts[q]
  BY <1>1 DEF Latest
\* An older turn of the view that is stored: so are, and are shown, the later ones.
<1>9. ASSUME NEW i \in 1 .. Len(w), NEW p \in 1 .. Len(ts), w[i] = ts[p],
             NEW q \in p + 1 .. Len(ts)
      PROVE  \E j \in i + 1 .. Len(w) : w[j] = ts[q]
  <2>1. w[i] = a[i + d] /\ i + d \in 1 .. Len(v) + 1
    BY <1>7
  <2>2. i + d \in 1 .. Len(v) /\ a[i + d] = v[i + d]
    <3>1. ts[p] # t
      BY <1>1
    <3>2. i + d # Len(v) + 1
      BY <1>2, <1>9, <2>1, <3>1
    <3>3. i + d \in 1 .. Len(v)
      BY <1>1, <2>1, <3>2
    <3> QED  BY <1>2, <3>3
  <2>3. PICK j \in (i + d) + 1 .. Len(v) : v[j] = ts[q]
    BY <1>8, <1>9, <2>1, <2>2
  <2>4. j \in 1 .. Len(v) /\ j - d \in i + 1 .. Len(w) /\ j - d \in 1 .. Len(w) /\ (j - d) + d = j
    BY <1>1, <1>5, <1>6, <2>2, <2>3
  <2>5. w[j - d] = ts[q]
    BY <1>2, <1>7, <2>3, <2>4
  <2> QED  BY <2>4, <2>5
<1>10. Latest(w, ts)
  BY <1>1, <1>5, <1>9 DEF Latest
<1>11. ASSUME NEW i \in 1 .. Len(w), NEW p \in 1 .. Len(b), w[i] = b[p],
              NEW q \in p + 1 .. Len(b)
       PROVE  \E j \in i + 1 .. Len(w) : w[j] = b[q]
  <2>1. p \in 1 .. Len(ts) /\ b[p] = ts[p]
    BY <1>1, <1>2, <1>11
  <2>2. CASE q \in p + 1 .. Len(ts)
    <3>1. b[q] = ts[q]
      BY <1>1, <1>2, <2>1, <2>2
    <3> QED  BY <1>9, <1>11, <2>1, <2>2, <3>1
  <2>3. CASE q = Len(ts) + 1
    <3>1. b[q] = t
      BY <1>2, <2>3
    <3>2. w[i] # t
      BY <1>1, <1>11, <2>1
    <3>3. w[i] = a[i + d] /\ i + d \in 1 .. Len(v) + 1 /\ i + d # Len(v) + 1
      BY <1>2, <1>7, <3>2
    <3>4. Len(w) \in i + 1 .. Len(w) /\ Len(w) \in 1 .. Len(w)
      <4>1. i \in Nat /\ i + d # Len(w) + d /\ i <= Len(w)
        BY <1>5, <1>6, <3>3
      <4> QED  BY <1>5, <1>6, <4>1
    <3>5. w[Len(w)] = t
      BY <1>2, <1>6, <1>7, <3>4
    <3> QED  BY <3>1, <3>4, <3>5
  <2>4. Len(ts) \in Nat /\ Len(b) = Len(ts) + 1 /\ p \in Nat
    BY <1>1, <1>2
  <2>5. q \in p + 1 .. Len(ts) \/ q = Len(ts) + 1
    BY <2>4
  <2> QED  BY <2>2, <2>3, <2>5
<1>12. Latest(w, b)
  BY <1>2, <1>3, <1>5, <1>11 DEF Latest
<1> QED  BY <1>10, <1>12 DEF w, a, b

\* The last turn shown is the last one that ran.
LEMMA ShownEnds ==
    ASSUME NEW S, NEW v \in Seq(S), NEW t \in S, NEW n \in Nat \ {0}
    PROVE  /\ LastOf(Append(v, t), n) \in Seq(S)
           /\ Len(LastOf(Append(v, t), n)) <= n
           /\ LastOf(Append(v, t), n) # <<>>
           /\ Final(LastOf(Append(v, t), n)) = t
           /\ Entries(LastOf(Append(v, t), n)) \subseteq Entries(v) \cup {t}
<1> DEFINE a == Append(v, t)
           w == LastOf(a, n)
<1>1. /\ Len(v) \in Nat
      /\ a \in Seq(S) /\ Len(a) = Len(v) + 1 /\ a[Len(v) + 1] = t
      /\ Entries(a) = Entries(v) \cup {t}
  BY AppendFacts, SeqFacts
<1>2. DOMAIN a = 1 .. Len(a)
  BY <1>1, SeqFacts
<1> HIDE DEF a
<1>3. /\ w \in Seq(S) /\ Len(w) = IF Len(a) > n THEN n ELSE Len(a)
      /\ \A i \in 1 .. Len(w) : w[i] = a[i + (Len(a) - Len(w))]
  BY <1>1, LastOfFacts
<1>4. Len(w) \in Nat /\ DOMAIN w = 1 .. Len(w) /\ (w = <<>> <=> Len(w) = 0)
  BY <1>3, SeqFacts
<1> HIDE DEF w
<1>5. Len(w) <= n /\ Len(w) \in 1 .. Len(w) /\ Len(w) <= Len(a)
  BY <1>1, <1>3, <1>4
<1>6. w # <<>> /\ w[Len(w)] = t
  <2>1. Len(w) + (Len(a) - Len(w)) = Len(v) + 1
    BY <1>1, <1>4
  <2>2. w[Len(w)] = a[Len(w) + (Len(a) - Len(w))]
    BY <1>3, <1>5
  <2> QED  BY <1>1, <1>4, <1>5, <2>1, <2>2
<1>7. \A i \in 1 .. Len(w) : i + (Len(a) - Len(w)) \in 1 .. Len(a)
  BY <1>1, <1>5
<1>8. Entries(w) \subseteq Entries(a)
  <2>1. SUFFICES ASSUME NEW i \in 1 .. Len(w)
                 PROVE  w[i] \in Entries(a)
    BY <1>4, Zenon DEF Entries
  <2>2. w[i] = a[i + (Len(a) - Len(w))]
    BY <1>3
  <2>3. i + (Len(a) - Len(w)) \in DOMAIN a
    BY <1>2, <1>7, Zenon
  <2> QED  BY <2>2, <2>3, Zenon DEF Entries
<1> QED  BY <1>1, <1>3, <1>5, <1>6, <1>8 DEF Final, w, a

LEMMA LoadedEnds ==
    ASSUME NEW S, NEW q \in Seq(S), NEW n \in Nat \ {0}
    PROVE  /\ LastOf(q, n) \in Seq(S) /\ Len(LastOf(q, n)) <= n
           /\ Entries(LastOf(q, n)) \subseteq Entries(q)
<1>1. /\ Len(q) \in Nat /\ DOMAIN q = 1 .. Len(q)
      /\ LastOf(q, n) \in Seq(S)
      /\ Len(LastOf(q, n)) = IF Len(q) > n THEN n ELSE Len(q)
      /\ DOMAIN LastOf(q, n) = 1 .. Len(LastOf(q, n))
      /\ \A i \in 1 .. Len(LastOf(q, n)) :
            LastOf(q, n)[i] = q[i + (Len(q) - Len(LastOf(q, n)))]
  BY SeqFacts, LastOfFacts
<1> DEFINE l == Len(LastOf(q, n))
<1>2. l \in Nat /\ l <= n /\ l <= Len(q)
  BY <1>1
<1> HIDE DEF l
<1>3. \A i \in 1 .. l : i + (Len(q) - l) \in 1 .. Len(q)
  BY <1>1, <1>2
<1>4. Entries(LastOf(q, n)) \subseteq Entries(q)
  BY <1>1, <1>3 DEF Entries, l
<1> QED  BY <1>1, <1>2, <1>4 DEF l

-----------------------------------------------------------------------------
(* Types.                                                                  *)

LEMMA SnapshotTypes ==
    /\ Len(Snapshot) \in Nat /\ DOMAIN Snapshot = 1 .. Len(Snapshot)
    /\ LegacyTurns \subseteq TurnIds
    /\ \A k \in DOMAIN Snapshot :
        /\ Snapshot[k].id \in Sessions
        /\ Snapshot[k].turns \in Seq(LegacyTurns)
        /\ Snapshot[k].pending \in TurnIds \cup {NoTurn}
        /\ Len(Snapshot[k].turns) \in Nat
        /\ DOMAIN Snapshot[k].turns = 1 .. Len(Snapshot[k].turns)
        /\ \A i \in DOMAIN Snapshot[k].turns : Snapshot[k].turns[i] \in LegacyTurns
<1> DEFINE R == [id : Sessions, turns : Seq(LegacyTurns), pending : LegacyTurns \cup {NoTurn}]
<1>1. Snapshot \in Seq(R)
  BY SnapshotIsSane
<1>2. LegacyTurns \subseteq TurnIds
  BY DEF TurnIds
<1>3. Len(Snapshot) \in Nat /\ DOMAIN Snapshot = 1 .. Len(Snapshot)
  BY <1>1, SeqFacts
<1>4. \A k \in DOMAIN Snapshot : Snapshot[k] \in R
  <2> HIDE DEF R
  <2> QED  BY <1>1, <1>3, SeqFacts
<1>5. \A k \in DOMAIN Snapshot :
        /\ Snapshot[k].id \in Sessions
        /\ Snapshot[k].turns \in Seq(LegacyTurns)
        /\ Snapshot[k].pending \in TurnIds \cup {NoTurn}
  BY <1>2, <1>4
<1>6. \A k \in DOMAIN Snapshot :
        /\ Len(Snapshot[k].turns) \in Nat
        /\ DOMAIN Snapshot[k].turns = 1 .. Len(Snapshot[k].turns)
        /\ \A i \in DOMAIN Snapshot[k].turns : Snapshot[k].turns[i] \in LegacyTurns
  BY <1>5, SeqFacts
<1> QED  BY <1>2, <1>3, <1>5, <1>6

Bounds == MaxSessions \in Nat \ {0} /\ MaxTurnsKept \in Nat \ {0}

LEMMA LoadTypes ==
    ASSUME NEW db,
           db.created \in Seq(Sessions), Distinct(db.created),
           db.turns \in [Sessions -> Seq(TurnIds)],
           db.context \in [Sessions -> Context],
           Load(db)
    PROVE  /\ recent' \in Seq(Sessions) /\ Len(recent') <= MaxSessions
           /\ Distinct(recent')
           /\ view' \in [Sessions -> Shown] /\ abandoned' = {}
           /\ \A s \in Sessions : Len(view'[s].turns) <= MaxTurnsKept
           /\ \A s \in Sessions \ Entries(recent') : view'[s] = Empty
           /\ \A s \in Entries(recent') :
                /\ s \in Sessions
                /\ view'[s] = [turns |-> LastOf(db.turns[s], MaxTurnsKept),
                               pending |-> db.context[s].pending]
<1>1. Bounds
  BY StoreBounds DEF Bounds
<1>2. recent' = LastOf(db.created, MaxSessions)
  BY DEF Load
<1>3. recent' \in Seq(Sessions) /\ Len(recent') <= MaxSessions /\ Distinct(recent')
  BY <1>1, <1>2, LoadedEnds, LastOfDistinct DEF Bounds
<1>4. \A s \in Sessions :
        /\ LastOf(db.turns[s], MaxTurnsKept) \in Seq(TurnIds)
        /\ Len(LastOf(db.turns[s], MaxTurnsKept)) <= MaxTurnsKept
        /\ db.context[s].pending \in TurnIds \cup {NoTurn}
  BY <1>1, LoadedEnds DEF Bounds, Context
<1>5. view' = [s \in Sessions |->
                IF s \in Entries(recent')
                THEN [turns |-> LastOf(db.turns[s], MaxTurnsKept),
                      pending |-> db.context[s].pending]
                ELSE Empty]
  BY <1>2 DEF Load, LatestTurns
<1>6. /\ Empty \in Shown
      /\ Empty.turns = <<>> /\ Len(Empty.turns) = 0
  BY EmptySeq DEF Empty, Shown
<1>7. \A s \in Sessions : view'[s] \in Shown /\ Len(view'[s].turns) <= MaxTurnsKept
  <2> SUFFICES ASSUME NEW s \in Sessions
               PROVE  view'[s] \in Shown /\ Len(view'[s].turns) <= MaxTurnsKept
    OBVIOUS
  <2>1. CASE s \in Entries(recent')
    <3>1. view'[s] = [turns |-> LastOf(db.turns[s], MaxTurnsKept),
                      pending |-> db.context[s].pending]
      BY <1>5, <2>1
    <3> QED  BY <1>4, <3>1 DEF Shown
  <2>2. CASE s \notin Entries(recent')
    <3>1. view'[s] = Empty
      BY <1>5, <2>2
    <3> QED  BY <1>1, <1>6, <3>1 DEF Bounds
  <2> QED  BY <2>1, <2>2
<1>8. view' \in [Sessions -> Shown]
  BY <1>5, <1>7
<1>9. Entries(recent') \subseteq Sessions
  BY <1>3, SeqFacts
<1>10. abandoned' = {}
  BY DEF Load
<1> QED  BY <1>3, <1>5, <1>7, <1>8, <1>9, <1>10

LEMMA ShowTypes ==
    ASSUME NEW q, NEW f \in [Sessions -> Shown],
           \A s \in Sessions : Len(f[s].turns) <= MaxTurnsKept,
           ShowOnly(q, f)
    PROVE  /\ view' \in [Sessions -> Shown]
           /\ \A s \in Sessions : Len(view'[s].turns) <= MaxTurnsKept
           /\ \A s \in Sessions \ Entries(q) : view'[s] = Empty
           /\ \A s \in Sessions : view'[s] = IF s \in Entries(q) THEN f[s] ELSE Empty
<1>1. view' = [s \in Sessions |-> IF s \in Entries(q) THEN f[s] ELSE Empty]
  BY DEF ShowOnly
<1>2. /\ Empty \in Shown
      /\ Empty.turns = <<>> /\ Len(Empty.turns) = 0
      /\ MaxTurnsKept \in Nat \ {0}
  BY EmptySeq, StoreBounds DEF Empty, Shown
<1>3. \A s \in Sessions : view'[s] \in Shown /\ Len(view'[s].turns) <= MaxTurnsKept
  <2> SUFFICES ASSUME NEW s \in Sessions
               PROVE  view'[s] \in Shown /\ Len(view'[s].turns) <= MaxTurnsKept
    OBVIOUS
  <2>1. view'[s] = f[s] \/ view'[s] = Empty
    BY <1>1
  <2>2. CASE view'[s] = f[s]
    BY <2>2
  <2>3. CASE view'[s] = Empty
    BY <1>2, <2>3
  <2> QED  BY <2>1, <2>2, <2>3
<1> QED  BY <1>1, <1>3

\* What memory looks like, as a part of TypeOK.
MemoryOK ==
    /\ recent \in Seq(Sessions)
    /\ view \in [Sessions -> Shown]
    /\ abandoned \subseteq Sessions
    /\ Len(recent) <= MaxSessions
    /\ \A s \in Sessions : Len(view[s].turns) <= MaxTurnsKept
    /\ \A s \in Sessions \ Entries(recent) : view[s] = Empty
    /\ Distinct(recent)

RowsOK ==
    /\ created \in Seq(Sessions)
    /\ turns \in [Sessions -> Seq(TurnIds)]
    /\ context \in [Sessions -> Context]

RestOK ==
    /\ meta \subseteq {"qa", "sessions"}
    /\ facts \in [1 .. LegacyFacts -> Nat]
    /\ boot \in [phase : {"down", "qa", "sessions", "load", "up"},
                 item : Nat, next : Nat]
    /\ waiting \subseteq Request
    /\ opened \subseteq Sessions
    /\ nextTurn \in 1 .. MaxTurns + 1
    /\ stops \in 0 .. MaxStops
    /\ backups \in 0 .. MaxBackups

BackupOK == backup \in [created : Seq(Sessions), turns : [Sessions -> Seq(TurnIds)],
                   context : [Sessions -> Context],
                   meta : SUBSET {"qa", "sessions"},
                   facts : [1 .. LegacyFacts -> Nat]]

LEMMA TypeParts == TypeOK <=> MemoryOK /\ RowsOK /\ RestOK /\ BackupOK
  BY DEF TypeOK, MemoryOK, RowsOK, RestOK, BackupOK, Distinct

LEMMA TypePartsNext ==
    MemoryOK' /\ RowsOK' /\ RestOK' /\ BackupOK' => TypeOK'
  BY DEF TypeOK, MemoryOK, RowsOK, RestOK, BackupOK, Distinct

LEMMA RowsOfTurn ==
    ASSUME RowsOK, NEW s \in Sessions, NEW t \in TurnIds
    PROVE  /\ Upsert(s) => created' \in Seq(Sessions)
           /\ Append(turns[s], t) \in Seq(TurnIds)
           /\ [turns EXCEPT ![s] = Append(@, t)] \in [Sessions -> Seq(TurnIds)]
<1>1. Append(created, s) \in Seq(Sessions)
  BY AppendFacts DEF RowsOK
<1>2. Append(turns[s], t) \in Seq(TurnIds)
  BY AppendFacts DEF RowsOK
<1> QED  BY <1>1, <1>2 DEF RowsOK, Upsert

LEMMA TypeInit == Init => TypeOK
<1> SUFFICES ASSUME Init PROVE TypeOK
  OBVIOUS
<1>1. /\ NoTurn \in TurnIds \cup {NoTurn} /\ NoContext \in Context
      /\ Empty \in Shown /\ Empty.turns = <<>> /\ Len(<<>>) = 0
      /\ MaxSessions \in Nat /\ MaxTurnsKept \in Nat
      /\ MaxTurns \in Nat /\ MaxStops \in Nat /\ MaxBackups \in Nat
  BY EmptySeq, StoreBounds DEF NoContext, Context, Empty, Shown
<1>2. MemoryOK
  BY <1>1, EmptySeq DEF Init, MemoryOK, Distinct
<1>3. RowsOK
  BY <1>1, EmptySeq DEF Init, RowsOK
<1>4. RestOK
  <2>1. {Snapshot[k].id : k \in DOMAIN Snapshot} \subseteq Sessions
    BY SnapshotTypes
  <2>2. boot \in [phase : {"down", "qa", "sessions", "load", "up"}, item : Nat, next : Nat]
    BY DEF Init, Down, At
  <2> QED  BY <1>1, <2>1, <2>2 DEF Init, RestOK
<1>5. BackupOK
  <2>1. backup = Tables
    BY DEF Init
  <2> QED  BY <1>3, <1>4, <2>1 DEF BackupOK, RowsOK, RestOK, Tables
<1> QED  BY <1>2, <1>3, <1>4, <1>5, TypeParts

\* The steps of an import that write no row.
Marking == Start \/ ImportFact \/ MarkFacts \/ ImportConflict \/ MarkSessions

Boots == [phase : {"down", "qa", "sessions", "load", "up"}, item : Nat, next : Nat]

LEMMA BootSteps ==
    ASSUME boot \in Boots
    PROVE  /\ boot.item \in Nat /\ boot.next \in Nat
           /\ [boot EXCEPT !.item = @ + 1] \in Boots
           /\ [boot EXCEPT !.next = 1] \in Boots
           /\ [boot EXCEPT !.next = @ + 1] \in Boots
           /\ At("sessions", boot.item + 1, 0) \in Boots
           /\ Down \in Boots /\ SessionImport \in Boots
           /\ At("qa", 1, 0) \in Boots /\ At("load", 0, 0) \in Boots
<1>1. boot.item \in Nat /\ boot.next \in Nat
  BY DEF Boots
<1> QED  BY <1>1 DEF Boots, Down, SessionImport, At

LEMMA TypeMarking ==
    ASSUME TypeOK, Marking
    PROVE  TypeOK'
<1>1. MemoryOK /\ RowsOK /\ RestOK /\ BackupOK
  BY TypeParts
<1>2. MemoryOK' /\ RowsOK' /\ BackupOK'
  <2>1. UNCHANGED <<recent, view, abandoned, created, turns, context, backup>>
    BY DEF Marking, Start, ImportFact, MarkFacts, ImportConflict, MarkSessions,
           memory, rows, tables, clients, files
  <2> QED  BY <1>1, <2>1 DEF MemoryOK, RowsOK, BackupOK, Distinct
<1>3. RestOK'
  <2>1. UNCHANGED <<waiting, opened, nextTurn, stops, backups>>
    BY DEF Marking, Start, ImportFact, MarkFacts, ImportConflict, MarkSessions,
           memory, rows, tables, clients, files
  <2>2. meta' \subseteq {"qa", "sessions"} /\ facts' \in [1 .. LegacyFacts -> Nat]
    BY <1>1 DEF RestOK, Marking, Start, ImportFact, MarkFacts, ImportConflict,
                MarkSessions, rows, tables
  <2>3. boot \in Boots
    BY <1>1 DEF RestOK, Boots
  <2>4. boot' \in Boots
    BY <2>3, BootSteps DEF Marking, Start, ImportFact, MarkFacts, ImportConflict,
                MarkSessions
  <2> QED  BY <1>1, <2>1, <2>2, <2>4 DEF RestOK, Boots
<1> QED  BY <1>2, <1>3, TypePartsNext

LEMMA TypeImport ==
    ASSUME TypeOK, Stages, ImportSession \/ ImportTurn \/ ImportContext
    PROVE  TypeOK'
<1>1. MemoryOK /\ RowsOK /\ RestOK /\ BackupOK
  BY TypeParts
<1>2. MemoryOK' /\ BackupOK'
  <2>1. UNCHANGED <<recent, view, abandoned, backup>>
    BY DEF ImportSession, ImportTurn, ImportContext, memory, files
  <2> QED  BY <1>1, <2>1 DEF MemoryOK, BackupOK, Distinct
<1>3. RestOK'
  <2>1. UNCHANGED <<meta, facts, waiting, opened, nextTurn, stops, backups>>
    BY DEF ImportSession, ImportTurn, ImportContext, clients, files
  <2>2. boot \in Boots
    BY <1>1 DEF RestOK, Boots
  <2>4. boot' \in Boots
    BY <2>2, BootSteps DEF ImportSession, ImportTurn, ImportContext
  <2> QED  BY <1>1, <2>1, <2>4 DEF RestOK, Boots
<1>4. boot.item \in DOMAIN Snapshot
  <2>1. boot.item \in Nat /\ boot.item <= Len(Snapshot) /\ boot.item # 0
    BY <1>1 DEF RestOK, Stages, ImportSession, ImportTurn, ImportContext, ImportingSession
  <2> QED  BY <2>1, SnapshotTypes
<1>5. /\ Imported.id \in Sessions
      /\ Imported.turns \in Seq(LegacyTurns)
      /\ Imported.pending \in TurnIds \cup {NoTurn}
      /\ \A i \in DOMAIN Imported.turns : Imported.turns[i] \in TurnIds
  BY <1>4, SnapshotTypes DEF Imported
<1>6. CASE ImportSession
  BY <1>1, <1>2, <1>3, <1>5, <1>6, AppendFacts, TypePartsNext
     DEF ImportSession, RowsOK, Upsert
<1>7. CASE ImportTurn
  <2>1. RowsOK'
    <3>1. boot.next \in DOMAIN Imported.turns
      BY <1>7 DEF ImportTurn
    <3>2. Imported.turns[boot.next] \in TurnIds
      BY <1>5, <3>1
    <3>3. turns' \in [Sessions -> Seq(TurnIds)]
      BY <1>1, <1>5, <1>7, <3>2, RowsOfTurn DEF ImportTurn
    <3> QED  BY <1>1, <1>7, <3>3 DEF ImportTurn, RowsOK
  <2> QED  BY <1>2, <1>3, <2>1, TypePartsNext
<1>8. CASE ImportContext
  <2>1. Reconstruct(Imported.turns, Imported.pending) \in Context
    <3>1. Imported.turns # <<>> => Head(Imported.turns) \in TurnIds
      <4>1. Imported.turns # <<>> => Head(Imported.turns) \in LegacyTurns
        BY <1>5, HeadTailProperties
      <4> QED  BY <4>1, SnapshotTypes
    <3> QED  BY <1>5, <3>1 DEF Reconstruct, Context
  <2>2. RowsOK'
    BY <1>1, <1>8, <2>1 DEF ImportContext, RowsOK
  <2> QED  BY <1>2, <1>3, <2>2, TypePartsNext
<1> QED  BY <1>6, <1>7, <1>8

LEMMA TypeLoading ==
    ASSUME TypeOK, Unrepeated, Open \/ Restore
    PROVE  TypeOK'
<1>1. MemoryOK /\ RowsOK /\ RestOK /\ BackupOK
  BY TypeParts
<1>2. CASE Open
  <2>1. MemoryOK'
    <3>1. /\ Tables.created = created /\ Tables.turns = turns
          /\ Tables.context = context
      BY DEF Tables
    <3>2. Load(Tables) /\ Distinct(created)
      BY <1>2 DEF Open, Unrepeated
    <3> QED  BY <1>1, <3>1, <3>2, LoadTypes DEF MemoryOK, RowsOK, Distinct
  <2>2. RowsOK' /\ BackupOK'
    BY <1>1, <1>2 DEF Open, tables, rows, files, RowsOK, BackupOK
  <2>3. RestOK'
    BY <1>1, <1>2 DEF Open, tables, clients, files, RestOK, At
  <2> QED  BY <2>1, <2>2, <2>3, TypePartsNext
<1>3. CASE Restore
  <2>1. /\ backup.created \in Seq(Sessions)
        /\ backup.turns \in [Sessions -> Seq(TurnIds)]
        /\ backup.context \in [Sessions -> Context]
        /\ backup.meta \subseteq {"qa", "sessions"}
        /\ backup.facts \in [1 .. LegacyFacts -> Nat]
    BY <1>1 DEF BackupOK
  <2>2. MemoryOK'
    <3>1. Load(backup) /\ Distinct(backup.created)
      BY <1>3 DEF Restore, Unrepeated
    <3> QED  BY <2>1, <3>1, LoadTypes DEF MemoryOK, Distinct
  <2>3. RowsOK' /\ BackupOK'
    BY <1>1, <1>3, <2>1 DEF Restore, files, RowsOK, BackupOK
  <2>4. RestOK'
    BY <1>1, <1>3, <2>1 DEF Restore, clients, files, RestOK
  <2> QED  BY <2>2, <2>3, <2>4, TypePartsNext
<1> QED  BY <1>2, <1>3

LEMMA RunView ==
    ASSUME TypeOK, NEW r \in waiting, NEW asks \in BOOLEAN, RunTurn(r, asks)
    PROVE  LET s == r.session
               w == LatestTurns(Append(view[s].turns, r.turn))
           IN  /\ s \in Sessions /\ r.turn \in TurnIds /\ r.turn \in 1 .. MaxTurns
               /\ s \in Entries(recent')
               /\ MemoryOK'
               /\ \A x \in Entries(recent') : x = s \/ x \in Entries(recent)
               /\ \A x \in Sessions : x # s /\ x \in Entries(recent') => view'[x] = view[x]
               /\ view'[s] = [turns |-> w,
                              pending |-> Question(r, asks)]
               /\ w \in Seq(TurnIds) /\ w # <<>> /\ Final(w) = r.turn
               /\ Entries(w) \subseteq Entries(view[s].turns) \cup {r.turn}
<1> DEFINE s == r.session
           w == LatestTurns(Append(view[s].turns, r.turn))
           pending == Question(r, asks)
           f == [view EXCEPT ![s] = [turns |-> w, pending |-> pending]]
<1>1. MemoryOK /\ RowsOK /\ RestOK
  BY TypeParts
<1>2. s \in Sessions /\ r.turn \in TurnIds /\ r.turn \in 1 .. MaxTurns
  BY <1>1 DEF RestOK, Request, TurnIds
<1>3. view[s].turns \in Seq(TurnIds)
  BY <1>1, <1>2 DEF MemoryOK, Shown
<1>4. /\ w \in Seq(TurnIds) /\ w # <<>> /\ Final(w) = r.turn
      /\ Len(w) <= MaxTurnsKept
      /\ Entries(w) \subseteq Entries(view[s].turns) \cup {r.turn}
  <2>1. MaxTurnsKept \in Nat \ {0}
    BY StoreBounds
  <2> DEFINE v == view[s].turns
             t == r.turn
  <2>2. v \in Seq(TurnIds) /\ t \in TurnIds
    BY <1>2, <1>3
  <2> HIDE DEF v, t
  <2>3. /\ LastOf(Append(v, t), MaxTurnsKept) \in Seq(TurnIds)
        /\ Len(LastOf(Append(v, t), MaxTurnsKept)) <= MaxTurnsKept
        /\ LastOf(Append(v, t), MaxTurnsKept) # <<>>
        /\ Final(LastOf(Append(v, t), MaxTurnsKept)) = t
        /\ Entries(LastOf(Append(v, t), MaxTurnsKept)) \subseteq Entries(v) \cup {t}
    BY <2>1, <2>2, ShownEnds
  <2> QED  BY <2>3 DEF LatestTurns, v, t
<1>5. recent' = Ensured(s) /\ ShowOnly(Ensured(s), f)
  BY DEF RunTurn
<1> HIDE DEF w
<1>6. pending \in TurnIds \cup {NoTurn}
  BY <1>2 DEF Question
<1>7. [turns |-> w, pending |-> pending] \in Shown
  BY <1>4, <1>6 DEF Shown
<1>8. f \in [Sessions -> Shown]
  BY <1>1, <1>2, <1>7 DEF MemoryOK
<1>9. /\ \A x \in Sessions : Len(f[x].turns) <= MaxTurnsKept
      /\ f[s] = [turns |-> w, pending |-> pending]
      /\ \A x \in Sessions : x # s => f[x] = view[x]
  <2>1. DOMAIN view = Sessions /\ \A x \in Sessions : Len(view[x].turns) <= MaxTurnsKept
    BY <1>1 DEF MemoryOK
  <2>2. f[s] = [turns |-> w, pending |-> pending]
    BY <1>2, <2>1
  <2>3. \A x \in Sessions : x # s => f[x] = view[x]
    BY <1>2, <2>1
  <2>4. ASSUME NEW x \in Sessions PROVE Len(f[x].turns) <= MaxTurnsKept
    <3>1. CASE x = s
      BY <1>4, <2>2, <3>1
    <3>2. CASE x # s
      BY <2>1, <2>3, <3>2
    <3> QED  BY <3>1, <3>2
  <2> QED  BY <2>2, <2>3, <2>4
<1> HIDE DEF f
<1>10. /\ view' \in [Sessions -> Shown]
       /\ \A x \in Sessions : Len(view'[x].turns) <= MaxTurnsKept
       /\ \A x \in Sessions \ Entries(Ensured(s)) : view'[x] = Empty
       /\ \A x \in Sessions : view'[x] = IF x \in Entries(Ensured(s)) THEN f[x] ELSE Empty
  BY <1>5, <1>8, <1>9, ShowTypes
<1>11. /\ Ensured(s) \in Seq(Sessions) /\ Len(Ensured(s)) <= MaxSessions
       /\ Distinct(Ensured(s))
       /\ Entries(Ensured(s)) \subseteq Entries(recent) \cup {s}
       /\ s \in Entries(Ensured(s))
  BY <1>1, <1>2, EnsuredFacts DEF MemoryOK
<1>12. MemoryOK'
  <2>1. \A x \in Sessions \ Entries(recent') : view'[x] = Empty
    BY <1>5, <1>10
  <2>2. recent' \in Seq(Sessions) /\ Len(recent') <= MaxSessions
    BY <1>5, <1>11
  <2>3. \A i, j \in DOMAIN recent' : recent'[i] = recent'[j] => i = j
    BY <1>5, <1>11 DEF Distinct
  <2>4. abandoned' \subseteq Sessions
    BY <1>1 DEF MemoryOK, RunTurn
  <2> QED  BY <1>10, <2>1, <2>2, <2>3, <2>4 DEF MemoryOK, Distinct
<1>13. /\ view'[s] = [turns |-> w, pending |-> pending]
       /\ \A x \in Sessions : x # s /\ x \in Entries(recent') => view'[x] = view[x]
  BY <1>2, <1>5, <1>9, <1>10, <1>11
<1>14. s \in Entries(recent') /\ \A x \in Entries(recent') : x = s \/ x \in Entries(recent)
  BY <1>5, <1>11
<1> QED  BY <1>2, <1>4, <1>12, <1>13, <1>14 DEF w

LEMMA CreateView ==
    ASSUME TypeOK, NEW s \in Sessions, CreateSession(s)
    PROVE  /\ MemoryOK'
           /\ \A x \in Sessions : view'[x] = view[x] \/ view'[x] = Empty
<1>1. MemoryOK
  BY TypeParts
<1>2. recent' = Ensured(s) /\ ShowOnly(Ensured(s), view)
  BY DEF CreateSession
<1>3. /\ Ensured(s) \in Seq(Sessions) /\ Len(Ensured(s)) <= MaxSessions
      /\ Distinct(Ensured(s))
  BY <1>1, EnsuredFacts DEF MemoryOK
<1>4. /\ view' \in [Sessions -> Shown]
      /\ \A x \in Sessions : Len(view'[x].turns) <= MaxTurnsKept
      /\ \A x \in Sessions \ Entries(Ensured(s)) : view'[x] = Empty
      /\ \A x \in Sessions : view'[x] = IF x \in Entries(Ensured(s)) THEN view[x] ELSE Empty
  BY <1>1, <1>2, ShowTypes DEF MemoryOK
<1>5. MemoryOK'
  <2>1. \A x \in Sessions \ Entries(recent') : view'[x] = Empty
    BY <1>2, <1>4
  <2>2. recent' \in Seq(Sessions) /\ Len(recent') <= MaxSessions
    BY <1>2, <1>3
  <2>3. \A i, j \in DOMAIN recent' : recent'[i] = recent'[j] => i = j
    BY <1>2, <1>3 DEF Distinct
  <2>4. abandoned' \subseteq Sessions
    BY <1>1 DEF MemoryOK, CreateSession
  <2> QED  BY <1>4, <2>1, <2>2, <2>3, <2>4 DEF MemoryOK, Distinct
<1> QED  BY <1>4, <1>5

\* What a turn that panicked leaves: the turns as they were, the question perhaps
\* its own.
LEMMA AbandonView ==
    ASSUME TypeOK, NEW r \in waiting, NEW asks \in BOOLEAN, AbandonTurn(r, asks)
    PROVE  LET s == r.session
           IN  /\ s \in Sessions /\ r.turn \in 1 .. MaxTurns
               /\ MemoryOK'
               /\ \A x \in Sessions :
                    \/ view'[x] = view[x]
                    \/ view'[x] = Empty
                    \/ /\ x = s
                       /\ view'[x].turns = view[x].turns
                       /\ view'[x].pending = Question(r, asks)
<1> DEFINE s == r.session
<1>1. MemoryOK /\ RestOK
  BY TypeParts
<1>2. s \in Sessions /\ r.turn \in TurnIds /\ r.turn \in 1 .. MaxTurns
  BY <1>1 DEF RestOK, Request, TurnIds
<1>3. PICK p \in {view[s].pending, Question(r, asks)} :
        ShowOnly(Ensured(s), [view EXCEPT ![s].pending = p])
  BY DEF AbandonTurn
<1> DEFINE f == [view EXCEPT ![s].pending = p]
<1>4. view \in [Sessions -> Shown] /\ view[s] \in Shown
  BY <1>1, <1>2 DEF MemoryOK
<1>5. p \in TurnIds \cup {NoTurn}
  BY <1>2, <1>3, <1>4 DEF Question, Shown
<1>6. f[s] = [turns |-> view[s].turns, pending |-> p] /\ f[s] \in Shown
  BY <1>2, <1>4, <1>5 DEF Shown
<1>7. \A x \in Sessions : x # s => f[x] = view[x]
  BY <1>4
<1>8. f \in [Sessions -> Shown]
  BY <1>4, <1>6
<1>9. \A x \in Sessions : Len(f[x].turns) <= MaxTurnsKept
  <2> SUFFICES ASSUME NEW x \in Sessions PROVE Len(f[x].turns) <= MaxTurnsKept
    OBVIOUS
  <2>1. f[x].turns = view[x].turns
    BY <1>6, <1>7
  <2> QED  BY <1>1, <2>1 DEF MemoryOK
<1>10. recent' = Ensured(s) /\ ShowOnly(Ensured(s), f)
  BY <1>3 DEF AbandonTurn
<1> HIDE DEF f
<1>11. /\ view' \in [Sessions -> Shown]
       /\ \A x \in Sessions : Len(view'[x].turns) <= MaxTurnsKept
       /\ \A x \in Sessions \ Entries(Ensured(s)) : view'[x] = Empty
       /\ \A x \in Sessions : view'[x] = IF x \in Entries(Ensured(s)) THEN f[x] ELSE Empty
  BY <1>8, <1>9, <1>10, ShowTypes
<1>12. /\ Ensured(s) \in Seq(Sessions) /\ Len(Ensured(s)) <= MaxSessions
       /\ Distinct(Ensured(s))
  BY <1>1, <1>2, EnsuredFacts DEF MemoryOK
<1>13. MemoryOK'
  <2>1. \A x \in Sessions \ Entries(recent') : view'[x] = Empty
    BY <1>10, <1>11
  <2>2. recent' \in Seq(Sessions) /\ Len(recent') <= MaxSessions
    BY <1>10, <1>12
  <2>3. \A i, j \in DOMAIN recent' : recent'[i] = recent'[j] => i = j
    BY <1>10, <1>12 DEF Distinct
  <2>4. abandoned' \subseteq Sessions
    BY <1>1, <1>2 DEF MemoryOK, AbandonTurn
  <2> QED  BY <1>11, <2>1, <2>2, <2>3, <2>4 DEF MemoryOK, Distinct
<1>14. f[s] = view[s] \/ f[s] = [turns |-> view[s].turns, pending |-> Question(r, asks)]
  <2>1. CASE p = view[s].pending
    <3>1. view[s] = [turns |-> view[s].turns, pending |-> view[s].pending]
      BY <1>4 DEF Shown
    <3> QED  BY <1>6, <2>1, <3>1
  <2>2. CASE p = Question(r, asks)
    BY <1>6, <2>2
  <2> QED  BY <1>3, <2>1, <2>2
<1>15. ASSUME NEW x \in Sessions
       PROVE  \/ view'[x] = view[x]
              \/ view'[x] = Empty
              \/ /\ x = s
                 /\ view'[x].turns = view[x].turns
                 /\ view'[x].pending = Question(r, asks)
  <2>1. view'[x] = f[x] \/ view'[x] = Empty
    BY <1>11
  <2>2. CASE x # s
    BY <1>7, <2>1, <2>2
  <2>3. CASE x = s
    BY <1>14, <2>1, <2>3
  <2> QED  BY <2>2, <2>3
<1> QED  BY <1>2, <1>13, <1>15

LEMMA TypeServing ==
    ASSUME TypeOK,
           \/ \E s \in Sessions : CreateSession(s) \/ Submit(s)
           \/ \E r \in waiting, asks \in BOOLEAN : RunTurn(r, asks) \/ AbandonTurn(r, asks)
           \/ Backup \/ Stop
    PROVE  TypeOK'
<1>1. MemoryOK /\ RowsOK /\ RestOK /\ BackupOK
  BY TypeParts
<1>2. MaxTurns \in Nat /\ MaxStops \in Nat /\ MaxBackups \in Nat /\ MaxSessions \in Nat
  BY StoreBounds
<1>3. ASSUME NEW s \in Sessions, CreateSession(s) PROVE TypeOK'
  <2>1. MemoryOK'
    BY <1>3, CreateView
  <2>2. RowsOK' /\ RestOK' /\ BackupOK'
    BY <1>1, <1>3 DEF CreateSession, tables, rows, files, RowsOK, RestOK, BackupOK
  <2> QED  BY <2>1, <2>2, TypePartsNext
<1>4. ASSUME NEW s \in Sessions, Submit(s) PROVE TypeOK'
  <2>1. MemoryOK' /\ RowsOK' /\ BackupOK'
    BY <1>1, <1>4
       DEF Submit, tables, rows, memory, files, MemoryOK, RowsOK, BackupOK, Distinct
  <2>2. nextTurn \in 1 .. MaxTurns /\ nextTurn' = nextTurn + 1
    BY <1>1, <1>2, <1>4 DEF Submit, RestOK
  <2>3. nextTurn' \in 1 .. MaxTurns + 1
    BY <1>2, <2>2
  <2>4. waiting' \subseteq Request
    BY <1>1, <1>4, <2>2 DEF Submit, RestOK, Request
  <2>5. RestOK'
    BY <1>1, <1>4, <2>3, <2>4 DEF Submit, tables, files, RestOK
  <2> QED  BY <2>1, <2>5, TypePartsNext
<1>5. ASSUME NEW r \in waiting, NEW asks \in BOOLEAN, RunTurn(r, asks) PROVE TypeOK'
  <2> DEFINE s == r.session
             pending == Question(r, asks)
  <2>1. s \in Sessions /\ r.turn \in TurnIds /\ MemoryOK'
    BY <1>5, RunView
  <2>2. RestOK' /\ BackupOK'
    BY <1>1, <1>5 DEF RunTurn, files, RestOK, BackupOK
  <2>3. CASE RecordTurn(s, r.turn, pending)
    <3>1. created' \in Seq(Sessions) /\ turns' \in [Sessions -> Seq(TurnIds)]
      BY <1>1, <2>1, <2>3, RowsOfTurn DEF RecordTurn
    <3>2. [pending |-> pending, last |-> r.turn] \in Context
      BY <2>1 DEF Context, Question
    <3>3. context' \in [Sessions -> Context]
      BY <1>1, <2>3, <3>2 DEF RecordTurn, RowsOK
    <3>4. RowsOK'
      BY <3>1, <3>3 DEF RowsOK
    <3> QED  BY <2>1, <2>2, <3>4, TypePartsNext
  <2>4. CASE UNCHANGED rows
    <3>1. RowsOK'
      BY <1>1, <2>4 DEF rows, RowsOK
    <3> QED  BY <2>1, <2>2, <3>1, TypePartsNext
  <2> QED  BY <1>5, <2>3, <2>4 DEF RunTurn
<1>8. ASSUME NEW r \in waiting, NEW asks \in BOOLEAN, AbandonTurn(r, asks) PROVE TypeOK'
  <2>1. MemoryOK'
    BY <1>8, AbandonView
  <2>2. RowsOK' /\ RestOK' /\ BackupOK'
    BY <1>1, <1>8 DEF AbandonTurn, tables, rows, files, RowsOK, RestOK, BackupOK
  <2> QED  BY <2>1, <2>2, TypePartsNext
<1>6. CASE Backup
  <2>1. MemoryOK' /\ RowsOK'
    BY <1>1, <1>6 DEF Backup, tables, rows, memory, MemoryOK, RowsOK, Distinct
  <2>2. RestOK'
    BY <1>1, <1>2, <1>6 DEF Backup, tables, clients, RestOK
  <2>3. BackupOK'
    BY <1>1, <1>6 DEF Backup, Tables, BackupOK, RowsOK, RestOK
  <2> QED  BY <2>1, <2>2, <2>3, TypePartsNext
<1>7. CASE Stop
  <2>1. RowsOK' /\ BackupOK'
    BY <1>1, <1>7 DEF Stop, tables, rows, files, RowsOK, BackupOK
  <2>2. RestOK'
    BY <1>1, <1>2, <1>7 DEF Stop, tables, files, RestOK, Down, At
  <2>3. /\ Empty \in Shown /\ Empty.turns = <<>> /\ Len(<<>>) = 0
        /\ <<>> \in Seq(Sessions) /\ MaxTurnsKept \in Nat /\ DOMAIN <<>> = {}
    BY EmptySeq, StoreBounds DEF Empty, Shown
  <2>4. MemoryOK'
    <3>1. recent' = <<>> /\ view' = [s \in Sessions |-> Empty] /\ abandoned' = {}
      BY <1>7 DEF Stop
    <3>2. \A i, j \in DOMAIN recent' : recent'[i] = recent'[j] => i = j
      BY <2>3, <3>1
    <3> QED  BY <1>2, <2>3, <3>1, <3>2 DEF MemoryOK, Distinct
  <2> QED  BY <2>1, <2>2, <2>4, TypePartsNext
<1> QED  BY <1>3, <1>4, <1>5, <1>6, <1>7, <1>8

LEMMA TypeStutter == TypeOK /\ UNCHANGED vars => TypeOK'
<1> SUFFICES ASSUME TypeOK, UNCHANGED vars PROVE TypeOK'
  OBVIOUS
<1>1. MemoryOK /\ RowsOK /\ RestOK /\ BackupOK
  BY TypeParts
<1>2. MemoryOK' /\ RowsOK' /\ RestOK' /\ BackupOK'
  BY <1>1 DEF vars, tables, rows, memory, clients, files,
              MemoryOK, RowsOK, RestOK, BackupOK, Distinct
<1> QED  BY <1>2, TypePartsNext

LEMMA TypeStep ==
    ASSUME TypeOK, Unrepeated, Stages, [Next]_vars
    PROVE  TypeOK'
<1>1. CASE Starting
  BY <1>1, TypeMarking, TypeImport, TypeLoading DEF Starting, Marking
<1>2. CASE Serving
  BY <1>2, TypeServing, TypeLoading DEF Serving
<1>3. CASE Stop
  BY <1>3, TypeServing
<1> QED  BY <1>1, <1>2, <1>3, TypeStutter DEF Next

-----------------------------------------------------------------------------
(* Which turns were seen.                                                  *)

\* Nothing is seen in a step but what was seen before, and G.
SeenOrIn(G) ==
    \A x \in Sessions :
        LET seen == Entries(turns[x]) \cup Entries(backup.turns[x]) \cup Entries(view[x].turns)
        IN  /\ Entries(turns'[x]) \subseteq seen \cup G
            /\ Entries(backup'.turns[x]) \subseteq seen \cup G
            /\ Entries(view'[x].turns) \subseteq seen \cup G

LEMMA FreshKept ==
    ASSUME Fresh, NEW G, SeenOrIn(G), waiting' \subseteq waiting, nextTurn' = nextTurn,
           \A t \in nextTurn .. MaxTurns : t \notin G,
           \A r \in waiting' : r.turn \notin G
    PROVE  Fresh'
<1>1. ASSUME NEW t, Unseen(t), t \notin G PROVE Unseen(t)'
  BY <1>1 DEF Unseen, SeenOrIn
<1> QED  BY <1>1 DEF Fresh

LEMMA LoadSeen ==
    ASSUME NEW db,
           db.created \in Seq(Sessions), Distinct(db.created),
           db.turns \in [Sessions -> Seq(TurnIds)],
           db.context \in [Sessions -> Context],
           Load(db), NEW x \in Sessions
    PROVE  Entries(view'[x].turns) \subseteq Entries(db.turns[x])
<1>1. CASE x \in Entries(recent')
  <2>1. view'[x] = [turns |-> LastOf(db.turns[x], MaxTurnsKept),
                    pending |-> db.context[x].pending]
    BY <1>1, LoadTypes
  <2>2. db.turns[x] \in Seq(TurnIds) /\ MaxTurnsKept \in Nat \ {0}
    BY StoreBounds
  <2>3. Entries(LastOf(db.turns[x], MaxTurnsKept)) \subseteq Entries(db.turns[x])
    BY <2>2, LoadedEnds
  <2> QED  BY <2>1, <2>3
<1>2. CASE x \notin Entries(recent')
  <2>1. view'[x] = Empty
    BY <1>2, LoadTypes
  <2>2. DOMAIN <<>> = {}
    OBVIOUS
  <2> QED  BY <2>1, <2>2 DEF Empty, Entries
<1> QED  BY <1>1, <1>2

LEMMA EmptyShowsNothing == Empty.turns = <<>> /\ Entries(Empty.turns) = {}
<1>1. DOMAIN <<>> = {}
  OBVIOUS
<1> QED  BY <1>1 DEF Empty, Entries

\* Loading makes nothing of what was never stored.
LEMMA LoadingSeen ==
    ASSUME TypeOK, Unrepeated, Open \/ Restore
    PROVE  SeenOrIn({})
<1>1. RowsOK /\ BackupOK
  BY TypeParts
<1>2. CASE Open
  <2>1. UNCHANGED <<turns, backup>> /\ Load(Tables) /\ Distinct(created)
    BY <1>2 DEF Open, tables, rows, files, Unrepeated
  <2>2. /\ Tables.created = created /\ Tables.turns = turns
        /\ Tables.context = context
    BY DEF Tables
  <2>3. \A x \in Sessions : Entries(view'[x].turns) \subseteq Entries(turns[x])
    BY <1>1, <2>1, <2>2, LoadSeen DEF RowsOK
  <2> QED  BY <2>1, <2>3 DEF SeenOrIn
<1>3. CASE Restore
  <2>1. turns' = backup.turns /\ backup' = backup /\ Load(backup) /\ Distinct(backup.created)
    BY <1>3 DEF Restore, files, Unrepeated
  <2>2. \A x \in Sessions : Entries(view'[x].turns) \subseteq Entries(backup.turns[x])
    BY <1>1, <2>1, LoadSeen DEF BackupOK
  <2> QED  BY <2>1, <2>2 DEF SeenOrIn
<1> QED  BY <1>2, <1>3

\* The entry of the snapshot an import is at.
LEMMA ImportAt ==
    ASSUME TypeOK, Stages, ImportSession \/ ImportTurn \/ ImportContext
    PROVE  /\ boot.item \in DOMAIN Snapshot
           /\ boot.phase = "sessions" /\ meta = {"qa"}
           /\ Imported.id \in Sessions
           /\ Imported.turns \in Seq(LegacyTurns)
           /\ \A i \in DOMAIN Imported.turns :
                Imported.turns[i] \in LegacyTurns /\ Imported.turns[i] \in TurnIds
<1>1. boot.item \in Nat /\ boot.item <= Len(Snapshot) /\ boot.item # 0
      /\ boot.phase = "sessions" /\ meta = {"qa"}
  BY TypeParts
     DEF RestOK, Stages, ImportSession, ImportTurn, ImportContext, ImportingSession
<1>2. boot.item \in DOMAIN Snapshot
  BY <1>1, SnapshotTypes
<1> QED  BY <1>1, <1>2, SnapshotTypes DEF Imported

\* Appending to the turns of one session.
LEMMA TurnAppended ==
    ASSUME RowsOK, NEW s \in Sessions, NEW t \in TurnIds,
           turns' = [turns EXCEPT ![s] = Append(@, t)]
    PROVE  /\ turns'[s] = Append(turns[s], t)
           /\ \A x \in Sessions : x # s => turns'[x] = turns[x]
           /\ \A x \in Sessions : Entries(turns'[x]) \subseteq Entries(turns[x]) \cup {t}
           /\ Entries(turns'[s]) = Entries(turns[s]) \cup {t}
           /\ Len(turns'[s]) = Len(turns[s]) + 1 /\ Len(turns[s]) \in Nat
           /\ DOMAIN turns'[s] = 1 .. Len(turns[s]) + 1
           /\ turns'[s][Len(turns[s]) + 1] = t /\ Final(turns'[s]) = t /\ turns'[s] # <<>>
           /\ \A i \in 1 .. Len(turns[s]) : turns'[s][i] = turns[s][i]
<1>1. turns[s] \in Seq(TurnIds) /\ DOMAIN turns = Sessions
  BY DEF RowsOK
<1>2. turns'[s] = Append(turns[s], t) /\ \A x \in Sessions : x # s => turns'[x] = turns[x]
  BY <1>1
<1>3. /\ Append(turns[s], t) \in Seq(TurnIds)
      /\ Len(Append(turns[s], t)) = Len(turns[s]) + 1
      /\ \A i \in 1 .. Len(turns[s]) : Append(turns[s], t)[i] = turns[s][i]
      /\ Append(turns[s], t)[Len(turns[s]) + 1] = t
      /\ Append(turns[s], t) # <<>>
      /\ Entries(Append(turns[s], t)) = Entries(turns[s]) \cup {t}
  BY <1>1, AppendFacts
<1>4. DOMAIN Append(turns[s], t) = 1 .. Len(turns[s]) + 1 /\ Len(turns[s]) \in Nat
  BY <1>1, <1>3, SeqFacts
<1>5. \A x \in Sessions : Entries(turns'[x]) \subseteq Entries(turns[x]) \cup {t}
  BY <1>2, <1>3
<1> QED  BY <1>2, <1>3, <1>4, <1>5 DEF Final

LEMMA FreshStep ==
    ASSUME TypeOK, Fresh, Unrepeated, Stages, [Next]_vars
    PROVE  Fresh'
<1>1. MemoryOK /\ RowsOK /\ RestOK /\ BackupOK
  BY TypeParts
<1>2. MaxTurns \in Nat /\ LegacyTurns \cap (1 .. MaxTurns) = {} /\ nextTurn \in 1 .. MaxTurns + 1
  BY <1>1, StoreBounds DEF RestOK
<1>3. CASE Marking \/ ImportSession \/ ImportContext \/ UNCHANGED vars
  <2>1. /\ UNCHANGED <<turns, view, backup, waiting, nextTurn>>
    BY <1>3 DEF Marking, Start, ImportFact, MarkFacts, ImportConflict, MarkSessions,
           ImportSession, ImportContext, vars, memory, rows, tables, clients, files
  <2>2. SeenOrIn({})
    BY <2>1 DEF SeenOrIn
  <2> QED  BY <2>1, <2>2, FreshKept
<1>4. CASE ImportTurn
  <2> DEFINE t == Imported.turns[boot.next]
             s == Imported.id
  <2>1. s \in Sessions /\ t \in LegacyTurns /\ t \in TurnIds
    BY <1>4, ImportAt DEF ImportTurn
  <2>2. turns' = [turns EXCEPT ![s] = Append(@, t)]
    BY <1>4 DEF ImportTurn
  <2>3. UNCHANGED <<view, backup, waiting, nextTurn>>
    BY <1>4 DEF ImportTurn, memory, clients, files
  <2> HIDE DEF t, s
  <2>4. \A x \in Sessions : Entries(turns'[x]) \subseteq Entries(turns[x]) \cup {t}
    BY <1>1, <2>1, <2>2, TurnAppended
  <2>5. SeenOrIn(LegacyTurns)
    BY <2>1, <2>3, <2>4 DEF SeenOrIn
  <2>6. \A u \in nextTurn .. MaxTurns : u \notin LegacyTurns
    BY <1>2
  <2>7. \A r \in waiting' : r.turn \notin LegacyTurns
    BY <1>1, <1>2, <2>3 DEF RestOK, Request
  <2> QED  BY <2>3, <2>5, <2>6, <2>7, FreshKept
<1>5. CASE Open \/ Restore
  <2>1. SeenOrIn({})
    BY <1>5, LoadingSeen
  <2>2. UNCHANGED <<waiting, nextTurn>>
    BY <1>5 DEF Open, Restore, clients
  <2> QED  BY <2>1, <2>2, FreshKept
<1>6. ASSUME NEW s \in Sessions, CreateSession(s) PROVE Fresh'
  <2>1. \A x \in Sessions : view'[x] = view[x] \/ view'[x] = Empty
    BY <1>6, CreateView
  <2>2. UNCHANGED <<turns, backup, waiting, nextTurn>>
    BY <1>6 DEF CreateSession, tables, rows, files
  <2>3. SeenOrIn({})
    BY <2>1, <2>2, EmptyShowsNothing DEF SeenOrIn
  <2> QED  BY <2>2, <2>3, FreshKept
<1>7. ASSUME NEW s \in Sessions, Submit(s) PROVE Fresh'
  <2>1. /\ UNCHANGED <<turns, backup, view>>
        /\ nextTurn \in nextTurn .. MaxTurns /\ nextTurn' = nextTurn + 1
        /\ waiting' = waiting \cup {[session |-> s, turn |-> nextTurn]}
    BY <1>2, <1>7 DEF Submit, tables, rows, memory, files
  <2>2. \A t : Unseen(t) => Unseen(t)'
    BY <2>1 DEF Unseen
  <2>3. \A t \in nextTurn' .. MaxTurns : t \in nextTurn .. MaxTurns
    BY <1>2, <2>1
  <2>4. \A r \in waiting : r.turn \in Nat
    BY <1>1 DEF RestOK, Request
  <2>5. /\ \A t \in nextTurn' .. MaxTurns : Unseen(t)'
        /\ \A r \in waiting' : r.turn < nextTurn' /\ Unseen(r.turn)'
    BY <1>2, <2>1, <2>2, <2>3, <2>4 DEF Fresh
  <2>6. \A r, u \in waiting' : r.turn = u.turn => r = u
    BY <1>2, <2>1, <2>4 DEF Fresh
  <2> QED  BY <2>5, <2>6 DEF Fresh
<1>8. ASSUME NEW r \in waiting, NEW asks \in BOOLEAN, RunTurn(r, asks) PROVE Fresh'
  <2> DEFINE s == r.session
             t == r.turn
             w == LatestTurns(Append(view[s].turns, t))
             pending == Question(r, asks)
  <2>1. /\ s \in Sessions /\ t \in TurnIds
        /\ MemoryOK'
        /\ \A x \in Sessions : x # s /\ x \in Entries(recent') => view'[x] = view[x]
        /\ view'[s] = [turns |-> w, pending |-> pending]
        /\ Entries(w) \subseteq Entries(view[s].turns) \cup {t}
    BY <1>8, RunView
  <2>11. view'[s].turns = w
    BY <2>1
  <2>2. \A x \in Sessions : x \notin Entries(recent') => view'[x] = Empty
    BY <2>1 DEF MemoryOK
  <2>3. UNCHANGED <<backup, nextTurn>> /\ waiting' = waiting \ {r}
    BY <1>8 DEF RunTurn, files
  <2>4. UNCHANGED turns \/ turns' = [turns EXCEPT ![s] = Append(@, t)]
    BY <1>8 DEF RunTurn, RecordTurn, rows
  <2> HIDE DEF s, t, w, pending
  <2>5. \A x \in Sessions : Entries(turns'[x]) \subseteq Entries(turns[x]) \cup {t}
    BY <1>1, <2>1, <2>4, TurnAppended
  <2>6. \A x \in Sessions : Entries(view'[x].turns) \subseteq Entries(view[x].turns) \cup {t}
    BY <2>1, <2>11, <2>2, EmptyShowsNothing
  <2>7. SeenOrIn({t})
    BY <2>3, <2>5, <2>6 DEF SeenOrIn
  <2>8. /\ \A u \in waiting' : u.turn # t
        /\ \A u \in nextTurn .. MaxTurns : u # t
    BY <1>1, <1>2, <2>3 DEF Fresh, t, RestOK, Request
  <2> QED  BY <2>3, <2>7, <2>8, FreshKept
<1>11. ASSUME NEW r \in waiting, NEW asks \in BOOLEAN, AbandonTurn(r, asks) PROVE Fresh'
  <2>1. UNCHANGED <<turns, backup, nextTurn>> /\ waiting' \subseteq waiting
    BY <1>11 DEF AbandonTurn, tables, rows, files
  <2>2. \A x \in Sessions : Entries(view'[x].turns) \subseteq Entries(view[x].turns)
    BY <1>11, AbandonView, EmptyShowsNothing
  <2>3. SeenOrIn({})
    BY <2>1, <2>2 DEF SeenOrIn
  <2> QED  BY <2>1, <2>3, FreshKept
<1>9. CASE Backup
  <2>1. UNCHANGED <<turns, view, waiting, nextTurn>> /\ backup' = Tables
    BY <1>9 DEF Backup, tables, rows, memory, clients
  <2>2. SeenOrIn({})
    BY <2>1 DEF SeenOrIn, Tables
  <2> QED  BY <2>1, <2>2, FreshKept
<1>10. CASE Stop
  <2>1. UNCHANGED <<turns, backup, nextTurn>> /\ waiting' = {}
        /\ \A x \in Sessions : view'[x] = Empty
    BY <1>10 DEF Stop, tables, rows, files
  <2>2. SeenOrIn({})
    BY <2>1, EmptyShowsNothing DEF SeenOrIn
  <2> QED  BY <2>1, <2>2, FreshKept
<1> QED  BY <1>3, <1>4, <1>5, <1>6, <1>7, <1>8, <1>9, <1>10, <1>11
         DEF Next, Starting, Serving, Marking

-----------------------------------------------------------------------------
(* No row twice.                                                           *)

LEMMA UpsertDistinct ==
    ASSUME RowsOK, NEW s \in Sessions, Distinct(created), Upsert(s)
    PROVE  Distinct(created') /\ Entries(created') = Entries(created) \cup {s}
<1>1. created \in Seq(Sessions)
  BY DEF RowsOK
<1>2. CASE s \in Entries(created)
  BY <1>2 DEF Upsert
<1>3. CASE s \notin Entries(created)
  <2>1. created' = Append(created, s)
    BY <1>3 DEF Upsert
  <2>2. Distinct(Append(created, s)) /\ Entries(Append(created, s)) = Entries(created) \cup {s}
    BY <1>1, <1>3, AppendDistinct, AppendFacts
  <2> QED  BY <2>1, <2>2
<1> QED  BY <1>2, <1>3

LEMMA TurnsDistinct ==
    ASSUME RowsOK, NEW s \in Sessions, NEW t \in TurnIds,
           t \notin Entries(turns[s]), \A x \in Sessions : Distinct(turns[x]),
           turns' = [turns EXCEPT ![s] = Append(@, t)]
    PROVE  \A x \in Sessions : Distinct(turns'[x])
<1>1. turns[s] \in Seq(TurnIds)
  BY DEF RowsOK
<1>2. Distinct(Append(turns[s], t))
  BY <1>1, AppendDistinct
<1>3. turns'[s] = Append(turns[s], t) /\ \A x \in Sessions : x # s => turns'[x] = turns[x]
  BY TurnAppended
<1>4. ASSUME NEW x \in Sessions PROVE Distinct(turns'[x])
  <2>1. CASE x = s
    BY <1>2, <1>3, <2>1
  <2>2. CASE x # s
    BY <1>3, <2>2
  <2> QED  BY <2>1, <2>2
<1> QED  BY <1>4

LEMMA UnrepeatedStep ==
    ASSUME TypeOK, Fresh, Unrepeated, Stages, [Next]_vars
    PROVE  Unrepeated'
<1>1. RowsOK
  BY TypeParts
<1>2. CASE Marking \/ ImportContext \/ Open \/ UNCHANGED vars \/ Stop
           \/ (\E s \in Sessions : CreateSession(s) \/ Submit(s))
           \/ \E r \in waiting, asks \in BOOLEAN : AbandonTurn(r, asks)
  <2>1. UNCHANGED <<created, turns, backup>>
    BY <1>2 DEF Marking, Start, ImportFact, MarkFacts, ImportConflict, MarkSessions,
           ImportContext, Open, Stop, CreateSession, Submit, AbandonTurn, vars, rows, tables,
           files
  <2> QED  BY <2>1 DEF Unrepeated, Distinct
<1>3. CASE ImportSession
  <2>1. Imported.id \in Sessions
    BY <1>3, ImportAt
  <2>2. Upsert(Imported.id) /\ UNCHANGED <<turns, backup>>
    BY <1>3 DEF ImportSession, files
  <2>3. Distinct(created')
    BY <1>1, <2>1, <2>2, UpsertDistinct DEF Unrepeated
  <2> QED  BY <2>2, <2>3 DEF Unrepeated, Distinct
<1>4. CASE ImportTurn
  <2> DEFINE t == Imported.turns[boot.next]
             s == Imported.id
  <2>1. s \in Sessions /\ t \in TurnIds
    BY <1>4, ImportAt DEF ImportTurn
  <2>2. turns' = [turns EXCEPT ![s] = Append(@, t)] /\ UNCHANGED <<created, backup>>
    BY <1>4 DEF ImportTurn, files
  <2>3. t \notin Entries(turns[s])
    BY <1>4, <2>1 DEF ImportTurn, Recorded
  <2> HIDE DEF s, t
  <2>4. \A x \in Sessions : Distinct(turns'[x])
    BY <1>1, <2>1, <2>2, <2>3, TurnsDistinct DEF Unrepeated
  <2> QED  BY <2>2, <2>4 DEF Unrepeated, Distinct
<1>5. ASSUME NEW r \in waiting, NEW asks \in BOOLEAN, RunTurn(r, asks) PROVE Unrepeated'
  <2> DEFINE t == r.turn
             s == r.session
  <2>1. s \in Sessions /\ t \in TurnIds
    BY <1>5, RunView
  <2>2. backup' = backup
    BY <1>5 DEF RunTurn, files
  <2>3. t \notin Entries(turns[s])
    BY <2>1 DEF Fresh, Unseen
  <2>4. UNCHANGED rows \/ (Upsert(s) /\ turns' = [turns EXCEPT ![s] = Append(@, t)])
    BY <1>5 DEF RunTurn, RecordTurn
  <2> HIDE DEF s, t
  <2>5. CASE UNCHANGED rows
    BY <2>2, <2>5 DEF rows, Unrepeated, Distinct
  <2>6. CASE Upsert(s) /\ turns' = [turns EXCEPT ![s] = Append(@, t)]
    <3>1. Distinct(created')
      BY <1>1, <2>1, <2>6, UpsertDistinct DEF Unrepeated
    <3>2. \A x \in Sessions : Distinct(turns'[x])
      BY <1>1, <2>1, <2>3, <2>6, TurnsDistinct DEF Unrepeated
    <3> QED  BY <2>2, <3>1, <3>2 DEF Unrepeated, Distinct
  <2> QED  BY <2>4, <2>5, <2>6
<1>6. CASE Backup
  <2>1. UNCHANGED <<created, turns>> /\ backup'.created = created /\ backup'.turns = turns
    BY <1>6 DEF Backup, Tables, tables, rows
  <2> QED  BY <2>1 DEF Unrepeated, Distinct
<1>7. CASE Restore
  BY <1>7 DEF Restore, files, Unrepeated, Distinct
<1> QED  BY <1>2, <1>3, <1>4, <1>5, <1>6, <1>7
         DEF Next, Starting, Serving, Marking

-----------------------------------------------------------------------------
(* The stages of a start.                                                  *)

LEMMA StagesStep ==
    ASSUME TypeOK, Stages, [Next]_vars
    PROVE  Stages'
<1>1. RestOK
  BY TypeParts
<1>2. boot \in Boots /\ boot.item \in Nat
  BY <1>1 DEF RestOK, Boots
<1>3. CASE Marking
  <2>1. UNCHANGED <<recent, backups, backup>> /\ boot'.phase # "up" /\ boot.phase # "up"
    BY <1>2, <1>3 DEF Marking, Start, ImportFact, FactsImported, MarkFacts, ImportConflict,
        ImportingSession, MarkSessions, memory, files, SessionImport, At, Down, Boots
  <2>2. CASE Start
    BY <2>1, <2>2 DEF Stages, Start, SessionImport, At, Both, tables
  <2>3. CASE ImportFact
    BY <1>2, <2>1, <2>3 DEF Stages, ImportFact, Boots
  <2>4. CASE MarkFacts
    BY <2>1, <2>4 DEF Stages, MarkFacts, FactsImported, SessionImport, At
  <2>5. CASE ImportConflict
    BY <2>1, <2>5 DEF Stages, ImportConflict, ImportingSession, Down, At, tables
  <2>6. CASE MarkSessions
    BY <2>1, <2>6 DEF Stages, MarkSessions, At, Both
  <2> QED  BY <1>3, <2>2, <2>3, <2>4, <2>5, <2>6 DEF Marking
<1>4. CASE ImportSession \/ ImportTurn \/ ImportContext
  <2>1. /\ UNCHANGED <<recent, backups, backup, meta>>
        /\ boot.phase = "sessions" /\ boot'.phase = "sessions" /\ boot'.item # 0
    BY <1>2, <1>4 DEF Stages, ImportSession, ImportTurn, ImportContext, ImportingSession,
           memory, files, At, Boots
  <2> QED  BY <2>1 DEF Stages
<1>5. CASE Open
  BY <1>5 DEF Stages, Open, At, tables, rows, files
<1>6. CASE Serving
  <2>1. boot.phase = "up" /\ boot' = boot
    BY <1>6 DEF Serving, CreateSession, Submit, RunTurn, AbandonTurn, Backup,
           Restore
  <2>2. CASE Backup
    BY <2>1, <2>2 DEF Stages, Backup, Tables, tables
  <2>3. CASE Restore
    BY <2>1, <2>3, <1>1 DEF Stages, Restore, files
  <2>4. CASE \E s \in Sessions : CreateSession(s) \/ Submit(s)
    BY <2>1, <2>4 DEF Stages, CreateSession, Submit, tables, files
  <2>5. CASE \E r \in waiting, asks \in BOOLEAN : RunTurn(r, asks) \/ AbandonTurn(r, asks)
    BY <2>1, <2>5 DEF Stages, RunTurn, AbandonTurn, tables, files
  <2> QED  BY <1>6, <2>2, <2>3, <2>4, <2>5 DEF Serving
<1>7. CASE Stop
  <2>1. /\ UNCHANGED <<meta, backups, backup>>
        /\ boot'.phase = "down" /\ recent' = <<>>
    BY <1>7 DEF Stop, Down, At, tables, files
  <2>2. boot.phase \in {"down", "qa", "sessions", "load", "up"}
    BY <1>2 DEF Boots
  <2>3. meta \in {{}, {"qa"}, Both}
    BY <2>2 DEF Stages
  <2> QED  BY <2>1, <2>3 DEF Stages
<1>8. CASE UNCHANGED vars
  BY <1>8 DEF Stages, vars, tables, memory, files
<1> QED  BY <1>3, <1>4, <1>5, <1>6, <1>7, <1>8 DEF Next, Starting, Marking

-----------------------------------------------------------------------------
(* The legacy import.                                                      *)

\* The turn an import writes is the next one of its session.
LEMMA ImportIsNext ==
    ASSUME TypeOK, Stages, Beginnings, Progress, ImportTurn
    PROVE  Len(turns[Imported.id]) + 1 = boot.next
<1> DEFINE s == Imported.id
<1>1. /\ boot.item \in DOMAIN Snapshot /\ boot.phase = "sessions" /\ meta = {"qa"}
      /\ s \in Sessions /\ s = Snapshot[boot.item].id
      /\ DOMAIN Imported.turns = 1 .. Len(Imported.turns) /\ Len(Imported.turns) \in Nat
  BY ImportAt, SnapshotTypes DEF Imported
<1>2. /\ boot.next \in DOMAIN Imported.turns
      /\ ~Recorded(Imported.turns[boot.next])
  BY DEF ImportTurn
<1>3. boot.next \in Nat /\ boot.next # 0
  BY <1>1, <1>2
<1>4. turns[s] \in Seq(TurnIds) /\ Len(turns[s]) \in Nat /\ DOMAIN turns[s] = 1 .. Len(turns[s])
  BY <1>1, TypeParts, SeqFacts DEF RowsOK
<1>5. Len(turns[s]) >= boot.next - 1
  BY <1>1, <1>3 DEF Progress
<1>6. boot.next \notin 1 .. Len(turns[s])
  <2> SUFFICES ASSUME boot.next \in DOMAIN turns[s] PROVE FALSE
    BY <1>4
  <2>1. turns[s][boot.next] = Imported.turns[boot.next]
    BY <1>1 DEF Beginnings, Imported
  <2>2. Recorded(Imported.turns[boot.next])
    BY <1>1, <2>1 DEF Recorded, Entries
  <2> QED  BY <1>2, <2>2
<1> QED  BY <1>3, <1>4, <1>5, <1>6

LEMMA MetaGrows ==
    ASSUME TypeOK, Stages, [Next]_vars
    PROVE  "sessions" \in meta => "sessions" \in meta'
<1>1. CASE Starting \/ Stop \/ UNCHANGED vars
  BY <1>1 DEF Starting, Start, ImportFact, MarkFacts, ImportSession, ImportTurn,
     ImportConflict, ImportContext, MarkSessions, Open, Stop, vars, tables, rows
<1>2. CASE Serving
  <2>1. meta' = meta \/ (backups > 0 /\ meta' = backup.meta)
    BY <1>2 DEF Serving, CreateSession, Submit, RunTurn, AbandonTurn, Backup,
           Restore, tables
  <2> QED  BY <2>1 DEF Stages, Both
<1> QED  BY <1>1, <1>2 DEF Next

LEMMA BeginningsStep ==
    ASSUME TypeOK, Stages, Beginnings, Progress, [Next]_vars
    PROVE  Beginnings'
<1>1. CASE UNCHANGED turns
  BY <1>1, MetaGrows DEF Beginnings, Entries
<1>2. CASE ImportTurn
  <2> DEFINE s == Imported.id
             t == Imported.turns[boot.next]
  <2>1. /\ boot.item \in DOMAIN Snapshot /\ meta = {"qa"}
        /\ s \in Sessions /\ s = Snapshot[boot.item].id
        /\ boot.next \in DOMAIN Snapshot[boot.item].turns
        /\ t = Snapshot[boot.item].turns[boot.next]
        /\ t \in LegacyTurns /\ t \in TurnIds
    BY <1>2, ImportAt DEF ImportTurn, Imported
  <2>2. turns' = [turns EXCEPT ![s] = Append(@, t)]
    BY <1>2 DEF ImportTurn
  <2>3. Len(turns[s]) + 1 = boot.next
    BY <1>2, ImportIsNext
  <2> HIDE DEF s, t
  <2>4. /\ \A x \in Sessions : x # s => turns'[x] = turns[x]
        /\ Entries(turns'[s]) = Entries(turns[s]) \cup {t}
        /\ DOMAIN turns'[s] = 1 .. Len(turns[s]) + 1 /\ Len(turns[s]) \in Nat
        /\ turns'[s][Len(turns[s]) + 1] = t
        /\ \A i \in 1 .. Len(turns[s]) : turns'[s][i] = turns[s][i]
    <3>1. RowsOK
      BY TypeParts
    <3>2. s \in Sessions /\ t \in TurnIds
      BY <2>1
    <3> QED  BY <2>2, <3>1, <3>2, TurnAppended
  <2>5. DOMAIN turns[s] = 1 .. Len(turns[s])
    BY <2>1, TypeParts, SeqFacts DEF RowsOK
  <2>6. /\ \A x \in Sessions : Entries(turns[x]) \subseteq LegacyTurns
        /\ \A x \in Sessions, k \in DOMAIN Snapshot : Snapshot[k].id = x =>
            \A i \in DOMAIN turns[x] :
                i \in DOMAIN Snapshot[k].turns /\ turns[x][i] = Snapshot[k].turns[i]
    BY <2>1 DEF Beginnings
  <2>7. ASSUME NEW x \in Sessions, NEW k \in DOMAIN Snapshot, Snapshot[k].id = x,
               NEW i \in DOMAIN turns'[x]
        PROVE  i \in DOMAIN Snapshot[k].turns /\ turns'[x][i] = Snapshot[k].turns[i]
    <3>1. CASE x # s
      <4>1. turns'[x] = turns[x]
        BY <2>4, <3>1
      <4> QED  BY <2>6, <2>7, <4>1
    <3>2. CASE x = s
      <4>1. k = boot.item
        BY <2>1, <2>7, <3>2, SnapshotIsSane
      <4>2. i \in 1 .. Len(turns[s]) \/ i = Len(turns[s]) + 1
        BY <2>4, <2>7, <3>2
      <4>3. CASE i \in 1 .. Len(turns[s])
        <5>1. turns'[x][i] = turns[x][i] /\ i \in DOMAIN turns[x]
          BY <2>4, <2>5, <3>2, <4>3
        <5> QED  BY <2>6, <2>7, <5>1
      <4>4. CASE i = Len(turns[s]) + 1
        <5>1. i = boot.next /\ turns'[x][i] = t
          BY <2>3, <2>4, <3>2, <4>4
        <5> QED  BY <2>1, <4>1, <5>1
      <4> QED  BY <4>2, <4>3, <4>4
    <3> QED  BY <3>1, <3>2
  <2>8. \A x \in Sessions : Entries(turns'[x]) \subseteq LegacyTurns
    BY <2>1, <2>4, <2>6
  <2> QED  BY <2>7, <2>8 DEF Beginnings
<1>3. CASE \E r \in waiting, asks \in BOOLEAN : RunTurn(r, asks)
  <2>1. "sessions" \in meta'
    BY <1>3 DEF RunTurn, Stages, Both
  <2> QED  BY <2>1 DEF Beginnings
<1>4. CASE Restore
  <2>1. "sessions" \in meta'
    BY <1>4 DEF Restore, Stages, Both
  <2> QED  BY <2>1 DEF Beginnings
<1>5. UNCHANGED turns \/ ImportTurn \/ Restore
        \/ \E r \in waiting, asks \in BOOLEAN : RunTurn(r, asks)
  BY DEF Next, Starting, Serving, Start, ImportFact, MarkFacts, ImportSession,
     ImportConflict, ImportContext, MarkSessions, Open, CreateSession, Submit, AbandonTurn,
     Backup, Stop, vars, tables, rows
<1> QED  BY <1>1, <1>2, <1>3, <1>4, <1>5

LEMMA StoredKept ==
    ASSUME RowsOK, NEW s \in Sessions, NEW t \in TurnIds, NEW k \in DOMAIN Snapshot,
           turns' = [turns EXCEPT ![s] = Append(@, t)],
           Entries(created) \subseteq Entries(created'),
           Stored(k, created, turns)
    PROVE  Stored(k, created', turns')
<1> DEFINE x == Snapshot[k].id
<1>1. /\ x \in Sessions
      /\ Len(Snapshot[k].turns) \in Nat
      /\ DOMAIN Snapshot[k].turns = 1 .. Len(Snapshot[k].turns)
  BY SnapshotTypes
<1>2. /\ x \in Entries(created) /\ Len(turns[x]) >= Len(Snapshot[k].turns)
      /\ \A i \in DOMAIN Snapshot[k].turns : turns[x][i] = Snapshot[k].turns[i]
  BY DEF Stored
<1>3. CASE x # s
  <2>1. turns'[x] = turns[x]
    BY <1>1, <1>3, TurnAppended
  <2> QED  BY <1>2, <2>1 DEF Stored
<1>4. CASE x = s
  <2>1. /\ Len(turns'[x]) = Len(turns[x]) + 1 /\ Len(turns[x]) \in Nat
        /\ \A i \in 1 .. Len(turns[x]) : turns'[x][i] = turns[x][i]
    BY <1>4, TurnAppended
  <2>2. Len(turns'[x]) >= Len(Snapshot[k].turns)
    BY <1>1, <1>2, <2>1
  <2>3. \A i \in DOMAIN Snapshot[k].turns : i \in 1 .. Len(turns[x])
    BY <1>1, <1>2, <2>1
  <2>4. \A i \in DOMAIN Snapshot[k].turns : turns'[x][i] = Snapshot[k].turns[i]
    BY <1>2, <2>1, <2>3
  <2> QED  BY <1>2, <2>2, <2>4 DEF Stored
<1> QED  BY <1>3, <1>4

FactsDone == \A k \in 1 .. LegacyFacts : facts[k] > 0
SessionsDone == \A k \in DOMAIN Snapshot : Stored(k, created, turns)
BackupDone ==
    /\ \A k \in 1 .. LegacyFacts : backup.facts[k] > 0
    /\ \A k \in DOMAIN Snapshot : Stored(k, backup.created, backup.turns)
SessionsBegun ==
    /\ \A k \in DOMAIN Snapshot : k < boot.item => Stored(k, created, turns)
    /\ boot.item \in DOMAIN Snapshot /\ boot.next # 0 =>
        /\ Imported.id \in Entries(created)
        /\ Len(turns[Imported.id]) >= boot.next - 1

LEMMA ProgressParts ==
    Progress <=>
        /\ boot.phase = "qa" => \A k \in 1 .. LegacyFacts : k < boot.item => facts[k] > 0
        /\ boot.phase = "sessions" => SessionsBegun
        /\ "qa" \in meta => FactsDone
        /\ "sessions" \in meta => SessionsDone
        /\ backups > 0 => BackupDone
  BY DEF Progress, FactsDone, SessionsDone, BackupDone, SessionsBegun

\* When nothing is written but a mark.
LEMMA ProgressMarking ==
    ASSUME TypeOK, Stages, Progress, Marking \/ Open \/ Stop \/ UNCHANGED vars
    PROVE  Progress'
<1>1. RestOK /\ boot.item \in Nat
  BY TypeParts, BootSteps DEF RestOK, Boots
<1>2. UNCHANGED <<created, turns, backup, backups>>
  BY DEF Marking, Start, ImportFact, MarkFacts, ImportConflict, MarkSessions, Open, Stop,
         vars, rows, tables, files
<1>3. /\ DOMAIN Snapshot = 1 .. Len(Snapshot) /\ Len(Snapshot) \in Nat
      /\ LegacyFacts \in Nat
  BY SnapshotTypes, StoreBounds
<1>4. /\ SessionsDone => SessionsDone'
      /\ BackupDone => BackupDone'
  BY <1>2 DEF SessionsDone, BackupDone, Stored, Entries
<1>5. ASSUME boot'.item = 1, boot'.next = 0 PROVE SessionsBegun'
  BY <1>3, <1>5 DEF SessionsBegun
<1>6. CASE UNCHANGED <<meta, facts>> /\ boot'.phase \notin {"qa", "sessions"}
  <2>1. FactsDone => FactsDone'
    BY <1>6 DEF FactsDone
  <2> QED  BY <1>2, <1>4, <1>6, <2>1 DEF Progress, FactsDone, SessionsDone, BackupDone
<1>7. CASE UNCHANGED vars
  <2>1. UNCHANGED <<boot, meta, facts>>
    BY <1>7 DEF vars, tables
  <2>2. SessionsBegun => SessionsBegun'
    BY <1>2, <2>1 DEF SessionsBegun, Imported, Stored, Entries
  <2> QED  BY <1>2, <1>4, <2>1, <2>2 DEF Progress, FactsDone, SessionsDone, BackupDone, SessionsBegun
<1>8. CASE Start
  <2>1. /\ UNCHANGED <<meta, facts>>
        /\ boot'.phase \in {"qa", "sessions"} => boot'.item = 1 /\ boot'.next = 0
    BY <1>8 DEF Start, SessionImport, At, tables
  <2>2. FactsDone => FactsDone'
    BY <2>1 DEF FactsDone
  <2>3. boot'.phase = "sessions" => SessionsBegun'
    BY <1>5, <2>1
  <2>4. boot'.phase = "qa" => \A k \in 1 .. LegacyFacts : k < boot'.item => facts'[k] > 0
    BY <1>3, <2>1
  <2> QED  BY <1>2, <1>4, <2>1, <2>2, <2>3, <2>4
           DEF Progress, FactsDone, SessionsDone, BackupDone, SessionsBegun
<1>9. CASE ImportFact
  <2>1. /\ boot.phase = "qa" /\ boot'.phase = "qa" /\ boot'.item = boot.item + 1
        /\ meta' = meta /\ meta = {}
        /\ facts' = [facts EXCEPT ![boot.item] = @ + 1]
        /\ facts \in [1 .. LegacyFacts -> Nat]
    BY <1>1, <1>9 DEF ImportFact, Stages, RestOK
  <2>2. \A k \in 1 .. LegacyFacts : k < boot.item => facts[k] > 0
    BY <2>1 DEF Progress
  <2>3. \A k \in 1 .. LegacyFacts : k < boot'.item => facts'[k] > 0
    BY <1>1, <1>3, <2>1, <2>2
  <2> QED  BY <1>2, <1>4, <2>1, <2>3 DEF Progress, BackupDone
<1>10. CASE MarkFacts
  <2>1. /\ boot.phase = "qa" /\ boot.item > LegacyFacts
        /\ meta = {} /\ meta' = {"qa"} /\ facts' = facts
        /\ boot'.phase = "sessions" /\ boot'.item = 1 /\ boot'.next = 0
    BY <1>10 DEF MarkFacts, FactsImported, SessionImport, At, Stages
  <2>2. FactsDone'
    BY <1>1, <1>3, <2>1 DEF Progress, FactsDone
  <2>3. SessionsBegun'
    BY <1>5, <2>1
  <2> QED  BY <1>2, <1>4, <2>1, <2>2, <2>3
           DEF Progress, FactsDone, SessionsDone, BackupDone, SessionsBegun
<1>11. CASE MarkSessions
  <2>1. /\ boot.phase = "sessions" /\ boot.item > Len(Snapshot)
        /\ meta = {"qa"} /\ facts' = facts
        /\ boot'.phase = "load"
    BY <1>11 DEF MarkSessions, At, Stages
  <2>2. FactsDone'
    BY <2>1 DEF Progress, FactsDone
  <2>3. \A k \in DOMAIN Snapshot : Stored(k, created, turns)
    BY <1>1, <1>3, <2>1 DEF Progress
  <2>4. SessionsDone'
    BY <1>2, <2>3 DEF SessionsDone, Stored, Entries
  <2> QED  BY <1>2, <1>4, <2>1, <2>2, <2>4 DEF Progress, FactsDone, SessionsDone, BackupDone
<1>12. CASE ImportConflict \/ Open \/ Stop
  <2>1. UNCHANGED <<meta, facts>> /\ boot'.phase \notin {"qa", "sessions"}
    BY <1>12 DEF ImportConflict, Open, Stop, Down, At, tables
  <2> QED  BY <1>6, <2>1
<1> QED  BY <1>7, <1>8, <1>9, <1>10, <1>11, <1>12 DEF Marking

LEMMA ProgressImport ==
    ASSUME TypeOK, Stages, Beginnings, Progress,
           ImportSession \/ ImportTurn \/ ImportContext
    PROVE  Progress'
<1> DEFINE s == Imported.id
<1>1. /\ boot.item \in DOMAIN Snapshot /\ boot.phase = "sessions" /\ meta = {"qa"}
      /\ s \in Sessions /\ s = Snapshot[boot.item].id
      /\ DOMAIN Snapshot = 1 .. Len(Snapshot) /\ Len(Snapshot) \in Nat
  BY ImportAt, SnapshotTypes DEF Imported
<1>2. RowsOK /\ boot.next \in Nat /\ boot.item \in Nat
  BY TypeParts, BootSteps DEF RestOK, Boots
<1>3. UNCHANGED <<backup, backups, meta, facts>> /\ boot'.phase = "sessions"
  BY <1>1, <1>2, TypeParts
     DEF ImportSession, ImportTurn, ImportContext, files, RestOK, At
<1>4. /\ FactsDone => FactsDone'
      /\ BackupDone => BackupDone'
  BY <1>3 DEF FactsDone, BackupDone, Stored, Entries
<1>5. FactsDone /\ SessionsBegun /\ (backups > 0 => BackupDone)
  BY <1>1, ProgressParts
<1>6. SUFFICES SessionsBegun'
  BY <1>1, <1>3, <1>4, <1>5
     DEF Progress, FactsDone, SessionsDone, BackupDone, SessionsBegun
<1>7. turns[s] \in Seq(TurnIds) /\ Len(turns[s]) \in Nat /\ DOMAIN turns[s] = 1 .. Len(turns[s])
  BY <1>1, <1>2, SeqFacts DEF RowsOK
<1>8. CASE ImportSession
  <2>1. /\ Upsert(s) /\ turns' = turns
        /\ boot'.item = boot.item /\ boot'.next = 1
    BY <1>2, <1>8, TypeParts DEF ImportSession, RestOK
  <2>2. Entries(created) \subseteq Entries(created') /\ s \in Entries(created')
    <3>1. created \in Seq(Sessions)
      BY <1>2 DEF RowsOK
    <3>2. Entries(Append(created, s)) = Entries(created) \cup {s}
      BY <1>1, <3>1, AppendFacts
    <3> QED  BY <2>1, <3>2 DEF Upsert
  <2>3. \A k \in DOMAIN Snapshot : Stored(k, created, turns) => Stored(k, created', turns')
    BY <2>1, <2>2 DEF Stored
  <2>4. s' = s
    BY <2>1 DEF Imported
  <2> QED  BY <1>5, <1>7, <2>1, <2>2, <2>3, <2>4 DEF SessionsBegun
<1>9. CASE ImportTurn
  <2> DEFINE t == Imported.turns[boot.next]
  <2>1. t \in TurnIds /\ boot.next # 0
    BY <1>9, ImportAt, <1>1, SnapshotTypes DEF ImportTurn, Imported
  <2>2. /\ turns' = [turns EXCEPT ![s] = Append(@, t)] /\ created' = created
        /\ boot'.item = boot.item /\ boot'.next = boot.next + 1
    BY <1>2, <1>9, TypeParts DEF ImportTurn, RestOK
  <2>3. s' = s
    BY <2>2 DEF Imported
  <2> HIDE DEF t, s
  <2>4. Len(turns'[s]) = Len(turns[s]) + 1
    BY <1>1, <1>2, <2>1, <2>2, TurnAppended
  <2>5. \A k \in DOMAIN Snapshot : Stored(k, created, turns) => Stored(k, created', turns')
    BY <1>1, <1>2, <2>1, <2>2, StoredKept
  <2>6. s \in Entries(created) /\ Len(turns[s]) >= boot.next - 1
    BY <1>1, <1>5, <2>1 DEF SessionsBegun, s
  <2>7. s' \in Entries(created') /\ Len(turns'[s']) >= boot'.next - 1
    BY <1>2, <1>7, <2>2, <2>3, <2>4, <2>6
  <2>8. \A k \in DOMAIN Snapshot : k < boot'.item => Stored(k, created', turns')
    BY <1>5, <2>2, <2>5 DEF SessionsBegun
  <2> QED  BY <2>7, <2>8 DEF SessionsBegun, s
<1>10. CASE ImportContext
  <2>1. /\ UNCHANGED <<created, turns>>
        /\ boot'.item = boot.item + 1 /\ boot'.next = 0
        /\ boot.next = Len(Imported.turns) + 1
    BY <1>10 DEF ImportContext, At
  <2>2. /\ Len(Snapshot[boot.item].turns) \in Nat
        /\ DOMAIN Snapshot[boot.item].turns = 1 .. Len(Snapshot[boot.item].turns)
    BY <1>1, SnapshotTypes
  <2>3. s \in Entries(created) /\ Len(turns[s]) >= Len(Snapshot[boot.item].turns)
    BY <1>1, <1>5, <1>7, <2>1, <2>2 DEF SessionsBegun, Imported
  <2>4. \A i \in DOMAIN Snapshot[boot.item].turns :
            turns[s][i] = Snapshot[boot.item].turns[i]
    <3>1. \A i \in DOMAIN Snapshot[boot.item].turns : i \in DOMAIN turns[s]
      BY <1>7, <2>2, <2>3
    <3>2. \A i \in DOMAIN turns[s] : turns[s][i] = Snapshot[boot.item].turns[i]
      BY <1>1 DEF Beginnings
    <3> QED  BY <3>1, <3>2
  <2>5. Stored(boot.item, created, turns)
    BY <1>1, <2>3, <2>4 DEF Stored
  <2>6. \A k \in DOMAIN Snapshot : k < boot.item + 1 => k < boot.item \/ k = boot.item
    BY <1>1, <1>2
  <2>7. \A k \in DOMAIN Snapshot : k < boot'.item => Stored(k, created', turns')
    BY <1>5, <2>1, <2>5, <2>6 DEF SessionsBegun
  <2> QED  BY <2>1, <2>7 DEF SessionsBegun
<1> QED  BY <1>8, <1>9, <1>10

LEMMA ProgressServing ==
    ASSUME TypeOK, Stages, Progress, Serving
    PROVE  Progress'
<1>1. RowsOK /\ RestOK
  BY TypeParts
<1>2. boot.phase = "up" /\ boot' = boot /\ meta = Both
  BY DEF Serving, CreateSession, Submit, RunTurn, AbandonTurn, Backup,
           Restore, Stages
<1>3. FactsDone /\ SessionsDone /\ (backups > 0 => BackupDone)
  BY <1>2, ProgressParts DEF Both
<1>4. SUFFICES FactsDone' /\ SessionsDone' /\ (backups' > 0 => BackupDone')
  BY <1>2 DEF Progress, FactsDone, SessionsDone, BackupDone
<1>5. CASE \/ \E s \in Sessions : CreateSession(s) \/ Submit(s)
          \/ \E r \in waiting, asks \in BOOLEAN : AbandonTurn(r, asks)
  <2>1. UNCHANGED <<created, turns, facts, backup, backups>>
    BY <1>5 DEF CreateSession, Submit, AbandonTurn, tables, rows, files
  <2> QED  BY <1>3, <2>1 DEF FactsDone, SessionsDone, BackupDone, Stored, Entries
<1>6. ASSUME NEW r \in waiting, NEW asks \in BOOLEAN, RunTurn(r, asks)
      PROVE  FactsDone' /\ SessionsDone' /\ (backups' > 0 => BackupDone')
  <2> DEFINE s == r.session
             t == r.turn
  <2>1. s \in Sessions /\ t \in TurnIds
    BY <1>6, RunView
  <2>2. UNCHANGED <<facts, backup, backups>>
    BY <1>6 DEF RunTurn, files
  <2>3. UNCHANGED rows \/ (Upsert(s) /\ turns' = [turns EXCEPT ![s] = Append(@, t)])
    BY <1>6 DEF RunTurn, RecordTurn
  <2> HIDE DEF s, t
  <2>4. FactsDone' /\ (backups' > 0 => BackupDone')
    BY <1>3, <2>2 DEF FactsDone, BackupDone, Stored, Entries
  <2>5. CASE UNCHANGED rows
    BY <1>3, <2>4, <2>5 DEF rows, SessionsDone, Stored, Entries
  <2>6. CASE Upsert(s) /\ turns' = [turns EXCEPT ![s] = Append(@, t)]
    <3>1. Entries(created) \subseteq Entries(created')
      <4>1. created \in Seq(Sessions)
        BY <1>1 DEF RowsOK
      <4>2. Entries(Append(created, s)) = Entries(created) \cup {s}
        BY <2>1, <4>1, AppendFacts
      <4> QED  BY <2>6, <4>2 DEF Upsert
    <3>2. \A k \in DOMAIN Snapshot : Stored(k, created', turns')
      BY <1>1, <1>3, <2>1, <2>6, <3>1, StoredKept DEF SessionsDone
    <3>3. SessionsDone'
      BY <3>2 DEF SessionsDone, Stored, Entries
    <3> QED  BY <2>4, <3>3
  <2> QED  BY <2>3, <2>5, <2>6
<1>7. CASE Backup
  <2>1. /\ UNCHANGED <<created, turns, facts>>
        /\ backup'.facts = facts /\ backup'.created = created /\ backup'.turns = turns
    BY <1>7 DEF Backup, Tables, tables, rows
  <2> QED  BY <1>3, <2>1 DEF FactsDone, SessionsDone, BackupDone, Stored, Entries
<1>8. CASE Restore
  <2>1. /\ created' = backup.created /\ turns' = backup.turns /\ facts' = backup.facts
        /\ UNCHANGED <<backup, backups>> /\ backups > 0
    BY <1>8 DEF Restore, files
  <2> QED  BY <1>3, <2>1 DEF FactsDone, SessionsDone, BackupDone, Stored, Entries
<1> QED  BY <1>5, <1>6, <1>7, <1>8 DEF Serving

LEMMA ProgressStep ==
    ASSUME TypeOK, Stages, Beginnings, Progress, [Next]_vars
    PROVE  Progress'
  BY ProgressMarking, ProgressImport, ProgressServing DEF Next, Starting, Marking

-----------------------------------------------------------------------------
(* The stored context.                                                     *)

LEMMA ContextsStep ==
    ASSUME TypeOK, Fresh, Stages, Beginnings, Contexts, [Next]_vars
    PROVE  Contexts'
<1>1. RowsOK /\ RestOK
  BY TypeParts
<1>2. CASE UNCHANGED <<turns, context, backup>>
  BY <1>2 DEF Contexts, Follows, Final
<1>3. CASE ImportTurn
  <2> DEFINE s == Imported.id
             t == Imported.turns[boot.next]
  <2>1. s \in Sessions /\ t \in TurnIds /\ t \in LegacyTurns
    BY <1>3, ImportAt DEF ImportTurn
  <2>2. turns' = [turns EXCEPT ![s] = Append(@, t)] /\ UNCHANGED <<context, backup>>
    BY <1>3 DEF ImportTurn, files
  <2> HIDE DEF s, t
  <2>3. Final(turns'[s]) = t /\ \A x \in Sessions : x # s => turns'[x] = turns[x]
    BY <1>1, <2>1, <2>2, TurnAppended
  <2>4. ASSUME NEW x \in Sessions, turns'[x] # <<>>, Final(turns'[x]) \notin LegacyTurns
        PROVE  context'[x].last = Final(turns'[x])
    <3>1. x # s
      BY <2>1, <2>3, <2>4
    <3>2. turns'[x] = turns[x]
      BY <2>3, <3>1
    <3> QED  BY <2>2, <2>4, <3>2 DEF Contexts, Follows
  <2>5. Follows(turns', context')
    BY <2>4 DEF Follows
  <2> QED  BY <2>2, <2>5 DEF Contexts, Follows, Final
<1>4. CASE ImportContext
  <2> DEFINE s == Imported.id
             c == Reconstruct(Imported.turns, Imported.pending)
  <2>1. s \in Sessions /\ "sessions" \notin meta
    BY <1>4, ImportAt
  <2>2. context' = [context EXCEPT ![s] = c] /\ UNCHANGED <<turns, backup>>
    BY <1>4 DEF ImportContext, files
  <2> HIDE DEF s, c
  <2>3. \A x \in Sessions : turns[x] # <<>> => Final(turns[x]) \in LegacyTurns
    <3> SUFFICES ASSUME NEW x \in Sessions, turns[x] # <<>>
                 PROVE  Final(turns[x]) \in LegacyTurns
      OBVIOUS
    <3>1. turns[x] \in Seq(TurnIds)
      BY <1>1 DEF RowsOK
    <3>2. DOMAIN turns[x] = 1 .. Len(turns[x]) /\ Len(turns[x]) \in Nat /\ Len(turns[x]) # 0
      BY <3>1, SeqFacts
    <3>3. Len(turns[x]) \in DOMAIN turns[x]
      BY <3>2
    <3>4. Final(turns[x]) \in Entries(turns[x])
      BY <3>3 DEF Final, Entries
    <3> QED  BY <2>1, <3>4 DEF Beginnings
  <2>4. Follows(turns', context')
    BY <2>2, <2>3 DEF Follows
  <2> QED  BY <2>2, <2>4 DEF Contexts, Follows, Final
<1>5. ASSUME NEW r \in waiting, NEW asks \in BOOLEAN, RunTurn(r, asks) PROVE Contexts'
  <2> DEFINE s == r.session
             t == r.turn
             pending == Question(r, asks)
  <2>1. s \in Sessions /\ t \in TurnIds
    BY <1>5, RunView
  <2>2. backup' = backup
    BY <1>5 DEF RunTurn, files
  <2>3. \/ UNCHANGED rows
        \/ /\ turns' = [turns EXCEPT ![s] = Append(@, t)]
           /\ context' = [context EXCEPT ![s] = [pending |-> pending, last |-> t]]
    BY <1>5 DEF RunTurn, RecordTurn
  <2> HIDE DEF s, t, pending
  <2>4. CASE UNCHANGED rows
    BY <1>2, <2>2, <2>4 DEF rows
  <2>5. CASE /\ turns' = [turns EXCEPT ![s] = Append(@, t)]
             /\ context' = [context EXCEPT ![s] = [pending |-> pending, last |-> t]]
    <3>1. Final(turns'[s]) = t /\ \A x \in Sessions : x # s => turns'[x] = turns[x]
      BY <1>1, <2>1, <2>5, TurnAppended
    <3>2. context'[s].last = t /\ \A x \in Sessions : x # s => context'[x] = context[x]
      BY <1>1, <2>1, <2>5 DEF RowsOK
    <3>3. Follows(turns', context')
      BY <3>1, <3>2 DEF Follows, Contexts
    <3> QED  BY <2>2, <3>3 DEF Contexts, Follows, Final
  <2> QED  BY <2>3, <2>4, <2>5
<1>6. CASE Backup
  <2>1. /\ UNCHANGED <<turns, context>>
        /\ backup'.turns = turns /\ backup'.context = context
    BY <1>6 DEF Backup, Tables, tables, rows
  <2> QED  BY <2>1 DEF Contexts, Follows, Final
<1>7. CASE Restore
  <2>1. turns' = backup.turns /\ context' = backup.context /\ backup' = backup
    BY <1>7 DEF Restore, files
  <2> QED  BY <2>1 DEF Contexts, Follows, Final
<1>8. \/ UNCHANGED <<turns, context, backup>> \/ ImportTurn \/ ImportContext
      \/ Backup \/ Restore \/ \E r \in waiting, asks \in BOOLEAN : RunTurn(r, asks)
  BY DEF Next, Starting, Serving, Start, ImportFact, MarkFacts, ImportSession,
     ImportConflict, MarkSessions, Open, CreateSession, Submit, AbandonTurn,
     Stop, vars, tables, rows, files
<1> QED  BY <1>2, <1>3, <1>4, <1>5, <1>6, <1>7, <1>8

-----------------------------------------------------------------------------
(* What memory shows of the rows.                                          *)

LEMMA EmptyView ==
    ASSUME NEW ts, NEW c
    PROVE  Latest(Empty.turns, ts) /\ Asked(Empty, ts, c)
<1>1. Empty.turns = <<>> /\ DOMAIN <<>> = {}
  BY DEF Empty
<1> QED  BY <1>1 DEF Latest, Asked

LEMMA LoadedViews ==
    ASSUME NEW db,
           db.created \in Seq(Sessions), Distinct(db.created),
           db.turns \in [Sessions -> Seq(TurnIds)],
           \A s \in Sessions : Distinct(db.turns[s]),
           db.context \in [Sessions -> Context],
           Load(db), turns' = db.turns, context' = db.context
    PROVE  Views'
<1> SUFFICES ASSUME NEW x \in Sessions
             PROVE  Latest(view'[x].turns, turns'[x]) /\ Asked(view'[x], turns'[x], context'[x])
  BY DEF Views, Latest, Asked, Final, Entries
<1>1. CASE x \in Entries(recent')
  <2>1. view'[x] = [turns |-> LastOf(db.turns[x], MaxTurnsKept),
                    pending |-> db.context[x].pending]
    BY <1>1, LoadTypes
  <2>2. db.turns[x] \in Seq(TurnIds) /\ MaxTurnsKept \in Nat \ {0} /\ Distinct(db.turns[x])
    BY StoreBounds
  <2>3. Latest(LastOf(db.turns[x], MaxTurnsKept), db.turns[x])
    BY <2>2, LoadedIsLatest
  <2> QED  BY <2>1, <2>3 DEF Asked
<1>2. CASE x \notin Entries(recent')
  <2>1. view'[x] = Empty
    BY <1>2, LoadTypes
  <2> QED  BY <2>1, EmptyView
<1> QED  BY <1>1, <1>2

LEMMA ViewsStep ==
    ASSUME TypeOK, Fresh, Unrepeated, Stages, Views, [Next]_vars
    PROVE  Views'
<1>1. MemoryOK /\ RowsOK /\ RestOK /\ BackupOK
  BY TypeParts
<1>2. CASE /\ UNCHANGED <<turns, context>>
           /\ \A x \in Sessions :
                \/ view'[x] = view[x] /\ (x \in abandoned => x \in abandoned')
                \/ view'[x] = Empty
                \/ view'[x].turns = view[x].turns /\ x \in abandoned'
  <2> SUFFICES ASSUME NEW x \in Sessions
               PROVE  /\ Latest(view'[x].turns, turns'[x])
                      /\ x \in abandoned' \/ Asked(view'[x], turns'[x], context'[x])
    BY DEF Views, Latest, Asked, Final, Entries
  <2>1. CASE view'[x] = view[x] /\ (x \in abandoned => x \in abandoned')
    BY <1>2, <2>1 DEF Views
  <2>2. CASE view'[x] = Empty
    BY <2>2, EmptyView
  <2>3. CASE view'[x].turns = view[x].turns /\ x \in abandoned'
    BY <1>2, <2>3 DEF Views
  <2> QED  BY <1>2, <2>1, <2>2, <2>3
<1>3. CASE ImportTurn \/ ImportContext
  <2>1. recent = <<>> /\ view' = view
    BY <1>3 DEF ImportTurn, ImportContext, ImportingSession, Stages, memory
  <2>2. DOMAIN <<>> = {}
    OBVIOUS
  <2>3. \A x \in Sessions : view'[x] = Empty
    BY <1>1, <2>1, <2>2 DEF MemoryOK, Entries
  <2>4. \A x \in Sessions : Latest(view'[x].turns, turns'[x]) /\ Asked(view'[x], turns'[x], context'[x])
    BY <2>3, EmptyView
  <2> QED  BY <2>4 DEF Views, Latest, Asked, Final, Entries
<1>4. CASE Open
  <2>1. /\ Tables.created = created /\ Tables.turns = turns /\ Tables.context = context
        /\ Load(Tables) /\ turns' = turns /\ context' = context
    BY <1>4 DEF Tables, Open, tables, rows
  <2> QED  BY <1>1, <2>1, LoadedViews DEF RowsOK, Unrepeated
<1>5. CASE Restore
  <2>1. /\ Load(backup) /\ turns' = backup.turns /\ context' = backup.context
        /\ backup.created \in Seq(Sessions)
        /\ backup.turns \in [Sessions -> Seq(TurnIds)]
        /\ backup.context \in [Sessions -> Context]
    BY <1>1, <1>5 DEF Restore, BackupOK
  <2> QED  BY <2>1, LoadedViews DEF Unrepeated
<1>6. ASSUME NEW r \in waiting, NEW asks \in BOOLEAN, RunTurn(r, asks) PROVE Views'
  <2> DEFINE s == r.session
             t == r.turn
             w == LatestTurns(Append(view[s].turns, t))
             pending == Question(r, asks)
  <2>1. /\ s \in Sessions /\ t \in TurnIds
        /\ MemoryOK'
        /\ \A x \in Sessions : x # s /\ x \in Entries(recent') => view'[x] = view[x]
        /\ view'[s] = [turns |-> w, pending |-> pending]
        /\ w # <<>> /\ Final(w) = t
    BY <1>6, RunView
  <2>2. \A x \in Sessions : x \notin Entries(recent') => view'[x] = Empty
    BY <2>1 DEF MemoryOK
  <2>3. \/ UNCHANGED rows
        \/ /\ turns' = [turns EXCEPT ![s] = Append(@, t)]
           /\ context' = [context EXCEPT ![s] = [pending |-> pending, last |-> t]]
    BY <1>6 DEF RunTurn, RecordTurn
  <2>4. t \notin Entries(view[s].turns) /\ t \notin Entries(turns[s])
    BY <2>1 DEF Fresh, Unseen
  <2>5. Latest(view[s].turns, turns[s])
    BY <2>1 DEF Views
  <2>6. view[s].turns \in Seq(TurnIds) /\ turns[s] \in Seq(TurnIds) /\ MaxTurnsKept \in Nat \ {0}
    BY <1>1, <2>1, StoreBounds DEF MemoryOK, RowsOK, Shown
  <2>7. /\ Latest(w, Append(turns[s], t))
        /\ Latest(w, turns[s])
    <3> DEFINE v == view[s].turns
    <3>1. v \in Seq(TurnIds) /\ t \notin Entries(v) /\ Latest(v, turns[s])
      BY <2>4, <2>5, <2>6
    <3> HIDE DEF v, t, s
    <3>2. /\ Latest(LastOf(Append(v, t), MaxTurnsKept), Append(turns[s], t))
          /\ Latest(LastOf(Append(v, t), MaxTurnsKept), turns[s])
      BY <2>1, <2>4, <2>6, <3>1, ShownIsLatest
    <3> QED  BY <3>2 DEF LatestTurns, v
  <2> HIDE DEF s, t, w, pending
  <2>8. view'[s].turns = w /\ view'[s].pending = pending
    BY <2>1
  <2>9. /\ \A x \in Sessions : x # s => turns'[x] = turns[x] /\ context'[x] = context[x]
        /\ \/ turns'[s] = turns[s]
           \/ turns'[s] = Append(turns[s], t) /\ context'[s].pending = pending
    <3>1. CASE UNCHANGED rows
      BY <3>1 DEF rows
    <3>2. CASE /\ turns' = [turns EXCEPT ![s] = Append(@, t)]
               /\ context' = [context EXCEPT ![s] = [pending |-> pending, last |-> t]]
      <4>1. turns'[s] = Append(turns[s], t) /\ \A x \in Sessions : x # s => turns'[x] = turns[x]
        BY <1>1, <2>1, <3>2, TurnAppended
      <4>2. context'[s].pending = pending /\ \A x \in Sessions : x # s => context'[x] = context[x]
        BY <1>1, <2>1, <3>2 DEF RowsOK
      <4> QED  BY <4>1, <4>2
    <3> QED  BY <2>3, <3>1, <3>2
  <2>10. Latest(view'[s].turns, turns'[s]) /\ Asked(view'[s], turns'[s], context'[s])
    <3>1. Latest(view'[s].turns, turns'[s])
      BY <2>7, <2>8, <2>9
    <3>2. Asked(view'[s], turns'[s], context'[s])
      BY <2>1, <2>4, <2>8, <2>9 DEF Asked
    <3> QED  BY <3>1, <3>2
  <2>11. ASSUME NEW x \in Sessions, x # s
         PROVE  /\ Latest(view'[x].turns, turns'[x])
                /\ x \in abandoned' \/ Asked(view'[x], turns'[x], context'[x])
    <3>1. turns'[x] = turns[x] /\ context'[x] = context[x]
      BY <2>9, <2>11
    <3>4. x \in abandoned => x \in abandoned'
      BY <1>6, <2>11 DEF RunTurn, s
    <3>2. CASE x \in Entries(recent')
      <4>1. view'[x] = view[x]
        BY <2>1, <2>11, <3>2
      <4> QED  BY <3>1, <3>4, <4>1 DEF Views
    <3>3. CASE x \notin Entries(recent')
      <4>1. view'[x] = Empty
        BY <2>2, <3>3
      <4> QED  BY <4>1, EmptyView
    <3> QED  BY <3>2, <3>3
  <2>12. \A x \in Sessions : /\ Latest(view'[x].turns, turns'[x])
                             /\ x \in abandoned' \/ Asked(view'[x], turns'[x], context'[x])
    BY <2>10, <2>11
  <2> QED  BY <2>12 DEF Views, Latest, Asked, Final, Entries
<1>7. CASE Marking \/ ImportSession \/ Backup \/ Stop \/ UNCHANGED vars
           \/ \E s \in Sessions : CreateSession(s) \/ Submit(s)
  <2>1. CASE \E s \in Sessions : CreateSession(s)
    <3>1. UNCHANGED <<turns, context, abandoned>>
      BY <2>1 DEF CreateSession, tables, rows
    <3> QED  BY <1>2, <2>1, <3>1, CreateView
  <2>2. CASE Marking \/ ImportSession \/ Backup \/ UNCHANGED vars \/ \E s \in Sessions : Submit(s)
    <3>1. UNCHANGED <<turns, context, view, abandoned>>
      BY <2>2 DEF Marking, Start, ImportFact, MarkFacts, ImportConflict, MarkSessions,
             ImportSession, Backup, Submit, vars, tables, rows, memory
    <3> QED  BY <1>2, <3>1
  <2>3. CASE Stop
    <3>1. UNCHANGED <<turns, context>> /\ view' = [x \in Sessions |-> Empty]
      BY <2>3 DEF Stop, tables, rows
    <3> QED  BY <1>2, <3>1
  <2> QED  BY <1>7, <2>1, <2>2, <2>3
<1>8. ASSUME NEW r \in waiting, NEW asks \in BOOLEAN, AbandonTurn(r, asks) PROVE Views'
  <2>1. UNCHANGED <<turns, context>> /\ abandoned' = abandoned \cup {r.session}
    BY <1>8 DEF AbandonTurn, tables, rows
  <2>2. ASSUME NEW x \in Sessions
        PROVE  \/ view'[x] = view[x] /\ (x \in abandoned => x \in abandoned')
               \/ view'[x] = Empty
               \/ view'[x].turns = view[x].turns /\ x \in abandoned'
    BY <1>8, <2>1, AbandonView
  <2> QED  BY <1>2, <2>1, <2>2
<1> QED  BY <1>3, <1>4, <1>5, <1>6, <1>7, <1>8 DEF Next, Starting, Serving, Marking

-----------------------------------------------------------------------------
(* The pending questions.                                                  *)

LEMMA EmptyAsksNothing ==
    /\ Empty.pending = NoTurn
    /\ Over(NoTurn)
    /\ OverNext(NoTurn)
  BY DEF Empty, Over, OverNext, Spent

\* What is spent stays so, as long as nothing is stored and nobody waits but
\* what was seen or submitted before.
LEMMA SpentKept ==
    ASSUME TypeOK, NEW t, Over(t), NEW G,
           \A x \in Sessions : /\ Entries(turns'[x]) \subseteq Entries(turns[x]) \cup G
                              /\ \/ backup'.turns[x] = backup.turns[x]
                                 \/ backup'.turns[x] = turns[x],
           t \notin G, nextTurn' \in {nextTurn, nextTurn + 1},
           \A r \in waiting' : r \in waiting \/ r.turn = nextTurn
    PROVE  OverNext(t)
<1>1. nextTurn \in Nat /\ MaxTurns \in Nat
  BY StoreBounds DEF TypeOK
<1> QED  BY <1>1 DEF Over, OverNext, Spent

\* A request that was served and left no row is spent.
LEMMA SpentNow ==
    ASSUME TypeOK, Fresh, NEW r \in waiting, waiting' = waiting \ {r},
           UNCHANGED <<turns, backup, nextTurn>>
    PROVE  OverNext(r.turn)
<1>1. r.turn \in 1 .. MaxTurns
  BY DEF TypeOK, Request
<1>2. r.turn < nextTurn /\ Unseen(r.turn) /\ \A u \in waiting : u.turn = r.turn => u = r
  BY DEF Fresh
<1> QED  BY <1>1, <1>2 DEF Over, OverNext, Spent, Unseen

LEMMA LoadedQuestions ==
    ASSUME NEW db,
           db.created \in Seq(Sessions), Distinct(db.created),
           db.turns \in [Sessions -> Seq(TurnIds)],
           db.context \in [Sessions -> Context],
           Load(db), context' = db.context
    PROVE  Questions'
<1> SUFFICES ASSUME NEW x \in Sessions
             PROVE  view'[x].pending = context'[x].pending \/ OverNext(view'[x].pending)
  BY DEF Questions, Over, OverNext
<1>1. ASSUME x \in Entries(recent') PROVE view'[x].pending = context'[x].pending
  <2>1. view'[x] = [turns |-> LastOf(db.turns[x], MaxTurnsKept),
                    pending |-> db.context[x].pending]
    BY <1>1, LoadTypes
  <2> QED  BY <2>1
<1>2. x \notin Entries(recent') => view'[x] = Empty
  BY LoadTypes
<1> QED  BY <1>1, <1>2, EmptyAsksNothing

LEMMA QuestionsStep ==
    ASSUME TypeOK, Fresh, Unrepeated, Stages, Questions, [Next]_vars
    PROVE  Questions'
<1>1. MemoryOK /\ RowsOK /\ RestOK /\ BackupOK
  BY TypeParts
<1>2. ASSUME \A x \in Sessions : view'[x] = Empty
      PROVE  Questions'
  BY <1>2, EmptyAsksNothing DEF Questions, Over, OverNext
<1>3. CASE Marking \/ ImportSession \/ ImportTurn \/ ImportContext
  <2>1. recent = <<>> /\ view' = view
    BY <1>3 DEF Marking, Start, ImportFact, FactsImported, MarkFacts, ImportConflict,
       MarkSessions, ImportSession, ImportTurn, ImportContext, ImportingSession, Stages, memory
  <2>2. DOMAIN <<>> = {}
    OBVIOUS
  <2>3. \A x \in Sessions : view'[x] = Empty
    BY <1>1, <2>1, <2>2 DEF MemoryOK, Entries
  <2> QED  BY <1>2, <2>3
<1>4. CASE Stop
  BY <1>2, <1>4 DEF Stop
<1>5. CASE Open
  <2>1. /\ Tables.created = created /\ Tables.turns = turns /\ Tables.context = context
        /\ Load(Tables) /\ context' = context
    BY <1>5 DEF Tables, Open, tables, rows
  <2> QED  BY <1>1, <2>1, LoadedQuestions DEF RowsOK, Unrepeated
<1>6. CASE Restore
  <2>1. /\ Load(backup) /\ context' = backup.context
        /\ backup.created \in Seq(Sessions)
        /\ backup.turns \in [Sessions -> Seq(TurnIds)]
        /\ backup.context \in [Sessions -> Context]
    BY <1>1, <1>6 DEF Restore, BackupOK
  <2> QED  BY <2>1, LoadedQuestions DEF Unrepeated
<1>7. ASSUME UNCHANGED <<turns, context>>,
             backup' = backup \/ backup'.turns = turns,
             nextTurn' \in {nextTurn, nextTurn + 1},
             \A r \in waiting' : r \in waiting \/ r.turn = nextTurn,
             NEW x \in Sessions,
             \/ view'[x].pending = view[x].pending
             \/ view'[x] = Empty
             \/ OverNext(view'[x].pending)
      PROVE  view'[x].pending = context'[x].pending \/ OverNext(view'[x].pending)
  <2>1. ASSUME NEW t, Over(t) PROVE OverNext(t)
    <3> DEFINE G == {}
    <3>1. /\ \A y \in Sessions : /\ Entries(turns'[y]) \subseteq Entries(turns[y]) \cup G
                                /\ \/ backup'.turns[y] = backup.turns[y]
                                   \/ backup'.turns[y] = turns[y]
          /\ t \notin G
      BY <1>7
    <3> HIDE DEF G
    <3> QED  BY <1>7, <2>1, <3>1, SpentKept
  <2> QED  BY <1>7, <2>1, EmptyAsksNothing DEF Questions, Over, OverNext
<1>8. CASE Backup \/ UNCHANGED vars \/ \E s \in Sessions : CreateSession(s) \/ Submit(s)
  <2>1. /\ UNCHANGED <<turns, context>>
        /\ backup' = backup \/ backup'.turns = turns
        /\ nextTurn' \in {nextTurn, nextTurn + 1}
        /\ \A r \in waiting' : r \in waiting \/ r.turn = nextTurn
    BY <1>8 DEF Backup, Tables, CreateSession, Submit, vars, tables, rows, memory, clients, files
  <2>2. \A x \in Sessions : view'[x].pending = view[x].pending \/ view'[x] = Empty
    <3>1. CASE Backup \/ UNCHANGED vars \/ \E s \in Sessions : Submit(s)
      BY <3>1 DEF Backup, Submit, vars, memory
    <3>2. CASE \E s \in Sessions : CreateSession(s)
      BY <3>2, CreateView
    <3> QED  BY <1>8, <3>1, <3>2
  <2> QED  BY <1>7, <2>1, <2>2 DEF Questions, Over, OverNext
<1>9. ASSUME NEW r \in waiting, NEW asks \in BOOLEAN, AbandonTurn(r, asks) PROVE Questions'
  <2>1. /\ UNCHANGED <<turns, context, backup, nextTurn>>
        /\ waiting' = waiting \ {r}
    BY <1>9 DEF AbandonTurn, tables, rows, files
  <2>2. OverNext(r.turn) /\ OverNext(NoTurn)
    <3>1. OverNext(r.turn)
      BY <2>1, SpentNow
    <3> QED  BY <3>1 DEF Over, OverNext, Spent
  <2>3. \A x \in Sessions : \/ view'[x].pending = view[x].pending
                           \/ view'[x] = Empty
                           \/ view'[x].pending = Question(r, asks)
    BY <1>9, AbandonView
  <2>4. Question(r, asks) = r.turn \/ Question(r, asks) = NoTurn
    BY DEF Question
  <2>5. ASSUME NEW x \in Sessions
        PROVE  \/ view'[x].pending = view[x].pending
               \/ view'[x] = Empty
               \/ OverNext(view'[x].pending)
    <3>1. CASE view'[x].pending = r.turn
      BY <2>2, <3>1 DEF Over, OverNext, Spent
    <3>2. CASE view'[x].pending = NoTurn
      BY <2>2, <3>2 DEF Over, OverNext, Spent
    <3> QED  BY <2>3, <2>4, <3>1, <3>2
  <2> QED  BY <1>7, <2>1, <2>5 DEF Questions, Over, OverNext
<1>10. ASSUME NEW r \in waiting, NEW asks \in BOOLEAN, RunTurn(r, asks) PROVE Questions'
  <2> DEFINE s == r.session
             t == r.turn
             pending == Question(r, asks)
  <2>1. /\ s \in Sessions /\ t \in TurnIds
        /\ MemoryOK'
        /\ \A x \in Sessions : x # s /\ x \in Entries(recent') => view'[x] = view[x]
        /\ view'[s] = [turns |-> LatestTurns(Append(view[s].turns, t)), pending |-> pending]
    BY <1>10, RunView
  <2>11. view'[s].pending = pending
    BY <2>1
  <2>2. \A x \in Sessions : x \notin Entries(recent') => view'[x] = Empty
    BY <2>1 DEF MemoryOK
  <2>3. UNCHANGED <<backup, nextTurn>> /\ waiting' = waiting \ {r}
    BY <1>10 DEF RunTurn, files
  <2>4. \/ UNCHANGED <<turns, context>>
        \/ /\ turns' = [turns EXCEPT ![s] = Append(@, t)]
           /\ context' = [context EXCEPT ![s] = [pending |-> pending, last |-> t]]
    BY <1>10 DEF RunTurn, RecordTurn, rows
  <2>5. pending = t \/ pending = NoTurn
    BY DEF Question
  <2> HIDE DEF s, pending
  <2>6. ASSUME NEW u, Over(u) PROVE OverNext(u)
    <3> DEFINE G == {t}
    <3>1. \A x \in Sessions : Entries(turns'[x]) \subseteq Entries(turns[x]) \cup G
      BY <1>1, <2>1, <2>4, TurnAppended
    <3>2. CASE u = NoTurn
      BY <3>2 DEF Over, OverNext, Spent
    <3>3. CASE u # NoTurn
      <4>1. u \notin G
        BY <2>6, <3>3 DEF Over, OverNext, Spent
      <4> HIDE DEF G
      <4>2. /\ \A x \in Sessions : backup'.turns[x] = backup.turns[x]
            /\ nextTurn' \in {nextTurn, nextTurn + 1}
            /\ \A v \in waiting' : v \in waiting \/ v.turn = nextTurn
        BY <2>3
      <4> QED  BY <2>6, <3>1, <4>1, <4>2, SpentKept
    <3> QED  BY <3>2, <3>3
  <2>7. \A x \in Sessions : x # s => context'[x].pending = context[x].pending
    BY <1>1, <2>1, <2>4 DEF RowsOK
  <2>8. ASSUME NEW x \in Sessions, x # s
        PROVE  view'[x].pending = context'[x].pending \/ OverNext(view'[x].pending)
    <3>1. CASE x \in Entries(recent')
      BY <2>1, <2>6, <2>7, <2>8, <3>1 DEF Questions, Over, OverNext
    <3>2. CASE x \notin Entries(recent')
      BY <2>2, <3>2, EmptyAsksNothing
    <3> QED  BY <3>1, <3>2
  <2>9. view'[s].pending = context'[s].pending \/ OverNext(view'[s].pending)
    <3>1. CASE UNCHANGED <<turns, context>>
      <4>1. OverNext(t)
        BY <2>3, <3>1, SpentNow
      <4>2. OverNext(NoTurn)
        BY EmptyAsksNothing
      <4>3. CASE pending = t
        BY <2>11, <4>1, <4>3 DEF Over, OverNext, Spent
      <4>4. CASE pending = NoTurn
        BY <2>11, <4>2, <4>4 DEF Over, OverNext, Spent
      <4> QED  BY <2>5, <4>3, <4>4
    <3>2. CASE context' = [context EXCEPT ![s] = [pending |-> pending, last |-> t]]
      BY <1>1, <2>1, <2>11, <3>2 DEF RowsOK
    <3> QED  BY <2>4, <3>1, <3>2
  <2> QED  BY <2>8, <2>9 DEF Questions, Over, OverNext
<1> QED  BY <1>3, <1>4, <1>5, <1>6, <1>8, <1>9, <1>10 DEF Next, Starting, Serving, Marking

-----------------------------------------------------------------------------

-----------------------------------------------------------------------------
(* The theorems.                                                           *)

LEMMA IInvInit == Init => IInv
<1> SUFFICES ASSUME Init PROVE IInv
  OBVIOUS
<1>1. TypeOK
  BY TypeInit
<1>2. /\ created = <<>> /\ turns = [s \in Sessions |-> <<>>] /\ meta = {} /\ recent = <<>>
      /\ context = [s \in Sessions |-> NoContext]
      /\ view = [s \in Sessions |-> Empty] /\ waiting = {} /\ backups = 0
      /\ boot.phase = "down" /\ backup.created = <<>> /\ backup.turns = turns
      /\ backup.context = context
  BY DEF Init, Tables, Down, At
<1>3. DOMAIN <<>> = {} /\ Entries(<<>>) = {} /\ Distinct(<<>>)
  <2>1. DOMAIN <<>> = {}
    OBVIOUS
  <2> QED  BY <2>1 DEF Entries, Distinct
<1>4. Fresh
  BY <1>2, <1>3, EmptyShowsNothing DEF Fresh, Unseen
<1>5. Unrepeated
  BY <1>2, <1>3 DEF Unrepeated
<1>6. Stages
  BY <1>2 DEF Stages
<1>7. Beginnings
  BY <1>2, <1>3 DEF Beginnings
<1>8. Progress
  BY <1>2 DEF Progress
<1>9. Contexts
  BY <1>2 DEF Contexts, Follows
<1>10. Views
  BY <1>2, EmptyView DEF Views
<1>11. Questions
  BY <1>2, EmptyAsksNothing DEF Questions, Over, OverNext, NoContext
<1> QED  BY <1>1, <1>4, <1>5, <1>6, <1>7, <1>8, <1>9, <1>10, <1>11 DEF IInv

LEMMA IInvStep == IInv /\ [Next]_vars => IInv'
  BY TypeStep, FreshStep, UnrepeatedStep, StagesStep, BeginningsStep, ProgressStep,
     ContextsStep, ViewsStep, QuestionsStep DEF IInv

LEMMA IInvAlways == Spec => []IInv
  BY IInvInit, IInvStep, PTL DEF Spec

\* Rows, memory, clients and the backup keep their types in every reachable
\* state; memory never holds more sessions, nor a session more turns, than the
\* caps, and no session twice.
THEOREM SessionsTypeCorrect == Spec => []TypeOK
<1>1. IInv => TypeOK
  BY DEF IInv
<1> QED  BY <1>1, IInvAlways, PTL

\* What a session in memory shows is always the end of what is stored for it.
THEOREM SessionsShowTheLatest == Spec => []ViewIsTheLatest
<1>1. IInv => ViewIsTheLatest
  <2> SUFFICES ASSUME IInv, NEW s \in Entries(recent)
               PROVE  Latest(view[s].turns, turns[s])
    BY DEF ViewIsTheLatest, Latest
  <2>1. s \in Sessions
    BY TypeParts, SeqFacts DEF IInv, MemoryOK
  <2> QED  BY <2>1 DEF IInv, Views
<1> QED  BY <1>1, IInvAlways, PTL

\* A restart asks the question the running service asks; the only difference a
\* panic can make is that memory waits for no answer, or for one to a question of
\* a turn that was never stored.
THEOREM PendingIsDurable == Spec => []PendingSurvivesRestart
<1>1. IInv => PendingSurvivesRestart
  <2> SUFFICES ASSUME IInv, NEW s \in Entries(recent),
                      view[s].turns # <<>>, Final(view[s].turns) \in Entries(turns[s])
               PROVE  \/ view[s].pending = context[s].pending
                      \/ s \in abandoned /\ ~Recorded(view[s].pending)
    BY DEF PendingSurvivesRestart
  <2>1. s \in Sessions
    BY TypeParts, SeqFacts DEF IInv, MemoryOK
  <2>2. s \in abandoned \/ view[s].pending = context[s].pending
    BY <2>1 DEF IInv, Views, Asked
  <2>3. view[s].pending = context[s].pending \/ Over(view[s].pending)
    BY <2>1 DEF IInv, Questions
  <2>4. Over(view[s].pending) => ~Recorded(view[s].pending)
    <3>1. ~Recorded(NoTurn)
      <4>1. NoTurn \notin TurnIds
        BY StoreBounds
      <4>2. \A x \in Sessions : Entries(turns[x]) \subseteq TurnIds
        BY TypeParts, SeqFacts DEF IInv, RowsOK
      <4> QED  BY <4>1, <4>2 DEF Recorded
    <3> QED  BY <3>1 DEF Over, OverNext, Spent, Recorded
  <2> QED  BY <2>2, <2>3, <2>4
<1> QED  BY <1>1, IInvAlways, PTL

\* The stored context is that of the last stored turn.
THEOREM ContextIsOfTheLastTurn == Spec => []ContextFollowsTurns
<1>1. IInv => ContextFollowsTurns
  BY DEF IInv, Contexts, Follows, ContextFollowsTurns
<1> QED  BY <1>1, IInvAlways, PTL

\* What is marked as imported is there, whole and in order, whatever snapshot
\* was imported and however often the import was cut short.
THEOREM MarkedImportsAreComplete == Spec => []ImportIsComplete
<1>1. IInv => ImportIsComplete
  BY DEF IInv, Progress, Stored, ImportIsComplete
<1> QED  BY <1>1, IInvAlways, PTL

-----------------------------------------------------------------------------
(* How often a fact can be imported.                                       *)

\* FactsAreImportedOnce does not hold; what does is that a fact of the snapshot
\* is stored at most once more for each start that was cut short
\* (import_qa_snapshot, which begins again from the first fact).
FactsRepeatPerStop == \A k \in 1 .. LegacyFacts : facts[k] <= stops + 1

\* The facts that the import of this start, or of the next, has still to store.
Ahead ==
    /\ "qa" \notin meta /\ boot.phase = "down" =>
        \A k \in 1 .. LegacyFacts : facts[k] <= stops
    /\ boot.phase = "qa" =>
        \A k \in 1 .. LegacyFacts : k >= boot.item => facts[k] <= stops
    /\ \A k \in 1 .. LegacyFacts : backup.facts[k] <= stops + 1

Repeats == FactsRepeatPerStop /\ Ahead

LEMMA RepeatsInit == Init => Repeats
BY StoreBounds DEF Init, Repeats, FactsRepeatPerStop, Ahead, Down, At, Tables

LEMMA RepeatsStep ==
    ASSUME TypeOK, Stages, Repeats, [Next]_vars
    PROVE  Repeats'
<1>0. /\ boot \in Boots /\ boot.item \in Nat /\ stops \in Nat
      /\ \A k \in 1 .. LegacyFacts : facts[k] \in Nat /\ backup.facts[k] \in Nat
  BY StoreBounds DEF TypeOK, Boots
<1>1. ASSUME UNCHANGED <<facts, stops, backup>>, UNCHANGED <<meta, boot>>
      PROVE  Repeats'
  BY <1>1 DEF Repeats, FactsRepeatPerStop, Ahead
<1>2. ASSUME UNCHANGED <<facts, stops, backup>>, boot'.phase \notin {"down", "qa"}
      PROVE  Repeats'
  BY <1>2 DEF Repeats, FactsRepeatPerStop, Ahead
<1>3. CASE Start
  <2>1. boot.phase = "down" /\ UNCHANGED <<facts, stops, backup, meta>>
    BY <1>3 DEF Start, tables, files
  <2>2. CASE "qa" \in meta
    BY <1>2, <1>3, <2>1, <2>2 DEF Start, SessionImport, At
  <2>3. CASE "qa" \notin meta
    <3>1. boot'.phase = "qa"
      BY <1>3, <2>3 DEF Start, At
    <3> QED  BY <2>1, <2>3, <3>1 DEF Repeats, FactsRepeatPerStop, Ahead
  <2> QED  BY <2>2, <2>3
<1>4. CASE ImportFact
  <2>1. /\ boot.phase = "qa" /\ boot'.phase = "qa" /\ boot'.item = boot.item + 1
        /\ facts' = [facts EXCEPT ![boot.item] = @ + 1]
        /\ UNCHANGED <<stops, backup>>
    BY <1>0, <1>4 DEF ImportFact, files, Boots
  <2>2. ASSUME NEW k \in 1 .. LegacyFacts
        PROVE  /\ facts'[k] <= stops + 1
               /\ k >= boot.item + 1 => facts'[k] <= stops
    <3>1. facts'[k] = IF k = boot.item THEN facts[k] + 1 ELSE facts[k]
      BY <2>1 DEF TypeOK
    <3>2. CASE k = boot.item
      <4>1. facts[k] <= stops /\ k \in Nat
        BY <1>0, <2>1, <3>2 DEF Repeats, Ahead
      <4> QED  BY <1>0, <3>1, <3>2, <4>1
    <3>3. CASE k # boot.item
      <4>1. k >= boot.item + 1 => k >= boot.item
        BY <1>0
      <4> QED  BY <2>1, <3>1, <3>3, <4>1 DEF Repeats, FactsRepeatPerStop, Ahead
    <3> QED  BY <3>2, <3>3
  <2> QED  BY <2>1, <2>2 DEF Repeats, FactsRepeatPerStop, Ahead
<1>5. CASE MarkFacts \/ MarkSessions
  BY <1>2, <1>5 DEF MarkFacts, MarkSessions, SessionImport, At, files
<1>6. CASE ImportSession \/ ImportTurn \/ ImportContext
  <2>1. boot'.phase = "sessions" /\ UNCHANGED <<facts, stops, backup>>
    BY <1>0, <1>6 DEF ImportSession, ImportTurn, ImportContext, ImportingSession,
                      At, files, Boots
  <2> QED  BY <1>2, <2>1
<1>7. CASE ImportConflict
  <2>1. boot.phase = "sessions" /\ UNCHANGED <<facts, stops, backup, meta>>
    BY <1>7 DEF ImportConflict, ImportingSession, tables, files
  <2>2. "qa" \in meta' /\ boot'.phase = "down"
    BY <1>7, <2>1 DEF Stages, ImportConflict, Down, At
  <2> QED  BY <2>1, <2>2 DEF Repeats, FactsRepeatPerStop, Ahead
<1>8. CASE Open
  BY <1>2, <1>8 DEF Open, At, tables, files
<1>9. CASE Serving
  <2>1. boot.phase = "up" /\ boot' = boot /\ UNCHANGED stops
    BY <1>9 DEF Serving, CreateSession, Submit, RunTurn, AbandonTurn, Backup,
           Restore
  <2>2. CASE Backup
    BY <2>1, <2>2 DEF Backup, Tables, tables, Repeats, FactsRepeatPerStop, Ahead
  <2>3. CASE Restore
    BY <2>1, <2>3 DEF Restore, files, Repeats, FactsRepeatPerStop, Ahead
  <2>4. CASE (\E s \in Sessions : CreateSession(s) \/ Submit(s))
             \/ (\E r \in waiting, asks \in BOOLEAN : RunTurn(r, asks) \/ AbandonTurn(r, asks))
    BY <1>2, <2>1, <2>4 DEF CreateSession, Submit, RunTurn, AbandonTurn, tables, files
  <2> QED  BY <1>9, <2>2, <2>3, <2>4 DEF Serving
<1>10. CASE Stop
  <2>1. /\ stops' = stops + 1 /\ boot'.phase = "down"
        /\ UNCHANGED <<facts, backup>>
    BY <1>10 DEF Stop, Down, At, tables, files
  <2> QED  BY <1>0, <2>1 DEF Repeats, FactsRepeatPerStop, Ahead
<1>11. CASE UNCHANGED vars
  BY <1>1, <1>11 DEF vars, tables, files
<1> QED
  BY <1>3, <1>4, <1>5, <1>6, <1>7, <1>8, <1>9, <1>10, <1>11 DEF Next, Starting

\* A crash in the import of the facts costs at most one more copy of each,
\* however often a start is cut short, and a restore adds none.
THEOREM FactsRepeatOncePerStop == Spec => []FactsRepeatPerStop
<1>1. IInv /\ Repeats /\ [Next]_vars => Repeats'
  BY RepeatsStep DEF IInv
<1>2. Repeats => FactsRepeatPerStop
  BY DEF Repeats
<1> QED  BY <1>1, <1>2, RepeatsInit, IInvAlways, PTL DEF Spec

=============================================================================
