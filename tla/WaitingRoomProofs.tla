------------------------- MODULE WaitingRoomProofs -------------------------
(***************************************************************************)
(* Proofs about WaitingRoom: the pending list tells the truth about        *)
(* losses, one admitting worker admits in order, and an admission is used  *)
(* once by a client that sends one request at a time; for any number of    *)
(* users, requests, entries and cut ticks.                                 *)
(***************************************************************************)
EXTENDS WaitingRoom, FiniteSetTheorems, SequenceTheorems, TLAPS

-----------------------------------------------------------------------------
(***************************************************************************)
(* The stream and the batches read from it.                                *)
(***************************************************************************)

tape == <<stream, delivered, perTick, batch, step, added>>

TapeType ==
    /\ stream \in Seq(Users)
    /\ delivered \in Int /\ -1 <= delivered /\ delivered <= Len(stream)
    /\ perTick \in Rates
    /\ batch \in [Admitters -> Seq(Nat)]
    /\ step \in [Admitters -> {"create", "read", "add", "expire", "ack"}]
    /\ added \subseteq 1 .. delivered

\* The head of a's batch has been put into the admitted set.
HeadAdded(a) == step[a] \in {"expire", "ack"}

\* A batch is read in order, and between batches.
Working(a) == batch[a] # << >>

BatchInv ==
    /\ \A a \in Admitters : Working(a) <=> step[a] \in {"add", "expire", "ack"}
    /\ \A a \in Admitters : step[a] # "create" => delivered >= 0
    /\ \A a \in Admitters : HeadAdded(a) => batch[a][1] \in added
    /\ \A a \in Admitters : \A i \in 1 .. Len(batch[a]) :
          batch[a][i] \in 1 .. delivered

\* No entry is in two batches, or twice in one, and only the head of a batch
\* may have been added.
NotYet ==
    /\ \A a \in Admitters : \A i, j \in 1 .. Len(batch[a]) :
          batch[a][i] = batch[a][j] => i = j
    /\ \A a, b \in Admitters : \A i \in 1 .. Len(batch[a]), j \in 1 .. Len(batch[b]) :
          batch[a][i] = batch[b][j] => a = b
    /\ \A a \in Admitters : \A i \in 1 .. Len(batch[a]) :
          batch[a][i] \in added => i = 1 /\ HeadAdded(a)

TapeInv == TapeType /\ BatchInv /\ NotYet

\* The tail of a batch.
LEMMA TailOf ==
  ASSUME NEW b \in Seq(Nat), b # << >>
  PROVE  /\ Tail(b) \in Seq(Nat) /\ Len(Tail(b)) = Len(b) - 1 /\ Len(b) \in Nat \ {0}
         /\ \A i \in 1 .. Len(Tail(b)) : i + 1 \in 1 .. Len(b) /\ Tail(b)[i] = b[i + 1]
         /\ Head(b) = b[1] /\ b[1] \in Nat
         /\ Len(b) = 1 <=> Tail(b) = << >>
<1>1. Len(b) \in Nat \ {0} /\ b[1] \in Nat
  BY EmptySeq, ElementOfSeq
<1>2. /\ Tail(b) \in Seq(Nat) /\ Len(Tail(b)) = Len(b) - 1 /\ Head(b) = b[1]
      /\ \A i \in 1 .. Len(Tail(b)) : Tail(b)[i] = b[i + 1]
  <2>1. /\ Tail(b) \in Seq(Nat) /\ Len(Tail(b)) = Len(b) - 1
        /\ \A i \in 1 .. Len(Tail(b)) : Tail(b)[i] = b[i + 1]
    BY HeadTailProperties, SMTT(20)
  <2>2. Head(b) = b[1]
    BY <1>1
  <2>3. QED BY <2>1, <2>2
<1>3. Len(b) = 1 <=> Tail(b) = << >>
  BY <1>1, <1>2, EmptySeq
<1>4. QED BY <1>1, <1>2, <1>3

LEMMA InitTape == Init => TapeInv
<1> SUFFICES ASSUME Init PROVE TapeInv
  OBVIOUS
<1>1. /\ stream = << >> /\ Len(stream) = 0 /\ stream \in Seq(Users)
      /\ << >> \in Seq(Nat) /\ Len(<< >>) = 0
  BY DEF Init
<1>2. TapeType
  BY <1>1, PerTickAssumption DEF Init, TapeType
<1>3. \A a \in Admitters : batch[a] = << >> /\ step[a] = "create"
  BY DEF Init
<1>4. BatchInv /\ NotYet
  BY <1>1, <1>3 DEF BatchInv, NotYet, Working, HeadAdded
<1>5. QED BY <1>2, <1>4 DEF TapeInv

LEMMA EnqueueTape ==
  ASSUME TapeInv, NEW h \in Handlers, Enqueue(h), user[h] \in Users
  PROVE  TapeInv'
<1>1. /\ stream' = Append(stream, user[h]) /\ stream \in Seq(Users)
      /\ UNCHANGED <<delivered, perTick, batch, step, added>>
  BY DEF Enqueue, tick, history, TapeInv, TapeType
<1>2. stream' \in Seq(Users) /\ Len(stream') = Len(stream) + 1 /\ Len(stream) \in Nat
  BY <1>1, AppendProperties, LenProperties
<1>3. TapeType'
  BY <1>1, <1>2 DEF TapeInv, TapeType
<1>4. BatchInv' /\ NotYet'
  BY <1>1 DEF TapeInv, BatchInv, NotYet, Working, HeadAdded
<1>5. QED BY <1>3, <1>4 DEF TapeInv

LEMMA CreateTape ==
  ASSUME TapeInv, NEW a \in Admitters, CreateGroup(a)
  PROVE  TapeInv'
<1>1. /\ UNCHANGED <<stream, perTick, batch, added>> /\ step[a] = "create"
      /\ delivered' = (IF delivered = -1 THEN 0 ELSE delivered)
      /\ step' = [step EXCEPT ![a] = "read"]
  BY DEF CreateGroup, At, history
<1>2. Len(stream) \in Nat
  BY LenProperties DEF TapeInv, TapeType
<1>3. TapeType'
  BY <1>1, <1>2 DEF TapeInv, TapeType
<1>4. \A b \in Admitters : /\ HeadAdded(b)' <=> HeadAdded(b)
                           /\ step'[b] \in {"add", "expire", "ack"}
                                 <=> step[b] \in {"add", "expire", "ack"}
  <2>1. SUFFICES ASSUME NEW b \in Admitters
                 PROVE  /\ HeadAdded(b)' <=> HeadAdded(b)
                        /\ step'[b] \in {"add", "expire", "ack"}
                              <=> step[b] \in {"add", "expire", "ack"}
    OBVIOUS
  <2>2. step'[b] = (IF b = a THEN "read" ELSE step[b])
    BY <1>1 DEF TapeInv, TapeType
  <2>3. QED BY <1>1, <2>2 DEF HeadAdded
<1>5. 1 .. delivered \subseteq 1 .. delivered'
  BY <1>1, <1>2 DEF TapeInv, TapeType
<1>6. BatchInv'
  <2>1. \A b \in Admitters : step'[b] # "create" => delivered' >= 0
    BY <1>1 DEF TapeInv, TapeType, BatchInv
  <2>2. QED BY <1>1, <1>4, <1>5, <2>1 DEF TapeInv, BatchInv, Working
<1>7. NotYet'
  BY <1>1, <1>4 DEF TapeInv, NotYet
<1>8. QED BY <1>3, <1>6, <1>7 DEF TapeInv

\* What XREADGROUP hands out: the entries up to n.
LEMMA ReadNext ==
  ASSUME TapeInv, NEW a \in Admitters, ReadGroup(a)
  PROVE  /\ delivered \in Nat
         /\ \E n \in Nat, b \in Seq(Nat) :
               /\ delivered < n /\ n <= Len(stream) /\ n = NextLast
               /\ delivered' = n
               /\ Len(b) = n - delivered
               /\ \A i \in 1 .. Len(b) : b[i] = delivered + i
               /\ batch' = [batch EXCEPT ![a] = b]
<1>1. Len(stream) \in Nat /\ delivered \in Nat /\ perTick \in Nat \ {0}
  BY LenProperties, PerTickAssumption DEF ReadGroup, TapeInv, TapeType, BatchInv
<1>2. delivered < Len(stream) /\ delivered' = NextLast
  BY DEF ReadGroup
<1>3. PICK n \in Nat : n = NextLast /\ delivered < n /\ n <= Len(stream)
  BY <1>1, <1>2 DEF NextLast
<1>4. PICK k \in Nat : k = n - delivered
  BY <1>1, <1>3
<1> DEFINE b == [i \in 1 .. k |-> delivered + i]
<1>5. b \in [1 .. k -> Nat]
  BY <1>1
<1>6. b \in Seq(Nat)
  BY <1>5, SeqDef
<1>7. Len(b) = k
  BY <1>4
<1>8. batch' = [batch EXCEPT ![a] = b]
  BY <1>3, <1>4 DEF ReadGroup
<1>9. \A i \in 1 .. Len(b) : b[i] = delivered + i
  BY <1>7
<1>10. delivered' = n
  BY <1>2, <1>3
<1> HIDE DEF b
<1>11. QED BY <1>1, <1>3, <1>4, <1>6, <1>7, <1>8, <1>9, <1>10

\* The parts of BatchInv and NotYet, for one admitter or two.
Batch(c) ==
    /\ Working(c) <=> step[c] \in {"add", "expire", "ack"}
    /\ step[c] # "create" => delivered >= 0
    /\ HeadAdded(c) => batch[c][1] \in added
    /\ \A i \in 1 .. Len(batch[c]) : batch[c][i] \in 1 .. delivered

LEMMA BatchParts == BatchInv <=> \A c \in Admitters : Batch(c)
  BY DEF BatchInv, Batch

LEMMA ReadTape ==
  ASSUME TapeInv, NEW a \in Admitters, ReadGroup(a)
  PROVE  TapeInv'
<1>b. PICK n \in Nat, b \in Seq(Nat) :
               /\ delivered < n /\ n <= Len(stream) /\ n = NextLast
               /\ delivered' = n
               /\ Len(b) = n - delivered
               /\ \A i \in 1 .. Len(b) : b[i] = delivered + i
               /\ batch' = [batch EXCEPT ![a] = b]
  BY ReadNext
<1>1. delivered \in Nat /\ 0 <= n /\ -1 <= n
  BY ReadNext
<1>2. /\ UNCHANGED <<stream, perTick, added>> /\ step[a] = "read" /\ At(a, "add")
  BY DEF ReadGroup, history
<1>3. /\ step'[a] = "add" /\ batch'[a] = b
      /\ \A c \in Admitters \ {a} : batch'[c] = batch[c] /\ step'[c] = step[c]
  BY <1>2, <1>b DEF At, TapeInv, TapeType
<1>5. 1 .. delivered \subseteq 1 .. n
  BY <1>1, <1>b
<1>n. b # << >>
  BY <1>1, <1>b, EmptySeq
<1>4. TapeType'
  <2>1. added \subseteq 1 .. n
    BY <1>5 DEF TapeInv, TapeType
  <2>2. QED BY <1>1, <1>2, <1>b, <2>1 DEF At, TapeInv, TapeType
<1>6. \A i \in 1 .. Len(b) : b[i] \in 1 .. n /\ b[i] \notin 1 .. delivered
  BY <1>1, <1>b
<1>7. BatchInv'
  <2>1. ASSUME NEW c \in Admitters PROVE Batch(c)'
    <3>1. CASE c = a
      BY <1>1, <1>b, <1>n, <1>3, <1>5, <1>6, <3>1 DEF Batch, Working, HeadAdded
    <3>2. CASE c # a
      <4>1. Batch(c) /\ batch'[c] = batch[c] /\ step'[c] = step[c]
        BY <1>3, <3>2, BatchParts DEF TapeInv
      <4>2. QED BY <1>1, <1>b, <1>2, <1>5, <4>1 DEF Batch, Working, HeadAdded
    <3>3. QED BY <3>1, <3>2
  <2>2. QED BY <2>1 DEF BatchInv, Batch
<1>8. NotYet'
  <2>1. \A i, j \in 1 .. Len(b) : b[i] = b[j] => i = j
    BY <1>1, <1>b
  <2>2. \A c \in Admitters : \A i, j \in 1 .. Len(batch'[c]) :
            batch'[c][i] = batch'[c][j] => i = j
    <3>1. SUFFICES ASSUME NEW c \in Admitters
                   PROVE  \A i, j \in 1 .. Len(batch'[c]) : batch'[c][i] = batch'[c][j] => i = j
      OBVIOUS
    <3>2. batch'[c] = b \/ batch'[c] = batch[c]
      BY <1>3
    <3>3. QED BY <2>1, <3>2 DEF TapeInv, NotYet
  <2>3. \A c \in Admitters \ {a} : \A i \in 1 .. Len(batch'[c]) : batch'[c][i] \in 1 .. delivered
    BY <1>3 DEF TapeInv, BatchInv
  <2>4. \A c, d \in Admitters : \A i \in 1 .. Len(batch'[c]), j \in 1 .. Len(batch'[d]) :
            batch'[c][i] = batch'[d][j] => c = d
    <3>1. SUFFICES ASSUME NEW c \in Admitters, NEW d \in Admitters, c # d,
                          NEW i \in 1 .. Len(batch'[c]), NEW j \in 1 .. Len(batch'[d])
                   PROVE  batch'[c][i] # batch'[d][j]
      OBVIOUS
    <3>2. CASE c = a
      BY <1>3, <1>6, <2>3, <3>1, <3>2
    <3>3. CASE d = a
      BY <1>3, <1>6, <2>3, <3>1, <3>3
    <3>4. CASE c # a /\ d # a
      <4>1. batch'[c] = batch[c] /\ batch'[d] = batch[d]
        BY <1>3, <3>4
      <4>2. i \in 1 .. Len(batch[c]) /\ j \in 1 .. Len(batch[d])
        BY <4>1
      <4>3. batch[c][i] # batch[d][j]
        BY <3>1, <4>2 DEF TapeInv, NotYet
      <4>4. QED BY <4>1, <4>3
    <3>5. QED BY <3>2, <3>3, <3>4
  <2>5. \A c \in Admitters : \A i \in 1 .. Len(batch'[c]) :
            batch'[c][i] \in added' => i = 1 /\ HeadAdded(c)'
    <3>1. SUFFICES ASSUME NEW c \in Admitters, NEW i \in 1 .. Len(batch'[c]),
                          batch'[c][i] \in added
                   PROVE  i = 1 /\ HeadAdded(c)'
      BY <1>2
    <3>2. added \subseteq 1 .. delivered
      BY DEF TapeInv, TapeType
    <3>3. c # a
      BY <1>3, <1>6, <3>1, <3>2
    <3>4. QED BY <1>3, <3>1, <3>3 DEF HeadAdded, TapeInv, NotYet
  <2>6. QED BY <2>2, <2>4, <2>5 DEF NotYet
<1>9. QED BY <1>4, <1>7, <1>8 DEF TapeInv

\* SADD of the head: it had not been added.
LEMMA AddTape ==
  ASSUME TapeInv, NEW a \in Admitters, Add(a)
  PROVE  /\ TapeInv'
         /\ batch[a][1] \in 1 .. delivered /\ batch[a][1] \notin added
         /\ Head(batch[a]) = batch[a][1] /\ added' = added \cup {batch[a][1]}
<1>1. /\ UNCHANGED <<stream, delivered, perTick, batch>> /\ step[a] = "add"
      /\ At(a, "expire") /\ added' = added \cup {Head(batch[a])}
  BY DEF Add
<1>2. batch[a] \in Seq(Nat) /\ batch[a] # << >>
  BY <1>1 DEF TapeInv, TapeType, BatchInv, Working
<1>3. Head(batch[a]) = batch[a][1] /\ 1 \in 1 .. Len(batch[a])
  BY <1>2, TailOf
<1>4. batch[a][1] \in 1 .. delivered /\ batch[a][1] \notin added
  BY <1>1, <1>3 DEF TapeInv, BatchInv, NotYet, HeadAdded
<1>5. added' = added \cup {batch[a][1]}
  BY <1>1, <1>3
<1>6. step'[a] = "expire" /\ \A c \in Admitters \ {a} : step'[c] = step[c]
  BY <1>1 DEF At, TapeInv, TapeType
<1>7. TapeType'
  BY <1>1, <1>4, <1>5 DEF At, TapeInv, TapeType
<1>8. BatchInv'
  <2>1. ASSUME NEW c \in Admitters PROVE Batch(c)'
    <3>1. Batch(c)
      BY BatchParts DEF TapeInv
    <3>2. CASE c = a
      BY <1>1, <1>2, <1>5, <1>6, <3>1, <3>2 DEF Batch, Working, HeadAdded
    <3>3. CASE c # a
      BY <1>1, <1>5, <1>6, <3>1, <3>3 DEF Batch, Working, HeadAdded
    <3>4. QED BY <3>2, <3>3
  <2>2. QED BY <2>1 DEF BatchInv, Batch
<1>9. NotYet'
  <2>1. ASSUME NEW c \in Admitters, NEW i \in 1 .. Len(batch[c]), batch[c][i] \in added'
        PROVE  i = 1 /\ HeadAdded(c)'
    <3>1. CASE batch[c][i] \in added
      BY <1>6, <2>1, <3>1 DEF HeadAdded, TapeInv, NotYet
    <3>2. CASE batch[c][i] = batch[a][1]
      BY <1>3, <1>6, <2>1, <3>2 DEF HeadAdded, TapeInv, NotYet
    <3>3. QED BY <1>5, <2>1, <3>1, <3>2
  <2>2. QED BY <1>1, <2>1 DEF TapeInv, NotYet
<1>10. QED BY <1>3, <1>4, <1>5, <1>7, <1>8, <1>9 DEF TapeInv

LEMMA ExpiryTape ==
  ASSUME TapeInv, NEW a \in Admitters, SetExpiry(a)
  PROVE  TapeInv'
<1>1. /\ UNCHANGED <<stream, delivered, perTick, batch, added>> /\ step[a] = "expire"
      /\ At(a, "ack")
  BY DEF SetExpiry, history
<1>2. step'[a] = "ack" /\ \A c \in Admitters \ {a} : step'[c] = step[c]
  BY <1>1 DEF At, TapeInv, TapeType
<1>3. \A c \in Admitters : /\ HeadAdded(c)' <=> HeadAdded(c)
                           /\ step'[c] \in {"add", "expire", "ack"}
                                 <=> step[c] \in {"add", "expire", "ack"}
                           /\ step'[c] # "create" <=> step[c] # "create"
  BY <1>1, <1>2 DEF HeadAdded
<1>4. TapeType'
  BY <1>1 DEF At, TapeInv, TapeType
<1>5. UNCHANGED <<batch, added, delivered>>
  BY <1>1
<1>6. \A c \in Admitters : Working(c)' <=> Working(c)
  BY <1>5 DEF Working
<1>7. BatchInv'
  <2>1. \A c \in Admitters : Working(c)' <=> step'[c] \in {"add", "expire", "ack"}
    BY <1>3, <1>6 DEF TapeInv, BatchInv
  <2>2. \A c \in Admitters : step'[c] # "create" => delivered' >= 0
    BY <1>3, <1>5 DEF TapeInv, BatchInv
  <2>3. \A c \in Admitters : HeadAdded(c)' => batch'[c][1] \in added'
    BY <1>3, <1>5 DEF TapeInv, BatchInv
  <2>4. \A c \in Admitters : \A i \in 1 .. Len(batch'[c]) : batch'[c][i] \in 1 .. delivered'
    BY <1>5 DEF TapeInv, BatchInv
  <2>5. QED BY <2>1, <2>2, <2>3, <2>4 DEF BatchInv
<1>8. NotYet'
  BY <1>3, <1>5 DEF TapeInv, NotYet
<1>9. QED BY <1>4, <1>7, <1>8 DEF TapeInv

\* The batch of a gets shorter from its front, or is dropped.
LEMMA ShorterTape ==
  ASSUME TapeInv, NEW a \in Admitters, NEW b \in Seq(Nat),
         batch' = [batch EXCEPT ![a] = b], At(a, IF b = << >> THEN "create" ELSE "add"),
         UNCHANGED <<stream, delivered, perTick, added>>,
         step[a] # "create",
         \A i \in 1 .. Len(b) : i + 1 \in 1 .. Len(batch[a]) /\ b[i] = batch[a][i + 1]
  PROVE  TapeInv'
<1>0. PICK l \in {"create", "add"} : l = IF b = << >> THEN "create" ELSE "add"
  OBVIOUS
<1>1. /\ batch'[a] = b /\ step'[a] = l
      /\ \A c \in Admitters \ {a} : batch'[c] = batch[c] /\ step'[c] = step[c]
  BY <1>0 DEF At, TapeInv, TapeType
<1>2. TapeType'
  BY <1>0 DEF At, TapeInv, TapeType
<1>3. Len(b) \in Nat
  BY LenProperties
<1>4. BatchInv'
  <2>1. ASSUME NEW c \in Admitters PROVE Batch(c)'
    <3>1. Batch(c) /\ Batch(a)
      BY BatchParts DEF TapeInv
    <3>2. CASE c = a
      <4>1. \A i \in 1 .. Len(b) : b[i] \in 1 .. delivered
        BY <3>1 DEF Batch
      <4>2. delivered >= 0
        BY <3>1 DEF Batch
      <4>3. b # << >> <=> l \in {"add", "expire", "ack"}
        BY <1>0
      <4>4. l \notin {"expire", "ack"}
        BY <1>0
      <4>5. QED BY <1>1, <3>2, <4>1, <4>2, <4>3, <4>4 DEF Batch, Working, HeadAdded
    <3>3. CASE c # a
      BY <1>1, <3>1, <3>3 DEF Batch, Working, HeadAdded
    <3>4. QED BY <3>2, <3>3
  <2>2. QED BY <2>1 DEF BatchInv, Batch
<1>5. NotYet'
  <2>1. \A i, j \in 1 .. Len(b) : b[i] = b[j] => i = j
    <3>1. SUFFICES ASSUME NEW i \in 1 .. Len(b), NEW j \in 1 .. Len(b), b[i] = b[j]
                   PROVE  i = j
      OBVIOUS
    <3>2. /\ i + 1 \in 1 .. Len(batch[a]) /\ j + 1 \in 1 .. Len(batch[a])
          /\ batch[a][i + 1] = batch[a][j + 1] /\ i \in Nat /\ j \in Nat
      BY <1>3, <3>1
    <3>3. i + 1 = j + 1
      BY <3>2 DEF TapeInv, NotYet
    <3>4. QED BY <3>2, <3>3
  <2>2. \A c \in Admitters : \A i, j \in 1 .. Len(batch'[c]) :
            batch'[c][i] = batch'[c][j] => i = j
    <3>1. SUFFICES ASSUME NEW c \in Admitters
                   PROVE  \A i, j \in 1 .. Len(batch'[c]) : batch'[c][i] = batch'[c][j] => i = j
      OBVIOUS
    <3>2. batch'[c] = b \/ batch'[c] = batch[c]
      BY <1>1
    <3>3. QED BY <2>1, <3>2 DEF TapeInv, NotYet
  <2>3. ASSUME NEW c \in Admitters, NEW i \in 1 .. Len(batch'[c])
        PROVE  \E k \in 1 .. Len(batch[c]) : batch'[c][i] = batch[c][k]
    BY <1>1
  <2>4. \A c, d \in Admitters : \A i \in 1 .. Len(batch'[c]), j \in 1 .. Len(batch'[d]) :
            batch'[c][i] = batch'[d][j] => c = d
    BY <2>3 DEF TapeInv, NotYet
  <2>5. \A i \in 1 .. Len(b) : b[i] \notin added
    <3>1. SUFFICES ASSUME NEW i \in 1 .. Len(b), b[i] \in added PROVE FALSE
      OBVIOUS
    <3>2. i + 1 \in 1 .. Len(batch[a]) /\ batch[a][i + 1] \in added /\ i \in Nat /\ i > 0
      BY <1>3, <3>1
    <3>3. i + 1 = 1
      BY <3>2 DEF TapeInv, NotYet
    <3>4. QED BY <3>2, <3>3
  <2>6. \A c \in Admitters : \A i \in 1 .. Len(batch'[c]) :
            batch'[c][i] \in added' => i = 1 /\ HeadAdded(c)'
    BY <1>1, <2>5 DEF HeadAdded, TapeInv, NotYet
  <2>7. QED BY <2>2, <2>4, <2>6 DEF NotYet
<1>6. QED BY <1>2, <1>4, <1>5 DEF TapeInv

LEMMA AckTape ==
  ASSUME TapeInv, NEW a \in Admitters, Ack(a)
  PROVE  TapeInv'
<1>1. /\ UNCHANGED <<stream, delivered, perTick, added>> /\ step[a] = "ack"
      /\ batch' = [batch EXCEPT ![a] = Tail(batch[a])]
      /\ At(a, IF Len(batch[a]) = 1 THEN "create" ELSE "add")
  BY DEF Ack, history
<1>2. batch[a] \in Seq(Nat) /\ batch[a] # << >>
  BY <1>1 DEF TapeInv, TapeType, BatchInv, Working
<1> DEFINE b == Tail(batch[a])
<1>3. /\ b \in Seq(Nat)
      /\ \A i \in 1 .. Len(b) : i + 1 \in 1 .. Len(batch[a]) /\ b[i] = batch[a][i + 1]
      /\ Len(batch[a]) = 1 <=> b = << >>
  BY <1>2, TailOf
<1>4. /\ batch' = [batch EXCEPT ![a] = b]
      /\ At(a, IF b = << >> THEN "create" ELSE "add")
  BY <1>1, <1>3
<1>5. step[a] # "create"
  BY <1>1
<1> HIDE DEF b
<1>6. QED BY <1>1, <1>3, <1>4, <1>5, ShorterTape

LEMMA CutTape ==
  ASSUME TapeInv, NEW a \in Admitters, TickCut(a)
  PROVE  TapeInv'
<1> DEFINE b == << >>
<1>1. /\ UNCHANGED <<stream, delivered, perTick, added>>
      /\ batch' = [batch EXCEPT ![a] = b] /\ At(a, IF b = << >> THEN "create" ELSE "add")
      /\ step[a] # "create"
  BY DEF TickCut, redis, handler, TapeInv, BatchInv, Working
<1>2. b \in Seq(Nat) /\ \A i \in 1 .. Len(b) :
                           i + 1 \in 1 .. Len(batch[a]) /\ b[i] = batch[a][i + 1]
  BY EmptySeq
<1> HIDE DEF b
<1>3. QED BY <1>1, <1>2, ShorterTape

\* Everything else leaves the tape alone; Throttle changes the rate only.
LEMMA QuietTape ==
  ASSUME TapeInv, UNCHANGED <<stream, delivered, batch, step, added>>, perTick' \in Rates
  PROVE  TapeInv'
<1>1. TapeType'
  BY DEF TapeInv, TapeType
<1>2. BatchInv' /\ NotYet'
  BY DEF TapeInv, BatchInv, NotYet, Working, HeadAdded
<1>3. QED BY <1>1, <1>2 DEF TapeInv

-----------------------------------------------------------------------------
(***************************************************************************)
(* Requests.                                                               *)
(***************************************************************************)

DeskType ==
    /\ pc \in [Handlers -> {"idle", "gate", "consume", "enqueue", "marker", "estimate"}]
    /\ user \in [Handlers -> Users \cup {NoUser}]
    /\ \A h \in Handlers : pc[h] = "idle" <=> user[h] = NoUser

\* A client that sends one request at a time has one in flight.
SerialInv ==
    \A g, h \in Handlers : user[g] = user[h] /\ user[g] \in Serial => g = h

DeskInv == DeskType /\ SerialInv

\* The user of a request in flight.
LEMMA UserOf ==
  ASSUME DeskInv, NEW h \in Handlers, pc[h] # "idle"
  PROVE  user[h] \in Users
BY DEF DeskInv, DeskType

LEMMA InitDesk == Init => DeskInv
BY NoUserAssumption, SerialAssumption DEF Init, DeskInv, DeskType, SerialInv

LEMMA ArriveDesk ==
  ASSUME DeskInv, NEW h \in Handlers, NEW u \in Users, Arrive(h, u)
  PROVE  DeskInv'
<1>1. /\ pc[h] = "idle" /\ pc' = [pc EXCEPT ![h] = "gate"]
      /\ user' = [user EXCEPT ![h] = u]
      /\ u \in Serial => \A g \in Handlers : user[g] # u
  BY DEF Arrive, Goto, Busy
<1>2. DeskType'
  BY <1>1, NoUserAssumption DEF DeskInv, DeskType
<1>3. \A g \in Handlers : user'[g] = IF g = h THEN u ELSE user[g]
  BY <1>1 DEF DeskInv, DeskType
<1>4. SerialInv'
  BY <1>1, <1>3 DEF DeskInv, SerialInv
<1>5. QED BY <1>2, <1>4 DEF DeskInv

LEMMA GotoDesk ==
  ASSUME DeskInv, NEW h \in Handlers,
         NEW l \in {"gate", "consume", "enqueue", "marker", "estimate"},
         pc[h] # "idle", Goto(h, l), UNCHANGED user
  PROVE  DeskInv'
<1>1. DeskType'
  BY DEF Goto, DeskInv, DeskType
<1>2. SerialInv'
  BY DEF DeskInv, SerialInv
<1>3. QED BY <1>1, <1>2 DEF DeskInv

LEMMA LeaveDesk ==
  ASSUME DeskInv, NEW h \in Handlers, Leave(h)
  PROVE  DeskInv'
<1>1. pc' = [pc EXCEPT ![h] = "idle"] /\ user' = [user EXCEPT ![h] = NoUser]
  BY DEF Leave, Goto
<1>2. DeskType'
  BY <1>1 DEF DeskInv, DeskType
<1>3. \A g \in Handlers : user'[g] = IF g = h THEN NoUser ELSE user[g]
  BY <1>1 DEF DeskInv, DeskType
<1>4. SerialInv'
  BY <1>3, NoUserAssumption, SerialAssumption DEF DeskInv, SerialInv
<1>5. QED BY <1>2, <1>4 DEF DeskInv

LEMMA NextDesk == DeskInv /\ [Next]_vars => DeskInv'
<1> SUFFICES ASSUME DeskInv, [Next]_vars PROVE DeskInv'
  OBVIOUS
<1>1. CASE \E h \in Handlers, u \in Users : Arrive(h, u)
  BY <1>1, ArriveDesk
<1>2. CASE \E h \in Handlers : Gate(h) \/ HandlerDies(h)
  <2>1. PICK h \in Handlers : Gate(h) \/ HandlerDies(h)
    BY <1>2
  <2>2. CASE IsAdmitted(h)
    <3>1. PICK l \in {"consume", "enqueue"} :
               l = IF user[h] \in admitted THEN "consume" ELSE "enqueue"
      OBVIOUS
    <3>2. Goto(h, l) /\ pc[h] # "idle" /\ UNCHANGED user
      BY <2>2, <3>1 DEF IsAdmitted
    <3>3. QED BY <3>2, GotoDesk
  <2>3. CASE Enqueue(h)
    <3>1. Goto(h, "marker") /\ pc[h] # "idle" /\ UNCHANGED user
      BY <2>3 DEF Enqueue
    <3>2. QED BY <3>1, GotoDesk
  <2>4. CASE SetMarker(h)
    <3>1. Goto(h, "estimate") /\ pc[h] # "idle" /\ UNCHANGED user
      BY <2>4 DEF SetMarker
    <3>2. QED BY <3>1, GotoDesk
  <2>5. CASE ConsumeAdmission(h) \/ Estimate(h) \/ HandlerDies(h)
    <3>1. Leave(h)
      BY <2>5 DEF ConsumeAdmission, Estimate, HandlerDies
    <3>2. QED BY <3>1, LeaveDesk
  <2>6. QED BY <2>1, <2>2, <2>3, <2>4, <2>5 DEF Gate
<1>3. CASE UNCHANGED <<pc, user>>
  BY <1>3 DEF DeskInv, DeskType, SerialInv
<1>4. CASE \/ \E a \in Admitters : Tick(a) \/ TickCut(a)
           \/ Throttle \/ AdmittedExpires \/ \E u \in Users : MarkerExpires(u)
           \/ UNCHANGED vars
  BY <1>3, <1>4 DEF Tick, TickCut, Throttle, AdmittedExpires, MarkerExpires, CreateGroup,
                    ReadGroup, Add, SetExpiry, Ack, handler, vars
<1>5. QED BY <1>1, <1>2, <1>4 DEF Next

LEMMA NextTape == TapeInv /\ DeskInv /\ [Next]_vars => TapeInv'
<1> SUFFICES ASSUME TapeInv, DeskInv, [Next]_vars PROVE TapeInv'
  OBVIOUS
<1>1. CASE \E h \in Handlers : Enqueue(h)
  <2>1. PICK h \in Handlers : Enqueue(h)
    BY <1>1
  <2>2. user[h] \in Users
    BY <2>1, UserOf DEF Enqueue
  <2>3. QED BY <2>1, <2>2, EnqueueTape
<1>2. CASE \E a \in Admitters : Tick(a) \/ TickCut(a)
  BY <1>2, CreateTape, ReadTape, AddTape, ExpiryTape, AckTape, CutTape DEF Tick
<1>3. CASE UNCHANGED <<stream, delivered, batch, step, added>> /\ perTick' \in Rates
  BY <1>3, QuietTape
<1>4. perTick \in Rates
  BY DEF TapeInv, TapeType
<1>5. CASE Throttle
  BY <1>3, <1>5 DEF Throttle, redis, history
<1>6. CASE \/ \E h \in Handlers : \/ \E u \in Users : Arrive(h, u)
                                  \/ IsAdmitted(h) \/ ConsumeAdmission(h)
                                  \/ SetMarker(h) \/ Estimate(h) \/ HandlerDies(h)
           \/ AdmittedExpires \/ \E u \in Users : MarkerExpires(u)
           \/ UNCHANGED vars
  <2>1. UNCHANGED <<stream, delivered, batch, step, added, perTick>>
    BY <1>6 DEF Arrive, IsAdmitted, ConsumeAdmission, SetMarker, Estimate, HandlerDies,
                AdmittedExpires, MarkerExpires, redis, tick, history, vars
  <2>2. QED BY <1>3, <1>4, <2>1
<1>7. QED BY <1>1, <1>2, <1>5, <1>6 DEF Next, Gate

RoomInv == TapeInv /\ DeskInv

LEMMA AlwaysRoomInv == Spec => []RoomInv
<1>1. Init => RoomInv
  BY InitTape, InitDesk DEF RoomInv
<1>2. RoomInv /\ [Next]_vars => RoomInv'
  BY NextTape, NextDesk DEF RoomInv
<1>3. QED BY <1>1, <1>2, PTL DEF Spec

-----------------------------------------------------------------------------
(***************************************************************************)
(* The pending list.                                                       *)
(***************************************************************************)

LEMMA NextPending == RoomInv /\ LostIsPending /\ [Next]_vars => LostIsPending'
<1> SUFFICES ASSUME RoomInv, LostIsPending, [Next]_vars PROVE LostIsPending'
  OBVIOUS
<1> USE DEF RoomInv
<1>1. CASE \E a \in Admitters : CreateGroup(a)
  <2>1. /\ UNCHANGED <<pending, added>>
        /\ delivered' = delivered \/ delivered' = 0
    BY <1>1 DEF CreateGroup, history
  <2>2. QED BY <2>1 DEF LostIsPending
<1>2. CASE \E a \in Admitters : ReadGroup(a)
  <2>1. PICK a \in Admitters : ReadGroup(a)
    BY <1>2
  <2>2. PICK n \in Nat : delivered < n /\ n = NextLast /\ delivered' = n
    BY <2>1, ReadNext
  <2>3. delivered \in Nat
    BY <2>1, ReadNext
  <2>4. pending' = pending \cup (delivered + 1 .. n) /\ UNCHANGED added
    BY <2>1, <2>2 DEF ReadGroup, history
  <2>5. \A i \in 1 .. n : i \in 1 .. delivered \/ i \in delivered + 1 .. n
    BY <2>2, <2>3
  <2>6. QED BY <2>2, <2>4, <2>5 DEF LostIsPending
<1>3. CASE \E a \in Admitters : Ack(a)
  <2>1. PICK a \in Admitters : Ack(a)
    BY <1>3
  <2>2. step[a] = "ack" /\ batch[a] \in Seq(Nat) /\ batch[a] # << >>
    BY <2>1 DEF Ack, TapeInv, TapeType, BatchInv, Working
  <2>3. Head(batch[a]) \in added
    BY <2>2, TailOf DEF TapeInv, BatchInv, HeadAdded
  <2>4. pending' = pending \ {Head(batch[a])} /\ UNCHANGED <<added, delivered>>
    BY <2>1 DEF Ack, history
  <2>5. QED BY <2>3, <2>4 DEF LostIsPending
<1>4. CASE \E a \in Admitters : Add(a)
  BY <1>4 DEF Add, LostIsPending
<1>5. CASE UNCHANGED <<delivered, pending, added>>
  BY <1>5 DEF LostIsPending
<1>6. CASE \/ \E h \in Handlers : \/ \E u \in Users : Arrive(h, u)
                                  \/ Gate(h) \/ HandlerDies(h)
           \/ \E a \in Admitters : SetExpiry(a) \/ TickCut(a)
           \/ Throttle \/ AdmittedExpires \/ \E u \in Users : MarkerExpires(u)
           \/ UNCHANGED vars
  BY <1>5, <1>6 DEF Arrive, Gate, IsAdmitted, ConsumeAdmission, Enqueue, SetMarker, Estimate,
                    HandlerDies, SetExpiry, TickCut, Throttle, AdmittedExpires, MarkerExpires,
                    redis, tick, history, vars
<1>7. QED BY <1>1, <1>2, <1>3, <1>4, <1>6 DEF Next, Tick

\* XREADGROUP puts what it hands out on the pending list and XACK comes after
\* SADD only: an entry that is neither admitted nor pending has not been
\* handed out, whatever the tick was cut short by.
THEOREM LossesStayPending == Spec => []LostIsPending
<1>1. Init => LostIsPending
  BY DEF Init, LostIsPending
<1>2. QED BY <1>1, NextPending, AlwaysRoomInv, PTL DEF Spec

-----------------------------------------------------------------------------
(***************************************************************************)
(* First come, first served: what lies before the batch of the one         *)
(* admitter is admitted or lost, and nothing behind its head is admitted.  *)
(***************************************************************************)

\* The entries handed out before the batch of a.
Done(a) == 1 .. delivered - Len(batch[a])

OrderInv(a) ==
    /\ \A i \in 1 .. Len(batch[a]) : batch[a][i] = delivered - Len(batch[a]) + i
    /\ Done(a) \subseteq added \cup lost
    /\ \A j \in added : j \in Done(a) \/ (batch[a] # << >> /\ j = batch[a][1])

LEMMA OrderOfOne ==
  ASSUME RoomInv, NEW a \in Admitters, OrderInv(a),
         NEW j \in added, NEW i \in 1 .. j - 1
  PROVE  i \in added \cup lost
<1>1. delivered \in Int /\ batch[a] \in Seq(Nat) /\ j \in 1 .. delivered
  BY DEF RoomInv, TapeInv, TapeType
<1>2. PICK k \in Nat : k = Len(batch[a])
  BY <1>1, LenProperties
<1>3. CASE j \in Done(a)
  <2>1. i \in Done(a)
    BY <1>1, <1>2, <1>3 DEF Done
  <2>2. QED BY <2>1 DEF OrderInv
<1>4. CASE batch[a] # << >> /\ j = batch[a][1]
  <2>1. 1 \in 1 .. k
    BY <1>1, <1>2, <1>4, EmptySeq
  <2>2. j = delivered - k + 1
    BY <1>2, <1>4, <2>1 DEF OrderInv
  <2>3. i \in 1 .. delivered - k
    BY <1>1, <2>2
  <2>4. i \in Done(a)
    BY <1>2, <2>3 DEF Done
  <2>5. QED BY <2>4 DEF OrderInv
<1>5. QED BY <1>3, <1>4 DEF OrderInv

LEMMA NextOrder ==
  ASSUME RoomInv, NEW a, Admitters = {a}, OrderInv(a), [Next]_vars
  PROVE  OrderInv(a)'
<1>a. a \in Admitters
  OBVIOUS
<1>0. /\ delivered \in Int /\ batch[a] \in Seq(Nat) /\ batch \in [Admitters -> Seq(Nat)]
      /\ added \subseteq 1 .. delivered
  BY DEF RoomInv, TapeInv, TapeType
<1>k. PICK k \in Nat : k = Len(batch[a])
  BY <1>0, LenProperties
<1>1. CASE CreateGroup(a)
  <2>1. batch[a] = << >> /\ k = 0
    BY <1>a, <1>1, <1>k, EmptySeq DEF CreateGroup, RoomInv, TapeInv, BatchInv, Working
  <2>2. UNCHANGED <<batch, added, lost>> /\ (delivered' = delivered \/ delivered' = 0)
    BY <1>1 DEF CreateGroup, history
  <2>3. CASE delivered' = delivered
    BY <2>2, <2>3 DEF OrderInv, Done
  <2>4. CASE delivered = -1 /\ delivered' = 0
    <3>1. added = {}
      BY <1>0, <2>4
    <3>2. Len(batch'[a]) = 0
      BY <1>k, <2>1, <2>2
    <3>3. QED BY <2>2, <2>4, <3>1, <3>2 DEF OrderInv, Done
  <2>5. QED BY <1>1, <2>3, <2>4 DEF CreateGroup
<1>2. CASE ReadGroup(a)
  <2>1. batch[a] = << >> /\ k = 0
    BY <1>a, <1>2, <1>k, EmptySeq DEF ReadGroup, RoomInv, TapeInv, BatchInv, Working
  <2>2. PICK n \in Nat, b \in Seq(Nat) :
               /\ delivered < n
               /\ delivered' = n
               /\ Len(b) = n - delivered
               /\ \A i \in 1 .. Len(b) : b[i] = delivered + i
               /\ batch' = [batch EXCEPT ![a] = b]
    BY <1>a, <1>2, ReadNext DEF RoomInv
  <2>3. batch'[a] = b /\ UNCHANGED <<added, lost>>
    BY <1>0, <1>2, <2>2 DEF ReadGroup, history
  <2>4. n - Len(b) = delivered
    BY <1>0, <2>2
  <2>5. Done(a)' = 1 .. delivered /\ Done(a) = 1 .. delivered
    BY <1>0, <1>k, <2>1, <2>2, <2>3, <2>4 DEF Done
  <2>6. QED BY <1>0, <2>2, <2>3, <2>4, <2>5 DEF OrderInv
<1>3. CASE Add(a)
  <2>1. /\ added' = added \cup {batch[a][1]} /\ batch[a] # << >>
        /\ UNCHANGED <<batch, delivered, lost>>
    BY <1>a, <1>3, AddTape DEF Add, RoomInv, TapeInv, BatchInv, Working
  <2>2. QED BY <2>1 DEF OrderInv, Done
<1>4. CASE Ack(a)
  <2>1. /\ batch[a] # << >> /\ batch[a][1] \in added
        /\ batch' = [batch EXCEPT ![a] = Tail(batch[a])]
        /\ UNCHANGED <<delivered, added, lost>>
    BY <1>a, <1>4 DEF Ack, history, RoomInv, TapeInv, BatchInv, Working, HeadAdded
  <2> DEFINE b == Tail(batch[a])
  <2>2. /\ batch'[a] = b /\ k > 0
        /\ Len(b) = k - 1 /\ \A i \in 1 .. Len(b) : i + 1 \in 1 .. k /\ b[i] = batch[a][i + 1]
    BY <1>0, <1>a, <1>k, <2>1, TailOf
  <2> HIDE DEF b
  <2>3. \A i \in 1 .. Len(b) : b[i] = delivered - Len(b) + i
    <3>1. SUFFICES ASSUME NEW i \in 1 .. Len(b) PROVE b[i] = delivered - Len(b) + i
      OBVIOUS
    <3>2. b[i] = delivered - k + (i + 1)
      BY <1>k, <2>2 DEF OrderInv
    <3>3. QED BY <1>0, <2>2, <3>2
  <2>4. batch[a][1] = delivered - k + 1
    BY <1>k, <2>2 DEF OrderInv
  <2>5. \A i \in 1 .. delivered - Len(b) : i \in 1 .. delivered - k \/ i = batch[a][1]
    BY <1>0, <2>2, <2>4
  <2>6. 1 .. delivered - k \subseteq 1 .. delivered - Len(b)
    BY <1>0, <2>2
  <2>7. batch[a][1] \in 1 .. delivered - Len(b)
    BY <1>0, <2>1, <2>2, <2>4
  <2>8. Done(a)' = 1 .. delivered - Len(b)
    BY <2>1, <2>2 DEF Done
  <2>9. Done(a)' \subseteq added' \cup lost'
    BY <1>k, <2>1, <2>5, <2>8 DEF OrderInv, Done
  <2>10. \A j \in added' : j \in Done(a)'
    BY <1>k, <2>1, <2>6, <2>7, <2>8 DEF OrderInv, Done
  <2>11. QED BY <2>1, <2>2, <2>3, <2>9, <2>10 DEF OrderInv
<1>5. CASE TickCut(a)
  <2>1. /\ batch' = [batch EXCEPT ![a] = << >>] /\ UNCHANGED <<delivered, added>>
        /\ lost' = lost \cup ({batch[a][i] : i \in DOMAIN batch[a]} \ added)
    BY <1>5 DEF TickCut, redis
  <2>2. batch'[a] = << >> /\ Len(batch'[a]) = 0
    BY <1>0, <1>a, <2>1
  <2>3. Done(a)' = 1 .. delivered
    BY <1>0, <2>1, <2>2 DEF Done
  <2>4. ASSUME NEW i \in 1 .. delivered PROVE i \in added' \cup lost'
    <3>1. CASE i \in 1 .. delivered - k
      BY <1>k, <2>1, <3>1 DEF OrderInv, Done
    <3>2. CASE i \notin 1 .. delivered - k
      <4>1. PICK p \in 1 .. k : i = delivered - k + p
        <5>1. i - (delivered - k) \in 1 .. k /\ i = delivered - k + (i - (delivered - k))
          BY <1>0, <3>2
        <5>2. QED BY <5>1
      <4>2. i = batch[a][p] /\ p \in DOMAIN batch[a]
        BY <1>0, <1>k, <4>1, LenProperties DEF OrderInv
      <4>3. QED BY <2>1, <4>2
    <3>3. QED BY <3>1, <3>2
  <2>5. QED BY <1>0, <2>1, <2>2, <2>3, <2>4 DEF OrderInv
<1>6. CASE UNCHANGED <<delivered, batch, added, lost>>
  BY <1>6 DEF OrderInv, Done
<1>7. CASE \/ \E h \in Handlers : \/ \E u \in Users : Arrive(h, u)
                                  \/ Gate(h) \/ HandlerDies(h)
           \/ SetExpiry(a)
           \/ Throttle \/ AdmittedExpires \/ \E u \in Users : MarkerExpires(u)
           \/ UNCHANGED vars
  BY <1>6, <1>7 DEF Arrive, Gate, IsAdmitted, ConsumeAdmission, Enqueue, SetMarker, Estimate,
                    HandlerDies, SetExpiry, Throttle, AdmittedExpires, MarkerExpires,
                    redis, tick, history, vars
<1>8. QED BY <1>1, <1>2, <1>3, <1>4, <1>5, <1>7 DEF Next, Tick

\* With one admitting worker a tick reads where the last one stopped and works
\* through its batch from the front: whoever is admitted, everybody ahead of
\* them in the stream is, but for those a cut tick lost.
THEOREM FirstComeFirstServed == Spec => []AdmittedInOrder
<1>1. CASE Cardinality(Admitters) # 1
  <2>1. AdmittedInOrder
    BY <1>1 DEF AdmittedInOrder
  <2>2. QED BY <2>1, PTL
<1>2. CASE \E a : Admitters = {a}
  <2>1. PICK a : Admitters = {a}
    BY <1>2
  <2>2. Init => OrderInv(a)
    <3>1. SUFFICES ASSUME Init PROVE OrderInv(a)
      OBVIOUS
    <3>2. batch[a] = << >> /\ Len(batch[a]) = 0 /\ delivered = -1 /\ added = {}
      BY <2>1, <3>1 DEF Init
    <3>3. QED BY <3>2 DEF OrderInv, Done
  <2>3. RoomInv /\ OrderInv(a) /\ [Next]_vars => OrderInv(a)'
    BY <2>1, NextOrder
  <2>4. RoomInv /\ OrderInv(a) => AdmittedInOrder
    BY <2>1, OrderOfOne DEF AdmittedInOrder
  <2>5. QED BY <2>2, <2>3, <2>4, AlwaysRoomInv, PTL DEF Spec
<1>3. Cardinality(Admitters) = 1 => \E a : Admitters = {a}
  BY FS_Singleton, AdmittersAssumption
<1>4. QED BY <1>1, <1>2, <1>3

-----------------------------------------------------------------------------
(***************************************************************************)
(* One pass for one admission.                                             *)
(***************************************************************************)

PassInv == passes \in [Users -> Nat] /\ OneUse

\* Entries and the sets counted by OneUse are finite.
LEMMA CountedEntries ==
  ASSUME RoomInv, NEW u
  PROVE  IsFiniteSet(EntriesOf(u)) /\ Cardinality(EntriesOf(u)) \in Nat
<1>1. delivered \in Int /\ added \subseteq 1 .. delivered
  BY DEF RoomInv, TapeInv, TapeType
<1>2. IsFiniteSet(1 .. delivered)
  BY <1>1, FS_Interval
<1>3. EntriesOf(u) \subseteq 1 .. delivered
  BY <1>1 DEF EntriesOf
<1>4. QED BY <1>2, <1>3, FS_Subset, FS_CardinalityType

\* A user whose admissions, passes and entries stay what they were, or who
\* merely loses an admission, keeps to the rule.
LEMMA OneUseKept ==
  ASSUME RoomInv, PassInv, NEW u \in Serial, passes'[u] = passes[u],
         EntriesOf(u)' = EntriesOf(u), Entitled(u)' => Entitled(u)
  PROVE  passes'[u] + (IF Entitled(u)' THEN 1 ELSE 0) <= Cardinality(EntriesOf(u)')
<1>1. PICK n \in Nat : n = Cardinality(EntriesOf(u))
  BY CountedEntries
<1>2. passes[u] \in Nat /\ passes[u] + (IF Entitled(u) THEN 1 ELSE 0) <= n
  BY <1>1, SerialAssumption DEF PassInv, OneUse
<1>3. passes[u] + (IF Entitled(u)' THEN 1 ELSE 0) <= n
  BY <1>2
<1>4. QED BY <1>1, <1>3

LEMMA ConsumePass ==
  ASSUME RoomInv, PassInv, NEW h \in Handlers, ConsumeAdmission(h)
  PROVE  PassInv'
<1>1. /\ pc[h] = "consume" /\ user' = [user EXCEPT ![h] = NoUser]
      /\ pc' = [pc EXCEPT ![h] = "idle"]
      /\ passes' = [passes EXCEPT ![user[h]] = @ + 1]
      /\ admitted' = admitted \ {user[h]}
      /\ UNCHANGED <<stream, added>>
  BY DEF ConsumeAdmission, SetAdmitted, Leave, Goto
<1>2. user[h] \in Users
  BY <1>1, UserOf DEF RoomInv
<1>3. passes' \in [Users -> Nat]
  BY <1>1, <1>2 DEF PassInv
<1>4. /\ \A g \in Handlers : user'[g] = IF g = h THEN NoUser ELSE user[g]
      /\ \A g \in Handlers : pc'[g] = IF g = h THEN "idle" ELSE pc[g]
  BY <1>1 DEF RoomInv, DeskInv, DeskType
<1>5. ASSUME NEW u \in Serial
      PROVE  passes'[u] + (IF Entitled(u)' THEN 1 ELSE 0) <= Cardinality(EntriesOf(u)')
  <2>1. EntriesOf(u)' = EntriesOf(u)
    BY <1>1 DEF EntriesOf
  <2>2. CASE u = user[h]
    <3>1. PICK n \in Nat : n = Cardinality(EntriesOf(u))
      BY CountedEntries
    <3>2. Entitled(u)
      BY <1>1, <2>2 DEF Entitled
    <3>3. passes[u] \in Nat /\ passes[u] + 1 <= n
      BY <3>1, <3>2, SerialAssumption DEF PassInv, OneUse
    <3>4. ~ Entitled(u)'
      BY <1>1, <1>4, <2>2, NoUserAssumption, <1>2
         DEF Entitled, RoomInv, DeskInv, SerialInv
    <3>5. passes'[u] = passes[u] + 1
      BY <1>1, <1>2, <2>2 DEF PassInv
    <3>6. (IF Entitled(u)' THEN 1 ELSE 0) = 0
      BY <3>4
    <3>7. (passes[u] + 1) + 0 <= n
      BY <3>3
    <3>8. QED BY <2>1, <3>1, <3>5, <3>6, <3>7
  <2>3. CASE u # user[h]
    <3>1. passes'[u] = passes[u]
      BY <1>1, <2>3, SerialAssumption DEF PassInv
    <3>2. Entitled(u)' => Entitled(u)
      BY <1>1, <1>4, SerialAssumption DEF Entitled
    <3>3. QED BY <2>1, <3>1, <3>2, OneUseKept
  <2>4. QED BY <2>2, <2>3
<1>6. QED BY <1>3, <1>5 DEF PassInv, OneUse

LEMMA AddPass ==
  ASSUME RoomInv, PassInv, NEW a \in Admitters, Add(a)
  PROVE  PassInv'
<1> DEFINE e == batch[a][1]
<1>1. /\ e \in 1 .. delivered /\ e \notin added
      /\ added' = added \cup {e} /\ Head(batch[a]) = e
  BY AddTape DEF RoomInv
<1>2. /\ admitted' = admitted \cup {stream[e]}
      /\ UNCHANGED <<stream, pc, user, passes>>
  BY <1>1 DEF Add, SetAdmitted, handler
<1> HIDE DEF e
<1>3. ASSUME NEW u \in Serial
      PROVE  passes'[u] + (IF Entitled(u)' THEN 1 ELSE 0) <= Cardinality(EntriesOf(u)')
  <2>1. CASE u = stream[e]
    <3>1. EntriesOf(u)' = EntriesOf(u) \cup {e} /\ e \notin EntriesOf(u)
      BY <1>1, <1>2, <2>1 DEF EntriesOf
    <3>2. PICK n \in Nat : n = Cardinality(EntriesOf(u))
      BY CountedEntries
    <3>3. Cardinality(EntriesOf(u)') = n + 1
      BY <3>1, <3>2, CountedEntries, FS_AddElement
    <3>4. passes[u] \in Nat /\ passes[u] + (IF Entitled(u) THEN 1 ELSE 0) <= n
      BY <3>2, SerialAssumption DEF PassInv, OneUse
    <3>5. passes[u] + (IF Entitled(u)' THEN 1 ELSE 0) <= n + 1
      BY <3>4
    <3>6. QED BY <1>2, <3>3, <3>5
  <2>2. CASE u # stream[e]
    <3>1. EntriesOf(u)' = EntriesOf(u)
      BY <1>1, <1>2, <2>2 DEF EntriesOf
    <3>2. Entitled(u)' => Entitled(u)
      BY <1>2, <2>2 DEF Entitled
    <3>3. passes'[u] = passes[u]
      BY <1>2
    <3>4. QED BY <3>1, <3>2, <3>3, OneUseKept
  <2>3. QED BY <2>1, <2>2
<1>4. QED BY <1>2, <1>3 DEF PassInv, OneUse

\* Steps that neither add an entry nor pass a user, and entitle nobody anew.
LEMMA QuietPass ==
  ASSUME RoomInv, PassInv, UNCHANGED <<added, passes>>,
         \A i \in added : stream'[i] = stream[i],
         \A u \in Serial : Entitled(u)' => Entitled(u)
  PROVE  PassInv'
<1>1. \A u \in Serial : EntriesOf(u)' = EntriesOf(u)
  BY DEF EntriesOf
<1>2. \A u \in Serial : passes'[u] + (IF Entitled(u)' THEN 1 ELSE 0)
                           <= Cardinality(EntriesOf(u)')
  BY <1>1, OneUseKept
<1>3. QED BY <1>2 DEF PassInv, OneUse

LEMMA HandlerPass ==
  ASSUME RoomInv, PassInv, NEW h \in Handlers,
         \/ \E u \in Users : Arrive(h, u)
         \/ IsAdmitted(h) \/ Enqueue(h) \/ SetMarker(h) \/ Estimate(h) \/ HandlerDies(h)
  PROVE  PassInv'
<1>1. UNCHANGED <<added, passes, admitted>>
  BY DEF Arrive, IsAdmitted, Enqueue, SetMarker, Estimate, HandlerDies, redis, history
<1>2. /\ pc \in [Handlers -> {"idle", "gate", "consume", "enqueue", "marker", "estimate"}]
      /\ user \in [Handlers -> Users \cup {NoUser}]
      /\ stream \in Seq(Users) /\ delivered \in Int /\ delivered <= Len(stream)
      /\ added \subseteq 1 .. delivered
  BY DEF RoomInv, DeskInv, DeskType, TapeInv, TapeType
<1>3. \A i \in added : stream'[i] = stream[i]
  <2>1. CASE Enqueue(h)
    <3>1. user[h] \in Users /\ stream' = Append(stream, user[h])
      BY <2>1, UserOf DEF Enqueue, RoomInv
    <3>2. \A i \in added : i \in 1 .. Len(stream)
      BY <1>2, LenProperties
    <3>3. \A i \in 1 .. Len(stream) : Append(stream, user[h])[i] = stream[i]
      BY <1>2, <3>1, AppendProperties
    <3>4. QED BY <3>1, <3>2, <3>3
  <2>2. CASE UNCHANGED stream
    BY <2>2
  <2>3. QED BY <2>1, <2>2
            DEF Arrive, IsAdmitted, SetMarker, Estimate, HandlerDies, redis
<1>4. ASSUME NEW u \in Serial, NEW g \in Handlers, user'[g] = u, pc'[g] = "consume"
      PROVE  Entitled(u)
  <2>1. u \in Users
    BY SerialAssumption
  <2>2. CASE g # h
    <3>1. user[g] = u /\ pc[g] = "consume"
      BY <1>2, <1>4, <2>2 DEF Arrive, IsAdmitted, Enqueue, SetMarker, Estimate,
                              HandlerDies, Goto, Leave
    <3>2. QED BY <3>1 DEF Entitled
  <2>3. CASE g = h
    <3>1. IsAdmitted(h) /\ user[h] = u /\ u \in admitted
      BY <1>2, <1>4, <2>1, <2>3 DEF Arrive, IsAdmitted, Enqueue, SetMarker, Estimate,
                              HandlerDies, Goto, Leave
    <3>2. QED BY <3>1 DEF Entitled
  <2>4. QED BY <2>2, <2>3
<1>5. \A u \in Serial : Entitled(u)' => Entitled(u)
  BY <1>1, <1>4 DEF Entitled
<1>6. QED BY <1>1, <1>3, <1>5, QuietPass

LEMMA NextPass == RoomInv /\ PassInv /\ [Next]_vars => PassInv'
<1> SUFFICES ASSUME RoomInv, PassInv, [Next]_vars PROVE PassInv'
  OBVIOUS
<1>1. CASE \E h \in Handlers : ConsumeAdmission(h)
  BY <1>1, ConsumePass
<1>2. CASE \E h \in Handlers : \/ \E u \in Users : Arrive(h, u)
                               \/ IsAdmitted(h) \/ Enqueue(h) \/ SetMarker(h)
                               \/ Estimate(h) \/ HandlerDies(h)
  BY <1>2, HandlerPass
<1>3. CASE \E a \in Admitters : Add(a)
  BY <1>3, AddPass
<1>4. CASE \/ \E a \in Admitters : \/ CreateGroup(a) \/ ReadGroup(a) \/ SetExpiry(a)
                                   \/ Ack(a) \/ TickCut(a)
           \/ Throttle \/ AdmittedExpires \/ \E u \in Users : MarkerExpires(u)
           \/ UNCHANGED vars
  <2>1. /\ UNCHANGED <<stream, added, passes, pc, user>>
        /\ admitted' = admitted \/ admitted' = {}
    BY <1>4 DEF CreateGroup, ReadGroup, SetExpiry, Ack, TickCut, Throttle, AdmittedExpires,
                MarkerExpires, SetAdmitted, redis, handler, tick, history, vars
  <2>2. \A u \in Serial : Entitled(u)' => Entitled(u)
    BY <2>1 DEF Entitled
  <2>3. QED BY <2>1, <2>2, QuietPass
<1>5. QED BY <1>1, <1>2, <1>3, <1>4 DEF Next, Gate, Tick

\* SADD puts a user in once per entry, SREM takes the admission out before
\* the rules are asked, and whatever else happens to the set only removes: a
\* client that sends one request at a time never passes twice on one entry.
THEOREM AdmissionsAreTokens == Spec => []OneUse
<1>1. Init => PassInv
  <2>1. SUFFICES ASSUME Init PROVE PassInv
    OBVIOUS
  <2>2. passes \in [Users -> Nat] /\ \A u \in Serial : passes[u] = 0
    BY <2>1, SerialAssumption DEF Init
  <2>3. ASSUME NEW u \in Serial PROVE ~ Entitled(u) /\ EntriesOf(u) = {}
    BY <2>1 DEF Init, Entitled, EntriesOf
  <2>4. Cardinality({}) = 0
    BY FS_EmptySet
  <2>5. ASSUME NEW u \in Serial
        PROVE  passes[u] + (IF Entitled(u) THEN 1 ELSE 0) <= Cardinality(EntriesOf(u))
    <3>1. passes[u] = 0 /\ (IF Entitled(u) THEN 1 ELSE 0) = 0 /\ Cardinality(EntriesOf(u)) = 0
      BY <2>2, <2>3, <2>4
    <3>2. QED BY <3>1
  <2>6. QED BY <2>2, <2>5 DEF PassInv, OneUse
<1>2. PassInv => OneUse
  BY DEF PassInv
<1>3. QED BY <1>1, <1>2, NextPass, AlwaysRoomInv, PTL DEF Spec

=============================================================================
