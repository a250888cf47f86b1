---------------------------- MODULE WorkerProofs ----------------------------
(***************************************************************************)
(* Types; that the worker's estimate covers what the page buffers; that no *)
(* connection is left on the page for nobody; that whoever waits for a     *)
(* drain has a reason to be woken still to come; and that no file's sink   *)
(* is lost from sight: for any number of connections, files and frames,    *)
(* any mark and any cap above it.                                          *)
(***************************************************************************)
EXTENDS Worker, TLAPS, FiniteSetTheorems, SequenceTheorems

(* What can be said of the messages of one connection in a queue.          *)
Has(q, t, c) == \E i \in DOMAIN q : q[i].t = t /\ q[i].c = c
Once(q, t, c) ==
  \A i, j \in DOMAIN q :
    q[i].t = t /\ q[i].c = c /\ q[j].t = t /\ q[j].c = c => i = j
OpenFirst(q, c) ==
  \A i, j \in DOMAIN q :
    q[i].t = "peer-open" /\ q[i].c = c /\ q[j].t = "peer-close" /\ q[j].c = c => i < j
Absent(q, c) == \A i \in DOMAIN q : q[i].c # c

(* The frames on their way are those after lo up to hi, in order.          *)
IsSend(m, c) == m.t = "peer-send" /\ m.c = c
Sends(q, c, lo, hi) ==
  /\ \A i \in DOMAIN q : IsSend(q[i], c) => lo < q[i].seq /\ q[i].seq <= hi
  /\ \A i, j \in DOMAIN q :
       i < j /\ IsSend(q[i], c) /\ IsSend(q[j], c) => q[i].seq < q[j].seq
  /\ \A n \in (lo + 1)..hi : \E i \in DOMAIN q : IsSend(q[i], c) /\ q[i].seq = n

(* Each report on its way covers the buffer, with what was accepted since; *)
(* they come in order, none older than the one the worker knows.           *)
IsDrain(m, c) == m.t = "peer-drain" /\ m.c = c
Reports(q, c, known, acc, buf) ==
  /\ \A i \in DOMAIN q : IsDrain(q[i], c) =>
       /\ known <= q[i].seq /\ q[i].seq <= acc
       /\ buf <= q[i].bytes + (acc - q[i].seq)
  /\ \A i, j \in DOMAIN q :
       i < j /\ IsDrain(q[i], c) /\ IsDrain(q[j], c) => q[i].seq <= q[j].seq

(* Before its channel opens nothing is sent, and before it is created      *)
(* nothing is said about a connection.                                     *)
Fresh(c) ==
  /\ proxy[c] = "none" =>
       host[c] = "none" /\ Absent(toPage, c) /\ Absent(toWorker, c)
  /\ proxy[c] \in {"none", "opening"} =>
       /\ posted[c] = 0 /\ inFlight[c] = {} /\ reported[c] = 0
       /\ accepted[c] = 0 /\ buffer[c] = 0 /\ ~low[c]
       /\ ~Has(toPage, "peer-send", c) /\ ~Has(toWorker, "peer-drain", c)

(* A connection is asked for once, before anything else is asked of it ... *)
Asked(c) ==
  /\ OpenFirst(toPage, c)
  /\ Once(toPage, "peer-open", c) /\ Once(toPage, "peer-wait-open", c)
  /\ Has(toPage, "peer-open", c) =>
       /\ host[c] = "none" /\ ~Has(toWorker, "peer-failed", c)
       /\ proxy[c] = "closed" => Has(toPage, "peer-close", c)

(* ... and the wait for its opening has one outcome.                       *)
Opened(c) == Has(toWorker, "peer-opened", c) \/ proxy[c] = "open"
OneOutcome(c) ==
  /\ host[c] = "none" => ~waiting[c] /\ ~Opened(c)
  /\ host[c] # "none" =>
       /\ Has(toPage, "peer-wait-open", c) =>
            ~waiting[c] /\ ~Opened(c) /\ ~Has(toWorker, "peer-failed", c)
       /\ waiting[c] => ~Opened(c) /\ ~Has(toWorker, "peer-failed", c)
       /\ Opened(c) => ~Has(toWorker, "peer-failed", c)
  /\ Has(toWorker, "peer-closed", c) => host[c] = "gone"

Owned(c) ==
  /\ host[c] = "live" =>
       proxy[c] \in {"opening", "open"} \/ Has(toPage, "peer-close", c)
  /\ proxy[c] \in {"opening", "open"} /\ host[c] # "live" =>
       \/ Has(toPage, "peer-open", c)
       \/ Has(toWorker, "peer-failed", c) \/ Has(toWorker, "peer-closed", c)

(* What the estimate rests on: known is the last report the worker heard.  *)
Tracks(c) ==
  proxy[c] = "open" /\ host[c] = "live" =>
    \E known \in 0..accepted[c] :
      /\ accepted[c] <= posted[c]
      /\ Sends(toPage, c, accepted[c], posted[c])
      /\ inFlight[c] = (known + 1)..posted[c]
      /\ buffer[c] <= reported[c] + (accepted[c] - known)
      /\ Reports(toWorker, c, known, accepted[c], buffer[c])

Sound(c) == Fresh(c) /\ Asked(c) /\ OneOutcome(c) /\ Owned(c) /\ Tracks(c)

IInv == TypeOK /\ \A c \in Conns : Sound(c)
-----------------------------------------------------------------------------
(* Queues: what a message that is taken or posted changes, and what not.   *)
Is(m, t, c) == m.t = t /\ m.c = c

LEMMA TailFact ==
  ASSUME NEW S, NEW q \in Seq(S), q # <<>>
  PROVE  /\ Tail(q) \in Seq(S) /\ Head(q) = q[1] /\ Head(q) \in S
         /\ 1 \in DOMAIN q
         /\ \A i \in DOMAIN Tail(q) :
              i \in Nat \ {0} /\ i + 1 \in DOMAIN q /\ Tail(q)[i] = q[i + 1]
         /\ \A i \in DOMAIN q \ {1} :
              i \in Nat \ {0, 1} /\ i - 1 \in DOMAIN Tail(q) /\ Tail(q)[i - 1] = q[i]
OBVIOUS

LEMMA AppendFact ==
  ASSUME NEW S, NEW q \in Seq(S), NEW m \in S
  PROVE  /\ Append(q, m) \in Seq(S)
         /\ DOMAIN Append(q, m) = 1..(Len(q) + 1) /\ DOMAIN q = 1..Len(q)
         /\ Len(q) \in Nat
         /\ \A i \in DOMAIN q : Append(q, m)[i] = q[i]
         /\ Append(q, m)[Len(q) + 1] = m
OBVIOUS

LEMMA TailHas ==
  ASSUME NEW S, NEW q \in Seq(S), q # <<>>, NEW t, NEW c
  PROVE  /\ Has(q, t, c) <=> Has(Tail(q), t, c) \/ Is(Head(q), t, c)
         /\ Once(q, t, c) =>
              Once(Tail(q), t, c) /\ ~(Is(Head(q), t, c) /\ Has(Tail(q), t, c))
<1>1. Has(q, t, c) => Has(Tail(q), t, c) \/ Is(Head(q), t, c)
  <2> SUFFICES ASSUME NEW i \in DOMAIN q, q[i].t = t, q[i].c = c
               PROVE  Has(Tail(q), t, c) \/ Is(Head(q), t, c)
    BY DEF Has
  <2>1. CASE i = 1
    BY <2>1, TailFact DEF Is
  <2>2. CASE i # 1
    <3>1. i - 1 \in DOMAIN Tail(q) /\ Tail(q)[i - 1] = q[i]
      BY <2>2, TailFact
    <3> QED
      BY <3>1 DEF Has
  <2> QED
    BY <2>1, <2>2
<1>2. Has(Tail(q), t, c) => Has(q, t, c)
  BY TailFact DEF Has
<1>3. Is(Head(q), t, c) => Has(q, t, c)
  BY TailFact DEF Has, Is
<1>4. Once(q, t, c) => Once(Tail(q), t, c)
  <2> SUFFICES ASSUME Once(q, t, c), NEW i \in DOMAIN Tail(q), NEW j \in DOMAIN Tail(q),
                      Is(Tail(q)[i], t, c), Is(Tail(q)[j], t, c)
               PROVE  i = j
    BY DEF Once, Is
  <2>1. i + 1 = j + 1
    BY TailFact DEF Once, Is
  <2> QED
    BY <2>1, TailFact
<1>5. Once(q, t, c) => ~(Is(Head(q), t, c) /\ Has(Tail(q), t, c))
  <2> SUFFICES ASSUME Once(q, t, c), Is(Head(q), t, c),
                      NEW i \in DOMAIN Tail(q), Is(Tail(q)[i], t, c)
               PROVE  FALSE
    BY DEF Has, Is
  <2>1. i + 1 = 1
    BY TailFact DEF Once, Is
  <2> QED
    BY <2>1, TailFact
<1> QED
  BY <1>1, <1>2, <1>3, <1>4, <1>5

LEMMA AppendHas ==
  ASSUME NEW S, NEW q \in Seq(S), NEW m \in S, NEW t, NEW c
  PROVE  /\ Has(Append(q, m), t, c) <=> Has(q, t, c) \/ Is(m, t, c)
         /\ Once(q, t, c) /\ ~(Is(m, t, c) /\ Has(q, t, c)) => Once(Append(q, m), t, c)
<1>1. \A i \in DOMAIN Append(q, m) : i \in DOMAIN q \/ i = Len(q) + 1
  BY AppendFact
<1>2. DOMAIN q \subseteq DOMAIN Append(q, m) /\ Len(q) + 1 \in DOMAIN Append(q, m)
  BY AppendFact
<1>3. Has(Append(q, m), t, c) => Has(q, t, c) \/ Is(m, t, c)
  BY <1>1, AppendFact DEF Has, Is
<1>4. Has(q, t, c) \/ Is(m, t, c) => Has(Append(q, m), t, c)
  BY <1>2, AppendFact DEF Has, Is
<1>5. Once(q, t, c) /\ ~(Is(m, t, c) /\ Has(q, t, c)) => Once(Append(q, m), t, c)
  <2> SUFFICES ASSUME Once(q, t, c), ~(Is(m, t, c) /\ Has(q, t, c)),
                      NEW i \in DOMAIN Append(q, m), NEW j \in DOMAIN Append(q, m),
                      Is(Append(q, m)[i], t, c), Is(Append(q, m)[j], t, c)
               PROVE  i = j
    BY DEF Once, Is
  <2>1. CASE i \in DOMAIN q /\ j \in DOMAIN q
    BY <2>1, AppendFact DEF Once, Is
  <2>2. CASE i = Len(q) + 1 /\ j = Len(q) + 1
    BY <2>2
  <2>3. CASE i \in DOMAIN q /\ j = Len(q) + 1
    BY <2>3, AppendFact DEF Has, Is
  <2>4. CASE j \in DOMAIN q /\ i = Len(q) + 1
    BY <2>4, AppendFact DEF Has, Is
  <2> QED
    BY <1>1, <2>1, <2>2, <2>3, <2>4
<1> QED
  BY <1>3, <1>4, <1>5

(* An open comes before a close of the same connection.                    *)
LEMMA TailOpenFirst ==
  ASSUME NEW S, NEW q \in Seq(S), q # <<>>, NEW c, OpenFirst(q, c)
  PROVE  /\ OpenFirst(Tail(q), c)
         /\ Is(Head(q), "peer-close", c) => ~Has(Tail(q), "peer-open", c)
<1>1. OpenFirst(Tail(q), c)
  <2> SUFFICES ASSUME NEW i \in DOMAIN Tail(q), NEW j \in DOMAIN Tail(q),
                      Is(Tail(q)[i], "peer-open", c), Is(Tail(q)[j], "peer-close", c)
               PROVE  i < j
    BY DEF OpenFirst, Is
  <2>1. i + 1 < j + 1
    BY TailFact DEF OpenFirst, Is
  <2> QED
    BY <2>1, TailFact
<1>2. ASSUME Is(Head(q), "peer-close", c), NEW i \in DOMAIN Tail(q),
             Is(Tail(q)[i], "peer-open", c)
      PROVE  FALSE
  <2>1. i + 1 < 1
    BY <1>2, TailFact DEF OpenFirst, Is
  <2> QED
    BY <2>1, TailFact
<1> QED
  BY <1>1, <1>2 DEF Has, Is

LEMMA AppendOpenFirst ==
  ASSUME NEW S, NEW q \in Seq(S), NEW m \in S, NEW c, OpenFirst(q, c),
         Is(m, "peer-open", c) => ~Has(q, "peer-close", c)
  PROVE  OpenFirst(Append(q, m), c)
<1> SUFFICES ASSUME NEW i \in DOMAIN Append(q, m), NEW j \in DOMAIN Append(q, m),
                    Is(Append(q, m)[i], "peer-open", c), Is(Append(q, m)[j], "peer-close", c)
             PROVE  i < j
  BY DEF OpenFirst, Is
<1>1. \A k \in DOMAIN Append(q, m) : k \in DOMAIN q \/ k = Len(q) + 1
  BY AppendFact
<1>2. CASE i \in DOMAIN q /\ j \in DOMAIN q
  BY <1>2, AppendFact DEF OpenFirst, Is
<1>3. CASE i \in DOMAIN q /\ j = Len(q) + 1
  BY <1>3, AppendFact
<1>4. CASE i = Len(q) + 1
  <2>1. j \in DOMAIN q
    BY <1>1, <1>4, AppendFact DEF Is
  <2> QED
    BY <1>4, <2>1, AppendFact DEF Has, Is
<1> QED
  BY <1>1, <1>2, <1>3, <1>4

(* Frames leave in order, so the first is the one after the last accepted. *)
LEMMA TailSends ==
  ASSUME NEW S, NEW q \in Seq(S), q # <<>>, NEW c, NEW lo \in Nat, NEW hi \in Nat,
         \A i \in DOMAIN q : IsSend(q[i], c) => q[i].seq \in Nat,
         Sends(q, c, lo, hi)
  PROVE  /\ ~IsSend(Head(q), c) => Sends(Tail(q), c, lo, hi)
         /\ IsSend(Head(q), c) =>
              Head(q).seq = lo + 1 /\ lo + 1 <= hi /\ Sends(Tail(q), c, lo + 1, hi)
<1>1. \A i \in DOMAIN Tail(q) : IsSend(Tail(q)[i], c) =>
        lo < Tail(q)[i].seq /\ Tail(q)[i].seq <= hi
  BY TailFact DEF Sends
<1>2. \A i, j \in DOMAIN Tail(q) :
        i < j /\ IsSend(Tail(q)[i], c) /\ IsSend(Tail(q)[j], c) =>
          Tail(q)[i].seq < Tail(q)[j].seq
  <2> SUFFICES ASSUME NEW i \in DOMAIN Tail(q), NEW j \in DOMAIN Tail(q), i < j,
                      IsSend(Tail(q)[i], c), IsSend(Tail(q)[j], c)
               PROVE  Tail(q)[i].seq < Tail(q)[j].seq
    OBVIOUS
  <2>1. i + 1 < j + 1 /\ i + 1 \in DOMAIN q /\ j + 1 \in DOMAIN q
    BY TailFact
  <2> QED
    BY <2>1, TailFact DEF Sends
<1>3. ASSUME NEW n \in (lo + 1)..hi, ~(IsSend(Head(q), c) /\ Head(q).seq = n)
      PROVE  \E i \in DOMAIN Tail(q) : IsSend(Tail(q)[i], c) /\ Tail(q)[i].seq = n
  <2>1. PICK i \in DOMAIN q : IsSend(q[i], c) /\ q[i].seq = n
    BY DEF Sends
  <2>2. i # 1
    BY <1>3, <2>1, TailFact
  <2>3. i - 1 \in DOMAIN Tail(q) /\ Tail(q)[i - 1] = q[i]
    BY <2>2, TailFact
  <2> QED
    BY <2>1, <2>3
<1>4. ~IsSend(Head(q), c) => Sends(Tail(q), c, lo, hi)
  BY <1>1, <1>2, <1>3 DEF Sends
<1>5. ASSUME IsSend(Head(q), c)
      PROVE  Head(q).seq = lo + 1 /\ lo + 1 <= hi /\ Sends(Tail(q), c, lo + 1, hi)
  <2>1. lo < Head(q).seq /\ Head(q).seq <= hi /\ Head(q).seq \in Nat
    BY <1>5, TailFact DEF Sends
  <2>2. PICK k \in DOMAIN q : IsSend(q[k], c) /\ q[k].seq = lo + 1
    BY <2>1 DEF Sends
  <2>3. \A i \in DOMAIN q \ {1} : IsSend(q[i], c) => Head(q).seq < q[i].seq
    BY <1>5, TailFact DEF Sends
  <2>4. Head(q).seq = lo + 1
    BY <2>1, <2>2, <2>3, TailFact
  <2>5. \A i \in DOMAIN Tail(q) : IsSend(Tail(q)[i], c) => lo + 1 < Tail(q)[i].seq
    BY <2>3, <2>4, TailFact
  <2>6. \A n \in (lo + 1 + 1)..hi :
          \E i \in DOMAIN Tail(q) : IsSend(Tail(q)[i], c) /\ Tail(q)[i].seq = n
    BY <1>3, <2>4
  <2> QED
    BY <1>1, <1>2, <2>1, <2>4, <2>5, <2>6 DEF Sends
<1> QED
  BY <1>4, <1>5

LEMMA AppendSends ==
  ASSUME NEW S, NEW q \in Seq(S), NEW m \in S, NEW c, NEW lo \in Nat, NEW hi \in Nat,
         lo <= hi, Sends(q, c, lo, hi),
         \A i \in DOMAIN q : IsSend(q[i], c) => q[i].seq \in Nat
  PROVE  /\ ~IsSend(m, c) => Sends(Append(q, m), c, lo, hi)
         /\ IsSend(m, c) /\ m.seq = hi + 1 => Sends(Append(q, m), c, lo, hi + 1)
<1> DEFINE r == Append(q, m)
<1>1. \A i \in DOMAIN r : i \in DOMAIN q \/ i = Len(q) + 1
  BY AppendFact
<1>2. \A i \in DOMAIN q : i \in DOMAIN r /\ r[i] = q[i] /\ i < Len(q) + 1
  BY AppendFact
<1>3. Len(q) + 1 \in DOMAIN r /\ r[Len(q) + 1] = m
  BY AppendFact
<1>4. \A i, j \in DOMAIN r : i < j => i \in DOMAIN q
  BY AppendFact
<1> HIDE DEF r
<1>5. ASSUME ~IsSend(m, c)
      PROVE  Sends(r, c, lo, hi)
  BY <1>1, <1>2, <1>3, <1>5 DEF Sends
<1>6. ASSUME IsSend(m, c), m.seq = hi + 1
      PROVE  Sends(r, c, lo, hi + 1)
  <2>1. \A i \in DOMAIN r : IsSend(r[i], c) => lo < r[i].seq /\ r[i].seq <= hi + 1
    BY <1>1, <1>2, <1>3, <1>6 DEF Sends
  <2>2. \A i, j \in DOMAIN r :
          i < j /\ IsSend(r[i], c) /\ IsSend(r[j], c) => r[i].seq < r[j].seq
    <3> SUFFICES ASSUME NEW i \in DOMAIN r, NEW j \in DOMAIN r, i < j,
                        IsSend(r[i], c), IsSend(r[j], c)
                 PROVE  r[i].seq < r[j].seq
      OBVIOUS
    <3>1. i \in DOMAIN q /\ r[i] = q[i] /\ q[i].seq <= hi /\ q[i].seq \in Nat
      BY <1>2, <1>4 DEF Sends
    <3>2. CASE j \in DOMAIN q
      BY <1>2, <3>1, <3>2 DEF Sends
    <3>3. CASE j = Len(q) + 1
      BY <1>3, <1>6, <3>1, <3>3
    <3> QED
      BY <1>1, <3>2, <3>3
  <2>3. \A n \in (lo + 1)..(hi + 1) : \E i \in DOMAIN r : IsSend(r[i], c) /\ r[i].seq = n
    <3> SUFFICES ASSUME NEW n \in (lo + 1)..(hi + 1)
                 PROVE  \E i \in DOMAIN r : IsSend(r[i], c) /\ r[i].seq = n
      OBVIOUS
    <3>1. CASE n = hi + 1
      BY <1>3, <1>6, <3>1
    <3>2. CASE n # hi + 1
      <4>1. n \in (lo + 1)..hi
        BY <3>2
      <4> QED
        BY <1>2, <4>1 DEF Sends
    <3> QED
      BY <3>1, <3>2
  <2> QED
    BY <2>1, <2>2, <2>3 DEF Sends
<1> QED
  BY <1>5, <1>6 DEF r

(* Reports come in order; hearing one, the worker knows that much.         *)
LEMMA TailReports ==
  ASSUME NEW S, NEW q \in Seq(S), q # <<>>, NEW c, NEW known, NEW acc, NEW buf,
         Reports(q, c, known, acc, buf)
  PROVE  /\ ~IsDrain(Head(q), c) => Reports(Tail(q), c, known, acc, buf)
         /\ IsDrain(Head(q), c) =>
              /\ known <= Head(q).seq /\ Head(q).seq <= acc
              /\ buf <= Head(q).bytes + (acc - Head(q).seq)
              /\ Reports(Tail(q), c, Head(q).seq, acc, buf)
<1>1. \A i \in DOMAIN Tail(q) : IsDrain(Tail(q)[i], c) =>
        /\ known <= Tail(q)[i].seq /\ Tail(q)[i].seq <= acc
        /\ buf <= Tail(q)[i].bytes + (acc - Tail(q)[i].seq)
  BY TailFact DEF Reports
<1>2. \A i, j \in DOMAIN Tail(q) :
        i < j /\ IsDrain(Tail(q)[i], c) /\ IsDrain(Tail(q)[j], c) =>
          Tail(q)[i].seq <= Tail(q)[j].seq
  <2> SUFFICES ASSUME NEW i \in DOMAIN Tail(q), NEW j \in DOMAIN Tail(q), i < j,
                      IsDrain(Tail(q)[i], c), IsDrain(Tail(q)[j], c)
               PROVE  Tail(q)[i].seq <= Tail(q)[j].seq
    OBVIOUS
  <2>1. i + 1 < j + 1 /\ i + 1 \in DOMAIN q /\ j + 1 \in DOMAIN q
    BY TailFact
  <2> QED
    BY <2>1, TailFact DEF Reports
<1>3. ASSUME IsDrain(Head(q), c), NEW i \in DOMAIN Tail(q), IsDrain(Tail(q)[i], c)
      PROVE  Head(q).seq <= Tail(q)[i].seq
  BY <1>3, TailFact DEF Reports
<1>4. IsDrain(Head(q), c) =>
        /\ known <= Head(q).seq /\ Head(q).seq <= acc
        /\ buf <= Head(q).bytes + (acc - Head(q).seq)
  BY TailFact DEF Reports
<1> QED
  BY <1>1, <1>2, <1>3, <1>4 DEF Reports

LEMMA AppendReports ==
  ASSUME NEW S, NEW q \in Seq(S), NEW m \in S, NEW c,
         NEW known \in Nat, NEW acc \in Nat, NEW buf \in Nat, known <= acc,
         \A i \in DOMAIN q : IsDrain(q[i], c) => q[i].seq \in Nat,
         Reports(q, c, known, acc, buf),
         IsDrain(m, c) => m.seq = acc /\ m.bytes = buf
  PROVE  Reports(Append(q, m), c, known, acc, buf)
<1> DEFINE r == Append(q, m)
<1>1. \A i \in DOMAIN r : i \in DOMAIN q \/ i = Len(q) + 1
  BY AppendFact
<1>2. \A i \in DOMAIN q : i \in DOMAIN r /\ r[i] = q[i]
  BY AppendFact
<1>3. Len(q) + 1 \in DOMAIN r /\ r[Len(q) + 1] = m
  BY AppendFact
<1>4. \A i, j \in DOMAIN r : i < j => i \in DOMAIN q
  BY AppendFact
<1> HIDE DEF r
<1>5. \A i \in DOMAIN r : IsDrain(r[i], c) =>
        /\ known <= r[i].seq /\ r[i].seq <= acc
        /\ buf <= r[i].bytes + (acc - r[i].seq)
  BY <1>1, <1>2, <1>3 DEF Reports
<1>6. \A i, j \in DOMAIN r :
        i < j /\ IsDrain(r[i], c) /\ IsDrain(r[j], c) => r[i].seq <= r[j].seq
  <2> SUFFICES ASSUME NEW i \in DOMAIN r, NEW j \in DOMAIN r, i < j,
                      IsDrain(r[i], c), IsDrain(r[j], c)
               PROVE  r[i].seq <= r[j].seq
    OBVIOUS
  <2>1. i \in DOMAIN q /\ r[i] = q[i] /\ q[i].seq <= acc
    BY <1>2, <1>4 DEF Reports
  <2>2. CASE j \in DOMAIN q
    BY <1>2, <2>1, <2>2 DEF Reports
  <2>3. CASE j = Len(q) + 1
    BY <1>3, <2>1, <2>3
  <2> QED
    BY <1>1, <2>2, <2>3
<1> QED
  BY <1>5, <1>6 DEF Reports, r

(* A buffer that empties, or a frame that is accepted, keeps them true.    *)
LEMMA ReportsLater ==
  ASSUME NEW q, NEW c, NEW known \in Nat, NEW acc \in Nat, NEW buf \in Nat,
         NEW k \in Nat, NEW less \in Nat, less <= buf,
         \A i \in DOMAIN q : IsDrain(q[i], c) => q[i].seq \in Nat /\ q[i].bytes \in Nat,
         Reports(q, c, known, acc, buf)
  PROVE  Reports(q, c, known, acc + k, less + k)
<1>1. \A i \in DOMAIN q : IsDrain(q[i], c) =>
        /\ known <= q[i].seq /\ q[i].seq <= acc + k
        /\ less + k <= q[i].bytes + (acc + k - q[i].seq)
  BY DEF Reports
<1> QED
  BY <1>1 DEF Reports
-----------------------------------------------------------------------------
(* Types.                                                                  *)
LEMMA MsgFact ==
  /\ \A c \in Conns : \A t \in {"peer-open", "peer-wait-open", "peer-close"} :
       Msg(t, c) \in PageMsgs /\ Msg(t, c).t = t /\ Msg(t, c).c = c
  /\ \A c \in Conns : \A t \in {"peer-opened", "peer-failed", "peer-closed"} :
       Msg(t, c) \in WorkerMsgs /\ Msg(t, c).t = t /\ Msg(t, c).c = c
  /\ \A c \in Conns : \A s \in 1..MaxFrames :
       /\ SendMsg(c, s) \in PageMsgs
       /\ SendMsg(c, s).t = "peer-send" /\ SendMsg(c, s).c = c /\ SendMsg(c, s).seq = s
  /\ \A c \in Conns : \A s \in 0..MaxFrames, b \in 0..Cap :
       /\ Drained(c, s, b) \in WorkerMsgs
       /\ Drained(c, s, b).t = "peer-drain" /\ Drained(c, s, b).c = c
       /\ Drained(c, s, b).seq = s /\ Drained(c, s, b).bytes = b
BY DEF Msg, SendMsg, Drained, PageMsgs, WorkerMsgs

LEMMA PageMsgFact ==
  ASSUME NEW m \in PageMsgs
  PROVE  m.c \in Conns /\ (m.t = "peer-send" => m.seq \in 1..MaxFrames) /\ m.t # "peer-drain"
BY DEF PageMsgs

LEMMA WorkerMsgFact ==
  ASSUME NEW m \in WorkerMsgs
  PROVE  /\ m.c \in Conns /\ m.t # "peer-send"
         /\ m.t = "peer-drain" => m.seq \in 0..MaxFrames /\ m.bytes \in 0..Cap
BY DEF WorkerMsgs

(* What is heard or taken is a message about some connection.              *)
LEMMA HeardFact ==
  ASSUME PeerTypes, NEW t, Heard(t)
  PROVE  /\ toWorker # <<>> /\ HeardFrom \in Conns /\ Head(toWorker) \in WorkerMsgs
         /\ Head(toWorker).t = t /\ toWorker' = Tail(toWorker) /\ toWorker' \in Seq(WorkerMsgs)
BY TailFact, WorkerMsgFact DEF PeerTypes, Heard, HeardFrom

LEMMA TakenFact ==
  ASSUME PeerTypes, NEW t, Taken(t)
  PROVE  /\ toPage # <<>> /\ TakenFor \in Conns /\ Head(toPage) \in PageMsgs
         /\ Head(toPage).t = t /\ toPage' = Tail(toPage) /\ toPage' \in Seq(PageMsgs)
BY TailFact, PageMsgFact DEF PeerTypes, Taken, TakenFor

LEMMA PostCloseFact ==
  ASSUME PeerTypes, NEW c \in Conns, PostClose(c)
  PROVE  toPage' = Append(toPage, Msg("peer-close", c)) /\ toPage' \in Seq(PageMsgs)
BY MsgFact DEF PostClose, PeerTypes

LEMMA WorkerTypes ==
  ASSUME PeerTypes
  PROVE  /\ \A c \in Conns : Create(c) \/ Close(c) => PeerTypes'
         /\ \A c \in Conns, data \in BOOLEAN : Send(c, data) => PeerTypes'
         /\ Hears => PeerTypes'
<1>1. ASSUME NEW c \in Conns, Create(c)
      PROVE  PeerTypes'
  <2>1. toPage' \in Seq(PageMsgs)
    BY <1>1, MsgFact DEF Create, PeerTypes
  <2> QED
    BY <1>1, <2>1 DEF Create, Peers, PeerTypes
<1>2. ASSUME NEW c \in Conns, Close(c)
      PROVE  PeerTypes'
  <2>1. toPage' \in Seq(PageMsgs)
    BY <1>2, PostCloseFact DEF Close
  <2> QED
    BY <1>2, <2>1 DEF Close, Retire, Peers, PeerTypes
<1>3. ASSUME NEW c \in Conns, NEW data \in BOOLEAN, Send(c, data)
      PROVE  PeerTypes'
  <2>1. posted[c] + 1 \in 1..MaxFrames
    BY <1>3, WorkerAssumption DEF Send, PeerTypes
  <2>2. toPage' \in Seq(PageMsgs)
    BY <1>3, <2>1, MsgFact DEF Send, PeerTypes
  <2>3. parked' \in [Conns -> BOOLEAN]
    BY <1>3 DEF Send, PeerTypes
  <2>4. inFlight' \in [Conns -> SUBSET (1..MaxFrames)] /\ posted' \in [Conns -> 0..MaxFrames]
    BY <1>3, <2>1 DEF Send, PeerTypes
  <2> QED
    BY <1>3, <2>2, <2>3, <2>4 DEF Send, Peers, PeerTypes
<1>4. ASSUME HearOpened
      PROVE  PeerTypes'
  <2>1. HeardFrom \in Conns /\ toWorker' \in Seq(WorkerMsgs)
    BY <1>4, HeardFact DEF HearOpened
  <2> QED
    BY <1>4, <2>1 DEF HearOpened, Heard, Peers, PeerTypes
<1>5. ASSUME HearFailed
      PROVE  PeerTypes'
  <2>1. HeardFrom \in Conns /\ toWorker' \in Seq(WorkerMsgs)
    BY <1>5, HeardFact DEF HearFailed
  <2>2. toPage' \in Seq(PageMsgs)
    BY <1>5, <2>1, PostCloseFact DEF HearFailed, PeerTypes
  <2> QED
    BY <1>5, <2>1, <2>2 DEF HearFailed, Retire, Heard, Peers, PeerTypes
<1>6. ASSUME HearDrain
      PROVE  PeerTypes'
  <2> DEFINE m == Head(toWorker)
  <2>1. /\ m \in WorkerMsgs /\ m.t = "peer-drain" /\ m.c \in Conns
        /\ toWorker' \in Seq(WorkerMsgs)
    BY <1>6, HeardFact DEF HearDrain, HeardFrom
  <2>2. m.bytes \in 0..Cap
    BY <2>1, WorkerMsgFact
  <2>3. Unconfirmed(inFlight[m.c], m.seq) \in SUBSET (1..MaxFrames)
    BY <2>1 DEF Unconfirmed, PeerTypes
  <2> HIDE DEF m
  <2>4. /\ inFlight' \in [Conns -> SUBSET (1..MaxFrames)] /\ reported' \in [Conns -> 0..Cap]
        /\ parked' \in [Conns -> BOOLEAN]
    BY <1>6, <2>1, <2>2, <2>3 DEF HearDrain, PeerTypes, m
  <2> QED
    BY <1>6, <2>1, <2>4 DEF HearDrain, Heard, Peers, PeerTypes
<1>7. ASSUME HearClosed
      PROVE  PeerTypes'
  <2>1. HeardFrom \in Conns /\ toWorker' \in Seq(WorkerMsgs)
    BY <1>7, HeardFact DEF HearClosed
  <2> QED
    BY <1>7, <2>1 DEF HearClosed, Retire, Heard, Peers, PeerTypes
<1> QED
  BY <1>1, <1>2, <1>3, <1>4, <1>5, <1>6, <1>7 DEF Hears

LEMMA AnswerFact ==
  ASSUME PeerTypes, NEW m \in WorkerMsgs, Answer(m)
  PROVE  toWorker' = Append(toWorker, m) /\ toWorker' \in Seq(WorkerMsgs)
BY DEF Answer, PeerTypes

LEMMA LetGoFact ==
  ASSUME PeerTypes, NEW c \in Conns, LetGo(c)
  PROVE  /\ host' \in [Conns -> {"none", "live", "gone"}] /\ host'[c] = "gone"
         /\ chan' \in [Conns -> {"opening", "open", "dead"}]
         /\ waiting' \in [Conns -> BOOLEAN] /\ ~waiting'[c]
         /\ low' \in [Conns -> BOOLEAN] /\ ~low'[c]
         /\ buffer' \in [Conns -> 0..Cap] /\ buffer'[c] = 0
BY WorkerAssumption DEF LetGo, PeerTypes

LEMMA PageTypes ==
  ASSUME PeerTypes
  PROVE  /\ \A c \in Conns : Opens(c) \/ TimesOut(c) \/ Dies(c) \/ Flows(c) \/ Low(c) => PeerTypes'
         /\ Takes => PeerTypes'
<1>1. ASSUME NEW c \in Conns, Opens(c)
      PROVE  PeerTypes'
  <2>1. toWorker' \in Seq(WorkerMsgs)
    BY <1>1, MsgFact, AnswerFact DEF Opens, PeerTypes
  <2> QED
    BY <1>1, <2>1 DEF Opens, Peers, PeerTypes
<1>2. ASSUME NEW c \in Conns, TimesOut(c)
      PROVE  PeerTypes'
  <2>1. toWorker' \in Seq(WorkerMsgs)
    BY <1>2, MsgFact, AnswerFact DEF TimesOut, PeerTypes
  <2> QED
    BY <1>2, <2>1 DEF TimesOut, Peers, PeerTypes
<1>3. ASSUME NEW c \in Conns, Dies(c)
      PROVE  PeerTypes'
  <2>1. toWorker' \in Seq(WorkerMsgs)
    BY <1>3, MsgFact, AnswerFact DEF Dies, PeerTypes
  <2> QED
    BY <1>3, <2>1, LetGoFact DEF Dies, Peers, PeerTypes
<1>4. ASSUME NEW c \in Conns, Flows(c)
      PROVE  PeerTypes'
  <2>1. buffer[c] - 1 \in 0..Cap
    BY <1>4, WorkerAssumption DEF Flows, PeerTypes
  <2>2. low' \in [Conns -> BOOLEAN]
    BY <1>4 DEF Flows, PeerTypes
  <2> QED
    BY <1>4, <2>1, <2>2 DEF Flows, Peers, PeerTypes
<1>5. ASSUME NEW c \in Conns, Low(c)
      PROVE  PeerTypes'
  <2>1. Drained(c, accepted[c], buffer[c]) \in WorkerMsgs
    BY MsgFact DEF PeerTypes
  <2>2. toWorker' \in Seq(WorkerMsgs)
    BY <1>5, <2>1, AnswerFact DEF Low
  <2> QED
    BY <1>5, <2>2 DEF Low, Peers, PeerTypes
<1>6. ASSUME NEW built \in BOOLEAN, TakeOpen(built)
      PROVE  PeerTypes'
  <2>1. TakenFor \in Conns /\ toPage' \in Seq(PageMsgs)
    BY <1>6, TakenFact DEF TakeOpen
  <2>2. toWorker' \in Seq(WorkerMsgs)
    BY <1>6, <2>1, MsgFact, AnswerFact DEF TakeOpen, PeerTypes
  <2> QED
    BY <1>6, <2>1, <2>2 DEF TakeOpen, Taken, Peers, PeerTypes
<1>7. ASSUME TakeWait
      PROVE  PeerTypes'
  <2>1. TakenFor \in Conns /\ toPage' \in Seq(PageMsgs)
    BY <1>7, TakenFact DEF TakeWait
  <2>2. toWorker' \in Seq(WorkerMsgs)
    BY <1>7, <2>1, MsgFact, AnswerFact DEF TakeWait, PeerTypes
  <2>3. waiting' \in [Conns -> BOOLEAN]
    BY <1>7, <2>1 DEF TakeWait, PeerTypes
  <2> QED
    BY <1>7, <2>1, <2>2, <2>3 DEF TakeWait, Taken, Peers, PeerTypes
<1>8. ASSUME TakeSend
      PROVE  PeerTypes'
  <2> DEFINE m == Head(toPage)
  <2>1. /\ m \in PageMsgs /\ m.t = "peer-send" /\ m.c \in Conns
        /\ toPage' \in Seq(PageMsgs)
    BY <1>8, TakenFact DEF TakeSend, TakenFor
  <2>2. m.seq \in 1..MaxFrames
    BY <2>1, PageMsgFact
  <2>3. CASE host[m.c] # "live"
    BY <1>8, <2>1, <2>3 DEF TakeSend, Taken, Peers, PeerTypes
  <2>4. CASE host[m.c] = "live" /\ Full(m.c)
    <3>1. toWorker' \in Seq(WorkerMsgs)
      BY <1>8, <2>1, <2>4, MsgFact, AnswerFact DEF TakeSend, Refuse
    <3> QED
      BY <1>8, <2>1, <2>4, <3>1, LetGoFact DEF TakeSend, Refuse, Taken, Peers, PeerTypes
  <2>5. CASE host[m.c] = "live" /\ ~Full(m.c)
    <3>1. buffer[m.c] + 1 \in 0..Cap
      BY <2>1, <2>5, WorkerAssumption DEF Full, PeerTypes
    <3>2. Drained(m.c, m.seq, buffer[m.c] + 1) \in WorkerMsgs
      BY <2>1, <2>2, <3>1, MsgFact
    <3>3. /\ buffer' = [buffer EXCEPT ![m.c] = @ + 1]
          /\ accepted' = [accepted EXCEPT ![m.c] = m.seq]
          /\ Answer(Drained(m.c, m.seq, buffer[m.c] + 1))
          /\ UNCHANGED <<host, waiting, chan, low>>
      BY <1>8, <2>5 DEF TakeSend
    <3>4. toWorker' \in Seq(WorkerMsgs)
      BY <3>2, <3>3, AnswerFact
    <3>5. m.seq \in 0..MaxFrames
      BY <2>2
    <3> HIDE DEF m
    <3>6. accepted' \in [Conns -> 0..MaxFrames] /\ buffer' \in [Conns -> 0..Cap]
      BY <2>1, <3>1, <3>3, <3>5 DEF PeerTypes
    <3> QED
      BY <1>8, <2>1, <3>3, <3>4, <3>6 DEF TakeSend, Taken, Peers, PeerTypes
  <2> QED
    BY <2>3, <2>4, <2>5
<1>9. ASSUME TakeClose
      PROVE  PeerTypes'
  <2>1. TakenFor \in Conns /\ toPage' \in Seq(PageMsgs)
    BY <1>9, TakenFact DEF TakeClose
  <2>2. toWorker' \in Seq(WorkerMsgs)
    BY <1>9, <2>1, MsgFact, AnswerFact DEF TakeClose, PeerTypes
  <2> QED
    BY <1>9, <2>1, <2>2, LetGoFact DEF TakeClose, Taken, Peers, PeerTypes
<1> QED
  BY <1>1, <1>2, <1>3, <1>4, <1>5, <1>6, <1>7, <1>8, <1>9 DEF Takes
-----------------------------------------------------------------------------
(* A step for one connection leaves the others alone.                      *)
Numbered(q) ==
  \A i \in DOMAIN q : \A c \in Conns :
    /\ IsSend(q[i], c) => q[i].seq \in Nat
    /\ IsDrain(q[i], c) => q[i].seq \in Nat /\ q[i].bytes \in Nat

LEMMA NumberedFact == PeerTypes => Numbered(toPage) /\ Numbered(toWorker)
<1> SUFFICES ASSUME PeerTypes PROVE Numbered(toPage) /\ Numbered(toWorker)
  OBVIOUS
<1>1. \A i \in DOMAIN toPage : toPage[i] \in PageMsgs
  BY DEF PeerTypes
<1>2. \A i \in DOMAIN toWorker : toWorker[i] \in WorkerMsgs
  BY DEF PeerTypes
<1>3. 0..MaxFrames \subseteq Nat /\ 1..MaxFrames \subseteq Nat /\ 0..Cap \subseteq Nat
  OBVIOUS
<1> QED
  BY <1>1, <1>2, <1>3, PageMsgFact, WorkerMsgFact DEF Numbered, IsSend, IsDrain

Alike(q, r, d) ==
  /\ \A t : Has(r, t, d) <=> Has(q, t, d)
  /\ \A t : Once(q, t, d) => Once(r, t, d)
  /\ OpenFirst(q, d) => OpenFirst(r, d)
  /\ Absent(q, d) => Absent(r, d)
  /\ \A lo, hi \in Nat : lo <= hi /\ Sends(q, d, lo, hi) => Sends(r, d, lo, hi)
  /\ \A known, acc, buf \in Nat :
       known <= acc /\ Reports(q, d, known, acc, buf) => Reports(r, d, known, acc, buf)

LEMMA AlikeSame == ASSUME NEW q, NEW d PROVE Alike(q, q, d)
BY DEF Alike

LEMMA AlikeTail ==
  ASSUME NEW S, NEW q \in Seq(S), q # <<>>, NEW d \in Conns, Head(q).c # d, Numbered(q)
  PROVE  Alike(q, Tail(q), d)
<1>1. /\ \A t : ~Is(Head(q), t, d)
      /\ ~IsSend(Head(q), d) /\ ~IsDrain(Head(q), d)
  BY DEF Is, IsSend, IsDrain
<1>2. \A i \in DOMAIN q : IsSend(q[i], d) => q[i].seq \in Nat
  BY DEF Numbered
<1>3. \A t : Has(Tail(q), t, d) <=> Has(q, t, d)
  BY <1>1, TailHas
<1>4. \A t : Once(q, t, d) => Once(Tail(q), t, d)
  BY TailHas
<1>5. OpenFirst(q, d) => OpenFirst(Tail(q), d)
  BY TailOpenFirst
<1>6. Absent(q, d) => Absent(Tail(q), d)
  BY TailFact DEF Absent
<1>7. \A lo, hi \in Nat : Sends(q, d, lo, hi) => Sends(Tail(q), d, lo, hi)
  BY <1>1, <1>2, TailSends
<1>8. \A known, acc, buf \in Nat :
        Reports(q, d, known, acc, buf) => Reports(Tail(q), d, known, acc, buf)
  BY <1>1, TailReports
<1> QED
  BY <1>3, <1>4, <1>5, <1>6, <1>7, <1>8 DEF Alike

LEMMA AlikeAppend ==
  ASSUME NEW S, NEW q \in Seq(S), NEW m \in S, NEW d \in Conns, m.c # d, Numbered(q)
  PROVE  Alike(q, Append(q, m), d)
<1>1. (\A t : ~Is(m, t, d)) /\ ~IsSend(m, d) /\ ~IsDrain(m, d)
  BY DEF Is, IsSend, IsDrain
<1>2. \A i \in DOMAIN q : (IsSend(q[i], d) => q[i].seq \in Nat)
                       /\ (IsDrain(q[i], d) => q[i].seq \in Nat)
  BY DEF Numbered
<1>3. \A t : Has(Append(q, m), t, d) <=> Has(q, t, d)
  BY <1>1, AppendHas
<1>4. \A t : Once(q, t, d) => Once(Append(q, m), t, d)
  BY <1>1, AppendHas
<1>5. OpenFirst(q, d) => OpenFirst(Append(q, m), d)
  BY <1>1, AppendOpenFirst
<1>6. Absent(q, d) => Absent(Append(q, m), d)
  BY AppendFact DEF Absent
<1>7. \A lo, hi \in Nat :
        lo <= hi /\ Sends(q, d, lo, hi) => Sends(Append(q, m), d, lo, hi)
  BY <1>1, <1>2, AppendSends
<1>8. \A known, acc, buf \in Nat :
        known <= acc /\ Reports(q, d, known, acc, buf) =>
          Reports(Append(q, m), d, known, acc, buf)
  BY <1>1, <1>2, AppendReports
<1> QED
  BY <1>3, <1>4, <1>5, <1>6, <1>7, <1>8 DEF Alike

Same(d) ==
  /\ proxy'[d] = proxy[d] /\ posted'[d] = posted[d] /\ inFlight'[d] = inFlight[d]
  /\ reported'[d] = reported[d] /\ host'[d] = host[d] /\ waiting'[d] = waiting[d]
  /\ buffer'[d] = buffer[d] /\ low'[d] = low[d] /\ accepted'[d] = accepted[d]

LEMMA TracksFact ==
  ASSUME PeerTypes, NEW d \in Conns, Tracks(d),
         proxy'[d] = proxy[d], host'[d] = host[d], posted'[d] = posted[d],
         inFlight'[d] = inFlight[d], reported'[d] = reported[d],
         accepted'[d] = accepted[d], buffer'[d] = buffer[d],
         \A lo, hi \in Nat : lo <= hi /\ Sends(toPage, d, lo, hi) => Sends(toPage', d, lo, hi),
         \A known, acc, buf \in Nat : known <= acc /\ Reports(toWorker, d, known, acc, buf) =>
            Reports(toWorker', d, known, acc, buf)
  PROVE  Tracks(d)'
<1> SUFFICES ASSUME proxy[d] = "open", host[d] = "live"
             PROVE  \E known \in 0..accepted[d] :
                      /\ accepted[d] <= posted[d]
                      /\ Sends(toPage', d, accepted[d], posted[d])
                      /\ inFlight[d] = (known + 1)..posted[d]
                      /\ buffer[d] <= reported[d] + (accepted[d] - known)
                      /\ Reports(toWorker', d, known, accepted[d], buffer[d])
  BY DEF Tracks
<1>1. accepted[d] \in Nat /\ posted[d] \in Nat /\ buffer[d] \in Nat
  BY DEF PeerTypes
<1>2. PICK known \in 0..accepted[d] :
        /\ accepted[d] <= posted[d]
        /\ Sends(toPage, d, accepted[d], posted[d])
        /\ inFlight[d] = (known + 1)..posted[d]
        /\ buffer[d] <= reported[d] + (accepted[d] - known)
        /\ Reports(toWorker, d, known, accepted[d], buffer[d])
  BY DEF Tracks
<1>3. Sends(toPage', d, accepted[d], posted[d])
  BY <1>1, <1>2
<1>4. Reports(toWorker', d, known, accepted[d], buffer[d])
  BY <1>1, <1>2
<1> QED
  BY <1>2, <1>3, <1>4

LEMMA ApartFact ==
  ASSUME PeerTypes, NEW d \in Conns, Sound(d), Same(d),
         Alike(toPage, toPage', d), Alike(toWorker, toWorker', d)
  PROVE  Sound(d)'
<1>1. Fresh(d)'
  BY DEF Sound, Fresh, Same, Alike
<1>2. Asked(d)'
  BY DEF Sound, Asked, Same, Alike
<1>3. OneOutcome(d)'
  BY DEF Sound, OneOutcome, Opened, Same, Alike
<1>4. Owned(d)'
  BY DEF Sound, Owned, Same, Alike
<1>5. Tracks(d)'
  BY TracksFact DEF Sound, Same, Alike
<1> QED
  BY <1>1, <1>2, <1>3, <1>4, <1>5 DEF Sound

(* What a step does to each queue, as far as another connection can tell.  *)
LEMMA QueuesApart ==
  ASSUME PeerTypes, NEW d \in Conns
  PROVE  /\ toPage # <<>> /\ Head(toPage).c # d => Alike(toPage, Tail(toPage), d)
         /\ toWorker # <<>> /\ Head(toWorker).c # d => Alike(toWorker, Tail(toWorker), d)
         /\ \A m \in PageMsgs : m.c # d => Alike(toPage, Append(toPage, m), d)
         /\ \A m \in WorkerMsgs : m.c # d => Alike(toWorker, Append(toWorker, m), d)
         /\ Alike(toPage, toPage, d) /\ Alike(toWorker, toWorker, d)
BY NumberedFact, AlikeSame, AlikeTail, AlikeAppend DEF PeerTypes
-----------------------------------------------------------------------------
(* What it does for its own.                                               *)
LEMMA PageTail ==
  ASSUME PeerTypes, NEW c \in Conns, Sound(c), toPage # <<>>, toPage' = Tail(toPage),
         NEW k, Head(toPage).t = k, Head(toPage).c = c
  PROVE  /\ Has(toPage, k, c) /\ ~Absent(toPage, c)
         /\ \A t : t # k => (Has(toPage', t, c) <=> Has(toPage, t, c))
         /\ \A t : Has(toPage', t, c) => Has(toPage, t, c)
         /\ \A t \in {"peer-open", "peer-wait-open"} :
              Once(toPage', t, c) /\ (t = k => ~Has(toPage', t, c))
         /\ OpenFirst(toPage', c)
         /\ k = "peer-close" => ~Has(toPage', "peer-open", c)
         /\ k # "peer-send" => \A lo, hi \in Nat :
              Sends(toPage, c, lo, hi) => Sends(toPage', c, lo, hi)
<1>1. \A t : Is(Head(toPage), t, c) <=> t = k
  BY DEF Is
<1>2. toPage \in Seq(PageMsgs)
  BY DEF PeerTypes
<1>3. \A t : Has(toPage, t, c) <=> Has(toPage', t, c) \/ t = k
  BY <1>1, <1>2, TailHas
<1>4. \A t \in {"peer-open", "peer-wait-open"} :
        Once(toPage', t, c) /\ (t = k => ~Has(toPage', t, c))
  BY <1>1, <1>2, TailHas DEF Sound, Asked
<1>5. OpenFirst(toPage', c) /\ (k = "peer-close" => ~Has(toPage', "peer-open", c))
  BY <1>1, <1>2, TailOpenFirst DEF Sound, Asked
<1>6. \A i \in DOMAIN toPage : IsSend(toPage[i], c) => toPage[i].seq \in Nat
  BY NumberedFact DEF Numbered
<1>7. k # "peer-send" => ~IsSend(Head(toPage), c)
  BY DEF IsSend
<1>8. k # "peer-send" => \A lo, hi \in Nat :
        Sends(toPage, c, lo, hi) => Sends(toPage', c, lo, hi)
  BY <1>2, <1>6, <1>7, TailSends
<1>9. ~Absent(toPage, c)
  BY <1>2, TailFact DEF Absent
<1> QED
  BY <1>3, <1>4, <1>5, <1>8, <1>9

LEMMA PageAppend ==
  ASSUME PeerTypes, NEW c \in Conns, Sound(c), NEW m \in PageMsgs, toPage' = Append(toPage, m),
         m.c = c, m.t \in {"peer-send", "peer-close"}
  PROVE  /\ \A t : Has(toPage', t, c) <=> Has(toPage, t, c) \/ t = m.t
         /\ \A t \in {"peer-open", "peer-wait-open"} : Once(toPage', t, c)
         /\ OpenFirst(toPage', c)
<1>1. \A t : Is(m, t, c) <=> t = m.t
  BY DEF Is
<1>2. toPage \in Seq(PageMsgs)
  BY DEF PeerTypes
<1>3. \A t : Has(toPage', t, c) <=> Has(toPage, t, c) \/ t = m.t
  BY <1>1, <1>2, AppendHas
<1>4. \A t \in {"peer-open", "peer-wait-open"} : Once(toPage', t, c)
  BY <1>1, <1>2, AppendHas DEF Sound, Asked
<1>5. OpenFirst(toPage', c)
  BY <1>1, <1>2, AppendOpenFirst DEF Sound, Asked
<1> QED
  BY <1>3, <1>4, <1>5

LEMMA WorkerTail ==
  ASSUME PeerTypes, NEW c \in Conns, toWorker # <<>>, toWorker' = Tail(toWorker),
         NEW k, Head(toWorker).t = k, Head(toWorker).c = c
  PROVE  /\ Has(toWorker, k, c) /\ ~Absent(toWorker, c)
         /\ \A t : t # k => (Has(toWorker', t, c) <=> Has(toWorker, t, c))
         /\ \A t : Has(toWorker', t, c) => Has(toWorker, t, c)
         /\ k # "peer-drain" => \A known, acc, buf \in Nat :
              Reports(toWorker, c, known, acc, buf) => Reports(toWorker', c, known, acc, buf)
<1>1. \A t : Is(Head(toWorker), t, c) <=> t = k
  BY DEF Is
<1>2. toWorker \in Seq(WorkerMsgs)
  BY DEF PeerTypes
<1>3. \A t : Has(toWorker, t, c) <=> Has(toWorker', t, c) \/ t = k
  BY <1>1, <1>2, TailHas
<1>4. k # "peer-drain" => ~IsDrain(Head(toWorker), c)
  BY DEF IsDrain
<1>5. k # "peer-drain" => \A known, acc, buf \in Nat :
        Reports(toWorker, c, known, acc, buf) => Reports(toWorker', c, known, acc, buf)
  BY <1>2, <1>4, TailReports
<1>6. ~Absent(toWorker, c)
  BY <1>2, TailFact DEF Absent
<1> QED
  BY <1>3, <1>5, <1>6

LEMMA WorkerAppend ==
  ASSUME PeerTypes, NEW c \in Conns, NEW m \in WorkerMsgs, Answer(m), m.c = c
  PROVE  /\ \A t : Has(toWorker', t, c) <=> Has(toWorker, t, c) \/ t = m.t
         /\ m.t # "peer-drain" => \A known, acc, buf \in Nat :
              known <= acc /\ Reports(toWorker, c, known, acc, buf) =>
                Reports(toWorker', c, known, acc, buf)
<1>1. \A t : Is(m, t, c) <=> t = m.t
  BY DEF Is
<1>2. toWorker \in Seq(WorkerMsgs) /\ toWorker' = Append(toWorker, m)
  BY DEF PeerTypes, Answer
<1>3. \A t : Has(toWorker', t, c) <=> Has(toWorker, t, c) \/ t = m.t
  BY <1>1, <1>2, AppendHas
<1>4. \A i \in DOMAIN toWorker : IsDrain(toWorker[i], c) => toWorker[i].seq \in Nat
  BY NumberedFact DEF Numbered
<1>5. m.t # "peer-drain" => ~IsDrain(m, c)
  BY DEF IsDrain
<1>6. m.t # "peer-drain" => \A known, acc, buf \in Nat :
        known <= acc /\ Reports(toWorker, c, known, acc, buf) =>
          Reports(toWorker', c, known, acc, buf)
  BY <1>2, <1>4, <1>5, AppendReports
<1> QED
  BY <1>3, <1>6
-----------------------------------------------------------------------------
(* One lemma per action.                                                   *)
Ready == PeerTypes /\ \A d \in Conns : Sound(d)

LEMMA CreateSound ==
  ASSUME Ready, NEW c \in Conns, Create(c)
  PROVE  \A d \in Conns : Sound(d)'
<1> DEFINE open == Msg("peer-open", c)
           wait == Msg("peer-wait-open", c)
           once == Append(toPage, open)
<1>1. /\ open \in PageMsgs /\ wait \in PageMsgs
      /\ open.c = c /\ open.t = "peer-open" /\ wait.c = c /\ wait.t = "peer-wait-open"
  BY MsgFact
<1>2. /\ toPage \in Seq(PageMsgs) /\ once \in Seq(PageMsgs)
      /\ toPage' = Append(once, wait)
  BY <1>1 DEF Ready, PeerTypes, Create
<1>3. ASSUME NEW d \in Conns, d # c
      PROVE  Sound(d)'
  <2>1. Same(d)
    BY <1>3 DEF Create, Ready, PeerTypes, Same
  <2>2. Numbered(once)
    BY <1>1, <1>2, AppendFact, PageMsgFact DEF Numbered, IsSend, IsDrain
  <2>3. Alike(toPage, once, d) /\ Alike(once, toPage', d)
    <3> HIDE DEF open, wait
    <3> QED
      BY <1>1, <1>2, <1>3, <2>2, NumberedFact, AlikeAppend DEF Ready
  <2>4. Alike(toPage, toPage', d) /\ Alike(toWorker, toWorker', d)
    BY <2>3, AlikeSame DEF Alike, Create
  <2> QED
    BY <2>1, <2>4, ApartFact DEF Ready
<1>4. /\ proxy[c] = "none" /\ proxy'[c] = "opening"
      /\ toWorker' = toWorker /\ host' = host /\ waiting' = waiting
      /\ posted' = posted /\ inFlight' = inFlight /\ reported' = reported
      /\ accepted' = accepted /\ buffer' = buffer /\ low' = low
  BY DEF Create, Ready, PeerTypes
<1>5. Fresh(c) /\ OneOutcome(c)
  BY DEF Ready, Sound
<1>6. \A t : ~Has(toPage, t, c) /\ ~Has(toWorker, t, c)
  BY <1>4, <1>5 DEF Fresh, Absent, Has
<1>7. \A t : /\ Is(open, t, c) <=> t = "peer-open"
             /\ Is(wait, t, c) <=> t = "peer-wait-open"
  BY <1>1 DEF Is
<1> HIDE DEF open, wait
<1>8. \A t : Has(once, t, c) <=> t = "peer-open"
  BY <1>1, <1>2, <1>6, <1>7, AppendHas
<1>9. \A t : Once(once, t, c)
  <2>1. \A t : Once(toPage, t, c)
    BY <1>6 DEF Has, Once
  <2> QED
    BY <1>1, <1>2, <1>6, <2>1, AppendHas
<1>10. OpenFirst(once, c)
  <2>1. OpenFirst(toPage, c)
    BY <1>6 DEF Has, OpenFirst
  <2> QED
    BY <1>1, <1>2, <1>6, <2>1, AppendOpenFirst
<1> HIDE DEF once
<1>11. \A t : Has(toPage', t, c) <=> t \in {"peer-open", "peer-wait-open"}
  BY <1>1, <1>2, <1>7, <1>8, AppendHas
<1>12. \A t : Once(toPage', t, c)
  BY <1>1, <1>2, <1>7, <1>8, <1>9, AppendHas
<1>13. OpenFirst(toPage', c)
  BY <1>1, <1>2, <1>7, <1>10, AppendOpenFirst
<1>14. Fresh(c)' /\ Asked(c)' /\ OneOutcome(c)' /\ Owned(c)' /\ Tracks(c)'
  BY <1>4, <1>5, <1>6, <1>11, <1>12, <1>13
  DEF Fresh, Asked, OneOutcome, Opened, Owned, Tracks
<1> QED
  BY <1>3, <1>14 DEF Sound

LEMMA CloseSound ==
  ASSUME Ready, NEW c \in Conns, Close(c)
  PROVE  \A d \in Conns : Sound(d)'
<1> DEFINE m == Msg("peer-close", c)
<1>1. m \in PageMsgs /\ m.c = c /\ m.t = "peer-close" /\ toPage' = Append(toPage, m)
  BY MsgFact DEF Close, PostClose
<1>2. ASSUME NEW d \in Conns, d # c
      PROVE  Sound(d)'
  <2>1. Same(d)
    BY <1>2 DEF Close, Retire, Ready, PeerTypes, Same
  <2>2. Alike(toPage, toPage', d) /\ Alike(toWorker, toWorker', d)
    BY <1>1, <1>2, QueuesApart DEF Ready, Close
  <2> QED
    BY <2>1, <2>2, ApartFact DEF Ready
<1>3. /\ proxy[c] \in {"opening", "open"} /\ proxy'[c] = "closed" /\ toWorker' = toWorker
      /\ host' = host /\ waiting' = waiting
  BY DEF Close, Retire, Ready, PeerTypes
<1>4. /\ Asked(c) /\ OneOutcome(c) /\ OpenFirst(toPage', c)
      /\ \A t : Has(toPage', t, c) <=> Has(toPage, t, c) \/ t = "peer-close"
      /\ \A t \in {"peer-open", "peer-wait-open"} : Once(toPage', t, c)
  BY <1>1, PageAppend DEF Ready, Sound
<1>5. Fresh(c)' /\ Asked(c)' /\ OneOutcome(c)' /\ Owned(c)' /\ Tracks(c)'
  BY <1>3, <1>4 DEF Fresh, Asked, OneOutcome, Opened, Owned, Tracks
<1> QED
  BY <1>2, <1>5 DEF Sound

LEMMA SendSound ==
  ASSUME Ready, NEW c \in Conns, NEW data \in BOOLEAN, Send(c, data)
  PROVE  \A d \in Conns : Sound(d)'
<1> DEFINE seq == posted[c] + 1
           m == SendMsg(c, seq)
<1>1. posted[c] \in Nat /\ seq \in 1..MaxFrames
  BY WorkerAssumption DEF Send, Ready, PeerTypes
<1>2. /\ m \in PageMsgs /\ m.c = c /\ m.t = "peer-send" /\ m.seq = seq
      /\ toPage' = Append(toPage, m)
  BY <1>1, MsgFact DEF Send
<1> HIDE DEF m
<1>3. ASSUME NEW d \in Conns, d # c
      PROVE  Sound(d)'
  <2>1. Same(d)
    BY <1>3 DEF Send, Ready, PeerTypes, Same
  <2>2. Alike(toPage, toPage', d) /\ Alike(toWorker, toWorker', d)
    BY <1>2, <1>3, QueuesApart DEF Ready, Send
  <2> QED
    BY <2>1, <2>2, ApartFact DEF Ready
<1>4. /\ proxy[c] = "open" /\ proxy' = proxy /\ toWorker' = toWorker
      /\ host' = host /\ waiting' = waiting /\ accepted' = accepted
      /\ reported' = reported /\ buffer' = buffer
      /\ posted'[c] = seq /\ inFlight'[c] = inFlight[c] \cup {seq}
  BY DEF Send, Ready, PeerTypes
<1>5. /\ Asked(c) /\ OneOutcome(c) /\ Owned(c) /\ OpenFirst(toPage', c)
      /\ \A t : Has(toPage', t, c) <=> Has(toPage, t, c) \/ t = "peer-send"
      /\ \A t \in {"peer-open", "peer-wait-open"} : Once(toPage', t, c)
  BY <1>2, PageAppend DEF Ready, Sound
<1>6. Fresh(c)' /\ Asked(c)' /\ OneOutcome(c)' /\ Owned(c)'
  BY <1>4, <1>5 DEF Fresh, Asked, OneOutcome, Opened, Owned
<1>7. Tracks(c)'
  <2> SUFFICES ASSUME host[c] = "live"
               PROVE  \E known \in 0..accepted[c] :
                        /\ accepted[c] <= seq
                        /\ Sends(toPage', c, accepted[c], seq)
                        /\ inFlight'[c] = (known + 1)..seq
                        /\ buffer[c] <= reported[c] + (accepted[c] - known)
                        /\ Reports(toWorker, c, known, accepted[c], buffer[c])
    BY <1>4 DEF Tracks
  <2>1. PICK known \in 0..accepted[c] :
          /\ accepted[c] <= posted[c]
          /\ Sends(toPage, c, accepted[c], posted[c])
          /\ inFlight[c] = (known + 1)..posted[c]
          /\ buffer[c] <= reported[c] + (accepted[c] - known)
          /\ Reports(toWorker, c, known, accepted[c], buffer[c])
    BY <1>4 DEF Ready, Sound, Tracks
  <2>2. accepted[c] \in Nat /\ toPage \in Seq(PageMsgs) /\ IsSend(m, c)
    BY <1>2 DEF Ready, PeerTypes, IsSend
  <2>3. \A i \in DOMAIN toPage : IsSend(toPage[i], c) => toPage[i].seq \in Nat
    BY NumberedFact DEF Numbered, Ready
  <2>4. Sends(toPage', c, accepted[c], seq)
    BY <1>1, <1>2, <2>1, <2>2, <2>3, AppendSends
  <2>5. inFlight'[c] = (known + 1)..seq
    BY <1>1, <1>4, <2>1, <2>2
  <2> QED
    BY <1>1, <2>1, <2>2, <2>4, <2>5
<1> QED
  BY <1>3, <1>6, <1>7 DEF Sound

(* What the worker hears.                                                  *)
LEMMA HearApart ==
  ASSUME Ready, NEW t, Heard(t), NEW d \in Conns, d # HeardFrom, Same(d),
         Alike(toPage, toPage', d)
  PROVE  Sound(d)'
<1>1. Alike(toWorker, toWorker', d)
  BY HeardFact, QueuesApart DEF Ready, HeardFrom
<1> QED
  BY <1>1, ApartFact DEF Ready

LEMMA HearOpenedSound ==
  ASSUME Ready, HearOpened
  PROVE  \A d \in Conns : Sound(d)'
<1>0. PICK c \in Conns : c = HeardFrom
  BY HeardFact DEF HearOpened, Ready
<1>1. /\ c \in Conns /\ toWorker # <<>> /\ toWorker' = Tail(toWorker) /\ Heard("peer-opened")
      /\ Head(toWorker).t = "peer-opened" /\ Head(toWorker).c = c
  BY <1>0, HeardFact DEF HearOpened, HeardFrom, Ready
<1>2. /\ host' = host /\ waiting' = waiting /\ accepted' = accepted /\ buffer' = buffer
      /\ low' = low /\ toPage' = toPage /\ posted' = posted /\ inFlight' = inFlight
      /\ reported' = reported
  BY DEF HearOpened, Heard
<1>3. /\ proxy'[c] = IF proxy[c] = "opening" THEN "open" ELSE proxy[c]
      /\ \A d \in Conns \ {c} : proxy'[d] = proxy[d]
  BY <1>0, <1>1 DEF HearOpened, Ready, PeerTypes
<1>4. ASSUME NEW d \in Conns, d # c
      PROVE  Sound(d)'
  BY <1>0, <1>1, <1>2, <1>3, <1>4, HearApart, AlikeSame DEF Same
<1>5. /\ Has(toWorker, "peer-opened", c) /\ ~Absent(toWorker, c)
      /\ \A t : t # "peer-opened" => (Has(toWorker', t, c) <=> Has(toWorker, t, c))
      /\ \A t : Has(toWorker', t, c) => Has(toWorker, t, c)
      /\ \A known, acc, buf \in Nat :
           Reports(toWorker, c, known, acc, buf) => Reports(toWorker', c, known, acc, buf)
  BY <1>1, WorkerTail DEF Ready
<1>6. Fresh(c) /\ Asked(c) /\ OneOutcome(c) /\ Owned(c) /\ Tracks(c)
  BY <1>1 DEF Ready, Sound
<1>7. proxy[c] # "none"
  BY <1>5, <1>6 DEF Fresh
<1>8. Fresh(c)' /\ Asked(c)' /\ OneOutcome(c)' /\ Owned(c)'
  BY <1>2, <1>3, <1>5, <1>6, <1>7 DEF Fresh, Asked, OneOutcome, Opened, Owned
<1>9. Tracks(c)'
  <2>1. CASE proxy[c] # "opening"
    BY <1>1, <1>2, <1>3, <1>5, <1>6, <2>1, TracksFact DEF Ready
  <2>2. CASE proxy[c] = "opening"
    <3>1. /\ posted[c] = 0 /\ inFlight[c] = {} /\ reported[c] = 0 /\ accepted[c] = 0
          /\ buffer[c] = 0 /\ ~Has(toPage, "peer-send", c) /\ ~Has(toWorker', "peer-drain", c)
      BY <1>5, <1>6, <2>2 DEF Fresh
    <3>2. Sends(toPage, c, 0, 0)
      BY <3>1 DEF Has, Sends, IsSend
    <3>3. Reports(toWorker', c, 0, 0, 0)
      BY <3>1 DEF Has, Reports, IsDrain
    <3>4. (0 + 1)..0 = {} /\ 0 \in 0..0
      OBVIOUS
    <3> QED
      BY <1>2, <3>1, <3>2, <3>3, <3>4 DEF Tracks
  <2> QED
    BY <2>1, <2>2
<1> QED
  BY <1>4, <1>8, <1>9 DEF Sound

LEMMA HearFailedSound ==
  ASSUME Ready, HearFailed
  PROVE  \A d \in Conns : Sound(d)'
<1>0. PICK c \in Conns : c = HeardFrom
  BY HeardFact DEF HearFailed, Ready
<1> DEFINE m == Msg("peer-close", c)
<1>1. /\ c \in Conns /\ toWorker # <<>> /\ toWorker' = Tail(toWorker) /\ Heard("peer-failed")
      /\ Head(toWorker).t = "peer-failed" /\ Head(toWorker).c = c
  BY <1>0, HeardFact DEF HearFailed, HeardFrom, Ready
<1>2. /\ host' = host /\ waiting' = waiting /\ accepted' = accepted /\ buffer' = buffer
      /\ low' = low /\ posted' = posted /\ inFlight' = inFlight /\ reported' = reported
  BY DEF HearFailed, Heard, Retire
<1>3. /\ m \in PageMsgs /\ m.c = c /\ m.t = "peer-close"
  BY <1>1, MsgFact
<1>4. /\ proxy'[c] = IF proxy[c] = "opening" THEN "closed" ELSE proxy[c]
      /\ \A d \in Conns \ {c} : proxy'[d] = proxy[d]
      /\ toPage' = IF proxy[c] = "opening" THEN Append(toPage, m) ELSE toPage
  BY <1>0, <1>1 DEF HearFailed, Retire, PostClose, Ready, PeerTypes
<1> HIDE DEF m
<1>5. ASSUME NEW d \in Conns, d # c
      PROVE  Sound(d)'
  <2>1. Alike(toPage, toPage', d)
    BY <1>3, <1>4, <1>5, QueuesApart DEF Ready
  <2> QED
    BY <1>0, <1>1, <1>2, <1>4, <1>5, <2>1, HearApart DEF Same
<1>6. /\ Has(toWorker, "peer-failed", c) /\ ~Absent(toWorker, c)
      /\ \A t : t # "peer-failed" => (Has(toWorker', t, c) <=> Has(toWorker, t, c))
      /\ \A t : Has(toWorker', t, c) => Has(toWorker, t, c)
  BY <1>1, WorkerTail DEF Ready
<1>7. Fresh(c) /\ Asked(c) /\ OneOutcome(c) /\ Owned(c) /\ Tracks(c)
  BY <1>1 DEF Ready, Sound
<1>8. proxy[c] \in {"opening", "closed"}
  <2>1. proxy[c] # "none"
    BY <1>6, <1>7 DEF Fresh
  <2>2. proxy[c] # "open"
    BY <1>6, <1>7 DEF OneOutcome, Opened
  <2> QED
    BY <1>1, <2>1, <2>2 DEF Ready, PeerTypes
<1>9. CASE proxy[c] = "closed"
  <2>1. Fresh(c)' /\ Asked(c)' /\ OneOutcome(c)' /\ Owned(c)' /\ Tracks(c)'
    BY <1>2, <1>4, <1>6, <1>7, <1>9 DEF Fresh, Asked, OneOutcome, Opened, Owned, Tracks
  <2> QED
    BY <1>5, <2>1 DEF Sound
<1>10. CASE proxy[c] = "opening"
  <2>1. /\ OpenFirst(toPage', c)
        /\ \A t : Has(toPage', t, c) <=> Has(toPage, t, c) \/ t = "peer-close"
        /\ \A t \in {"peer-open", "peer-wait-open"} : Once(toPage', t, c)
    BY <1>1, <1>3, <1>4, <1>10, PageAppend DEF Ready
  <2>2. Fresh(c)' /\ Asked(c)' /\ OneOutcome(c)' /\ Owned(c)' /\ Tracks(c)'
    BY <1>2, <1>4, <1>6, <1>7, <1>10, <2>1 DEF Fresh, Asked, OneOutcome, Opened, Owned, Tracks
  <2> QED
    BY <1>5, <2>2 DEF Sound
<1> QED
  BY <1>8, <1>9, <1>10

LEMMA HearClosedSound ==
  ASSUME Ready, HearClosed
  PROVE  \A d \in Conns : Sound(d)'
<1>0. PICK c \in Conns : c = HeardFrom
  BY HeardFact DEF HearClosed, Ready
<1>1. /\ c \in Conns /\ toWorker # <<>> /\ toWorker' = Tail(toWorker) /\ Heard("peer-closed")
      /\ Head(toWorker).t = "peer-closed" /\ Head(toWorker).c = c
  BY <1>0, HeardFact DEF HearClosed, HeardFrom, Ready
<1>2. /\ host' = host /\ waiting' = waiting /\ accepted' = accepted /\ buffer' = buffer
      /\ low' = low /\ posted' = posted /\ inFlight' = inFlight /\ reported' = reported
      /\ toPage' = toPage
  BY DEF HearClosed, Heard, Retire
<1>3. proxy'[c] = "closed" /\ \A d \in Conns \ {c} : proxy'[d] = proxy[d]
  BY <1>0, <1>1 DEF HearClosed, Retire, Ready, PeerTypes
<1>4. ASSUME NEW d \in Conns, d # c
      PROVE  Sound(d)'
  BY <1>0, <1>1, <1>2, <1>3, <1>4, HearApart, AlikeSame DEF Same
<1>5. /\ Has(toWorker, "peer-closed", c)
      /\ \A t : Has(toWorker', t, c) => Has(toWorker, t, c)
  BY <1>1, WorkerTail DEF Ready
<1>6. Asked(c) /\ OneOutcome(c)
  BY <1>1 DEF Ready, Sound
<1>7. host[c] = "gone"
  BY <1>5, <1>6 DEF OneOutcome
<1>8. Fresh(c)' /\ Asked(c)' /\ OneOutcome(c)' /\ Owned(c)' /\ Tracks(c)'
  BY <1>2, <1>3, <1>5, <1>6, <1>7 DEF Fresh, Asked, OneOutcome, Opened, Owned, Tracks
<1> QED
  BY <1>4, <1>8 DEF Sound

LEMMA HearDrainSound ==
  ASSUME Ready, HearDrain
  PROVE  \A d \in Conns : Sound(d)'
<1>0. PICK c \in Conns : c = HeardFrom
  BY HeardFact DEF HearDrain, Ready
<1>1. /\ toWorker # <<>> /\ toWorker' = Tail(toWorker) /\ Heard("peer-drain")
      /\ Head(toWorker).t = "peer-drain" /\ Head(toWorker).c = c
      /\ Head(toWorker) \in WorkerMsgs /\ toWorker \in Seq(WorkerMsgs)
  BY <1>0, HeardFact DEF HearDrain, HeardFrom, Ready, PeerTypes
<1>2. PICK seq \in 0..MaxFrames, bytes \in 0..Cap :
        Head(toWorker).seq = seq /\ Head(toWorker).bytes = bytes
  BY <1>1, WorkerMsgFact
<1>3. /\ host' = host /\ waiting' = waiting /\ accepted' = accepted /\ buffer' = buffer
      /\ low' = low /\ posted' = posted /\ proxy' = proxy /\ toPage' = toPage
  BY DEF HearDrain, Heard
<1>4. /\ proxy[c] # "closed" => inFlight'[c] = {s \in inFlight[c] : s > seq}
                              /\ reported'[c] = bytes
      /\ \A d \in Conns \ {c} : inFlight'[d] = inFlight[d] /\ reported'[d] = reported[d]
  BY <1>1, <1>2 DEF HearDrain, Unconfirmed, Ready, PeerTypes
<1>5. ASSUME NEW d \in Conns, d # c
      PROVE  Sound(d)'
  BY <1>0, <1>1, <1>3, <1>4, <1>5, HearApart, AlikeSame DEF Same
<1>6. /\ Has(toWorker, "peer-drain", c) /\ ~Absent(toWorker, c)
      /\ \A t : t # "peer-drain" => (Has(toWorker', t, c) <=> Has(toWorker, t, c))
  BY <1>1, WorkerTail DEF Ready
<1>7. Fresh(c) /\ Asked(c) /\ OneOutcome(c) /\ Owned(c) /\ Tracks(c)
  BY DEF Ready, Sound
<1>8. proxy[c] \notin {"none", "opening"}
  BY <1>6, <1>7 DEF Fresh
<1>9. Fresh(c)' /\ Asked(c)' /\ OneOutcome(c)' /\ Owned(c)'
  BY <1>3, <1>6, <1>7, <1>8 DEF Fresh, Asked, OneOutcome, Opened, Owned
<1>10. Tracks(c)'
  <2> SUFFICES ASSUME proxy[c] = "open", host[c] = "live"
               PROVE  \E known \in 0..accepted[c] :
                        /\ accepted[c] <= posted[c]
                        /\ Sends(toPage, c, accepted[c], posted[c])
                        /\ inFlight'[c] = (known + 1)..posted[c]
                        /\ buffer[c] <= bytes + (accepted[c] - known)
                        /\ Reports(toWorker', c, known, accepted[c], buffer[c])
    BY <1>3, <1>4 DEF Tracks
  <2>1. PICK known \in 0..accepted[c] :
          /\ accepted[c] <= posted[c]
          /\ Sends(toPage, c, accepted[c], posted[c])
          /\ inFlight[c] = (known + 1)..posted[c]
          /\ buffer[c] <= reported[c] + (accepted[c] - known)
          /\ Reports(toWorker, c, known, accepted[c], buffer[c])
    BY <1>7 DEF Tracks
  <2>2. accepted[c] \in Nat /\ posted[c] \in Nat
    BY DEF Ready, PeerTypes
  <2>3. IsDrain(Head(toWorker), c)
    BY <1>1 DEF IsDrain
  <2>4. /\ known <= seq /\ seq <= accepted[c] /\ buffer[c] <= bytes + (accepted[c] - seq)
        /\ Reports(toWorker', c, seq, accepted[c], buffer[c])
    BY <1>1, <1>2, <2>1, <2>3, TailReports
  <2>5. inFlight'[c] = (seq + 1)..posted[c]
    <3>1. inFlight'[c] = {s \in (known + 1)..posted[c] : s > seq}
      BY <1>4, <2>1
    <3>2. \A p, k, n \in Nat : k <= n => {s \in (k + 1)..p : s > n} = (n + 1)..p
      OBVIOUS
    <3> QED
      BY <2>1, <2>2, <2>4, <3>1, <3>2
  <2>6. seq \in 0..accepted[c]
    BY <2>2, <2>4
  <2> QED
    BY <2>1, <2>4, <2>5, <2>6
<1> QED
  BY <1>5, <1>9, <1>10 DEF Sound

(* What the page takes.                                                    *)
LEMMA TakeApart ==
  ASSUME Ready, NEW t, Taken(t), NEW d \in Conns, d # TakenFor, Same(d),
         Alike(toWorker, toWorker', d)
  PROVE  Sound(d)'
<1>1. Alike(toPage, toPage', d)
  BY TakenFact, QueuesApart DEF Ready, TakenFor
<1> QED
  BY <1>1, ApartFact DEF Ready

LEMMA TakeOpenSound ==
  ASSUME Ready, NEW built \in BOOLEAN, TakeOpen(built)
  PROVE  \A d \in Conns : Sound(d)'
<1>0. PICK c \in Conns : c = TakenFor
  BY TakenFact DEF TakeOpen, Ready
<1> DEFINE m == Msg("peer-failed", c)
<1>1. /\ toPage # <<>> /\ toPage' = Tail(toPage) /\ Taken("peer-open")
      /\ Head(toPage).t = "peer-open" /\ Head(toPage).c = c
  BY <1>0, TakenFact DEF TakeOpen, TakenFor, Ready
<1>2. m \in WorkerMsgs /\ m.c = c /\ m.t = "peer-failed"
  BY MsgFact
<1>3. /\ proxy' = proxy /\ posted' = posted /\ inFlight' = inFlight /\ reported' = reported
      /\ waiting' = waiting /\ accepted' = accepted /\ buffer' = buffer /\ low' = low
  BY DEF TakeOpen, Taken
<1>4. /\ built => host'[c] = "live" /\ toWorker' = toWorker
      /\ ~built => host' = host /\ Answer(m)
      /\ \A d \in Conns \ {c} : host'[d] = host[d]
  BY <1>0 DEF TakeOpen, Ready, PeerTypes
<1> HIDE DEF m
<1>5. ASSUME NEW d \in Conns, d # c
      PROVE  Sound(d)'
  <2>1. Alike(toWorker, toWorker', d)
    BY <1>2, <1>4, <1>5, QueuesApart DEF Ready, Answer
  <2> QED
    BY <1>0, <1>1, <1>3, <1>4, <1>5, <2>1, TakeApart DEF Same
<1>6. /\ Has(toPage, "peer-open", c) /\ ~Absent(toPage, c)
      /\ \A t : t # "peer-open" => (Has(toPage', t, c) <=> Has(toPage, t, c))
      /\ \A t \in {"peer-open", "peer-wait-open"} : Once(toPage', t, c)
      /\ ~Has(toPage', "peer-open", c) /\ OpenFirst(toPage', c)
  BY <1>1, PageTail DEF Ready
<1>7. /\ built => \A t : Has(toWorker', t, c) <=> Has(toWorker, t, c)
      /\ ~built => \A t : Has(toWorker', t, c) <=> Has(toWorker, t, c) \/ t = "peer-failed"
  BY <1>2, <1>4, WorkerAppend DEF Ready
<1>8. Fresh(c) /\ Asked(c) /\ OneOutcome(c) /\ Owned(c)
  BY DEF Ready, Sound
<1>9. /\ host[c] = "none" /\ proxy[c] \in {"opening", "closed"} /\ ~waiting[c]
      /\ ~Has(toWorker, "peer-opened", c) /\ ~Has(toWorker, "peer-failed", c)
      /\ ~Has(toWorker, "peer-closed", c)
  BY <1>6, <1>8 DEF Fresh, Asked, OneOutcome, Opened, Ready, PeerTypes
<1>10. Fresh(c)' /\ Asked(c)' /\ OneOutcome(c)' /\ Owned(c)' /\ Tracks(c)'
  BY <1>3, <1>4, <1>6, <1>7, <1>8, <1>9
  DEF Fresh, Asked, OneOutcome, Opened, Owned, Tracks
<1> QED
  BY <1>5, <1>10 DEF Sound

LEMMA TakeWaitSound ==
  ASSUME Ready, TakeWait
  PROVE  \A d \in Conns : Sound(d)'
<1>0. PICK c \in Conns : c = TakenFor
  BY TakenFact DEF TakeWait, Ready
<1> DEFINE m == Msg("peer-opened", c)
<1>1. /\ toPage # <<>> /\ toPage' = Tail(toPage) /\ Taken("peer-wait-open")
      /\ Head(toPage).t = "peer-wait-open" /\ Head(toPage).c = c
  BY <1>0, TakenFact DEF TakeWait, TakenFor, Ready
<1>2. m \in WorkerMsgs /\ m.c = c /\ m.t = "peer-opened"
  BY MsgFact
<1>3. /\ proxy' = proxy /\ posted' = posted /\ inFlight' = inFlight /\ reported' = reported
      /\ host' = host /\ accepted' = accepted /\ buffer' = buffer /\ low' = low
  BY DEF TakeWait, Taken
<1>4. /\ \/ waiting' = waiting /\ toWorker' = toWorker /\ host[c] # "live"
         \/ waiting' = waiting /\ Answer(m) /\ host[c] = "live"
         \/ waiting'[c] = TRUE /\ toWorker' = toWorker /\ host[c] = "live"
      /\ \A d \in Conns \ {c} : waiting'[d] = waiting[d]
      /\ toWorker' = toWorker \/ Answer(m)
  BY <1>0 DEF TakeWait, Ready, PeerTypes
<1> HIDE DEF m
<1>5. ASSUME NEW d \in Conns, d # c
      PROVE  Sound(d)'
  <2>1. Alike(toWorker, toWorker', d)
    BY <1>2, <1>4, <1>5, QueuesApart DEF Ready, Answer
  <2> QED
    BY <1>0, <1>1, <1>3, <1>4, <1>5, <2>1, TakeApart DEF Same
<1>6. /\ Has(toPage, "peer-wait-open", c) /\ ~Absent(toPage, c)
      /\ \A t : t # "peer-wait-open" => (Has(toPage', t, c) <=> Has(toPage, t, c))
      /\ \A t \in {"peer-open", "peer-wait-open"} : Once(toPage', t, c)
      /\ ~Has(toPage', "peer-wait-open", c) /\ OpenFirst(toPage', c)
  BY <1>1, PageTail DEF Ready
<1>7. Answer(m) => \A t : Has(toWorker', t, c) <=> Has(toWorker, t, c) \/ t = "peer-opened"
  BY <1>2, WorkerAppend DEF Ready
<1>8. Fresh(c) /\ Asked(c) /\ OneOutcome(c) /\ Owned(c)
  BY DEF Ready, Sound
<1>9. /\ proxy[c] # "none"
      /\ host[c] = "live" => /\ ~waiting[c] /\ proxy[c] # "open"
                             /\ ~Has(toWorker, "peer-opened", c)
                             /\ ~Has(toWorker, "peer-failed", c)
  BY <1>6, <1>8 DEF Fresh, OneOutcome, Opened
<1>10. CASE host[c] # "live"
  <2>1. Fresh(c)' /\ Asked(c)' /\ OneOutcome(c)' /\ Owned(c)' /\ Tracks(c)'
    BY <1>3, <1>4, <1>6, <1>8, <1>9, <1>10
    DEF Fresh, Asked, OneOutcome, Opened, Owned, Tracks
  <2> QED
    BY <1>5, <2>1 DEF Sound
<1>11. CASE host[c] = "live"
  <2>1. Fresh(c)' /\ Asked(c)' /\ OneOutcome(c)' /\ Owned(c)' /\ Tracks(c)'
    BY <1>3, <1>4, <1>6, <1>7, <1>8, <1>9, <1>11
    DEF Fresh, Asked, OneOutcome, Opened, Owned, Tracks
  <2> QED
    BY <1>5, <2>1 DEF Sound
<1> QED
  BY <1>10, <1>11

(* A connection that is let go is reported, and asked for no more.         *)
LEMMA GoneSound ==
  ASSUME Ready, NEW c \in Conns, host[c] = "live", LetGo(c), Answer(Msg("peer-closed", c)),
         UNCHANGED <<proxy, posted, inFlight, reported, accepted>>,
         OpenFirst(toPage', c), \A t : Has(toPage', t, c) => Has(toPage, t, c),
         Once(toPage', "peer-open", c), Once(toPage', "peer-wait-open", c)
  PROVE  Sound(c)'
<1> DEFINE m == Msg("peer-closed", c)
<1>1. m \in WorkerMsgs /\ m.c = c /\ m.t = "peer-closed" /\ Answer(m)
  BY MsgFact
<1> HIDE DEF m
<1>2. \A t : Has(toWorker', t, c) <=> Has(toWorker, t, c) \/ t = "peer-closed"
  BY <1>1, WorkerAppend DEF Ready
<1>3. Fresh(c) /\ Asked(c) /\ OneOutcome(c)
  BY DEF Ready, Sound
<1>4. host'[c] = "gone" /\ ~waiting'[c] /\ ~low'[c] /\ buffer'[c] = 0
  BY LetGoFact DEF Ready
<1>5. proxy[c] # "none" /\ ~Has(toPage', "peer-open", c)
  BY <1>3 DEF Fresh, Asked
<1>6. Fresh(c)' /\ Asked(c)' /\ OneOutcome(c)' /\ Owned(c)' /\ Tracks(c)'
  BY <1>2, <1>3, <1>4, <1>5 DEF Fresh, Asked, OneOutcome, Opened, Owned, Tracks
<1> QED
  BY <1>6 DEF Sound

LEMMA GoneApart ==
  ASSUME Ready, NEW c \in Conns, LetGo(c), Answer(Msg("peer-closed", c)),
         UNCHANGED <<proxy, posted, inFlight, reported, accepted>>, NEW d \in Conns, d # c
  PROVE  Same(d) /\ Alike(toWorker, toWorker', d)
<1>1. Same(d)
  BY DEF LetGo, Same, Ready, PeerTypes
<1>2. Msg("peer-closed", c) \in WorkerMsgs /\ Msg("peer-closed", c).c = c
  BY MsgFact
<1>3. Alike(toWorker, toWorker', d)
  BY <1>2, QueuesApart DEF Answer, Ready
<1> QED
  BY <1>1, <1>3

LEMMA DiesSound ==
  ASSUME Ready, NEW c \in Conns, Dies(c)
  PROVE  \A d \in Conns : Sound(d)'
<1>1. /\ host[c] = "live" /\ LetGo(c) /\ Answer(Msg("peer-closed", c)) /\ toPage' = toPage
      /\ UNCHANGED <<proxy, posted, inFlight, reported, accepted>>
  BY DEF Dies
<1>2. Asked(c)
  BY DEF Ready, Sound
<1>3. Sound(c)'
  BY <1>1, <1>2, GoneSound DEF Asked
<1>4. ASSUME NEW d \in Conns, d # c
      PROVE  Sound(d)'
  <2>1. Same(d) /\ Alike(toWorker, toWorker', d)
    BY <1>1, <1>4, GoneApart
  <2> QED
    BY <1>1, <2>1, ApartFact, AlikeSame DEF Ready
<1> QED
  BY <1>3, <1>4

LEMMA TakeCloseSound ==
  ASSUME Ready, TakeClose
  PROVE  \A d \in Conns : Sound(d)'
<1>0. PICK c \in Conns : c = TakenFor
  BY TakenFact DEF TakeClose, Ready
<1>1. /\ toPage # <<>> /\ toPage' = Tail(toPage) /\ Taken("peer-close")
      /\ Head(toPage).t = "peer-close" /\ Head(toPage).c = c
  BY <1>0, TakenFact DEF TakeClose, TakenFor, Ready
<1>2. UNCHANGED <<proxy, posted, inFlight, reported, accepted>>
  BY DEF TakeClose, Taken
<1>3. /\ Has(toPage, "peer-close", c) /\ ~Absent(toPage, c)
      /\ \A t : t # "peer-close" => (Has(toPage', t, c) <=> Has(toPage, t, c))
      /\ \A t : Has(toPage', t, c) => Has(toPage, t, c)
      /\ Once(toPage', "peer-open", c) /\ Once(toPage', "peer-wait-open", c)
      /\ OpenFirst(toPage', c) /\ ~Has(toPage', "peer-open", c)
  BY <1>1, PageTail DEF Ready
<1>4. CASE host[c] = "live"
  <2>1. LetGo(c) /\ Answer(Msg("peer-closed", c))
    BY <1>0, <1>4 DEF TakeClose
  <2>2. Sound(c)'
    BY <1>2, <1>3, <1>4, <2>1, GoneSound
  <2>3. ASSUME NEW d \in Conns, d # c
        PROVE  Sound(d)'
    <3>1. Same(d) /\ Alike(toWorker, toWorker', d)
      BY <1>2, <2>1, <2>3, GoneApart
    <3> QED
      BY <1>0, <1>1, <2>3, <3>1, TakeApart
  <2> QED
    BY <2>2, <2>3
<1>5. CASE host[c] # "live"
  <2>1. UNCHANGED <<host, waiting, low, buffer, toWorker>>
    BY <1>0, <1>5 DEF TakeClose
  <2>2. ASSUME NEW d \in Conns, d # c
        PROVE  Sound(d)'
    <3>1. Same(d) /\ Alike(toWorker, toWorker', d)
      BY <1>2, <2>1, AlikeSame DEF Same
    <3> QED
      BY <1>0, <1>1, <2>2, <3>1, TakeApart
  <2>3. Fresh(c) /\ Asked(c) /\ OneOutcome(c) /\ Owned(c)
    BY DEF Ready, Sound
  <2>4. proxy[c] # "none"
    BY <1>3, <2>3 DEF Fresh
  <2>5. Fresh(c)' /\ Asked(c)' /\ OneOutcome(c)' /\ Tracks(c)'
    BY <1>2, <1>3, <1>5, <2>1, <2>3, <2>4 DEF Fresh, Asked, OneOutcome, Opened, Tracks
  <2>6. Owned(c)'
    BY <1>2, <1>3, <1>5, <2>1, <2>3 DEF Owned
  <2> QED
    BY <2>2, <2>5, <2>6 DEF Sound
<1> QED
  BY <1>4, <1>5

LEMMA TakeSendSound ==
  ASSUME Ready, TakeSend
  PROVE  \A d \in Conns : Sound(d)'
<1>0. PICK c \in Conns : c = TakenFor
  BY TakenFact DEF TakeSend, Ready
<1>1. /\ toPage # <<>> /\ toPage' = Tail(toPage) /\ Taken("peer-send")
      /\ Head(toPage).t = "peer-send" /\ Head(toPage).c = c /\ Head(toPage) \in PageMsgs
      /\ toPage \in Seq(PageMsgs)
  BY <1>0, TakenFact DEF TakeSend, TakenFor, Ready, PeerTypes
<1>2. PICK seq \in 1..MaxFrames : Head(toPage).seq = seq
  BY <1>1, PageMsgFact
<1>3. UNCHANGED <<proxy, posted, inFlight, reported>>
  BY DEF TakeSend, Taken
<1>4. /\ Has(toPage, "peer-send", c) /\ ~Absent(toPage, c)
      /\ \A t : t # "peer-send" => (Has(toPage', t, c) <=> Has(toPage, t, c))
      /\ \A t : Has(toPage', t, c) => Has(toPage, t, c)
      /\ Once(toPage', "peer-open", c) /\ Once(toPage', "peer-wait-open", c)
      /\ OpenFirst(toPage', c)
  BY <1>1, PageTail DEF Ready
<1>5. Fresh(c) /\ Asked(c) /\ OneOutcome(c) /\ Owned(c) /\ Tracks(c)
  BY DEF Ready, Sound
<1>6. proxy[c] \in {"open", "closed"}
  BY <1>4, <1>5 DEF Fresh, Ready, PeerTypes
<1>7. CASE host[c] # "live"
  <2>1. UNCHANGED <<host, waiting, low, buffer, accepted, toWorker>>
    BY <1>0, <1>7 DEF TakeSend, TakenFor
  <2>2. ASSUME NEW d \in Conns, d # c
        PROVE  Sound(d)'
    <3>1. Same(d) /\ Alike(toWorker, toWorker', d)
      BY <1>3, <2>1, AlikeSame DEF Same
    <3> QED
      BY <1>0, <1>1, <2>2, <3>1, TakeApart
  <2>3. Fresh(c)' /\ Asked(c)' /\ OneOutcome(c)' /\ Tracks(c)' /\ Owned(c)'
    BY <1>3, <1>4, <1>5, <1>6, <1>7, <2>1 DEF Fresh, Asked, OneOutcome, Opened, Tracks, Owned
  <2> QED
    BY <2>2, <2>3 DEF Sound
<1>8. CASE host[c] = "live" /\ Full(c)
  <2>1. LetGo(c) /\ Answer(Msg("peer-closed", c)) /\ UNCHANGED accepted
    BY <1>0, <1>8 DEF TakeSend, TakenFor, Refuse
  <2>2. Sound(c)'
    BY <1>3, <1>4, <1>8, <2>1, GoneSound
  <2>3. ASSUME NEW d \in Conns, d # c
        PROVE  Sound(d)'
    <3>1. Same(d) /\ Alike(toWorker, toWorker', d)
      BY <1>3, <2>1, <2>3, GoneApart
    <3> QED
      BY <1>0, <1>1, <2>3, <3>1, TakeApart
  <2> QED
    BY <2>2, <2>3
<1>9. CASE host[c] = "live" /\ ~Full(c)
  <2> DEFINE buf == buffer[c] + 1
             m == Drained(c, seq, buf)
  <2>1. /\ buffer' = [buffer EXCEPT ![c] = @ + 1] /\ accepted' = [accepted EXCEPT ![c] = seq]
        /\ Answer(m) /\ UNCHANGED <<host, waiting, low>>
    BY <1>0, <1>2, <1>9 DEF TakeSend, TakenFor
  <2>2. /\ buffer[c] \in Nat /\ buf \in 0..Cap /\ seq \in 0..MaxFrames /\ seq \in Nat
        /\ accepted[c] \in Nat /\ posted[c] \in Nat
    BY <1>2, <1>9, WorkerAssumption DEF Full, Ready, PeerTypes
  <2>3. /\ m \in WorkerMsgs /\ m.t = "peer-drain" /\ m.c = c /\ m.seq = seq /\ m.bytes = buf
        /\ toWorker \in Seq(WorkerMsgs) /\ toWorker' = Append(toWorker, m)
    BY <2>1, <2>2, MsgFact DEF Answer, Ready, PeerTypes
  <2>4. /\ buffer'[c] = buf /\ accepted'[c] = seq
        /\ \A d \in Conns \ {c} : buffer'[d] = buffer[d] /\ accepted'[d] = accepted[d]
    BY <2>1 DEF Ready, PeerTypes
  <2> HIDE DEF m
  <2>5. ASSUME NEW d \in Conns, d # c
        PROVE  Sound(d)'
    <3>1. Same(d)
      BY <1>3, <2>1, <2>4, <2>5 DEF Same
    <3>2. Alike(toWorker, toWorker', d)
      BY <2>3, <2>5, QueuesApart DEF Ready
    <3> QED
      BY <1>0, <1>1, <2>5, <3>1, <3>2, TakeApart
  <2>6. \A t : Has(toWorker', t, c) <=> Has(toWorker, t, c) \/ t = "peer-drain"
    BY <2>1, <2>3, WorkerAppend DEF Ready
  <2>7. Fresh(c)' /\ Asked(c)' /\ OneOutcome(c)' /\ Owned(c)'
    BY <1>3, <1>4, <1>5, <1>6, <1>9, <2>1, <2>6 DEF Fresh, Asked, OneOutcome, Opened, Owned
  <2>8. Tracks(c)'
    <3> SUFFICES ASSUME proxy[c] = "open"
                 PROVE  \E known \in 0..seq :
                          /\ seq <= posted[c]
                          /\ Sends(toPage', c, seq, posted[c])
                          /\ inFlight[c] = (known + 1)..posted[c]
                          /\ buf <= reported[c] + (seq - known)
                          /\ Reports(toWorker', c, known, seq, buf)
      BY <1>3, <2>1, <2>4 DEF Tracks
    <3>1. PICK known \in 0..accepted[c] :
            /\ accepted[c] <= posted[c]
            /\ Sends(toPage, c, accepted[c], posted[c])
            /\ inFlight[c] = (known + 1)..posted[c]
            /\ buffer[c] <= reported[c] + (accepted[c] - known)
            /\ Reports(toWorker, c, known, accepted[c], buffer[c])
      BY <1>5, <1>9 DEF Tracks
    <3>2. \A i \in DOMAIN toPage : IsSend(toPage[i], c) => toPage[i].seq \in Nat
      BY NumberedFact DEF Numbered, Ready
    <3>3. \A i \in DOMAIN toWorker : IsDrain(toWorker[i], c) =>
            toWorker[i].seq \in Nat /\ toWorker[i].bytes \in Nat
      BY NumberedFact DEF Numbered, Ready
    <3>4. IsSend(Head(toPage), c)
      BY <1>1 DEF IsSend
    <3>5. seq = accepted[c] + 1 /\ seq <= posted[c] /\ Sends(toPage', c, seq, posted[c])
      BY <1>1, <1>2, <2>2, <3>1, <3>2, <3>4, TailSends
    <3>6. Reports(toWorker, c, known, seq, buf)
      <4>1. Reports(toWorker, c, known, accepted[c] + 1, buffer[c] + 1)
        BY <2>2, <3>1, <3>3, ReportsLater
      <4> QED
        BY <3>5, <4>1
    <3>7. known \in Nat /\ known <= seq
      BY <2>2, <3>1, <3>5
    <3>8. Reports(toWorker', c, known, seq, buf)
      <4>1. buf \in Nat
        BY <2>2
      <4> HIDE DEF buf
      <4> QED
        BY <2>2, <2>3, <3>3, <3>6, <3>7, <4>1, AppendReports
    <3>9. buf <= reported[c] + (seq - known)
      BY <2>2, <3>1, <3>5 DEF Ready, PeerTypes
    <3> QED
      BY <2>2, <3>1, <3>5, <3>7, <3>8, <3>9
  <2> QED
    BY <2>5, <2>7, <2>8 DEF Sound
<1> QED
  BY <1>7, <1>8, <1>9

(* What happens on the page by itself.                                     *)
LEMMA OpensSound ==
  ASSUME Ready, NEW c \in Conns, Opens(c)
  PROVE  \A d \in Conns : Sound(d)'
<1> DEFINE m == Msg("peer-opened", c)
<1>1. /\ m \in WorkerMsgs /\ m.c = c /\ m.t = "peer-opened"
      /\ host[c] = "live" /\ ~waiting'[c]
      /\ \A d \in Conns \ {c} : waiting'[d] = waiting[d]
      /\ IF waiting[c] THEN Answer(m) ELSE toWorker' = toWorker
      /\ UNCHANGED <<proxy, posted, inFlight, reported, host, buffer, low, accepted, toPage>>
  BY MsgFact DEF Opens, Ready, PeerTypes
<1> HIDE DEF m
<1>2. ASSUME NEW d \in Conns, d # c
      PROVE  Sound(d)'
  <2>1. Same(d)
    BY <1>1, <1>2 DEF Same
  <2>2. Alike(toPage, toPage', d) /\ Alike(toWorker, toWorker', d)
    BY <1>1, <1>2, QueuesApart, AlikeSame DEF Ready, Answer
  <2> QED
    BY <2>1, <2>2, ApartFact DEF Ready
<1>3. Fresh(c) /\ Asked(c) /\ OneOutcome(c) /\ Owned(c) /\ Tracks(c)
  BY DEF Ready, Sound
<1>4. CASE ~waiting[c]
  <2>1. Fresh(c)' /\ Asked(c)' /\ OneOutcome(c)' /\ Owned(c)' /\ Tracks(c)'
    BY <1>1, <1>3, <1>4 DEF Fresh, Asked, OneOutcome, Opened, Owned, Tracks
  <2> QED
    BY <1>2, <2>1 DEF Sound
<1>5. CASE waiting[c]
  <2>1. \A t : Has(toWorker', t, c) <=> Has(toWorker, t, c) \/ t = "peer-opened"
    BY <1>1, <1>5, WorkerAppend DEF Ready
  <2>2. Fresh(c)' /\ Asked(c)' /\ OneOutcome(c)' /\ Owned(c)' /\ Tracks(c)'
    BY <1>1, <1>3, <1>5, <2>1 DEF Fresh, Asked, OneOutcome, Opened, Owned, Tracks
  <2> QED
    BY <1>2, <2>2 DEF Sound
<1> QED
  BY <1>4, <1>5

LEMMA TimesOutSound ==
  ASSUME Ready, NEW c \in Conns, TimesOut(c)
  PROVE  \A d \in Conns : Sound(d)'
<1> DEFINE m == Msg("peer-failed", c)
<1>1. /\ m \in WorkerMsgs /\ m.c = c /\ m.t = "peer-failed"
      /\ host[c] = "live" /\ waiting[c] /\ ~waiting'[c] /\ Answer(m)
      /\ \A d \in Conns \ {c} : waiting'[d] = waiting[d]
      /\ UNCHANGED <<proxy, posted, inFlight, reported, host, buffer, low, accepted, toPage>>
  BY MsgFact DEF TimesOut, Ready, PeerTypes
<1> HIDE DEF m
<1>2. ASSUME NEW d \in Conns, d # c
      PROVE  Sound(d)'
  <2>1. Same(d)
    BY <1>1, <1>2 DEF Same
  <2>2. Alike(toPage, toPage', d) /\ Alike(toWorker, toWorker', d)
    BY <1>1, <1>2, QueuesApart, AlikeSame DEF Ready, Answer
  <2> QED
    BY <2>1, <2>2, ApartFact DEF Ready
<1>3. Fresh(c) /\ Asked(c) /\ OneOutcome(c) /\ Owned(c)
  BY DEF Ready, Sound
<1>4. \A t : Has(toWorker', t, c) <=> Has(toWorker, t, c) \/ t = "peer-failed"
  BY <1>1, WorkerAppend DEF Ready
<1>5. Fresh(c)' /\ Asked(c)' /\ OneOutcome(c)' /\ Owned(c)' /\ Tracks(c)'
  BY <1>1, <1>3, <1>4 DEF Fresh, Asked, OneOutcome, Opened, Owned, Tracks
<1> QED
  BY <1>2, <1>5 DEF Sound

LEMMA FlowsSound ==
  ASSUME Ready, NEW c \in Conns, Flows(c)
  PROVE  \A d \in Conns : Sound(d)'
<1>1. /\ buffer[c] > 0 /\ buffer[c] \in Nat /\ buffer'[c] = buffer[c] - 1
      /\ \A d \in Conns \ {c} : buffer'[d] = buffer[d] /\ low'[d] = low[d]
      /\ UNCHANGED <<proxy, posted, inFlight, reported, host, waiting, accepted, toPage, toWorker>>
  BY DEF Flows, Ready, PeerTypes
<1>2. ASSUME NEW d \in Conns, d # c
      PROVE  Sound(d)'
  <2>1. Same(d)
    BY <1>1, <1>2 DEF Same
  <2> QED
    BY <1>1, <2>1, ApartFact, AlikeSame DEF Ready
<1>3. Fresh(c) /\ Asked(c) /\ OneOutcome(c) /\ Owned(c) /\ Tracks(c)
  BY DEF Ready, Sound
<1>4. proxy[c] \notin {"none", "opening"}
  BY <1>1, <1>3 DEF Fresh
<1>5. Fresh(c)' /\ Asked(c)' /\ OneOutcome(c)' /\ Owned(c)'
  BY <1>1, <1>3, <1>4 DEF Fresh, Asked, OneOutcome, Opened, Owned
<1>6. Tracks(c)'
  <2> SUFFICES ASSUME proxy[c] = "open", host[c] = "live"
               PROVE  \E known \in 0..accepted[c] :
                        /\ accepted[c] <= posted[c]
                        /\ Sends(toPage, c, accepted[c], posted[c])
                        /\ inFlight[c] = (known + 1)..posted[c]
                        /\ buffer'[c] <= reported[c] + (accepted[c] - known)
                        /\ Reports(toWorker, c, known, accepted[c], buffer'[c])
    BY <1>1 DEF Tracks
  <2>1. PICK known \in 0..accepted[c] :
          /\ accepted[c] <= posted[c]
          /\ Sends(toPage, c, accepted[c], posted[c])
          /\ inFlight[c] = (known + 1)..posted[c]
          /\ buffer[c] <= reported[c] + (accepted[c] - known)
          /\ Reports(toWorker, c, known, accepted[c], buffer[c])
    BY <1>3 DEF Tracks
  <2>2. /\ accepted[c] \in Nat /\ reported[c] \in Nat /\ known \in Nat
        /\ buffer'[c] \in Nat /\ buffer'[c] <= buffer[c]
    BY <1>1 DEF Ready, PeerTypes
  <2>3. \A i \in DOMAIN toWorker : IsDrain(toWorker[i], c) =>
          toWorker[i].seq \in Nat /\ toWorker[i].bytes \in Nat
    BY NumberedFact DEF Numbered, Ready
  <2>4. Reports(toWorker, c, known, accepted[c] + 0, buffer'[c] + 0)
    BY <1>1, <2>1, <2>2, <2>3, ReportsLater
  <2>5. accepted[c] + 0 = accepted[c] /\ buffer'[c] + 0 = buffer'[c]
    BY <2>2
  <2>6. buffer'[c] <= reported[c] + (accepted[c] - known)
    BY <1>1, <2>1, <2>2
  <2> QED
    BY <2>1, <2>4, <2>5, <2>6
<1> QED
  BY <1>2, <1>5, <1>6 DEF Sound

LEMMA LowSound ==
  ASSUME Ready, NEW c \in Conns, Low(c)
  PROVE  \A d \in Conns : Sound(d)'
<1> DEFINE m == Drained(c, accepted[c], buffer[c])
<1>1. /\ m \in WorkerMsgs /\ m.c = c /\ m.t = "peer-drain"
      /\ m.seq = accepted[c] /\ m.bytes = buffer[c]
  BY MsgFact DEF Ready, PeerTypes
<1>2. /\ low[c] /\ Answer(m) /\ toWorker' = Append(toWorker, m) /\ toWorker \in Seq(WorkerMsgs)
      /\ \A d \in Conns \ {c} : low'[d] = low[d]
      /\ UNCHANGED <<proxy, posted, inFlight, reported, host, waiting, buffer, accepted, toPage>>
  BY DEF Low, Answer, Ready, PeerTypes
<1> HIDE DEF m
<1>3. ASSUME NEW d \in Conns, d # c
      PROVE  Sound(d)'
  <2>1. Same(d)
    BY <1>2, <1>3 DEF Same
  <2>2. Alike(toPage, toPage', d) /\ Alike(toWorker, toWorker', d)
    BY <1>1, <1>2, <1>3, QueuesApart, AlikeSame DEF Ready
  <2> QED
    BY <2>1, <2>2, ApartFact DEF Ready
<1>4. Fresh(c) /\ Asked(c) /\ OneOutcome(c) /\ Owned(c) /\ Tracks(c)
  BY DEF Ready, Sound
<1>5. proxy[c] \notin {"none", "opening"}
  <2>1. proxy[c] \in {"none", "opening"} => ~low[c]
    BY <1>4 DEF Fresh
  <2> QED
    BY <1>2, <2>1
<1>6. \A t : Has(toWorker', t, c) <=> Has(toWorker, t, c) \/ t = "peer-drain"
  BY <1>1, <1>2, WorkerAppend DEF Ready
<1>7. Fresh(c)' /\ Asked(c)' /\ OneOutcome(c)' /\ Owned(c)'
  BY <1>2, <1>4, <1>5, <1>6 DEF Fresh, Asked, OneOutcome, Opened, Owned
<1>8. Tracks(c)'
  <2> SUFFICES ASSUME proxy[c] = "open", host[c] = "live"
               PROVE  \E known \in 0..accepted[c] :
                        /\ accepted[c] <= posted[c]
                        /\ Sends(toPage, c, accepted[c], posted[c])
                        /\ inFlight[c] = (known + 1)..posted[c]
                        /\ buffer[c] <= reported[c] + (accepted[c] - known)
                        /\ Reports(toWorker', c, known, accepted[c], buffer[c])
    BY <1>2 DEF Tracks
  <2>1. PICK known \in 0..accepted[c] :
          /\ accepted[c] <= posted[c]
          /\ Sends(toPage, c, accepted[c], posted[c])
          /\ inFlight[c] = (known + 1)..posted[c]
          /\ buffer[c] <= reported[c] + (accepted[c] - known)
          /\ Reports(toWorker, c, known, accepted[c], buffer[c])
    BY <1>4 DEF Tracks
  <2>2. accepted[c] \in Nat /\ buffer[c] \in Nat /\ known \in Nat /\ known <= accepted[c]
    BY DEF Ready, PeerTypes
  <2>3. \A i \in DOMAIN toWorker : IsDrain(toWorker[i], c) => toWorker[i].seq \in Nat
    BY NumberedFact DEF Numbered, Ready
  <2>4. Reports(toWorker', c, known, accepted[c], buffer[c])
    BY <1>1, <1>2, <2>1, <2>2, <2>3, AppendReports
  <2> QED
    BY <2>1, <2>4
<1> QED
  BY <1>3, <1>7, <1>8 DEF Sound

LEMMA UnmountSound ==
  ASSUME TypeOK, Unmount
  PROVE  TypeOK' /\ \A d \in Conns : Sound(d)'
<1>1. /\ \A d \in Conns : host'[d] = "gone" /\ proxy'[d] = "closed" /\ ~waiting'[d]
      /\ toPage' = <<>> /\ toWorker' = <<>>
  BY DEF Unmount
<1>2. \A d \in Conns : Sound(d)'
  BY <1>1 DEF Sound, Fresh, Asked, OneOutcome, Opened, Owned, Tracks, Has, Once, OpenFirst
<1>3. busy' \in [Files -> SUBSET Kinds]
  BY DEF Unmount, TypeOK, SinkTypes, Kinds
<1>4. PeerTypes'
  BY WorkerAssumption DEF Unmount, PeerTypes
<1>5. SinkTypes'
  BY <1>3 DEF Unmount, TypeOK, SinkTypes
<1> QED
  BY <1>2, <1>4, <1>5 DEF TypeOK, PeerTypes, SinkTypes

(* Sinks.                                                                  *)
LEMMA AskFact ==
  ASSUME SinkTypes, NEW f \in Files, NEW k \in Kinds, Ask(f, k)
  PROVE  asks' \in [Files -> Seq(Kinds)]
BY DEF Ask, SinkTypes

LEMMA ResultFact ==
  ASSUME SinkTypes, torn \in BOOLEAN, NEW f \in Files, NEW k \in Kinds, NEW ok \in BOOLEAN,
         Result(f, k, ok)
  PROVE  answers' \in [Files -> SUBSET [k : Kinds, ok : BOOLEAN]]
BY DEF Result, SinkTypes

ReceiverStep(f) ==
  \/ OpenSink(f) \/ Write(f) \/ Cancel(f)
  \/ \E whole \in BOOLEAN : Finish(f, whole)
  \/ \E a \in answers[f] : HearResult(f, a)
SinkStep(f) ==
  \/ TakeAsk(f)
  \/ \E ok \in BOOLEAN : Built(f, ok)
  \/ \E k \in busy[f], ok \in BOOLEAN : Done(f, k, ok)

LEMMA ReceiverTypes ==
  ASSUME SinkTypes, NEW f \in Files, ReceiverStep(f)
  PROVE  SinkTypes' /\ UNCHANGED <<torn, peerVars>>
<1>1. Kinds = {"open", "write", "close", "abort"}
  BY DEF Kinds
<1>2. CASE OpenSink(f)
  <2>1. asks' \in [Files -> Seq(Kinds)]
    BY <1>1, <1>2, AskFact DEF OpenSink
  <2> QED
    BY <1>2, <2>1 DEF OpenSink, Worker, Sinks, SinkTypes, Awaiting
<1>3. CASE Write(f)
  <2>1. asks' \in [Files -> Seq(Kinds)]
    BY <1>1, <1>3, AskFact DEF Write
  <2>2. writes[f] + 1 \in 0..MaxWrites
    BY <1>3, WorkerAssumption DEF Write, SinkTypes
  <2> QED
    BY <1>3, <2>1, <2>2 DEF Write, Worker, Sinks, SinkTypes, Awaiting
<1>4. CASE Cancel(f)
  <2>1. asks' \in [Files -> Seq(Kinds)]
    BY <1>1, <1>4, AskFact DEF Cancel, SinkTypes
  <2> QED
    BY <1>4, <2>1 DEF Cancel, Worker, Sinks, SinkTypes, Awaiting
<1>5. ASSUME NEW whole \in BOOLEAN, Finish(f, whole)
      PROVE  SinkTypes' /\ UNCHANGED <<torn, peerVars>>
  <2>1. asks' \in [Files -> Seq(Kinds)]
    BY <1>1, <1>5, AskFact DEF Finish
  <2>2. failed' \in [Files -> BOOLEAN]
    BY <1>5 DEF Finish, SinkTypes
  <2> QED
    BY <1>5, <2>1, <2>2 DEF Finish, Worker, Sinks, SinkTypes, Awaiting
<1>6. ASSUME NEW a \in answers[f], HearResult(f, a)
      PROVE  SinkTypes' /\ UNCHANGED <<torn, peerVars>>
  <2>1. asks' \in [Files -> Seq(Kinds)]
    <3>1. UNCHANGED asks \/ Ask(f, "abort")
      BY <1>6 DEF HearResult, ReleasesSink
    <3> QED
      BY <1>1, <3>1, AskFact DEF SinkTypes
  <2>2. answers' \in [Files -> SUBSET [k : Kinds, ok : BOOLEAN]]
    BY <1>6 DEF HearResult, SinkTypes
  <2>3. /\ failed' \in [Files -> BOOLEAN]
        /\ file' \in [Files -> {"none", "idle", "over"} \cup Awaiting]
    BY <1>6 DEF HearResult, SinkTypes, Awaiting
  <2> QED
    BY <1>6, <2>1, <2>2, <2>3 DEF HearResult, Worker, Sinks, SinkTypes
<1> QED
  BY <1>2, <1>3, <1>4, <1>5, <1>6 DEF ReceiverStep

LEMMA PageSinkTypes ==
  ASSUME SinkTypes, torn \in BOOLEAN, NEW f \in Files, SinkStep(f)
  PROVE  SinkTypes' /\ UNCHANGED <<torn, peerVars>>
<1>1. Kinds = {"open", "write", "close", "abort"}
  BY DEF Kinds
<1>2. CASE TakeAsk(f)
  <2>1. /\ Head(asks[f]) \in Kinds /\ Tail(asks[f]) \in Seq(Kinds)
        /\ asks' \in [Files -> Seq(Kinds)]
    <3>1. asks[f] \in Seq(Kinds) /\ asks[f] # <<>>
      BY <1>2 DEF TakeAsk, SinkTypes
    <3>2. Head(asks[f]) \in Kinds /\ Tail(asks[f]) \in Seq(Kinds)
      BY <3>1, TailFact
    <3> QED
      BY <1>2, <3>2 DEF TakeAsk, SinkTypes
  <2> DEFINE k == Head(asks[f])
  <2>2. answers' \in [Files -> SUBSET [k : Kinds, ok : BOOLEAN]]
    <3>1. UNCHANGED answers \/ \E ok \in BOOLEAN : Result(f, k, ok)
      <4>1. UNCHANGED answers \/ Result(f, k, k = "abort")
        BY <1>2 DEF TakeAsk
      <4>2. (k = "abort") \in BOOLEAN
        OBVIOUS
      <4> QED
        BY <4>1, <4>2 DEF Result
    <3> HIDE DEF k
    <3>2. k \in Kinds
      BY <2>1 DEF k
    <3>3. CASE UNCHANGED answers
      BY <3>3 DEF SinkTypes
    <3>4. ASSUME NEW ok \in BOOLEAN, Result(f, k, ok)
          PROVE  answers' \in [Files -> SUBSET [k : Kinds, ok : BOOLEAN]]
      BY <3>2, <3>4, ResultFact
    <3> QED
      BY <3>1, <3>3, <3>4
  <2>3. busy' \in [Files -> SUBSET Kinds] /\ building' \in [Files -> BOOLEAN]
    <3>1. /\ UNCHANGED busy \/ busy' = [busy EXCEPT ![f] = @ \cup {k}]
          /\ UNCHANGED building \/ building' = [building EXCEPT ![f] = TRUE]
      BY <1>2 DEF TakeAsk
    <3> HIDE DEF k
    <3>2. k \in Kinds
      BY <2>1 DEF k
    <3>3. busy' \in [Files -> SUBSET Kinds]
      <4>1. busy \in [Files -> SUBSET Kinds]
        BY DEF SinkTypes
      <4>2. busy[f] \cup {k} \in SUBSET Kinds
        BY <3>2, <4>1
      <4> QED
        BY <3>1, <4>1, <4>2
    <3>4. building' \in [Files -> BOOLEAN]
      BY <3>1 DEF SinkTypes
    <3> QED
      BY <3>3, <3>4
  <2>4. held' \in [Files -> BOOLEAN]
    <3>1. UNCHANGED held \/ held' = [held EXCEPT ![f] = k = "write"]
      BY <1>2 DEF TakeAsk
    <3> QED
      BY <3>1 DEF SinkTypes
  <2> QED
    BY <1>2, <2>1, <2>2, <2>3, <2>4 DEF TakeAsk, Page, Sinks, SinkTypes
<1>3. ASSUME NEW ok \in BOOLEAN, Built(f, ok)
      PROVE  SinkTypes' /\ UNCHANGED <<torn, peerVars>>
  <2>1. answers' \in [Files -> SUBSET [k : Kinds, ok : BOOLEAN]]
    <3>1. (ok /\ ~torn) \in BOOLEAN
      OBVIOUS
    <3>2. Result(f, "open", ok /\ ~torn)
      BY <1>3 DEF Built
    <3> QED
      BY <1>1, <3>1, <3>2, ResultFact
  <2>2. held' \in [Files -> BOOLEAN] /\ building' \in [Files -> BOOLEAN]
    BY <1>3 DEF Built, SinkTypes
  <2>3. disk' \in [Files -> {"none", "open", "closed", "aborted"}]
    BY <1>3 DEF Built, KeepsSink, AbandonsSink, SinkTypes
  <2> QED
    BY <1>3, <2>1, <2>2, <2>3 DEF Built, Page, Sinks, SinkTypes
<1>4. ASSUME NEW k \in busy[f], NEW ok \in BOOLEAN, Done(f, k, ok)
      PROVE  SinkTypes' /\ UNCHANGED <<torn, peerVars>>
  <2>1. k \in Kinds
    BY DEF SinkTypes
  <2>2. answers' \in [Files -> SUBSET [k : Kinds, ok : BOOLEAN]]
    BY <1>4, <2>1, ResultFact DEF Done
  <2>3. /\ busy' \in [Files -> SUBSET Kinds]
        /\ disk' \in [Files -> {"none", "open", "closed", "aborted"}]
    BY <1>4 DEF Done, SinkTypes
  <2> QED
    BY <1>4, <2>2, <2>3 DEF Done, Page, Sinks, SinkTypes
<1> QED
  BY <1>2, <1>3, <1>4 DEF SinkStep
-----------------------------------------------------------------------------
PeerStep ==
  \/ \E c \in Conns : \/ Create(c) \/ Close(c)
                      \/ Opens(c) \/ TimesOut(c) \/ Dies(c) \/ Flows(c) \/ Low(c)
                      \/ \E data \in BOOLEAN : Send(c, data)
  \/ Hears \/ Takes

LEMMA PeerStepFact ==
  ASSUME Ready, PeerStep
  PROVE  PeerTypes' /\ (\A d \in Conns : Sound(d)') /\ UNCHANGED sinkVars
<1>1. PeerTypes'
  BY WorkerTypes, PageTypes DEF PeerStep, Ready
<1>2. \A d \in Conns : Sound(d)'
  <2>1. ASSUME NEW c \in Conns,
               \/ Create(c) \/ Close(c) \/ Opens(c) \/ TimesOut(c) \/ Dies(c)
               \/ Flows(c) \/ Low(c) \/ \E data \in BOOLEAN : Send(c, data)
        PROVE  \A d \in Conns : Sound(d)'
    BY <2>1, CreateSound, CloseSound, OpensSound, TimesOutSound, DiesSound, FlowsSound,
       LowSound, SendSound
  <2>2. CASE Hears
    BY <2>2, HearOpenedSound, HearFailedSound, HearDrainSound, HearClosedSound DEF Hears
  <2>3. CASE Takes
    BY <2>3, TakeOpenSound, TakeWaitSound, TakeSendSound, TakeCloseSound DEF Takes
  <2> QED
    BY <2>1, <2>2, <2>3 DEF PeerStep
<1>3. UNCHANGED sinkVars
  BY DEF PeerStep, Hears, Takes, Create, Close, Opens, TimesOut, Dies, Flows, Low, Send,
         HearOpened, HearFailed, HearDrain, HearClosed, Heard,
         TakeOpen, TakeWait, TakeSend, TakeClose, Taken, Peers
<1> QED
  BY <1>1, <1>2, <1>3

LEMMA InitIInv == Init => IInv
<1> SUFFICES ASSUME Init PROVE IInv
  OBVIOUS
<1>1. PeerTypes
  <2>1. <<>> \in Seq(PageMsgs) /\ <<>> \in Seq(WorkerMsgs) /\ 0 \in 0..MaxFrames /\ 0 \in 0..Cap
    BY WorkerAssumption
  <2> QED
    BY <2>1 DEF Init, PeerTypes
<1>2. SinkTypes
  BY WorkerAssumption DEF Init, SinkTypes
<1>3. ASSUME NEW c \in Conns
      PROVE  Sound(c)
  BY DEF Init, Sound, Fresh, Asked, OneOutcome, Opened, Owned, Tracks, Has, Once, OpenFirst,
         Absent
<1> QED
  BY <1>1, <1>2, <1>3 DEF IInv, TypeOK, PeerTypes, SinkTypes

LEMMA NextIInv == IInv /\ [Next]_vars => IInv'
<1> SUFFICES ASSUME IInv, [Next]_vars PROVE IInv'
  OBVIOUS
<1>1. Ready /\ SinkTypes /\ TypeOK /\ torn \in BOOLEAN
  BY DEF IInv, Ready, TypeOK, PeerTypes, SinkTypes
<1>2. ASSUME UNCHANGED <<torn, peerVars>>
      PROVE  PeerTypes' /\ \A d \in Conns : Sound(d)'
  <2>1. PeerTypes'
    BY <1>1, <1>2 DEF Ready, PeerTypes, peerVars
  <2>2. ASSUME NEW d \in Conns
        PROVE  Sound(d)'
    BY <1>1, <1>2, ApartFact, AlikeSame DEF Ready, Same, peerVars
  <2> QED
    BY <2>1, <2>2
<1>3. ASSUME UNCHANGED sinkVars
      PROVE  SinkTypes'
  BY <1>1, <1>3 DEF SinkTypes, sinkVars
<1>4. CASE PeerStep
  BY <1>1, <1>3, <1>4, PeerStepFact DEF IInv, TypeOK, PeerTypes, SinkTypes
<1>5. ASSUME NEW f \in Files, ReceiverStep(f) \/ SinkStep(f)
      PROVE  IInv'
  BY <1>1, <1>2, <1>5, ReceiverTypes, PageSinkTypes DEF IInv, TypeOK, PeerTypes, SinkTypes
<1>6. CASE Unmount
  BY <1>1, <1>6, UnmountSound DEF IInv
<1>7. CASE UNCHANGED vars
  BY <1>2, <1>3, <1>7 DEF vars, IInv, TypeOK, PeerTypes, SinkTypes
<1>8. Next => PeerStep \/ Unmount \/ \E f \in Files : ReceiverStep(f) \/ SinkStep(f)
  BY DEF Next, PeerStep, ReceiverStep, SinkStep
<1> QED
  BY <1>4, <1>5, <1>6, <1>7, <1>8

LEMMA SpecIInv == Spec => []IInv
BY InitIInv, NextIInv, PTL DEF Spec
-----------------------------------------------------------------------------
LEMMA SpanFact ==
  ASSUME NEW a \in Nat, NEW b \in Nat, a <= b
  PROVE  IsFiniteSet((a + 1)..b) /\ Cardinality((a + 1)..b) = b - a
<1>1. IsFiniteSet((a + 1)..b)
      /\ Cardinality((a + 1)..b) = IF a + 1 > b THEN 0 ELSE b - (a + 1) + 1
  BY FS_Interval
<1> QED
  BY <1>1

(* Every reachable state is well typed; in particular a channel buffers no *)
(* more than the browser's cap.                                            *)
THEOREM TypeCorrect == Spec => []TypeOK
<1>1. IInv => TypeOK
  BY DEF IInv
<1> QED
  BY SpecIInv, <1>1, PTL

(* The worker's estimate of what an open connection buffers covers what    *)
(* the page's channel holds and the frames on their way to it              *)
(* (peer-proxy.ts, get bufferedAmount).                                    *)
THEOREM EstimatesCover == Spec => []EstimateCovers
<1>1. IInv => EstimateCovers
  <2> SUFFICES ASSUME IInv, NEW c \in Conns, proxy[c] = "open", host[c] = "live"
               PROVE  buffer[c] + Cardinality(Pending(toPage, "peer-send", c)) <= Estimate(c)
    BY DEF EstimateCovers
  <2> DEFINE P == Pending(toPage, "peer-send", c)
             T == (accepted[c] + 1)..posted[c]
  <2>1. PICK known \in 0..accepted[c] :
          /\ accepted[c] <= posted[c]
          /\ Sends(toPage, c, accepted[c], posted[c])
          /\ inFlight[c] = (known + 1)..posted[c]
          /\ buffer[c] <= reported[c] + (accepted[c] - known)
    BY DEF IInv, Sound, Tracks
  <2>2. /\ accepted[c] \in Nat /\ posted[c] \in Nat /\ buffer[c] \in Nat /\ reported[c] \in Nat
        /\ toPage \in Seq(PageMsgs) /\ PeerTypes
    BY DEF IInv, TypeOK, PeerTypes
  <2>3. /\ IsFiniteSet(T) /\ Cardinality(T) = posted[c] - accepted[c]
        /\ Cardinality(inFlight[c]) = posted[c] - known
    <3>1. known \in Nat /\ known <= posted[c]
      BY <2>1, <2>2
    <3> QED
      BY <2>1, <2>2, <3>1, SpanFact
  <2>4. IsFiniteSet(P)
    <3>1. P \subseteq 1..Len(toPage) /\ Len(toPage) \in Nat
      BY <2>2 DEF Pending
    <3>2. IsFiniteSet(1..Len(toPage))
      BY <3>1, FS_Interval
    <3> HIDE DEF P
    <3> QED
      BY <3>1, <3>2, FS_Subset
  <2>5. Cardinality(P) \in Nat /\ Cardinality(P) <= Cardinality(T)
    <3> DEFINE g == [i \in P |-> toPage[i].seq]
    <3>1. \A i \in P : i \in DOMAIN toPage /\ i \in Int /\ IsSend(toPage[i], c)
                       /\ toPage[i].seq \in Nat
      BY <2>2, NumberedFact DEF Pending, IsSend, Numbered
    <3>2. g \in [P -> T]
      BY <2>1, <2>2, <3>1 DEF Sends
    <3>3. \A i, j \in P : i # j => g[i] # g[j]
      <4> SUFFICES ASSUME NEW i \in P, NEW j \in P, i < j
                   PROVE  g[i] < g[j] /\ g[i] \in Nat /\ g[j] \in Nat
        BY <3>1
      <4> QED
        BY <2>1, <3>1 DEF Sends
    <3> HIDE DEF g, P, T
    <3>4. ~(Cardinality(T) < Cardinality(P))
      BY <2>3, <2>4, <3>2, <3>3, FS_PigeonHole
    <3>5. Cardinality(P) \in Nat /\ Cardinality(T) \in Nat
      BY <2>3, <2>4, FS_CardinalityType
    <3> QED
      BY <3>4, <3>5
  <2> HIDE DEF P, T
  <2>6. buffer[c] + Cardinality(P) <= reported[c] + Cardinality(inFlight[c])
    BY <2>1, <2>2, <2>3, <2>5
  <2> QED
    BY <2>6 DEF P, Estimate
<1> QED
  BY SpecIInv, <1>1, PTL

(* No connection is left on the page that nothing will close, and the      *)
(* worker holds none the page let go of without telling it (peer-host.ts,  *)
(* retire and the handler of peer-close).                                  *)
THEOREM NobodyOrphaned == Spec => []NoOrphan
<1>1. \A q, t, c : Has(q, t, c) <=> Pending(q, t, c) # {}
  BY DEF Has, Pending
<1>2. IInv => NoOrphan
  BY <1>1 DEF IInv, Sound, Owned, NoOrphan
<1> QED
  BY SpecIInv, <1>2, PTL
-----------------------------------------------------------------------------
(* Who waits for a drain will be woken. What the worker has heard of a     *)
(* live connection and the last report on its way agree with what the page *)
(* has accepted; where they say the buffer is over the mark, the event of  *)
(* its draining is still to come.                                          *)
LastDrain(q, j, c) ==
  IsDrain(q[j], c) /\ \A i \in DOMAIN q : i > j => ~IsDrain(q[i], c)
Latest(q, c, acc) == \A j \in DOMAIN q : LastDrain(q, j, c) => q[j].seq = acc
OverMark(q, c) == \E j \in DOMAIN q : LastDrain(q, j, c) /\ q[j].bytes > HighWater
Relief(c) == low[c] \/ buffer[c] > HighWater

Heeded(c) ==
  /\ \A s \in inFlight[c] : s > accepted[c]
  /\ reported[c] > HighWater => Relief(c)
  /\ parked[c] /\ ~Has(toPage, "peer-send", c) => reported[c] > HighWater

Watch(c) ==
  /\ parked[c] => proxy[c] = "open"
  /\ proxy[c] = "open" /\ host[c] = "live" =>
       /\ Latest(toWorker, c, accepted[c])
       /\ OverMark(toWorker, c) => Relief(c)
       /\ ~Has(toWorker, "peer-drain", c) => Heeded(c)

(* What a step that hears or posts no report on d does to the queue.       *)
Calm(q, r, d) ==
  /\ Has(r, "peer-drain", d) <=> Has(q, "peer-drain", d)
  /\ \A acc : Latest(q, d, acc) => Latest(r, d, acc)
  /\ OverMark(r, d) => OverMark(q, d)

LEMMA TailLatest ==
  ASSUME NEW S, NEW q \in Seq(S), q # <<>>, NEW c
  PROVE  /\ \A acc : Latest(q, c, acc) => Latest(Tail(q), c, acc)
         /\ OverMark(Tail(q), c) => OverMark(q, c)
         /\ IsDrain(Head(q), c) /\ ~Has(Tail(q), "peer-drain", c) =>
              /\ \A acc : Latest(q, c, acc) => Head(q).seq = acc
              /\ Head(q).bytes > HighWater => OverMark(q, c)
<1>1. ASSUME NEW j \in DOMAIN Tail(q), LastDrain(Tail(q), j, c)
      PROVE  j + 1 \in DOMAIN q /\ Tail(q)[j] = q[j + 1] /\ LastDrain(q, j + 1, c)
  <2>1. j + 1 \in DOMAIN q /\ Tail(q)[j] = q[j + 1] /\ j \in Nat
    BY TailFact
  <2>2. ASSUME NEW i \in DOMAIN q, i > j + 1
        PROVE  ~IsDrain(q[i], c)
    <3>1. i - 1 \in DOMAIN Tail(q) /\ Tail(q)[i - 1] = q[i] /\ i - 1 > j
      BY <2>1, <2>2, TailFact
    <3> QED
      BY <1>1, <3>1 DEF LastDrain
  <2> QED
    BY <1>1, <2>1, <2>2 DEF LastDrain
<1>2. ASSUME IsDrain(Head(q), c), ~Has(Tail(q), "peer-drain", c)
      PROVE  1 \in DOMAIN q /\ q[1] = Head(q) /\ LastDrain(q, 1, c)
  <2>1. ASSUME NEW i \in DOMAIN q, i > 1
        PROVE  ~IsDrain(q[i], c)
    <3>1. i - 1 \in DOMAIN Tail(q) /\ Tail(q)[i - 1] = q[i]
      BY <2>1, TailFact
    <3> QED
      BY <1>2, <3>1 DEF Has, IsDrain
  <2> QED
    BY <1>2, <2>1, TailFact DEF LastDrain
<1> QED
  BY <1>1, <1>2 DEF Latest, OverMark

LEMMA AppendLatest ==
  ASSUME NEW S, NEW q \in Seq(S), NEW m \in S, NEW c
  PROVE  /\ ~IsDrain(m, c) =>
              /\ \A acc : Latest(q, c, acc) => Latest(Append(q, m), c, acc)
              /\ OverMark(Append(q, m), c) => OverMark(q, c)
         /\ IsDrain(m, c) =>
              /\ Latest(Append(q, m), c, m.seq)
              /\ OverMark(Append(q, m), c) => m.bytes > HighWater
<1> DEFINE r == Append(q, m)
           n == Len(q) + 1
<1>1. /\ \A i \in DOMAIN r : (i \in DOMAIN q /\ r[i] = q[i] /\ n > i) \/ i = n
      /\ \A i \in DOMAIN q : i \in DOMAIN r /\ r[i] = q[i]
      /\ n \in DOMAIN r /\ r[n] = m
  BY AppendFact
<1> HIDE DEF r, n
<1>2. ASSUME ~IsDrain(m, c), NEW j \in DOMAIN r, LastDrain(r, j, c)
      PROVE  j \in DOMAIN q /\ r[j] = q[j] /\ LastDrain(q, j, c)
  BY <1>1, <1>2 DEF LastDrain
<1>3. ASSUME IsDrain(m, c), NEW j \in DOMAIN r, LastDrain(r, j, c)
      PROVE  r[j] = m
  BY <1>1, <1>3 DEF LastDrain
<1>4. ~IsDrain(m, c) => /\ \A acc : Latest(q, c, acc) => Latest(r, c, acc)
                        /\ OverMark(r, c) => OverMark(q, c)
  BY <1>2 DEF Latest, OverMark
<1>5. IsDrain(m, c) => Latest(r, c, m.seq) /\ (OverMark(r, c) => m.bytes > HighWater)
  BY <1>3 DEF Latest, OverMark
<1> QED
  BY <1>4, <1>5 DEF r

LEMMA CalmFact ==
  ASSUME PeerTypes, NEW d \in Conns
  PROVE  /\ Calm(toWorker, toWorker, d)
         /\ toWorker # <<>> /\ ~IsDrain(Head(toWorker), d) => Calm(toWorker, Tail(toWorker), d)
         /\ \A m \in WorkerMsgs : ~IsDrain(m, d) => Calm(toWorker, Append(toWorker, m), d)
<1>1. toWorker \in Seq(WorkerMsgs)
  BY DEF PeerTypes
<1>2. \A m : Is(m, "peer-drain", d) <=> IsDrain(m, d)
  BY DEF Is, IsDrain
<1>3. Calm(toWorker, toWorker, d)
  BY DEF Calm
<1>4. ASSUME toWorker # <<>>, ~IsDrain(Head(toWorker), d)
      PROVE  Calm(toWorker, Tail(toWorker), d)
  BY <1>1, <1>2, <1>4, TailHas, TailLatest DEF Calm
<1>5. ASSUME NEW m \in WorkerMsgs, ~IsDrain(m, d)
      PROVE  Calm(toWorker, Append(toWorker, m), d)
  BY <1>1, <1>2, <1>5, AppendHas, AppendLatest DEF Calm
<1> QED
  BY <1>3, <1>4, <1>5

LEMMA MsgCalm ==
  ASSUME PeerTypes, NEW c \in Conns, NEW t \in {"peer-opened", "peer-failed", "peer-closed"},
         toWorker' = Append(toWorker, Msg(t, c)), NEW d \in Conns
  PROVE  Calm(toWorker, toWorker', d)
<1> DEFINE m == Msg(t, c)
<1>1. m \in WorkerMsgs /\ m.t = t
  BY MsgFact
<1>2. ~IsDrain(m, d)
  BY <1>1 DEF IsDrain
<1> HIDE DEF m
<1> QED
  BY <1>1, <1>2, CalmFact DEF m

(* Every step that neither reports on d, nor hears of it, nor sends for    *)
(* it, leaves it watched.                                                  *)
Undisturbed(d) ==
  /\ proxy[d] = "open" /\ host[d] = "live"
  /\ inFlight'[d] = inFlight[d] /\ reported'[d] = reported[d] /\ accepted'[d] = accepted[d]
  /\ Relief(d) => Relief(d)'
  /\ Calm(toWorker, toWorker', d)
  /\ Has(toPage, "peer-send", d) => Has(toPage', "peer-send", d)

LEMMA WatchKept ==
  ASSUME NEW d \in Conns, Watch(d), parked'[d] => parked[d] /\ proxy'[d] = "open",
         proxy'[d] = "open" /\ host'[d] = "live" => Undisturbed(d)
  PROVE  Watch(d)'
<1>1. ASSUME proxy'[d] = "open", host'[d] = "live"
      PROVE  /\ Latest(toWorker', d, accepted'[d])
             /\ OverMark(toWorker', d) => Relief(d)'
             /\ ~Has(toWorker', "peer-drain", d) => Heeded(d)'
  <2>1. Undisturbed(d)
    BY <1>1
  <2>2. /\ Latest(toWorker, d, accepted[d]) /\ (OverMark(toWorker, d) => Relief(d))
        /\ ~Has(toWorker, "peer-drain", d) => Heeded(d)
    BY <2>1 DEF Undisturbed, Watch
  <2>3. Latest(toWorker', d, accepted'[d]) /\ (OverMark(toWorker', d) => Relief(d)')
    BY <2>1, <2>2 DEF Undisturbed, Calm
  <2>4. ~Has(toWorker', "peer-drain", d) => Heeded(d)'
    BY <2>1, <2>2 DEF Undisturbed, Calm, Heeded
  <2> QED
    BY <2>3, <2>4
<1> QED
  BY <1>1 DEF Watch

(* The worker's steps.                                                     *)
Watched == \A d \in Conns : Watch(d)

LEMMA SendsPending ==
  ASSUME Ready, NEW c \in Conns, toPage' \in Seq(PageMsgs)
  PROVE  /\ \A m \in PageMsgs : toPage' = Append(toPage, m) /\ Has(toPage, "peer-send", c) =>
              Has(toPage', "peer-send", c)
         /\ toPage # <<>> /\ toPage' = Tail(toPage) /\ ~IsSend(Head(toPage), c)
              /\ Has(toPage, "peer-send", c) => Has(toPage', "peer-send", c)
<1>1. toPage \in Seq(PageMsgs)
  BY DEF Ready, PeerTypes
<1>2. ASSUME NEW m \in PageMsgs, toPage' = Append(toPage, m), Has(toPage, "peer-send", c)
      PROVE  Has(toPage', "peer-send", c)
  BY <1>1, <1>2, AppendHas
<1>3. ASSUME toPage # <<>>, toPage' = Tail(toPage), ~IsSend(Head(toPage), c),
             Has(toPage, "peer-send", c)
      PROVE  Has(toPage', "peer-send", c)
  <2>1. ~Is(Head(toPage), "peer-send", c)
    BY <1>3 DEF Is, IsSend
  <2> QED
    BY <1>1, <1>3, <2>1, TailHas
<1> QED
  BY <1>2, <1>3

LEMMA WorkerWatch ==
  ASSUME Ready, Watched, NEW c \in Conns, Create(c) \/ Close(c)
  PROVE  Watched'
<1> SUFFICES ASSUME NEW d \in Conns PROVE Watch(d)'
  BY DEF Watched
<1>1. Watch(d) /\ PeerTypes
  BY DEF Watched, Ready
<1>2. CASE Create(c)
  <2>1. /\ UNCHANGED <<inFlight, reported, parked, host, buffer, low, accepted, toWorker>>
        /\ proxy'[c] = "opening" /\ proxy[c] = "none" /\ (d # c => proxy'[d] = proxy[d])
    BY <1>1, <1>2 DEF Create, PeerTypes
  <2>2. Has(toPage, "peer-send", d) => Has(toPage', "peer-send", d)
    <3> DEFINE open == Msg("peer-open", c)
               wait == Msg("peer-wait-open", c)
               once == Append(toPage, open)
    <3>1. open \in PageMsgs /\ wait \in PageMsgs
      BY MsgFact
    <3>2. toPage \in Seq(PageMsgs) /\ once \in Seq(PageMsgs) /\ toPage' = Append(once, wait)
      BY <1>1, <1>2, <3>1 DEF PeerTypes, Create
    <3> HIDE DEF open, wait
    <3>3. Has(toPage, "peer-send", d) => Has(once, "peer-send", d)
      BY <3>1, <3>2, AppendHas
    <3> HIDE DEF once
    <3> QED
      BY <3>1, <3>2, <3>3, AppendHas
  <2>3. parked'[d] => parked[d] /\ proxy'[d] = "open"
    BY <1>1, <2>1 DEF Watch
  <2>4. proxy'[d] = "open" /\ host'[d] = "live" => Undisturbed(d)
    BY <1>1, <2>1, <2>2, CalmFact DEF Undisturbed, Relief
  <2> QED
    BY <1>1, <2>3, <2>4, WatchKept
<1>3. CASE Close(c)
  <2>1. /\ UNCHANGED <<inFlight, reported, host, buffer, low, accepted, toWorker>>
        /\ proxy'[c] = "closed" /\ ~parked'[c]
        /\ d # c => proxy'[d] = proxy[d] /\ parked'[d] = parked[d]
    BY <1>1, <1>3 DEF Close, Retire, PeerTypes
  <2>2. Has(toPage, "peer-send", d) => Has(toPage', "peer-send", d)
    BY <1>1, <1>3, PostCloseFact, MsgFact, SendsPending DEF Close, PostClose
  <2>3. parked'[d] => parked[d] /\ proxy'[d] = "open"
    BY <1>1, <2>1 DEF Watch
  <2>4. proxy'[d] = "open" /\ host'[d] = "live" => Undisturbed(d)
    BY <1>1, <2>1, <2>2, CalmFact DEF Undisturbed, Relief
  <2> QED
    BY <1>1, <2>3, <2>4, WatchKept
<1> QED
  BY <1>2, <1>3

LEMMA SendWatch ==
  ASSUME Ready, Watched, NEW c \in Conns, NEW data \in BOOLEAN, Send(c, data)
  PROVE  Watched'
<1> DEFINE seq == posted[c] + 1
           m == SendMsg(c, seq)
<1>1. posted[c] \in Nat /\ seq \in 1..MaxFrames /\ accepted[c] \in Nat
  BY WorkerAssumption DEF Send, Ready, PeerTypes
<1>2. /\ m \in PageMsgs /\ m.c = c /\ m.t = "peer-send"
      /\ toPage' = Append(toPage, m) /\ toPage \in Seq(PageMsgs)
  BY <1>1, MsgFact DEF Send, Ready, PeerTypes
<1> HIDE DEF m
<1>3. /\ UNCHANGED <<proxy, reported, host, buffer, low, accepted, toWorker>>
      /\ proxy[c] = "open" /\ inFlight'[c] = inFlight[c] \cup {seq}
      /\ \A d \in Conns \ {c} : inFlight'[d] = inFlight[d] /\ parked'[d] = parked[d]
  BY DEF Send, Ready, PeerTypes
<1>4. ASSUME NEW d \in Conns, d # c
      PROVE  Watch(d)'
  <2>1. Has(toPage, "peer-send", d) => Has(toPage', "peer-send", d)
    BY <1>2, AppendHas
  <2>2. proxy'[d] = "open" /\ host'[d] = "live" => Undisturbed(d)
    BY <1>3, <1>4, <2>1, CalmFact DEF Undisturbed, Relief, Ready
  <2>3. Watch(d) /\ (parked'[d] => parked[d] /\ proxy'[d] = "open")
    BY <1>3, <1>4 DEF Watched, Watch
  <2> QED
    BY <2>2, <2>3, WatchKept
<1>5. Watch(c)'
  <2>1. Has(toPage', "peer-send", c)
    <3>1. Is(m, "peer-send", c)
      BY <1>2 DEF Is
    <3> QED
      BY <1>2, <3>1, AppendHas
  <2>2. CASE host[c] = "live"
    <3>1. accepted[c] < seq
      BY <1>1, <1>3, <2>2 DEF Ready, Sound, Tracks
    <3>2. Heeded(c) => Heeded(c)'
      BY <1>3, <2>1, <3>1 DEF Heeded, Relief
    <3>3. Relief(c) => Relief(c)'
      BY <1>3 DEF Relief
    <3> QED
      BY <1>3, <2>2, <3>2, <3>3 DEF Watched, Watch
  <2>3. CASE host[c] # "live"
    BY <1>3, <2>3 DEF Watch
  <2> QED
    BY <2>2, <2>3
<1> QED
  BY <1>4, <1>5 DEF Watched

(* Hearing anything but a report.                                          *)
LEMMA HeardWatch ==
  ASSUME Ready, Watched, HearOpened \/ HearFailed \/ HearClosed
  PROVE  Watched'
<1>0. PICK c \in Conns : c = HeardFrom
  BY HeardFact DEF HearOpened, HearFailed, HearClosed, Ready
<1>1. /\ toWorker # <<>> /\ toWorker' = Tail(toWorker)
      /\ Head(toWorker).t \in {"peer-opened", "peer-failed", "peer-closed"}
      /\ UNCHANGED <<inFlight, reported, host, buffer, low, accepted>>
  BY HeardFact DEF HearOpened, HearFailed, HearClosed, Heard, Retire, Ready
<1>2. /\ \A d \in Conns \ {c} : proxy'[d] = proxy[d] /\ parked'[d] = parked[d]
      /\ \/ proxy[c] = "opening" /\ proxy'[c] = "open" /\ parked'[c] = parked[c]
         \/ proxy'[c] = proxy[c] /\ parked'[c] = parked[c]
         \/ proxy'[c] = "closed" /\ ~parked'[c]
  BY <1>0 DEF HearOpened, HearFailed, HearClosed, Retire, Ready, PeerTypes
<1> SUFFICES ASSUME NEW d \in Conns PROVE Watch(d)'
  BY DEF Watched
<1>3. Calm(toWorker, toWorker', d)
  BY <1>1, CalmFact DEF IsDrain, Ready
<1>4. Has(toPage, "peer-send", d) => Has(toPage', "peer-send", d)
  <2>1. toPage' = toPage \/ PostClose(c)
    BY <1>0 DEF HearOpened, HearFailed, HearClosed
  <2> QED
    BY <2>1, PostCloseFact, MsgFact, SendsPending DEF Ready
<1>5. Watch(d)
  BY DEF Watched
<1>6. CASE proxy[d] = "opening" /\ proxy'[d] = "open"
  <2>1. /\ inFlight'[d] = {} /\ reported'[d] = 0 /\ accepted'[d] = 0 /\ ~parked'[d]
        /\ ~Has(toWorker, "peer-drain", d)
    BY <1>1, <1>2, <1>5, <1>6 DEF Ready, Sound, Fresh, Watch
  <2>2. ~Has(toWorker', "peer-drain", d)
    BY <1>3, <2>1 DEF Calm
  <2>3. ~OverMark(toWorker', d) /\ Latest(toWorker', d, 0)
    BY <2>2 DEF Has, OverMark, Latest, LastDrain, IsDrain
  <2>4. Heeded(d)'
    BY <2>1, WorkerAssumption DEF Heeded
  <2> QED
    BY <1>6, <2>1, <2>3, <2>4 DEF Watch
<1>7. CASE ~(proxy[d] = "opening" /\ proxy'[d] = "open")
  <2>1. parked'[d] => parked[d] /\ proxy'[d] = "open"
    BY <1>2, <1>5, <1>7 DEF Watch
  <2>2. proxy'[d] = "open" => proxy[d] = "open"
    BY <1>2, <1>7
  <2>3. proxy'[d] = "open" /\ host'[d] = "live" => Undisturbed(d)
    BY <1>1, <1>3, <1>4, <2>2 DEF Undisturbed, Relief
  <2> QED
    BY <1>5, <2>1, <2>3, WatchKept
<1> QED
  BY <1>6, <1>7

LEMMA HearDrainWatch ==
  ASSUME Ready, Watched, HearDrain
  PROVE  Watched'
<1>0. PICK c \in Conns : c = HeardFrom
  BY HeardFact DEF HearDrain, Ready
<1>1. /\ toWorker # <<>> /\ toWorker' = Tail(toWorker) /\ toWorker \in Seq(WorkerMsgs)
      /\ Head(toWorker).t = "peer-drain" /\ Head(toWorker).c = c
      /\ Head(toWorker) \in WorkerMsgs
      /\ UNCHANGED <<proxy, host, buffer, low, accepted, toPage>>
  BY <1>0, HeardFact DEF HearDrain, Heard, HeardFrom, Ready, PeerTypes
<1>2. PICK seq \in 0..MaxFrames, bytes \in 0..Cap :
        Head(toWorker).seq = seq /\ Head(toWorker).bytes = bytes
  BY <1>1, WorkerMsgFact
<1> DEFINE left == {s \in inFlight[c] : s > seq}
<1>3. \A d \in Conns \ {c} :
        inFlight'[d] = inFlight[d] /\ reported'[d] = reported[d] /\ parked'[d] = parked[d]
  BY <1>1 DEF HearDrain, Ready, PeerTypes
<1>4. ASSUME NEW d \in Conns, d # c
      PROVE  Watch(d)'
  <2>1. Calm(toWorker, toWorker', d)
    BY <1>1, <1>4, CalmFact DEF IsDrain, Ready
  <2>2. Watch(d) /\ (parked'[d] => parked[d] /\ proxy'[d] = "open")
    BY <1>1, <1>3, <1>4 DEF Watched, Watch
  <2>3. proxy'[d] = "open" /\ host'[d] = "live" => Undisturbed(d)
    BY <1>1, <1>3, <1>4, <2>1 DEF Undisturbed, Relief
  <2> QED
    BY <2>2, <2>3, WatchKept
<1>5. CASE proxy[c] = "closed"
  <2>1. UNCHANGED parked
    BY <1>1, <1>5 DEF HearDrain
  <2>2. Watch(c)'
    BY <1>1, <1>5, <2>1 DEF Watched, Watch
  <2> QED
    BY <1>4, <2>2 DEF Watched
<1>6. CASE proxy[c] # "closed"
  <2>1. /\ inFlight' = [inFlight EXCEPT ![c] = left]
        /\ reported' = [reported EXCEPT ![c] = bytes]
        /\ parked' = [parked EXCEPT ![c] = @ /\ ~AtMark(bytes + Cardinality(left))]
    BY <1>1, <1>2, <1>6 DEF HearDrain, Unconfirmed
  <2>2. Cardinality(left) \in Nat /\ IsFiniteSet(left)
    <3>1. left \subseteq 1..MaxFrames /\ IsFiniteSet(1..MaxFrames)
      BY WorkerAssumption, FS_Interval DEF Ready, PeerTypes
    <3> HIDE DEF left
    <3> QED
      BY <3>1, FS_Subset, FS_CardinalityType
  <2> HIDE DEF left
  <2>3. inFlight'[c] = left /\ reported'[c] = bytes
    BY <2>1 DEF Ready, PeerTypes
  <2>4. parked'[c] => parked[c] /\ ~AtMark(bytes + Cardinality(left))
    BY <2>1, Zenon DEF Ready, PeerTypes
  <2>5. parked'[c] => bytes + Cardinality(left) > HighWater
    BY <2>2, <2>4, WorkerAssumption DEF AtMark
  <2>6. parked'[c] => proxy'[c] = "open"
    BY <1>1, <2>4 DEF Watched, Watch
  <2>7. ASSUME proxy[c] = "open", host[c] = "live"
        PROVE  /\ Latest(toWorker', c, accepted[c]) /\ (OverMark(toWorker', c) => Relief(c))
               /\ ~Has(toWorker', "peer-drain", c) => Heeded(c)'
    <3>1. Latest(toWorker, c, accepted[c]) /\ (OverMark(toWorker, c) => Relief(c))
      BY <2>7 DEF Watched, Watch
    <3>2. Latest(toWorker', c, accepted[c]) /\ (OverMark(toWorker', c) => Relief(c))
      BY <1>1, <3>1, TailLatest
    <3>3. ASSUME ~Has(toWorker', "peer-drain", c)
          PROVE  seq = accepted[c] /\ (bytes > HighWater => Relief(c))
      BY <1>1, <1>2, <3>1, <3>3, TailLatest DEF IsDrain
    <3>4. ASSUME ~Has(toWorker', "peer-drain", c), parked'[c], ~Has(toPage, "peer-send", c)
          PROVE  bytes > HighWater
      <4>1. PICK known \in 0..accepted[c] :
              /\ accepted[c] <= posted[c]
              /\ Sends(toPage, c, accepted[c], posted[c])
              /\ inFlight[c] = (known + 1)..posted[c]
        BY <2>7 DEF Ready, Sound, Tracks
      <4>2. accepted[c] \in Nat /\ posted[c] \in Nat
        BY DEF Ready, PeerTypes
      <4>3. ~(accepted[c] < posted[c])
        <5> SUFFICES ASSUME accepted[c] < posted[c] PROVE FALSE
          OBVIOUS
        <5>1. posted[c] \in (accepted[c] + 1)..posted[c]
          BY <4>2
        <5> QED
          BY <3>4, <4>1, <5>1 DEF Sends, Has, IsSend
      <4>4. left = {}
        BY <3>3, <3>4, <4>1, <4>2, <4>3 DEF left
      <4> QED
        BY <2>5, <3>4, <4>4, FS_EmptySet
    <3>5. ASSUME ~Has(toWorker', "peer-drain", c)
          PROVE  Heeded(c)'
      <4>1. \A s \in left : s > accepted[c]
        BY <3>3, <3>5 DEF left
      <4> QED
        BY <1>1, <2>3, <3>3, <3>4, <3>5, <4>1 DEF Heeded, Relief
    <3> QED
      BY <3>2, <3>5
  <2>8. Watch(c)'
    <3>1. Relief(c)' <=> Relief(c)
      BY <1>1 DEF Relief
    <3> QED
      BY <1>1, <2>6, <2>7, <3>1 DEF Watch
  <2> QED
    BY <1>4, <2>8 DEF Watched
<1> QED
  BY <1>5, <1>6

(* The page's steps. Those that report nothing ...                         *)
LEMMA QuietWatch ==
  ASSUME Ready, Watched, UNCHANGED <<proxy, posted, inFlight, reported, parked>>,
         \A d \in Conns : proxy[d] = "open" /\ host'[d] = "live" => Undisturbed(d)
  PROVE  Watched'
<1> SUFFICES ASSUME NEW d \in Conns PROVE Watch(d)'
  BY DEF Watched
<1>1. Watch(d) /\ (parked'[d] => parked[d] /\ proxy'[d] = "open")
  BY DEF Watched, Watch
<1>2. proxy'[d] = "open" /\ host'[d] = "live" => Undisturbed(d)
  OBVIOUS
<1> QED
  BY <1>1, <1>2, WatchKept

(* ... and those that report that c buffers buf after the frame acc.       *)
LEMMA ReportWatch ==
  ASSUME Ready, Watched, UNCHANGED <<proxy, posted, inFlight, reported, parked, host>>,
         NEW c \in Conns, NEW acc \in 0..MaxFrames, NEW buf \in 0..Cap,
         Answer(Drained(c, acc, buf)), accepted'[c] = acc, buffer'[c] = buf,
         \A d \in Conns \ {c} :
            /\ accepted'[d] = accepted[d] /\ buffer'[d] = buffer[d] /\ low'[d] = low[d]
            /\ Has(toPage, "peer-send", d) => Has(toPage', "peer-send", d)
  PROVE  Watched'
<1> DEFINE m == Drained(c, acc, buf)
<1>1. /\ m \in WorkerMsgs /\ m.t = "peer-drain" /\ m.c = c /\ m.seq = acc /\ m.bytes = buf
      /\ toWorker' = Append(toWorker, m) /\ toWorker \in Seq(WorkerMsgs)
  BY MsgFact DEF Answer, Ready, PeerTypes
<1> HIDE DEF m
<1>2. ASSUME NEW d \in Conns, d # c
      PROVE  Watch(d)'
  <2>1. Watch(d) /\ (parked'[d] => parked[d] /\ proxy'[d] = "open")
    BY DEF Watched, Watch
  <2>2. Calm(toWorker, toWorker', d)
    BY <1>1, <1>2, CalmFact DEF Ready, IsDrain
  <2>3. proxy'[d] = "open" /\ host'[d] = "live" => Undisturbed(d)
    BY <1>2, <2>2 DEF Undisturbed, Relief
  <2> QED
    BY <2>1, <2>3, WatchKept
<1>3. Watch(c)'
  <2>1. IsDrain(m, c) /\ Is(m, "peer-drain", c)
    BY <1>1 DEF IsDrain, Is
  <2>2. Has(toWorker', "peer-drain", c)
    BY <1>1, <2>1, AppendHas
  <2>3. Latest(toWorker', c, acc) /\ (OverMark(toWorker', c) => buf > HighWater)
    BY <1>1, <2>1, AppendLatest
  <2>4. parked'[c] => proxy'[c] = "open"
    BY DEF Watched, Watch
  <2> QED
    BY <2>2, <2>3, <2>4 DEF Watch, Relief
<1> QED
  BY <1>2, <1>3 DEF Watched

LEMMA TakenWatch ==
  ASSUME Ready, Watched, Takes
  PROVE  Watched'
<1>1. UNCHANGED <<proxy, posted, inFlight, reported, parked>>
  BY DEF Takes, TakeOpen, TakeWait, TakeSend, TakeClose, Taken
<1>2. PICK t : Taken(t)
  BY DEF Takes, TakeOpen, TakeWait, TakeSend, TakeClose
<1>3. /\ toPage # <<>> /\ toPage' = Tail(toPage) /\ Head(toPage) \in PageMsgs
      /\ toPage' \in Seq(PageMsgs) /\ TakenFor = Head(toPage).c
  BY <1>2, TakenFact DEF Ready, TakenFor
<1>4. PICK c \in Conns : c = TakenFor
  BY <1>2, TakenFact DEF Ready
<1>5. \A d \in Conns : ~IsSend(Head(toPage), d) /\ Has(toPage, "peer-send", d) =>
        Has(toPage', "peer-send", d)
  BY <1>3, SendsPending
<1>6. CASE TakeOpen(TRUE) \/ TakeOpen(FALSE)
  <2>1. /\ UNCHANGED <<buffer, low, accepted>> /\ Head(toPage).t = "peer-open"
        /\ \/ toWorker' = toWorker
           \/ toWorker' = Append(toWorker, Msg("peer-failed", c)) /\ host' = host
        /\ \A d \in Conns \ {c} : host'[d] = host[d]
    BY <1>4, <1>6 DEF TakeOpen, Taken, Answer, Ready, PeerTypes
  <2>2. proxy[c] # "open"
    <3>1. Has(toPage, "peer-open", c)
      BY <1>3, <1>4, <2>1, PageTail DEF Ready
    <3>2. Asked(c) /\ OneOutcome(c)
      BY DEF Ready, Sound
    <3> QED
      BY <3>1, <3>2 DEF Asked, OneOutcome, Opened
  <2>3. \A d \in Conns : Calm(toWorker, toWorker', d)
    BY <2>1, CalmFact, MsgCalm DEF Ready
  <2>4. \A d \in Conns : proxy[d] = "open" /\ host'[d] = "live" => Undisturbed(d)
    BY <1>1, <1>5, <2>1, <2>2, <2>3 DEF Undisturbed, Relief, IsSend
  <2> QED
    BY <1>1, <2>4, QuietWatch
<1>7. CASE TakeWait
  <2>1. /\ UNCHANGED <<host, buffer, low, accepted>> /\ Head(toPage).t = "peer-wait-open"
        /\ \/ toWorker' = toWorker
           \/ toWorker' = Append(toWorker, Msg("peer-opened", c))
    BY <1>4, <1>7 DEF TakeWait, Taken, Answer
  <2>2. \A d \in Conns : Calm(toWorker, toWorker', d)
    BY <2>1, CalmFact, MsgCalm DEF Ready
  <2>3. \A d \in Conns : proxy[d] = "open" /\ host'[d] = "live" => Undisturbed(d)
    BY <1>1, <1>5, <2>1, <2>2 DEF Undisturbed, Relief, IsSend
  <2> QED
    BY <1>1, <2>3, QuietWatch
<1>8. CASE TakeClose
  <2>1. /\ UNCHANGED accepted /\ Head(toPage).t = "peer-close"
        /\ \/ UNCHANGED <<host, low, buffer, toWorker>>
           \/ LetGo(c) /\ toWorker' = Append(toWorker, Msg("peer-closed", c))
    BY <1>4, <1>8 DEF TakeClose, Taken, Answer
  <2>2. \A d \in Conns : Calm(toWorker, toWorker', d)
    BY <2>1, CalmFact, MsgCalm DEF Ready
  <2>3. \A d \in Conns : host'[d] = "live" =>
          host[d] = "live" /\ buffer'[d] = buffer[d] /\ low'[d] = low[d]
    BY <2>1 DEF LetGo, Ready, PeerTypes
  <2>4. \A d \in Conns : proxy[d] = "open" /\ host'[d] = "live" => Undisturbed(d)
    BY <1>1, <1>5, <2>1, <2>2, <2>3 DEF Undisturbed, Relief, IsSend
  <2> QED
    BY <1>1, <2>4, QuietWatch
<1>9. CASE TakeSend
  <2>1. Head(toPage).t = "peer-send" /\ Head(toPage).c = c
    BY <1>3, <1>4, <1>9 DEF TakeSend, Taken
  <2>2. \A d \in Conns \ {c} : Has(toPage, "peer-send", d) => Has(toPage', "peer-send", d)
    BY <1>5, <2>1 DEF IsSend
  <2>3. CASE host[c] # "live" \/ Full(c)
    <3>1. /\ UNCHANGED accepted
          /\ \/ UNCHANGED <<host, low, buffer, toWorker>> /\ host[c] # "live"
             \/ LetGo(c) /\ toWorker' = Append(toWorker, Msg("peer-closed", c))
      BY <1>9, <2>1, <2>3 DEF TakeSend, Refuse, Answer
    <3>2. \A d \in Conns : Calm(toWorker, toWorker', d)
      BY <3>1, CalmFact, MsgCalm DEF Ready
    <3>3. \A d \in Conns : host'[d] = "live" =>
            d # c /\ host[d] = "live" /\ buffer'[d] = buffer[d] /\ low'[d] = low[d]
      BY <3>1 DEF LetGo, Ready, PeerTypes
    <3>4. \A d \in Conns : proxy[d] = "open" /\ host'[d] = "live" => Undisturbed(d)
      BY <1>1, <2>2, <3>1, <3>2, <3>3 DEF Undisturbed, Relief
    <3> QED
      BY <1>1, <3>4, QuietWatch
  <2>4. CASE host[c] = "live" /\ ~Full(c)
    <3>1. PICK seq \in 1..MaxFrames : Head(toPage).seq = seq
      BY <1>3, <2>1, PageMsgFact
    <3> DEFINE buf == buffer[c] + 1
    <3>2. /\ buffer' = [buffer EXCEPT ![c] = buf] /\ accepted' = [accepted EXCEPT ![c] = seq]
          /\ Answer(Drained(c, seq, buf)) /\ UNCHANGED <<host, waiting, chan, low>>
      BY <1>9, <2>1, <2>4, <3>1 DEF TakeSend
    <3>3. buf \in 0..Cap /\ seq \in 0..MaxFrames
      BY <2>4, WorkerAssumption DEF Full, Ready, PeerTypes
    <3> HIDE DEF buf
    <3>4. /\ buffer'[c] = buf /\ accepted'[c] = seq
          /\ \A d \in Conns \ {c} : buffer'[d] = buffer[d] /\ accepted'[d] = accepted[d]
      BY <3>2 DEF Ready, PeerTypes
    <3> QED
      BY <1>1, <2>2, <3>2, <3>3, <3>4, ReportWatch
  <2> QED
    BY <2>3, <2>4
<1> QED
  BY <1>6, <1>7, <1>8, <1>9 DEF Takes

LEMMA PageWatch ==
  ASSUME Ready, Watched, NEW c \in Conns,
         Opens(c) \/ TimesOut(c) \/ Dies(c) \/ Flows(c) \/ Low(c)
  PROVE  Watched'
<1>1. UNCHANGED <<proxy, posted, inFlight, reported, parked, accepted, toPage>>
  BY DEF Opens, TimesOut, Dies, Flows, Low
<1>2. CASE Opens(c) \/ TimesOut(c)
  <2>1. /\ UNCHANGED <<host, buffer, low>>
        /\ \/ toWorker' = toWorker
           \/ toWorker' = Append(toWorker, Msg("peer-opened", c))
           \/ toWorker' = Append(toWorker, Msg("peer-failed", c))
    BY <1>2 DEF Opens, TimesOut, Answer
  <2>2. \A d \in Conns : Calm(toWorker, toWorker', d)
    BY <2>1, CalmFact, MsgCalm DEF Ready
  <2>3. \A d \in Conns : proxy[d] = "open" /\ host'[d] = "live" => Undisturbed(d)
    BY <1>1, <2>1, <2>2 DEF Undisturbed, Relief
  <2> QED
    BY <1>1, <2>3, QuietWatch
<1>3. CASE Dies(c)
  <2>1. LetGo(c) /\ toWorker' = Append(toWorker, Msg("peer-closed", c))
    BY <1>3 DEF Dies, Answer
  <2>2. \A d \in Conns : Calm(toWorker, toWorker', d)
    BY <2>1, CalmFact, MsgCalm DEF Ready
  <2>3. \A d \in Conns : host'[d] = "live" =>
          host[d] = "live" /\ buffer'[d] = buffer[d] /\ low'[d] = low[d]
    BY <2>1 DEF LetGo, Ready, PeerTypes
  <2>4. \A d \in Conns : proxy[d] = "open" /\ host'[d] = "live" => Undisturbed(d)
    BY <1>1, <2>2, <2>3 DEF Undisturbed, Relief
  <2> QED
    BY <1>1, <2>4, QuietWatch
<1>4. CASE Flows(c)
  <2>1. /\ buffer[c] \in Nat /\ buffer'[c] = buffer[c] - 1 /\ HighWater \in Nat
        /\ \A d \in Conns \ {c} : buffer'[d] = buffer[d] /\ low'[d] = low[d]
        /\ host' = host /\ toWorker' = toWorker
    BY <1>4, WorkerAssumption DEF Flows, Ready, PeerTypes
  <2>2. (low[c] => low'[c]) /\ (buffer[c] = HighWater + 1 => low'[c])
    <3>1. low' = [low EXCEPT ![c] = @ \/ buffer[c] = HighWater + 1]
      BY <1>4 DEF Flows
    <3> QED
      BY <3>1, Zenon DEF Ready, PeerTypes
  <2>3. \A d \in Conns : Relief(d) => Relief(d)'
    BY <2>1, <2>2 DEF Relief
  <2>4. \A d \in Conns : Calm(toWorker, toWorker', d)
    BY <2>1, CalmFact DEF Ready
  <2>5. \A d \in Conns : proxy[d] = "open" /\ host'[d] = "live" => Undisturbed(d)
    BY <1>1, <2>1, <2>3, <2>4 DEF Undisturbed
  <2> QED
    BY <1>1, <2>5, QuietWatch
<1>5. CASE Low(c)
  <2>1. /\ Answer(Drained(c, accepted[c], buffer[c])) /\ UNCHANGED <<host, buffer>>
        /\ accepted[c] \in 0..MaxFrames /\ buffer[c] \in 0..Cap
        /\ \A d \in Conns \ {c} : low'[d] = low[d]
    BY <1>5 DEF Low, Ready, PeerTypes
  <2> QED
    BY <1>1, <2>1, ReportWatch
<1> QED
  BY <1>2, <1>3, <1>4, <1>5

LEMMA NextWatched == IInv /\ Watched /\ [Next]_vars => Watched'
<1> SUFFICES ASSUME IInv, Watched, [Next]_vars PROVE Watched'
  OBVIOUS
<1>1. Ready /\ SinkTypes /\ torn \in BOOLEAN
  BY DEF IInv, Ready, TypeOK, PeerTypes, SinkTypes
<1>2. CASE UNCHANGED peerVars
  BY <1>2 DEF peerVars, Watched, Watch, Heeded, Relief
<1>3. CASE PeerStep
  BY <1>1, <1>3, WorkerWatch, SendWatch, HeardWatch, HearDrainWatch, TakenWatch, PageWatch
  DEF PeerStep, Hears
<1>4. ASSUME NEW f \in Files, ReceiverStep(f) \/ SinkStep(f)
      PROVE  UNCHANGED peerVars
  BY <1>1, <1>4, ReceiverTypes, PageSinkTypes
<1>5. CASE Unmount
  <2>1. \A d \in Conns : ~parked'[d] /\ proxy'[d] = "closed"
    BY <1>5 DEF Unmount
  <2> QED
    BY <2>1 DEF Watched, Watch
<1>6. CASE UNCHANGED vars
  BY <1>2, <1>6 DEF vars
<1>7. Next => PeerStep \/ Unmount \/ \E f \in Files : ReceiverStep(f) \/ SinkStep(f)
  BY DEF Next, PeerStep, ReceiverStep, SinkStep
<1> QED
  BY <1>2, <1>3, <1>4, <1>5, <1>6, <1>7

(* Whoever waits for a connection to drain has a reason to be woken still  *)
(* to come, whatever the page and the worker have in flight (peer-host.ts, *)
(* onDrain and the report after a send; peer-proxy.ts, #onDrain).          *)
THEOREM NobodyForgotten == Spec => []WakeupComes
<1>1. Init => Watched
  BY DEF Init, Watched, Watch
<1>2. Spec => []Watched
  BY <1>1, NextWatched, SpecIInv, PTL DEF Spec
<1>3. IInv /\ Watched => WakeupComes
  <2> SUFFICES ASSUME IInv, Watched, NEW c \in Conns, parked[c]
               PROVE  \/ Has(toPage, "peer-send", c)
                      \/ Has(toWorker, "peer-drain", c) \/ Has(toWorker, "peer-closed", c)
                      \/ host[c] = "live" /\ Relief(c)
    BY DEF WakeupComes, Has, Pending, Relief
  <2>1. proxy[c] = "open" /\ Watch(c)
    BY DEF Watched, Watch
  <2>2. CASE host[c] = "live"
    BY <2>1, <2>2 DEF Watch, Heeded
  <2>3. CASE host[c] # "live"
    <3>1. Owned(c) /\ OneOutcome(c) /\ Asked(c)
      BY DEF IInv, Sound
    <3> QED
      BY <2>1, <2>3, <3>1 DEF Owned, OneOutcome, Asked, Opened
  <2> QED
    BY <2>2, <2>3
<1> QED
  BY <1>2, <1>3, SpecIInv, PTL

-----------------------------------------------------------------------------
(* What becomes of a file's sink. While the Receiver awaits an answer, the *)
(* request for it is in one place: on its way to the page, being worked    *)
(* on, or answered on the way back.                                        *)
OnlyAt(f, k) ==
  \/ asks[f] = <<k>> /\ busy[f] = {} /\ answers[f] = {}
  \/ asks[f] = <<>> /\ busy[f] = {k} /\ answers[f] = {}
  \/ asks[f] = <<>> /\ busy[f] = {} /\ \E ok \in BOOLEAN : answers[f] = {[k |-> k, ok |-> ok]}
Nothing(f) == asks[f] = <<>> /\ busy[f] = {} /\ answers[f] = {}
About(f, k) == k \in busy[f] \/ \E a \in answers[f] : a.k = k

WhileOpening(f) == file[f] = "opening" =>
  /\ busy[f] = {}
  /\ \/ asks[f] = <<"open">> /\ answers[f] = {} /\ ~building[f] /\ ~held[f]
     \/ asks[f] = <<>> /\ answers[f] = {} /\ building[f] /\ ~held[f]
     \/ asks[f] = <<>> /\ answers[f] = {[k |-> "open", ok |-> held[f]]} /\ ~building[f]

(* A file torn down during a write has an abort following the write.       *)
WhileWriting(f) == file[f] = "writing" =>
  /\ ~About(f, "open") /\ ~About(f, "close")
  /\ ~failed[f] => OnlyAt(f, "write") /\ held[f]
  /\ failed[f] =>
       /\ \/ asks[f] = <<"write", "abort">> /\ busy[f] = {} /\ answers[f] = {} /\ held[f]
          \/ asks[f] \in {<<>>, <<"abort">>} /\ About(f, "write")
       /\ held[f] => asks[f] # <<>>

WhileEnding(f) ==
  /\ file[f] = "closing" => OnlyAt(f, "close") /\ ~failed[f]
  /\ file[f] = "failing" => OnlyAt(f, "abort") /\ failed[f]
  /\ file[f] \in {"closing", "failing"} /\ held[f] => asks[f] # <<>>

(* A sink the page still holds for a file that is over will be aborted.    *)
WhenOver(f) == file[f] = "over" =>
  /\ asks[f] \in {<<>>, <<"abort">>}
  /\ held[f] => asks[f] = <<"abort">>
  /\ ~About(f, "open")
  /\ About(f, "write") => failed[f]

SinkSound(f) ==
  /\ torn => ~held[f] /\ file[f] = "over" /\ asks[f] = <<>> /\ answers[f] = {}
  /\ building[f] => file[f] = "opening" \/ torn
  /\ disk[f] = "open" => held[f] \/ "close" \in busy[f] \/ "abort" \in busy[f]
  /\ file[f] = "none" => Nothing(f) /\ ~held[f]
  /\ file[f] = "idle" => Nothing(f) /\ held[f] /\ ~failed[f]
  /\ WhileOpening(f) /\ WhileWriting(f) /\ WhileEnding(f) /\ WhenOver(f)

LEMMA ShortFact ==
  /\ \A k : /\ Append(<<>>, k) = <<k>> /\ Append(<<k>>, "abort") = <<k, "abort">>
            /\ Head(<<k>>) = k /\ Tail(<<k>>) = <<>> /\ <<k>> # <<>>
            /\ Head(<<k, "abort">>) = k /\ Tail(<<k, "abort">>) = <<"abort">>
            /\ <<k, "abort">> # <<>> /\ <<k, "abort">> # <<"abort">>
  /\ \A j, k : <<j>> = <<k>> => j = k
<1>1. \A k : /\ Append(<<>>, k) = <<k>> /\ Head(<<k>>) = k /\ Tail(<<k>>) = <<>>
            /\ <<k>> # <<>>
            /\ Head(<<k, "abort">>) = k /\ Tail(<<k, "abort">>) = <<"abort">>
  OBVIOUS
<1>2. \A j, k : <<j>> = <<k>> => j = k
  OBVIOUS
<1>3. ASSUME NEW k
      PROVE  Append(<<k>>, "abort") = <<k, "abort">>
  <2> DEFINE S == {k, "abort"}
             r == Append(<<k>>, "abort")
  <2>1. /\ <<k>> \in Seq(S) /\ <<k, "abort">> \in Seq(S) /\ Len(<<k, "abort">>) = 2
        /\ <<k, "abort">>[1] = k /\ <<k, "abort">>[2] = "abort"
    OBVIOUS
  <2>2. r \in Seq(S) /\ Len(r) = 2 /\ r[1] = k /\ r[2] = "abort"
    BY <2>1
  <2>3. \A i \in 1..2 : r[i] = <<k, "abort">>[i]
    BY <2>1, <2>2
  <2> HIDE DEF r, S
  <2> QED
    BY <2>1, <2>2, <2>3, SeqEqual DEF r
<1>4. \A k : Len(<<k, "abort">>) = 2 /\ Len(<<"abort">>) = 1 /\ Len(<<>>) = 0
  OBVIOUS
<1>5. \A k : <<k, "abort">> # <<>> /\ <<k, "abort">> # <<"abort">>
  <2> SUFFICES ASSUME NEW k PROVE <<k, "abort">> # <<>> /\ <<k, "abort">> # <<"abort">>
    OBVIOUS
  <2>1. Len(<<k, "abort">>) # Len(<<>>) /\ Len(<<k, "abort">>) # Len(<<"abort">>)
    BY <1>4
  <2> QED
    BY <2>1, Zenon
<1> QED
  BY <1>1, <1>2, <1>3, <1>5

LEMMA OnlyAbout ==
  ASSUME NEW f \in Files, NEW k, OnlyAt(f, k)
  PROVE  asks[f] = <<k>> \/ (asks[f] = <<>> /\ About(f, k))
<1>1. ASSUME NEW ok, answers[f] = {[k |-> k, ok |-> ok]}
      PROVE  About(f, k)
  <2>1. [k |-> k, ok |-> ok] \in answers[f] /\ [k |-> k, ok |-> ok].k = k
    BY <1>1
  <2> QED
    BY <2>1 DEF About
<1>2. k \in busy[f] => About(f, k)
  BY DEF About
<1> QED
  BY <1>1, <1>2 DEF OnlyAt

LEMMA OpenSinkSound ==
  ASSUME SinkTypes, NEW f \in Files, SinkSound(f), OpenSink(f)
  PROVE  SinkSound(f)'
<1>1. /\ file[f] = "none" /\ file'[f] = "opening" /\ asks'[f] = Append(asks[f], "open")
      /\ UNCHANGED <<torn, failed, answers, building, held, busy, disk>>
  BY DEF OpenSink, Worker, Sinks, Ask, SinkTypes
<1> QED
  BY <1>1, ShortFact DEF SinkSound, Nothing, WhileOpening, WhileWriting, WhileEnding, WhenOver

LEMMA WriteSound ==
  ASSUME SinkTypes, NEW f \in Files, SinkSound(f), Write(f)
  PROVE  SinkSound(f)'
<1>1. /\ file[f] = "idle" /\ file'[f] = "writing" /\ asks'[f] = Append(asks[f], "write")
      /\ UNCHANGED <<torn, failed, answers, building, held, busy, disk>>
  BY DEF Write, Worker, Sinks, Ask, SinkTypes
<1> QED
  BY <1>1, ShortFact
  DEF SinkSound, Nothing, OnlyAt, About, WhileOpening, WhileWriting, WhileEnding, WhenOver

LEMMA FinishSound ==
  ASSUME SinkTypes, NEW f \in Files, SinkSound(f), NEW whole \in BOOLEAN, Finish(f, whole)
  PROVE  SinkSound(f)'
<1>1. /\ file[f] = "idle" /\ UNCHANGED <<torn, answers, building, held, busy, disk>>
      /\ whole => file'[f] = "closing" /\ asks'[f] = Append(asks[f], "close") /\ ~failed'[f]
      /\ ~whole => file'[f] = "failing" /\ asks'[f] = Append(asks[f], "abort") /\ failed'[f]
  BY DEF Finish, Worker, Sinks, Ask, SinkTypes
<1> QED
  BY <1>1, ShortFact
  DEF SinkSound, Nothing, OnlyAt, WhileOpening, WhileWriting, WhileEnding, WhenOver

LEMMA CancelSound ==
  ASSUME SinkTypes, NEW f \in Files, SinkSound(f), Cancel(f)
  PROVE  SinkSound(f)'
<1>1. /\ file[f] \in {"none", "opening", "idle", "writing"} /\ ~failed[f] /\ failed'[f]
      /\ file[f] \in {"none", "idle"} => file'[f] = "over"
      /\ file[f] \in {"opening", "writing"} => file'[f] = file[f]
      /\ file[f] \in {"idle", "writing"} => asks'[f] = Append(asks[f], "abort")
      /\ file[f] \in {"none", "opening"} => asks'[f] = asks[f]
      /\ UNCHANGED <<torn, answers, building, held, busy, disk>> /\ ~torn
  BY DEF Cancel, Worker, Sinks, Ask, SinkTypes
<1>2. CASE file[f] \in {"none", "idle"}
  BY <1>1, <1>2, ShortFact
  DEF SinkSound, Nothing, About, WhileOpening, WhileWriting, WhileEnding, WhenOver
<1>3. CASE file[f] = "opening"
  BY <1>1, <1>3 DEF SinkSound, WhileOpening, WhileWriting, WhileEnding, WhenOver
<1>4. CASE file[f] = "writing"
  <2>1. OnlyAt(f, "write") /\ held[f] /\ ~About(f, "open") /\ ~About(f, "close")
    BY <1>1, <1>4 DEF SinkSound, WhileWriting
  <2>2. /\ asks[f] = <<"write">> => asks'[f] = <<"write", "abort">>
        /\ asks[f] = <<>> => asks'[f] = <<"abort">>
        /\ asks'[f] # <<>>
    BY <1>1, <1>4, <2>1, ShortFact DEF OnlyAt
  <2>3. WhileWriting(f)'
    <3>1. ~About(f, "open")' /\ ~About(f, "close")'
      BY <1>1, <2>1 DEF About
    <3>2. asks[f] = <<>> => About(f, "write")'
      BY <1>1, <2>1, OnlyAbout, ShortFact DEF About
    <3> QED
      BY <1>1, <2>1, <2>2, <3>1, <3>2 DEF OnlyAt, WhileWriting
  <2> QED
    BY <1>1, <1>4, <2>3 DEF SinkSound, WhileOpening, WhileEnding, WhenOver
<1> QED
  BY <1>1, <1>2, <1>3, <1>4

LEMMA OnlyAnswer ==
  ASSUME NEW f \in Files, NEW k, OnlyAt(f, k), NEW a \in answers[f]
  PROVE  a.k = k /\ answers[f] = {a} /\ asks[f] = <<>> /\ busy[f] = {}
BY DEF OnlyAt

LEMMA HearResultSound ==
  ASSUME SinkTypes, NEW f \in Files, SinkSound(f), NEW a \in answers[f], HearResult(f, a)
  PROVE  SinkSound(f)'
<1>1. /\ ~torn /\ answers'[f] = answers[f] \ {a} /\ UNCHANGED <<torn, building, held, busy, disk>>
      /\ a.k \in Kinds /\ a.ok \in BOOLEAN
  BY DEF HearResult, Worker, Sinks, SinkTypes
<1>2. \/ /\ a.k = "open" /\ a.ok /\ failed'[f] = failed[f]
         /\ failed[f] => file'[f] = "over" /\ asks'[f] = Append(asks[f], "abort")
         /\ ~failed[f] => file'[f] = "idle" /\ asks'[f] = asks[f]
      \/ /\ a.k = "write" /\ a.ok /\ failed'[f] = failed[f] /\ asks'[f] = asks[f]
         /\ failed[f] => file'[f] = "over"
         /\ ~failed[f] => file'[f] = "idle"
      \/ /\ a.k = "write" /\ ~a.ok /\ ~failed[f] /\ failed'[f]
         /\ file'[f] = "failing" /\ asks'[f] = Append(asks[f], "abort")
      \/ /\ a.k \in {"open", "write"} /\ ~a.ok /\ (a.k = "write" => failed[f]) /\ failed'[f]
         /\ file'[f] = "over" /\ asks'[f] = asks[f]
      \/ /\ a.k \in {"close", "abort"} /\ failed'[f] = failed[f]
         /\ file'[f] = "over" /\ asks'[f] = asks[f]
  BY DEF HearResult, Ask, ReleasesSink, SinkTypes
<1>3. file[f] \notin {"none", "idle"}
  BY DEF SinkSound, Nothing
<1>4. CASE file[f] = "opening"
  <2>1. a = [k |-> "open", ok |-> held[f]] /\ a.k = "open" /\ a.ok = held[f]
        /\ answers'[f] = {} /\ asks[f] = <<>> /\ busy[f] = {} /\ ~building[f]
    BY <1>1, <1>4 DEF SinkSound, WhileOpening
  <2> QED
    BY <1>1, <1>2, <1>4, <2>1, ShortFact
    DEF SinkSound, Nothing, About, WhileOpening, WhileWriting, WhileEnding, WhenOver
<1>5. CASE file[f] = "writing" /\ ~failed[f]
  <2>1. /\ a.k = "write" /\ answers'[f] = {} /\ asks[f] = <<>> /\ busy[f] = {}
        /\ held[f] /\ ~building[f]
    BY <1>1, <1>5, OnlyAnswer DEF SinkSound, WhileWriting
  <2> QED
    BY <1>1, <1>2, <1>5, <2>1, ShortFact
    DEF SinkSound, Nothing, OnlyAt, WhileOpening, WhileWriting, WhileEnding, WhenOver
<1>6. CASE file[f] = "writing" /\ failed[f]
  <2>1. /\ a.k \in {"write", "abort"} /\ asks[f] \in {<<>>, <<"abort">>}
        /\ held[f] => asks[f] = <<"abort">>
        /\ ~About(f, "open") /\ ~About(f, "open")'
    BY <1>1, <1>6 DEF SinkSound, WhileWriting, About, Kinds
  <2>2. file'[f] = "over" /\ failed'[f] /\ asks'[f] = asks[f]
    BY <1>2, <1>6, <2>1
  <2>3. ~building[f]
    BY <1>1, <1>6 DEF SinkSound
  <2> QED
    BY <1>1, <1>6, <2>1, <2>2, <2>3
    DEF SinkSound, WhileOpening, WhileWriting, WhileEnding, WhenOver
<1>7. CASE file[f] \in {"closing", "failing"}
  <2>1. /\ a.k \in {"close", "abort"} /\ answers'[f] = {} /\ asks[f] = <<>> /\ busy[f] = {}
        /\ ~held[f] /\ ~building[f]
    BY <1>1, <1>7, OnlyAnswer DEF SinkSound, WhileEnding
  <2> QED
    BY <1>1, <1>2, <1>7, <2>1
    DEF SinkSound, About, WhileOpening, WhileWriting, WhileEnding, WhenOver
<1>8. CASE file[f] = "over"
  <2>1. /\ a.k # "open" /\ (a.k = "write" => failed[f])
    BY <1>8 DEF SinkSound, WhenOver, About
  <2>2. file'[f] = "over" /\ asks'[f] = asks[f] /\ failed'[f] = failed[f]
    BY <1>2, <2>1, <1>1
  <2> QED
    BY <1>1, <1>8, <2>2 DEF SinkSound, About, WhileOpening, WhileWriting, WhileEnding, WhenOver
<1> QED
  BY <1>3, <1>4, <1>5, <1>6, <1>7, <1>8 DEF SinkTypes, Awaiting

(* A request taken is worked on, or answered at once.                      *)
LEMMA TakeAskSound ==
  ASSUME SinkTypes, NEW f \in Files, SinkSound(f), TakeAsk(f)
  PROVE  SinkSound(f)'
<1> DEFINE k == Head(asks[f])
<1>1. /\ ~torn /\ asks[f] # <<>> /\ asks'[f] = Tail(asks[f])
      /\ UNCHANGED <<torn, file, failed, disk>>
  BY DEF TakeAsk, Page, Sinks, SinkTypes
<1>2. \/ /\ k = "open" /\ ~held[f] /\ building'[f] /\ UNCHANGED <<held, busy, answers>>
      \/ /\ k # "open" /\ held[f] /\ busy'[f] = busy[f] \cup {k} /\ UNCHANGED <<building, answers>>
         /\ held'[f] <=> k = "write"
      \/ /\ k \in {"write", "close", "abort"} /\ ~held[f] /\ UNCHANGED <<building, held, busy>>
         /\ answers'[f] = answers[f] \cup {[k |-> k, ok |-> (k = "abort")]}
  <2>1. CASE k = "open" /\ ~held[f]
    BY <2>1 DEF TakeAsk, SinkTypes
  <2>2. CASE k # "open" /\ held[f]
    <3>1. /\ busy' = [busy EXCEPT ![f] = @ \cup {k}] /\ held' = [held EXCEPT ![f] = k = "write"]
          /\ UNCHANGED <<building, answers>>
      BY <2>2 DEF TakeAsk
    <3> HIDE DEF k
    <3> QED
      BY <2>2, <3>1 DEF SinkTypes
  <2>3. CASE k \in {"write", "close", "abort"} /\ ~held[f]
    BY <1>1, <2>3 DEF TakeAsk, Result, SinkTypes
  <2> QED
    BY <2>1, <2>2, <2>3 DEF TakeAsk
<1> HIDE DEF k
<1>3. file[f] \notin {"none", "idle"}
  BY <1>1 DEF SinkSound, Nothing
<1>4. CASE file[f] = "opening"
  <2>1. asks[f] = <<"open">> /\ k = "open" /\ asks'[f] = <<>>
    BY <1>1, <1>4, ShortFact DEF SinkSound, WhileOpening, k
  <2> QED
    BY <1>1, <1>2, <1>4, <2>1
    DEF SinkSound, WhileOpening, WhileWriting, WhileEnding, WhenOver
<1>5. ASSUME NEW j \in {"write", "close", "abort"}, OnlyAt(f, j)
      PROVE  /\ k = j /\ asks'[f] = <<>> /\ OnlyAt(f, j)' /\ UNCHANGED building
             /\ held'[f] => held[f] /\ j = "write"
             /\ held[f] => held'[f] \/ (j \in busy'[f] /\ j # "write")
             /\ held[f] /\ j = "write" => held'[f]
  <2>1. asks[f] = <<j>> /\ k = j /\ asks'[f] = <<>> /\ busy[f] = {} /\ answers[f] = {}
    BY <1>1, <1>5, ShortFact DEF OnlyAt, k
  <2>2. CASE held[f]
    <3>1. /\ busy'[f] = {j} /\ answers'[f] = {} /\ UNCHANGED building
          /\ held'[f] <=> j = "write"
      BY <1>2, <2>1, <2>2
    <3>2. OnlyAt(f, j)'
      BY <2>1, <3>1 DEF OnlyAt
    <3> QED
      BY <2>1, <2>2, <3>1, <3>2
  <2>3. CASE ~held[f]
    <3>1. /\ answers'[f] = {[k |-> j, ok |-> (j = "abort")]} /\ busy'[f] = {}
          /\ UNCHANGED <<building, held>>
      BY <1>2, <2>1, <2>3
    <3>2. (j = "abort") \in BOOLEAN
      OBVIOUS
    <3>3. OnlyAt(f, j)'
      BY <2>1, <3>1, <3>2 DEF OnlyAt
    <3> QED
      BY <2>1, <2>3, <3>1, <3>3
  <2> QED
    BY <2>2, <2>3
<1>6. CASE file[f] = "writing" /\ ~failed[f]
  <2>1. OnlyAt(f, "write") /\ held[f] /\ ~building[f]
    BY <1>1, <1>6 DEF SinkSound, WhileWriting
  <2>2. OnlyAt(f, "write")' /\ held'[f] /\ ~building'[f]
    BY <1>5, <2>1
  <2>3. ~About(f, "open")' /\ ~About(f, "close")'
    BY <2>2 DEF OnlyAt, About
  <2> QED
    BY <1>1, <1>6, <2>2, <2>3 DEF SinkSound, WhileOpening, WhileWriting, WhileEnding, WhenOver
<1>7. CASE file[f] \in {"closing", "failing"}
  <2>1. ASSUME NEW j \in {"close", "abort"}, OnlyAt(f, j)
        PROVE  /\ OnlyAt(f, j)' /\ UNCHANGED building
               /\ held'[f] => asks'[f] # <<>>
               /\ held[f] => "close" \in busy'[f] \/ "abort" \in busy'[f]
               /\ busy[f] \subseteq busy'[f]
    BY <1>2, <1>5, <2>1
  <2>2. ~building[f]
    BY <1>1, <1>7 DEF SinkSound
  <2>3. ASSUME NEW j \in {"close", "abort"}, OnlyAt(f, j), (j = "close") <=> file[f] = "closing"
        PROVE  SinkSound(f)'
    BY <1>1, <1>7, <2>1, <2>2, <2>3
    DEF SinkSound, WhileOpening, WhileWriting, WhileEnding, WhenOver
  <2>4. CASE file[f] = "closing"
    BY <2>3, <2>4 DEF SinkSound, WhileEnding
  <2>5. CASE file[f] = "failing"
    BY <2>3, <2>5 DEF SinkSound, WhileEnding
  <2> QED
    BY <1>7, <2>4, <2>5
<1>8. CASE asks[f] = <<"write", "abort">> /\ file[f] = "writing" /\ failed[f]
  <2>1. k = "write" /\ asks'[f] = <<"abort">> /\ asks'[f] # <<>> /\ ~building[f] /\ held[f]
        /\ busy[f] = {} /\ answers[f] = {}
    BY <1>1, <1>8, ShortFact DEF SinkSound, WhileWriting, k
  <2> QED
    BY <1>1, <1>2, <1>8, <2>1
    DEF SinkSound, About, WhileOpening, WhileWriting, WhileEnding, WhenOver
<1>9. ASSUME file[f] = "over" \/ (file[f] = "writing" /\ failed[f]), asks[f] = <<"abort">>
      PROVE  SinkSound(f)'
  <2>1. k = "abort" /\ asks'[f] = <<>> /\ ~building[f]
    BY <1>1, <1>9, ShortFact DEF SinkSound, k
  <2>2. /\ UNCHANGED building /\ ~held'[f] /\ (held[f] => "abort" \in busy'[f])
        /\ busy[f] \subseteq busy'[f]
        /\ \A j : j # "abort" => (About(f, j)' <=> About(f, j))
    BY <1>2, <2>1 DEF About
  <2> QED
    BY <1>1, <1>9, <2>1, <2>2 DEF SinkSound, WhileOpening, WhileWriting, WhileEnding, WhenOver
<1>10. CASE file[f] = "over" \/ (file[f] = "writing" /\ failed[f])
  BY <1>1, <1>8, <1>9, <1>10 DEF SinkSound, WhenOver, WhileWriting
<1> QED
  BY <1>3, <1>4, <1>6, <1>7, <1>10 DEF SinkTypes, Awaiting

LEMMA BuiltSound ==
  ASSUME SinkTypes, torn \in BOOLEAN, NEW f \in Files, SinkSound(f), NEW ok \in BOOLEAN,
         Built(f, ok)
  PROVE  SinkSound(f)'
<1>1. /\ building[f] /\ ~building'[f] /\ UNCHANGED <<torn, file, failed, asks, busy>>
      /\ held'[f] = (ok /\ ~torn)
      /\ ~torn => answers'[f] = answers[f] \cup {[k |-> "open", ok |-> held'[f]]}
      /\ torn => answers'[f] = answers[f] /\ (disk'[f] = "open" => disk[f] = "open")
      /\ ~torn => (disk'[f] = "open" => disk[f] = "open" \/ held'[f])
  BY Zenon DEF Built, Page, Sinks, Result, AbandonsSink, KeepsSink, SinkTypes
<1>2. CASE torn
  BY <1>1, <1>2 DEF SinkSound, About, WhileOpening, WhileWriting, WhileEnding, WhenOver
<1>3. CASE ~torn
  <2>1. file[f] = "opening" /\ answers'[f] = {[k |-> "open", ok |-> held'[f]]}
    BY <1>1, <1>3 DEF SinkSound, WhileOpening
  <2> QED
    BY <1>1, <1>3, <2>1 DEF SinkSound, WhileOpening, WhileWriting, WhileEnding, WhenOver
<1> QED
  BY <1>2, <1>3

LEMMA DoneSound ==
  ASSUME SinkTypes, torn \in BOOLEAN, NEW f \in Files, SinkSound(f), NEW k \in busy[f],
         NEW ok \in BOOLEAN, Done(f, k, ok)
  PROVE  SinkSound(f)'
<1>1. /\ UNCHANGED <<torn, file, failed, asks, building, held>> /\ busy'[f] = busy[f] \ {k}
      /\ ~torn => answers'[f] = answers[f] \cup {[k |-> k, ok |-> ok]}
      /\ torn => answers'[f] = answers[f]
  BY DEF Done, Page, Sinks, Result, SinkTypes
<1>2. disk'[f] = "open" => disk[f] = "open" /\ k \notin {"close", "abort"}
  BY DEF Done, SinkTypes, Kinds
<1>3. disk'[f] = "open" => held'[f] \/ "close" \in busy'[f] \/ "abort" \in busy'[f]
  BY <1>1, <1>2 DEF SinkSound
<1>4. file[f] \notin {"none", "idle", "opening"}
  BY DEF SinkSound, Nothing, WhileOpening
<1>5. \A j : About(f, j)' => About(f, j)
  BY <1>1 DEF About
<1>6. ~torn => \A j : About(f, j) => About(f, j)'
  <2> SUFFICES ASSUME ~torn, NEW j, About(f, j) PROVE About(f, j)'
    OBVIOUS
  <2>1. CASE j = k
    <3>1. [k |-> k, ok |-> ok] \in answers'[f] /\ [k |-> k, ok |-> ok].k = k
      BY <1>1
    <3> QED
      BY <2>1, <3>1 DEF About
  <2>2. CASE j # k
    BY <1>1, <2>2 DEF About
  <2> QED
    BY <2>1, <2>2
<1>7. \A j : ~torn /\ OnlyAt(f, j) => OnlyAt(f, j)'
  BY <1>1 DEF OnlyAt
<1>8. CASE file[f] \in {"writing", "closing", "failing"}
  <2>1. ~torn
    BY <1>8 DEF SinkSound
  <2>2. WhileWriting(f)'
    BY <1>1, <1>5, <1>6, <1>7, <2>1 DEF SinkSound, WhileWriting
  <2>3. WhileEnding(f)'
    BY <1>1, <1>7, <2>1 DEF SinkSound, WhileEnding
  <2> QED
    BY <1>1, <1>3, <1>8, <2>1, <2>2, <2>3 DEF SinkSound, WhileOpening, WhenOver
<1>9. CASE file[f] = "over"
  BY <1>1, <1>3, <1>5, <1>9 DEF SinkSound, WhileOpening, WhileWriting, WhileEnding, WhenOver
<1> QED
  BY <1>4, <1>8, <1>9 DEF SinkTypes, Awaiting

LEMMA UnmountSinkSound ==
  ASSUME SinkTypes, NEW f \in Files, SinkSound(f), Unmount
  PROVE  SinkSound(f)'
<1>1. /\ torn' /\ ~held'[f] /\ asks'[f] = <<>> /\ answers'[f] = {} /\ file'[f] = "over"
      /\ failed'[f] /\ UNCHANGED disk
      /\ busy'[f] = busy[f] \cup (IF held[f] THEN {"abort"} ELSE {})
  BY DEF Unmount
<1>2. "open" \notin busy[f]
  <2>1. file[f] \in {"closing", "failing"} => OnlyAt(f, "close") \/ OnlyAt(f, "abort")
    BY DEF SinkSound, WhileEnding
  <2>2. file[f] \in {"closing", "failing"} => "open" \notin busy[f]
    BY <2>1 DEF OnlyAt
  <2> QED
    BY <2>2 DEF SinkSound, Nothing, About, WhileOpening, WhileWriting, WhenOver, SinkTypes, Awaiting
<1> QED
  BY <1>1, <1>2 DEF SinkSound, About, WhileOpening, WhileWriting, WhileEnding, WhenOver

AllSinks == \A f \in Files : SinkSound(f)

LEMMA InitAllSinks == Init => AllSinks
BY DEF Init, AllSinks, SinkSound, Nothing, WhileOpening, WhileWriting, WhileEnding, WhenOver

(* A step about one file leaves the others alone.                          *)
LEMMA SinkApart ==
  ASSUME NEW g \in Files, SinkSound(g), torn' = torn,
         file'[g] = file[g], failed'[g] = failed[g], asks'[g] = asks[g],
         answers'[g] = answers[g], building'[g] = building[g], held'[g] = held[g],
         busy'[g] = busy[g], disk'[g] = disk[g]
  PROVE  SinkSound(g)'
BY DEF SinkSound, Nothing, OnlyAt, About, WhileOpening, WhileWriting, WhileEnding, WhenOver

LEMMA NextAllSinks == IInv /\ AllSinks /\ [Next]_vars => AllSinks'
<1> SUFFICES ASSUME IInv, AllSinks, [Next]_vars, NEW g \in Files
             PROVE  SinkSound(g)'
  BY DEF AllSinks
<1>1. Ready /\ SinkTypes /\ torn \in BOOLEAN /\ SinkSound(g)
  BY DEF IInv, Ready, TypeOK, PeerTypes, SinkTypes, AllSinks
<1>2. ASSUME torn' = torn, UNCHANGED sinkVars
      PROVE  SinkSound(g)'
  BY <1>1, <1>2, SinkApart DEF sinkVars
<1>3. CASE PeerStep
  <2>1. torn' = torn
    BY <1>3 DEF PeerStep, Hears, Takes, Create, Close, Opens, TimesOut, Dies, Flows, Low, Send,
         HearOpened, HearFailed, HearDrain, HearClosed, Heard,
         TakeOpen, TakeWait, TakeSend, TakeClose, Taken, Peers
  <2> QED
    BY <1>1, <1>2, <1>3, <2>1, PeerStepFact
<1>4. ASSUME NEW f \in Files, ReceiverStep(f)
      PROVE  SinkSound(g)'
  <2>1. CASE f = g
    BY <1>1, <1>4, <2>1, OpenSinkSound, WriteSound, CancelSound, FinishSound, HearResultSound
    DEF ReceiverStep
  <2>2. CASE f # g
    <3>1. /\ UNCHANGED <<torn, building, held, busy, disk>> /\ file'[g] = file[g]
          /\ failed'[g] = failed[g] /\ asks'[g] = asks[g] /\ answers'[g] = answers[g]
      BY <1>1, <1>4, <2>2 DEF ReceiverStep, OpenSink, Write, Cancel, Finish, HearResult,
           Worker, Sinks, Ask, ReleasesSink, SinkTypes
    <3> QED
      BY <1>1, <3>1, SinkApart
  <2> QED
    BY <2>1, <2>2
<1>5. ASSUME NEW f \in Files, SinkStep(f)
      PROVE  SinkSound(g)'
  <2>1. CASE f = g
    BY <1>1, <1>5, <2>1, TakeAskSound, BuiltSound, DoneSound DEF SinkStep
  <2>2. CASE f # g
    <3> DEFINE Apart == /\ UNCHANGED <<torn, file, failed>> /\ asks'[g] = asks[g]
                        /\ answers'[g] = answers[g] /\ building'[g] = building[g]
                        /\ held'[g] = held[g] /\ busy'[g] = busy[g] /\ disk'[g] = disk[g]
    <3>1. Apart
      <4>1. CASE TakeAsk(f)
        BY <1>1, <2>2, <4>1 DEF TakeAsk, Page, Sinks, Result, SinkTypes
      <4>2. ASSUME NEW ok \in BOOLEAN, Built(f, ok)
            PROVE  Apart
        BY <1>1, <2>2, <4>2
        DEF Built, Page, Sinks, Result, KeepsSink, AbandonsSink, SinkTypes
      <4>3. ASSUME NEW k \in busy[f], NEW ok \in BOOLEAN, Done(f, k, ok)
            PROVE  Apart
        BY <1>1, <2>2, <4>3 DEF Done, Page, Sinks, Result, SinkTypes
      <4> QED
        BY <1>5, <4>1, <4>2, <4>3 DEF SinkStep
    <3> QED
      BY <1>1, <3>1, SinkApart
  <2> QED
    BY <2>1, <2>2
<1>6. CASE Unmount
  BY <1>1, <1>6, UnmountSinkSound
<1>7. CASE UNCHANGED vars
  BY <1>2, <1>7 DEF vars
<1>8. Next => PeerStep \/ Unmount \/ \E f \in Files : ReceiverStep(f) \/ SinkStep(f)
  BY DEF Next, PeerStep, ReceiverStep, SinkStep
<1> QED
  BY <1>3, <1>4, <1>5, <1>6, <1>7, <1>8

(* Nothing a file depends on is lost: a request the Receiver awaits is on  *)
(* its way, being worked on or answered; and once the file is over, a sink *)
(* still open is being ended or is about to be aborted, and one still      *)
(* being built belongs to a page that is gone, which discards it           *)
(* (file-sink-proxy.ts, file-sink-host.ts, #run and disposeAll).           *)
SinksInHand == \A f \in Files :
  /\ file[f] \in Awaiting =>
       asks[f] # <<>> \/ busy[f] # {} \/ building[f] \/ answers[f] # {}
  /\ file[f] = "over" /\ disk[f] = "open" =>
       asks[f] = <<"abort">> \/ busy[f] \cap {"close", "abort"} # {}
  /\ file[f] = "over" /\ building[f] => torn

THEOREM SinksStayInHand == Spec => []SinksInHand
<1>1. Spec => []AllSinks
  BY InitAllSinks, NextAllSinks, SpecIInv, PTL DEF Spec
<1>2. AllSinks => SinksInHand
  <2> SUFFICES ASSUME NEW f \in Files, SinkSound(f)
               PROVE  /\ file[f] \in Awaiting =>
                           asks[f] # <<>> \/ busy[f] # {} \/ building[f] \/ answers[f] # {}
                      /\ file[f] = "over" /\ disk[f] = "open" =>
                           asks[f] = <<"abort">> \/ busy[f] \cap {"close", "abort"} # {}
                      /\ file[f] = "over" /\ building[f] => torn
    BY DEF AllSinks, SinksInHand
  <2>1. ASSUME file[f] \in Awaiting
        PROVE  asks[f] # <<>> \/ busy[f] # {} \/ building[f] \/ answers[f] # {}
    <3>1. CASE file[f] = "opening"
      BY <3>1, ShortFact DEF SinkSound, WhileOpening
    <3>2. \A k : OnlyAt(f, k) => asks[f] # <<>> \/ busy[f] # {} \/ answers[f] # {}
      BY ShortFact DEF OnlyAt
    <3>3. CASE file[f] = "writing"
      BY <3>2, <3>3, ShortFact DEF SinkSound, WhileWriting, About
    <3>4. CASE file[f] \in {"closing", "failing"}
      BY <3>2, <3>4 DEF SinkSound, WhileEnding
    <3> QED
      BY <2>1, <3>1, <3>3, <3>4 DEF Awaiting
  <2>2. file[f] = "over" /\ disk[f] = "open" =>
          asks[f] = <<"abort">> \/ busy[f] \cap {"close", "abort"} # {}
    BY DEF SinkSound, WhenOver
  <2>3. file[f] = "over" /\ building[f] => torn
    BY DEF SinkSound
  <2> QED
    BY <2>1, <2>2, <2>3
<1> QED
  BY <1>1, <1>2, PTL
=============================================================================
