---------------------------- MODULE TransferProofs ----------------------------
(***************************************************************************)
(* Proofs about Transfer, for any number of files of any size and any      *)
(* number of lost connections, cancels and refused writes: what is saved   *)
(* is what was sent, and the transfer implements FileDelivery.             *)
(***************************************************************************)
EXTENDS Transfer, FiniteSetTheorems, TLAPS

-----------------------------------------------------------------------------
(* The inductive invariant, in parts named for what they are about.        *)

FwdFrames ==
  [t : {"offer", "hello", "joined"}] \cup [t : {"end", "cancel"}, f : Files] \cup
  {m \in [t : {"data"}, f : Files, n : Nat] : m.n < Size[m.f]}

(* Frames to the sending device once the files of done are complete: only  *)
(* a complete file is ever acknowledged.                                   *)
BwdFrames(done) ==
  [t : {"hello", "joined", "left"}] \cup [t : {"cancel"}, f : Files] \cup
  [t : {"ack"}, f : done] \cup
  {m \in [t : {"resume"}, f : Files, n : Nat] : m.n <= Size[m.f]}

(* Offers in a sequence of frames.                                         *)
HasOffer(s) == \E i \in 1..Len(s) : s[i].t = "offer"
OneOffer(s) == \A i, j \in 1..Len(s) : s[i].t = "offer" /\ s[j].t = "offer" => i = j

Links == sUp \in BOOLEAN /\ rUp \in BOOLEAN

(* The sending device. Once it has begun, each file is queued, or its row  *)
(* has said how it ended.                                                  *)
Sending ==
  /\ paired \in BOOLEAN
  /\ batch \in {"idle", "running", "over"}
  /\ at \in Nat \X Nat /\ (N > 0 => at[1] \in Files)
  /\ resume \in [Files -> Nat \cup {Idle}]
  /\ queued \subseteq Files /\ awaiting \subseteq Files /\ cancelled \subseteq Files
  /\ told \in [Files -> SUBSET {"done", "cancelled"}]
  /\ userStopped \subseteq Files /\ restarted \subseteq Files
  /\ batch # "idle" => \A f \in Files : f \in queued \/ told[f] # {}

(* A file that is still open is neither saved nor given up, and one that   *)
(* is saved is whole and was not given up.                                 *)
Settled(f) ==
  /\ entry[f] = "open" => f \notin completed /\ f \notin given
  /\ entry[f] = "failed" => f \in given
  /\ f \in completed => f \notin given /\ got[f] = Size[f]
  /\ intact[f]

Receiving ==
  /\ entry \in [Files -> {"none", "open", "failed"}]
  /\ got \in [Files -> Nat] /\ \A f \in Files : got[f] <= Size[f]
  /\ completed \subseteq Files /\ rcancelled \subseteq Files
  /\ intact \in [Files -> BOOLEAN]
  /\ tagFailed \subseteq Files /\ given \subseteq Files
  /\ \A f \in Files : Settled(f)

(* The row reads done only over a complete file.                           *)
Reported == {f \in Files : "done" \in told[f]}
Confirmed == Reported \subseteq completed

(* The receiving device has begun nothing.                                 *)
Untouched == completed = {} /\ given = {} /\ \A f \in Files : entry[f] = "none"

(* The files are offered once, when the batch begins, and nothing happens  *)
(* on the receiving device before the offer arrives.                       *)
Forward ==
  /\ fwd \in Seq(FwdFrames)
  /\ OneOffer(fwd)
  /\ batch = "idle" => ~HasOffer(fwd)
  /\ batch = "idle" \/ HasOffer(fwd) => Untouched

Backward == bwd \in Seq(BwdFrames(completed))

IInv == Links /\ Sending /\ Receiving /\ Confirmed /\ Forward /\ Backward

-----------------------------------------------------------------------------
(* Sequences of frames.                                                    *)

LEMMA TailOffers ==
  ASSUME NEW S, NEW s \in Seq(S), s # <<>>
  PROVE  /\ Tail(s) \in Seq(S)
         /\ OneOffer(s) => OneOffer(Tail(s))
         /\ HasOffer(Tail(s)) => HasOffer(s)
         /\ OneOffer(s) /\ Head(s).t = "offer" => ~HasOffer(Tail(s))
<1>1. /\ Len(Tail(s)) = Len(s) - 1 /\ Len(s) \in Nat \ {0}
      /\ \A i \in 1..Len(Tail(s)) : Tail(s)[i] = s[i + 1]
      /\ Head(s) = s[1] /\ Tail(s) \in Seq(S)
  OBVIOUS
<1>2. OneOffer(s) => OneOffer(Tail(s))
  BY <1>1 DEF OneOffer
<1>3. HasOffer(Tail(s)) => HasOffer(s)
  BY <1>1 DEF HasOffer
<1>4. OneOffer(s) /\ Head(s).t = "offer" => ~HasOffer(Tail(s))
  BY <1>1 DEF OneOffer, HasOffer
<1> QED
  BY <1>1, <1>2, <1>3, <1>4

LEMMA SubSeqOffers ==
  ASSUME NEW S, NEW s \in Seq(S), NEW a \in Nat \ {0}, NEW b \in 0..Len(s)
  PROVE  /\ SubSeq(s, a, b) \in Seq(S)
         /\ OneOffer(s) => OneOffer(SubSeq(s, a, b))
         /\ HasOffer(SubSeq(s, a, b)) => HasOffer(s)
<1> DEFINE u == SubSeq(s, a, b)
<1>1. /\ u \in Seq(S) /\ Len(s) \in Nat
      /\ Len(u) = IF a <= b THEN b - a + 1 ELSE 0
      /\ \A i \in 1..Len(u) : u[i] = s[a + i - 1]
  OBVIOUS
<1> HIDE DEF u
<1>2. \A i \in 1..Len(u) : a + i - 1 \in 1..Len(s)
  <2>1. CASE a <= b
    BY <1>1, <2>1
  <2>2. CASE ~(a <= b)
    BY <1>1, <2>2
  <2> QED
    BY <2>1, <2>2
<1>3. OneOffer(s) => OneOffer(u)
  <2> SUFFICES ASSUME OneOffer(s), NEW i \in 1..Len(u), NEW j \in 1..Len(u),
                      u[i].t = "offer", u[j].t = "offer"
               PROVE  i = j
    BY DEF OneOffer
  <2>1. /\ a + i - 1 \in 1..Len(s) /\ a + j - 1 \in 1..Len(s)
        /\ s[a + i - 1].t = "offer" /\ s[a + j - 1].t = "offer"
    BY <1>1, <1>2
  <2>2. a + i - 1 = a + j - 1
    BY <2>1 DEF OneOffer
  <2>3. i \in Int /\ j \in Int /\ a \in Int
    BY <1>1
  <2> QED
    BY <2>2, <2>3
<1>4. HasOffer(u) => HasOffer(s)
  BY <1>1, <1>2 DEF HasOffer
<1> QED
  BY <1>1, <1>3, <1>4 DEF u

LEMMA ConcatOffers ==
  ASSUME NEW S, NEW s \in Seq(S), NEW u \in Seq(S)
  PROVE  /\ s \o u \in Seq(S)
         /\ ~HasOffer(u) => (OneOffer(s) => OneOffer(s \o u))
         /\ ~HasOffer(u) => (HasOffer(s \o u) => HasOffer(s))
         /\ ~HasOffer(s) /\ OneOffer(u) => OneOffer(s \o u)
<1>1. /\ Len(s) \in Nat /\ Len(u) \in Nat
      /\ Len(s \o u) = Len(s) + Len(u) /\ s \o u \in Seq(S)
      /\ \A i \in 1..Len(s) + Len(u) : (s \o u)[i] = IF i <= Len(s) THEN s[i] ELSE u[i - Len(s)]
  OBVIOUS
<1> DEFINE w == s \o u
<1>2. ASSUME NEW i \in 1..Len(w), w[i].t = "offer"
      PROVE  \/ i \in 1..Len(s) /\ s[i].t = "offer"
             \/ i - Len(s) \in 1..Len(u) /\ u[i - Len(s)].t = "offer"
  BY <1>1, <1>2
<1>3. ~HasOffer(u) => (OneOffer(s) => OneOffer(w))
  BY <1>1, <1>2 DEF OneOffer, HasOffer
<1>4. ~HasOffer(u) => (HasOffer(w) => HasOffer(s))
  BY <1>1, <1>2 DEF HasOffer
<1>5. ~HasOffer(s) /\ OneOffer(u) => OneOffer(w)
  BY <1>1, <1>2 DEF OneOffer, HasOffer
<1> QED
  BY <1>1, <1>3, <1>4, <1>5

LEMMA SetToSeqType ==
  ASSUME NEW S, IsFiniteSet(S)
  PROVE  SetToSeq(S) \in Seq(S)
<1>1. Cardinality(S) \in Nat /\ ExistsBijection(1..Cardinality(S), S)
  BY FS_CardinalityType
<1>2. \E f \in [1..Cardinality(S) -> S] : IsInjective(f)
  BY <1>1 DEF ExistsBijection, Bijection, Injection
<1>3. SetToSeq(S) \in [1..Cardinality(S) -> S]
  BY <1>2 DEF SetToSeq
<1> QED
  BY <1>1, <1>3

LEMMA FilesFinite ==
  ASSUME NEW F, F \subseteq Files
  PROVE  IsFiniteSet(F)
<1>1. IsFiniteSet(Files)
  BY TransferAssumption, FS_Interval DEF Files
<1> QED
  BY <1>1, FS_Subset

(* The frames.                                                             *)
LEMMA FwdFact ==
  /\ Hello \in FwdFrames /\ PeerJoined \in FwdFrames /\ Offer \in FwdFrames
  /\ Hello.t # "offer" /\ PeerJoined.t # "offer" /\ Offer.t = "offer"
  /\ \A f \in Files : /\ FileEnd(f) \in FwdFrames /\ FileEnd(f).t # "offer"
                      /\ Cancel(f) \in FwdFrames /\ Cancel(f).t # "offer"
BY DEF Hello, PeerJoined, Offer, FileEnd, Cancel, FwdFrames

LEMMA BwdFact ==
  ASSUME NEW done
  PROVE  /\ Hello \in BwdFrames(done) /\ PeerJoined \in BwdFrames(done)
         /\ PeerLeft \in BwdFrames(done)
         /\ \A f \in Files : Cancel(f) \in BwdFrames(done)
         /\ \A f \in done : Ack(f) \in BwdFrames(done)
BY DEF Hello, PeerJoined, PeerLeft, Cancel, Ack, BwdFrames

LEMMA DataFact ==
  ASSUME NEW f \in Files, NEW n \in Nat, NEW done
  PROVE  /\ n < Size[f] => DataFrame(f, n) \in FwdFrames /\ DataFrame(f, n).t # "offer"
         /\ n <= Size[f] => ResumeFrom(f, n) \in BwdFrames(done)
BY DEF DataFrame, ResumeFrom, FwdFrames, BwdFrames

LEMMA FwdRead ==
  ASSUME NEW m \in FwdFrames
  PROVE  /\ m.t \in {"offer", "hello", "joined", "end", "cancel", "data"}
         /\ m.t \in {"end", "cancel", "data"} => m.f \in Files
         /\ m.t = "data" => m.n \in Nat /\ m.n < Size[m.f]
BY DEF FwdFrames

LEMMA BwdRead ==
  ASSUME NEW done, NEW m \in BwdFrames(done)
  PROVE  /\ m.t \in {"hello", "joined", "left", "cancel", "ack", "resume"}
         /\ m.t = "ack" => m.f \in done
         /\ m.t = "cancel" => m.f \in Files
         /\ m.t = "resume" => m.f \in Files /\ m.n \in Nat /\ m.n <= Size[m.f]
BY DEF BwdFrames

LEMMA BwdGrows ==
  ASSUME NEW C, NEW D, C \subseteq D
  PROVE  Seq(BwdFrames(C)) \subseteq Seq(BwdFrames(D))
<1>1. BwdFrames(C) \subseteq BwdFrames(D)
  BY DEF BwdFrames
<1> QED
  BY <1>1

LEMMA HeadType ==
  ASSUME NEW S, NEW s \in Seq(S), s # <<>>
  PROVE  Head(s) \in S
OBVIOUS

LEMMA FwdHead ==
  ASSUME Forward, fwd # <<>>
  PROVE  /\ Head(fwd).t \in {"end", "cancel", "data"} => Head(fwd).f \in Files
         /\ Head(fwd).t = "data" => Head(fwd).n \in Nat /\ Head(fwd).n < Size[Head(fwd).f]
<1>1. Head(fwd) \in FwdFrames
  BY HeadType DEF Forward
<1> QED
  BY <1>1, FwdRead

LEMMA BwdHead ==
  ASSUME Backward, bwd # <<>>
  PROVE  /\ Head(bwd).t = "ack" => Head(bwd).f \in completed
         /\ Head(bwd).t = "cancel" => Head(bwd).f \in Files
         /\ Head(bwd).t = "resume" =>
              /\ Head(bwd).f \in Files
              /\ Head(bwd).n \in Nat /\ Head(bwd).n <= Size[Head(bwd).f]
<1>1. Head(bwd) \in BwdFrames(completed)
  BY HeadType DEF Backward
<1> QED
  BY <1>1, BwdRead

(* What a resync says.                                                     *)
LEMMA ResyncType ==
  ASSUME Receiving
  PROVE  Resync \in Seq(BwdFrames(completed))
<1> DEFINE O == {g \in Files : entry[g] = "open"}
           P == {ResumeFrom(f, got[f]) : f \in O}
           A == {Ack(f) : f \in completed}
           B == BwdFrames(completed)
<1>1. SetToSeq(P) \in Seq(P)
  <2> DEFINE p == [f \in O |-> ResumeFrom(f, got[f])]
  <2>1. p \in Surjection(O, P)
    BY DEF Surjection
  <2>2. IsFiniteSet(O)
    BY FilesFinite
  <2> QED
    BY <2>1, <2>2, FS_Surjection, SetToSeqType
<1>2. SetToSeq(A) \in Seq(A)
  <2> DEFINE a == [f \in completed |-> Ack(f)]
  <2>1. a \in Surjection(completed, A)
    BY DEF Surjection
  <2>2. IsFiniteSet(completed)
    BY FilesFinite DEF Receiving
  <2> QED
    BY <2>1, <2>2, FS_Surjection, SetToSeqType
<1>3. P \subseteq B
  <2> SUFFICES ASSUME NEW f \in Files
               PROVE  ResumeFrom(f, got[f]) \in B
    OBVIOUS
  <2>1. got[f] \in Nat /\ got[f] <= Size[f]
    BY DEF Receiving
  <2> QED
    BY <2>1, DataFact
<1>4. A \subseteq B
  BY BwdFact
<1> HIDE DEF P, A, B
<1>5. SetToSeq(P) \in Seq(B) /\ SetToSeq(A) \in Seq(B)
  BY <1>1, <1>2, <1>3, <1>4
<1>6. SetToSeq(P) \o SetToSeq(A) \in Seq(B)
  BY <1>5
<1> QED
  BY <1>6 DEF Resync, ResyncPoints, ResyncAcks, P, A, B

-----------------------------------------------------------------------------
(* The path: frames pushed at its end, taken or lost at its head, or lost  *)
(* with a connection.                                                      *)

rBase == <<completed, given, entry>>

(* The batch has begun, or has not, as before.                             *)
SameStart == batch' = "idle" <=> batch = "idle"

LEMMA UntouchedKept == UNCHANGED rBase => (Untouched' <=> Untouched)
BY DEF rBase, Untouched

LEMMA ForwardKept ==
  ASSUME Forward, SameStart, fwd' = fwd, Untouched => Untouched'
  PROVE  Forward'
BY DEF Forward, SameStart, HasOffer, OneOffer

LEMMA ForwardPush ==
  ASSUME Forward, SameStart, UNCHANGED rBase,
         NEW u \in Seq(FwdFrames), fwd' = fwd \o u,
         \A i \in 1..Len(u) : u[i].t # "offer"
  PROVE  Forward'
<1>1. ~HasOffer(u)
  BY DEF HasOffer
<1>2. /\ fwd' \in Seq(FwdFrames)
      /\ OneOffer(fwd) => OneOffer(fwd')
      /\ HasOffer(fwd') => HasOffer(fwd)
  BY <1>1, ConcatOffers DEF Forward
<1>3. OneOffer(fwd)' = OneOffer(fwd') /\ HasOffer(fwd)' = HasOffer(fwd')
  BY DEF OneOffer, HasOffer
<1> QED
  BY <1>2, <1>3, UntouchedKept DEF Forward, SameStart

LEMMA ForwardOne ==
  ASSUME Forward, SameStart, UNCHANGED rBase,
         NEW m \in FwdFrames, fwd' = fwd \o <<m>>, m.t # "offer"
  PROVE  Forward'
<1>1. <<m>> \in Seq(FwdFrames) /\ \A i \in 1..Len(<<m>>) : <<m>>[i].t # "offer"
  OBVIOUS
<1> QED
  BY <1>1, ForwardPush

LEMMA ForwardTail ==
  ASSUME Forward, fwd # <<>>, SameStart, fwd' = Tail(fwd), Untouched => Untouched'
  PROVE  Forward'
<1>1. /\ fwd' \in Seq(FwdFrames)
      /\ OneOffer(fwd) => OneOffer(fwd')
      /\ HasOffer(fwd') => HasOffer(fwd)
  BY TailOffers DEF Forward
<1>2. OneOffer(fwd)' = OneOffer(fwd') /\ HasOffer(fwd)' = HasOffer(fwd')
  BY DEF OneOffer, HasOffer
<1> QED
  BY <1>1, <1>2 DEF Forward, SameStart

LEMMA PartOffers ==
  ASSUME NEW S, NEW s \in Seq(S), NEW u \in Prefixes(s) \cup Suffixes(s)
  PROVE  /\ u \in Seq(S)
         /\ OneOffer(s) => OneOffer(u)
         /\ HasOffer(u) => HasOffer(s)
<1>1. CASE u = <<>>
  BY <1>1 DEF OneOffer, HasOffer
<1>2. CASE u # <<>>
  <2>1. Len(s) \in Nat
    OBVIOUS
  <2>2. \E a \in Nat \ {0}, b \in 0..Len(s) : u = SubSeq(s, a, b)
    <3>1. CASE u \in Prefixes(s)
      <4>1. 1 \in Nat \ {0}
        OBVIOUS
      <4> QED
        BY <3>1, <4>1 DEF Prefixes
    <3>2. CASE u \in Suffixes(s)
      <4>1. PICK a \in 1..Len(s) : u = SubSeq(s, a, Len(s))
        BY <1>2, <3>2 DEF Suffixes
      <4>2. a \in Nat \ {0} /\ Len(s) \in 0..Len(s)
        BY <2>1
      <4> QED
        BY <4>1, <4>2
    <3> QED
      BY <3>1, <3>2
  <2> QED
    BY <2>2, SubSeqOffers
<1> QED
  BY <1>1, <1>2

LEMMA ForwardPart ==
  ASSUME Forward, SameStart, UNCHANGED rBase,
         fwd' \in Prefixes(fwd) \cup Suffixes(fwd)
  PROVE  Forward'
<1>1. /\ fwd' \in Seq(FwdFrames)
      /\ OneOffer(fwd) => OneOffer(fwd')
      /\ HasOffer(fwd') => HasOffer(fwd)
  BY PartOffers DEF Forward
<1>2. OneOffer(fwd)' = OneOffer(fwd') /\ HasOffer(fwd)' = HasOffer(fwd')
  BY DEF OneOffer, HasOffer
<1> QED
  BY <1>1, <1>2, UntouchedKept DEF Forward, SameStart

LEMMA BackwardKept ==
  ASSUME Backward, completed \subseteq completed', bwd' = bwd
  PROVE  Backward'
<1>1. bwd \in Seq(BwdFrames(completed'))
  BY BwdGrows DEF Backward
<1>2. Backward' <=> bwd' \in Seq(BwdFrames(completed'))
  BY DEF Backward, BwdFrames
<1> QED
  BY <1>1, <1>2

LEMMA BackwardPush ==
  ASSUME Backward, completed \subseteq completed',
         NEW u \in Seq(BwdFrames(completed')), bwd' = bwd \o u
  PROVE  Backward'
<1>1. bwd \in Seq(BwdFrames(completed'))
  BY BwdGrows DEF Backward
<1>2. bwd' \in Seq(BwdFrames(completed'))
  BY <1>1
<1>3. Backward' <=> bwd' \in Seq(BwdFrames(completed'))
  BY DEF Backward, BwdFrames
<1> QED
  BY <1>2, <1>3

LEMMA BackwardTail ==
  ASSUME Backward, bwd # <<>>, bwd' = Tail(bwd), completed' = completed
  PROVE  Backward'
<1>1. Tail(bwd) \in Seq(BwdFrames(completed))
  BY DEF Backward
<1>2. Backward' <=> bwd' \in Seq(BwdFrames(completed'))
  BY DEF Backward, BwdFrames
<1> QED
  BY <1>1, <1>2

LEMMA BackwardPart ==
  ASSUME Backward, completed' = completed, bwd' \in Prefixes(bwd) \cup Suffixes(bwd)
  PROVE  Backward'
<1>1. bwd' \in Seq(BwdFrames(completed))
  BY PartOffers DEF Backward
<1>2. Backward' <=> bwd' \in Seq(BwdFrames(completed'))
  BY DEF Backward, BwdFrames
<1> QED
  BY <1>1, <1>2

(* What a device says, one frame or a whole resync, once it may.           *)
LEMMA BackwardReply ==
  ASSUME Backward, completed \subseteq completed',
         NEW u \in Seq(BwdFrames(completed')), Reply(u)
  PROVE  Backward'
BY BackwardKept, BackwardPush DEF Reply

LEMMA BackwardReplyOne ==
  ASSUME Backward, completed \subseteq completed',
         NEW m \in BwdFrames(completed'), Reply(<<m>>)
  PROVE  Backward'
<1>1. <<m>> \in Seq(BwdFrames(completed'))
  OBVIOUS
<1> QED
  BY <1>1, BackwardReply

-----------------------------------------------------------------------------
(* What a step leaves alone stays as it was.                               *)

LEMMA LinksKept == Links /\ UNCHANGED <<sUp, rUp>> => Links'
BY DEF Links

LEMMA SendingKept == Sending /\ UNCHANGED <<sVars, hVars>> => Sending'
BY DEF Sending, sVars, hVars

LEMMA ReceivingKept == Receiving /\ UNCHANGED rVars => Receiving'
BY DEF Receiving, Settled, rVars

LEMMA ConfirmedKept == Confirmed /\ told' = told /\ completed \subseteq completed' => Confirmed'
BY DEF Confirmed, Reported

LEMMA BaseKept == UNCHANGED rVars => UNCHANGED rBase
BY DEF rVars, rBase

(* The files the sending device has announced. A steady step settles none  *)
(* of them, but may begin the batch.                                       *)
Announced == {f \in Files : f \in queued \/ told[f] # {}}

Steady ==
  /\ UNCHANGED <<completed, given, Reported>>
  /\ Announced \subseteq Announced'
  /\ batch # "idle" => batch' # "idle"

(* The others give up at most one file, one that was not saved, save one   *)
(* that was neither saved nor given up, or report one that was saved.      *)
GivesUp ==
  /\ completed' = completed
  /\ given' = given \/ \E f \in Files \ completed : given' = given \cup {f}

Saves ==
  /\ given' = given
  /\ \E f \in Files \ (completed \cup given) : completed' = completed \cup {f}

Reports ==
  /\ UNCHANGED <<completed, given, batch>>
  /\ \E f \in completed : Reported' = Reported \cup {f}

LEMMA SteadyKept ==
  UNCHANGED <<completed, given, queued, told>> /\ SameStart => Steady
BY DEF Steady, Announced, Reported, SameStart

-----------------------------------------------------------------------------
(* The steps of the sending device's loops.                                *)

(* What is said of a file grows by one word.                               *)
LEMMA ToldGrows ==
  ASSUME Sending, NEW f \in Files, NEW w \in {"done", "cancelled"},
         told' = [told EXCEPT ![f] = @ \cup {w}]
  PROVE  /\ told' \in [Files -> SUBSET {"done", "cancelled"}]
         /\ told'[f] # {}
         /\ \A g \in Files : told[g] # {} => told'[g] # {}
         /\ Reported' = IF w = "done" THEN Reported \cup {f} ELSE Reported
<1>1. told \in [Files -> SUBSET {"done", "cancelled"}]
  BY DEF Sending
<1>2. \A g \in Files : told'[g] = IF g = f THEN told[g] \cup {w} ELSE told[g]
  BY <1>1
<1>3. told' \in [Files -> SUBSET {"done", "cancelled"}]
  BY <1>1
<1>4. Reported' = IF w = "done" THEN Reported \cup {f} ELSE Reported
  BY <1>2 DEF Reported
<1> QED
  BY <1>2, <1>3, <1>4

(* Each way a loop can go on sends at most one frame, never an offer, and  *)
(* leaves no file of a batch without a queue entry or a last word.         *)
LEMMA LoopStep ==
  ASSUME Sending, NEW f \in Files, NEW n \in Nat,
         Stopped(f) \/ (n < Size[f] /\ Chunk(f, n)) \/ Written(f)
  PROVE  /\ queued' \subseteq Files /\ awaiting' \subseteq Files
         /\ told' \in [Files -> SUBSET {"done", "cancelled"}]
         /\ \A g \in Files : g \in queued \/ told[g] # {} => g \in queued' \/ told'[g] # {}
         /\ Reported' = Reported
         /\ fwd' = fwd \/ \E m \in FwdFrames : m.t # "offer" /\ fwd' = fwd \o <<m>>
<1>1. CASE Stopped(f)
  <2>1. /\ told' \in [Files -> SUBSET {"done", "cancelled"}] /\ told'[f] # {}
        /\ \A g \in Files : told[g] # {} => told'[g] # {}
        /\ Reported' = Reported
    BY <1>1, ToldGrows DEF Stopped
  <2>2. queued' = queued \ {f} /\ awaiting' = awaiting /\ fwd' = fwd
    BY <1>1 DEF Stopped
  <2> QED
    BY <2>1, <2>2 DEF Sending
<1>2. CASE n < Size[f] /\ Chunk(f, n)
  <2>1. /\ told' = told /\ queued' = queued /\ awaiting' = awaiting
        /\ fwd' = fwd \/ fwd' = fwd \o <<DataFrame(f, n)>>
    BY <1>2 DEF Chunk, ToPeer
  <2>2. DataFrame(f, n) \in FwdFrames /\ DataFrame(f, n).t # "offer"
    BY <1>2, DataFact
  <2> QED
    BY <2>1, <2>2 DEF Sending, Reported
<1>3. CASE Written(f)
  <2>1. /\ told' = told /\ queued' = queued /\ awaiting' = awaiting \cup {f}
        /\ fwd' = fwd \/ fwd' = fwd \o <<FileEnd(f)>>
    BY <1>3 DEF Written, ToPeer
  <2>2. FileEnd(f) \in FwdFrames /\ FileEnd(f).t # "offer"
    BY FwdFact
  <2> QED
    BY <2>1, <2>2 DEF Sending, Reported
<1> QED
  BY <1>1, <1>2, <1>3

LEMMA ForwardLoop ==
  ASSUME Forward, SameStart, UNCHANGED rVars,
         fwd' = fwd \/ \E m \in FwdFrames : m.t # "offer" /\ fwd' = fwd \o <<m>>
  PROVE  Forward'
<1>1. UNCHANGED rBase
  BY BaseKept
<1> QED
  BY <1>1, ForwardKept, ForwardOne, UntouchedKept

LEMMA SendFilesStep ==
  ASSUME IInv, SendFiles
  PROVE  IInv' /\ Steady
<1>1. /\ batch = "idle" /\ batch' \in {"running", "over"} /\ queued' = Files
      /\ fwd' = fwd \/ fwd' = fwd \o <<Offer>>
      /\ UNCHANGED <<sUp, rUp, paired, at, resume, awaiting, cancelled, told,
                     rVars, bwd, hVars>>
  BY DEF SendFiles, ToPeer, rVars, hVars
<1>2. Links' /\ Receiving' /\ Confirmed' /\ Backward'
  BY <1>1, LinksKept, ReceivingKept, ConfirmedKept, BackwardKept DEF IInv, rVars
<1>3. Sending'
  BY <1>1 DEF IInv, Sending, hVars
<1>4. Forward'
  <2>1. /\ ~HasOffer(fwd) /\ Untouched /\ fwd \in Seq(FwdFrames)
    BY <1>1 DEF IInv, Forward
  <2>2. Untouched'
    BY <1>1, <2>1, BaseKept, UntouchedKept
  <2>3. fwd' \in Seq(FwdFrames) /\ OneOffer(fwd')
    <3>1. <<Offer>> \in Seq(FwdFrames) /\ OneOffer(<<Offer>>)
      BY FwdFact DEF OneOffer
    <3>2. OneOffer(fwd)
      BY DEF IInv, Forward
    <3>3. fwd \o <<Offer>> \in Seq(FwdFrames) /\ OneOffer(fwd \o <<Offer>>)
      BY <2>1, <3>1, ConcatOffers
    <3> QED
      BY <1>1, <2>1, <3>2, <3>3
  <2>4. OneOffer(fwd)' = OneOffer(fwd')
    BY DEF OneOffer
  <2> QED
    BY <1>1, <2>2, <2>3, <2>4 DEF Forward
<1> QED
  BY <1>1, <1>2, <1>3, <1>4 DEF IInv, rVars, Steady, Announced, SameStart, Reported

LEMMA BatchStepStep ==
  ASSUME IInv, BatchStep
  PROVE  IInv' /\ Steady
<1> DEFINE f == at[1]
           n == at[2]
<1>1. f \in Files /\ n \in Nat /\ N \in Nat /\ batch = "running"
  BY TransferAssumption DEF IInv, Sending, BatchStep
<1>2. /\ UNCHANGED <<sUp, rUp, paired, resume, cancelled, rVars, bwd, hVars>>
      /\ Stopped(f) \/ (n < Size[f] /\ Chunk(f, n)) \/ Written(f)
      /\ \/ f < N /\ at' = <<f + 1, 0>> /\ batch' = batch
         \/ at' = <<1, 0>> /\ batch' = "over"
         \/ at' = <<f, n + 1>> /\ batch' = batch
  BY DEF BatchStep, hVars, rVars
<1>3. Sending /\ Forward
  BY DEF IInv
<1>4. /\ queued' \subseteq Files /\ awaiting' \subseteq Files
      /\ told' \in [Files -> SUBSET {"done", "cancelled"}]
      /\ \A g \in Files : g \in queued \/ told[g] # {} => g \in queued' \/ told'[g] # {}
      /\ Reported' = Reported
      /\ fwd' = fwd \/ \E m \in FwdFrames : m.t # "offer" /\ fwd' = fwd \o <<m>>
  BY <1>1, <1>2, <1>3, LoopStep
<1>5. at' \in Nat \X Nat /\ at'[1] \in Files /\ batch' \in {"running", "over"}
  BY <1>1, <1>2 DEF Files
<1>6. Sending'
  BY <1>1, <1>2, <1>3, <1>4, <1>5 DEF Sending, hVars
<1>7. SameStart
  BY <1>1, <1>5 DEF SameStart
<1>8. Links' /\ Receiving' /\ Backward'
  BY <1>2, LinksKept, ReceivingKept, BackwardKept DEF IInv, rVars
<1>9. Confirmed'
  BY <1>2, <1>4 DEF IInv, Confirmed, rVars
<1>10. Forward'
  BY <1>2, <1>3, <1>4, <1>7, ForwardLoop
<1> QED
  BY <1>2, <1>4, <1>6, <1>8, <1>9, <1>10 DEF IInv, rVars, Steady, Announced, SameStart

LEMMA ResumeStepStep ==
  ASSUME IInv, NEW f \in Files, ResumeStep(f)
  PROVE  IInv' /\ Steady
<1> DEFINE n == resume[f]
<1>1. n \in Nat /\ Size[f] \in Nat
  BY TransferAssumption DEF IInv, Sending, ResumeStep
<1>2. /\ UNCHANGED <<sUp, rUp, paired, batch, at, cancelled, rVars, bwd, hVars>>
      /\ Stopped(f) \/ (n < Size[f] /\ Chunk(f, n)) \/ Written(f)
      /\ resume' = [resume EXCEPT ![f] = Idle] \/ resume' = [resume EXCEPT ![f] = n + 1]
  BY DEF ResumeStep, hVars, rVars
<1>3. Sending /\ Forward
  BY DEF IInv
<1>4. /\ queued' \subseteq Files /\ awaiting' \subseteq Files
      /\ told' \in [Files -> SUBSET {"done", "cancelled"}]
      /\ \A g \in Files : g \in queued \/ told[g] # {} => g \in queued' \/ told'[g] # {}
      /\ Reported' = Reported
      /\ fwd' = fwd \/ \E m \in FwdFrames : m.t # "offer" /\ fwd' = fwd \o <<m>>
  BY <1>1, <1>2, <1>3, LoopStep
<1>5. resume' \in [Files -> Nat \cup {Idle}]
  <2>1. n + 1 \in Nat
    BY <1>1
  <2> HIDE DEF n
  <2> QED
    BY <1>2, <1>3, <2>1 DEF Sending
<1>6. Sending'
  BY <1>2, <1>3, <1>4, <1>5 DEF Sending, hVars
<1>7. SameStart
  BY <1>2 DEF SameStart
<1>8. Links' /\ Receiving' /\ Backward'
  BY <1>2, LinksKept, ReceivingKept, BackwardKept DEF IInv, rVars
<1>9. Confirmed'
  BY <1>2, <1>4 DEF IInv, Confirmed, rVars
<1>10. Forward'
  BY <1>2, <1>3, <1>4, <1>7, ForwardLoop
<1> QED
  BY <1>2, <1>4, <1>6, <1>8, <1>9, <1>10 DEF IInv, rVars, Steady, Announced, SameStart

-----------------------------------------------------------------------------
(* The other steps of the sending device.                                  *)

LEMMA CancelSendingStep ==
  ASSUME IInv, NEW f \in Files, CancelSending(f)
  PROVE  IInv' /\ Steady
<1>1. /\ cancelled' = cancelled \cup {f} /\ userStopped' = userStopped \cup {f}
      /\ fwd' = fwd \/ fwd' = fwd \o <<Cancel(f)>>
      /\ UNCHANGED <<sUp, rUp, paired, batch, at, resume, queued, awaiting, told,
                     rVars, bwd, restarted>>
  BY DEF CancelSending, ToPeer, rVars
<1>2. Links' /\ Receiving' /\ Confirmed' /\ Backward'
  BY <1>1, LinksKept, ReceivingKept, ConfirmedKept, BackwardKept DEF IInv, rVars
<1>3. Sending'
  BY <1>1 DEF IInv, Sending
<1>4. Forward'
  BY <1>1, FwdFact, ForwardLoop DEF IInv, SameStart
<1> QED
  BY <1>1, <1>2, <1>3, <1>4, SteadyKept DEF IInv, rVars, SameStart

LEMMA SAckStep ==
  ASSUME IInv, SAck
  PROVE  IInv' /\ (Steady \/ Reports)
<1> DEFINE f == Head(bwd).f
<1>1. bwd # <<>> /\ Head(bwd).t = "ack" /\ bwd' = Tail(bwd)
  BY DEF SAck, Hears
<1>2. f \in completed /\ f \in Files
  BY <1>1, BwdHead DEF IInv, Receiving
<1>3. /\ UNCHANGED <<sUp, rUp, paired, batch, at, resume, cancelled, rVars, fwd, hVars>>
      /\ \/ /\ awaiting' = awaiting \ {f} /\ queued' = queued \ {f}
            /\ told' = [told EXCEPT ![f] = @ \cup {"done"}]
         \/ UNCHANGED <<awaiting, queued, told>>
  BY DEF SAck, rVars, hVars
<1> HIDE DEF f
<1>4. /\ told' \in [Files -> SUBSET {"done", "cancelled"}]
      /\ \A g \in Files : g \in queued \/ told[g] # {} => g \in queued' \/ told'[g] # {}
      /\ Reported' = Reported \/ Reported' = Reported \cup {f}
  <2>1. CASE /\ awaiting' = awaiting \ {f} /\ queued' = queued \ {f}
             /\ told' = [told EXCEPT ![f] = @ \cup {"done"}]
    BY <1>2, <2>1, ToldGrows DEF IInv
  <2>2. CASE UNCHANGED <<awaiting, queued, told>>
    BY <2>2 DEF Reported, IInv, Sending
  <2> QED
    BY <1>3, <2>1, <2>2
<1>5. Sending'
  BY <1>3, <1>4 DEF IInv, Sending, hVars
<1>6. Links' /\ Receiving'
  BY <1>3, LinksKept, ReceivingKept DEF IInv
<1>7. Confirmed'
  BY <1>2, <1>3, <1>4 DEF IInv, Confirmed, rVars
<1>8. Forward'
  BY <1>3, ForwardKept, UntouchedKept, BaseKept DEF IInv, SameStart
<1>9. Backward'
  BY <1>1, <1>3, BackwardTail DEF IInv, rVars
<1>10. Steady \/ Reports
  BY <1>2, <1>3, <1>4 DEF Steady, Reports, Announced, IInv, Sending, rVars
<1> QED
  BY <1>10, <1>2, <1>3, <1>4, <1>5, <1>6, <1>7, <1>8, <1>9 DEF IInv, rVars

LEMMA SResumeStep ==
  ASSUME IInv, SResume
  PROVE  IInv' /\ Steady
<1> DEFINE f == Head(bwd).f
           n == Head(bwd).n
<1>1. bwd # <<>> /\ Head(bwd).t = "resume" /\ bwd' = Tail(bwd)
  BY DEF SResume, Hears
<1>2. f \in Files /\ n \in Nat
  BY <1>1, BwdHead DEF IInv
<1>3. /\ UNCHANGED <<sUp, rUp, paired, batch, at, cancelled, rVars, userStopped>>
      /\ \/ UNCHANGED <<resume, queued, awaiting, told, fwd>>
         \/ Stopped(f) /\ UNCHANGED resume
         \/ Written(f) /\ UNCHANGED resume
         \/ resume' = [resume EXCEPT ![f] = n] /\ UNCHANGED <<queued, awaiting, told, fwd>>
      /\ restarted' = restarted \/ restarted' = restarted \cup {f}
  BY DEF SResume, rVars, Restart
<1>4. Sending /\ Forward
  BY DEF IInv
<1> HIDE DEF f, n
<1>5. /\ queued' \subseteq Files /\ awaiting' \subseteq Files
      /\ told' \in [Files -> SUBSET {"done", "cancelled"}]
      /\ \A g \in Files : g \in queued \/ told[g] # {} => g \in queued' \/ told'[g] # {}
      /\ Reported' = Reported
      /\ fwd' = fwd \/ \E m \in FwdFrames : m.t # "offer" /\ fwd' = fwd \o <<m>>
  <2>1. CASE Stopped(f) \/ Written(f)
    BY <1>2, <1>4, <2>1, LoopStep
  <2>2. CASE UNCHANGED <<queued, awaiting, told, fwd>>
    BY <1>4, <2>2 DEF Sending, Reported
  <2> QED
    BY <1>3, <2>1, <2>2
<1>6. resume' \in [Files -> Nat \cup {Idle}]
  BY <1>2, <1>3, <1>4 DEF Sending
<1>7. restarted' \subseteq Files
  BY <1>2, <1>3, <1>4 DEF Sending
<1>8. Sending'
  BY <1>3, <1>4, <1>5, <1>6, <1>7 DEF Sending
<1>9. Links' /\ Receiving'
  BY <1>3, LinksKept, ReceivingKept DEF IInv
<1>10. Confirmed'
  BY <1>3, <1>5 DEF IInv, Confirmed, rVars
<1>11. Forward'
  BY <1>3, <1>4, <1>5, ForwardLoop DEF SameStart
<1>12. Backward'
  BY <1>1, <1>3, BackwardTail DEF IInv, rVars
<1> QED
  BY <1>3, <1>5, <1>8, <1>9, <1>10, <1>11, <1>12 DEF IInv, rVars, Steady, Announced, SameStart

LEMMA AbortFact ==
  Sending /\ Abort => /\ batch' \in {"idle", "running", "over"} /\ SameStart
                      /\ at' = <<1, 0>> /\ resume' \in [Files -> Nat \cup {Idle}]
BY DEF Sending, Abort, SameStart

LEMMA StartAt == <<1, 0>> \in Nat \X Nat /\ (N > 0 => <<1, 0>>[1] \in Files)
BY TransferAssumption DEF Files

LEMMA SCancelStep ==
  ASSUME IInv, SCancel
  PROVE  IInv' /\ Steady
<1>1. /\ bwd # <<>> /\ bwd' = Tail(bwd)
      /\ \E F \in SUBSET queued : cancelled' = cancelled \cup F
      /\ UNCHANGED <<sUp, rUp, paired, batch, at, resume, queued, awaiting, told,
                     rVars, fwd, hVars>>
  BY DEF SCancel, Hears, rVars, hVars
<1>2. Links' /\ Receiving' /\ Confirmed'
  BY <1>1, LinksKept, ReceivingKept, ConfirmedKept DEF IInv, rVars
<1>3. Sending'
  BY <1>1 DEF IInv, Sending, hVars
<1>4. Forward'
  BY <1>1, ForwardLoop DEF IInv, SameStart
<1>5. Backward'
  BY <1>1, BackwardTail DEF IInv, rVars
<1> QED
  BY <1>1, <1>2, <1>3, <1>4, <1>5, SteadyKept DEF IInv, rVars, SameStart

LEMMA SPeerLeftStep ==
  ASSUME IInv, SPeerLeft
  PROVE  IInv' /\ Steady
<1>1. /\ bwd # <<>> /\ bwd' = Tail(bwd)
      /\ paired' = FALSE /\ Abort /\ cancelled' = {}
      /\ UNCHANGED <<sUp, rUp, queued, awaiting, told, rVars, fwd, hVars>>
  BY DEF SPeerLeft, Hears, Rebuild, rVars, hVars
<1>2. Links' /\ Receiving' /\ Confirmed'
  BY <1>1, LinksKept, ReceivingKept, ConfirmedKept DEF IInv, rVars
<1>3. /\ batch' \in {"idle", "running", "over"} /\ SameStart
      /\ at' = <<1, 0>> /\ resume' \in [Files -> Nat \cup {Idle}]
  BY <1>1, AbortFact DEF IInv
<1>4. Sending'
  BY <1>1, <1>3, StartAt DEF IInv, Sending, hVars, SameStart
<1>5. Forward'
  BY <1>1, <1>3, ForwardLoop DEF IInv
<1>6. Backward'
  BY <1>1, BackwardTail DEF IInv, rVars
<1> QED
  BY <1>1, <1>2, <1>3, <1>4, <1>5, <1>6, SteadyKept DEF IInv, rVars

LEMMA SPeerJoinedStep ==
  ASSUME IInv, SPeerJoined
  PROVE  IInv' /\ Steady
<1>1. /\ bwd # <<>> /\ bwd' = Tail(bwd)
      /\ fwd' = fwd \/ fwd' = fwd \o <<Hello>>
      /\ UNCHANGED <<sUp, rUp, sVars, rVars, hVars>>
  BY DEF SPeerJoined, Hears, ToPeer, sVars, rVars, hVars
<1>2. Links' /\ Sending' /\ Receiving' /\ Confirmed'
  BY <1>1, LinksKept, SendingKept, ReceivingKept, ConfirmedKept DEF IInv, rVars, sVars
<1>3. Forward'
  BY <1>1, FwdFact, ForwardLoop DEF IInv, SameStart, sVars
<1>4. Backward'
  BY <1>1, BackwardTail DEF IInv, rVars
<1> QED
  BY <1>1, <1>2, <1>3, <1>4, SteadyKept DEF IInv, rVars, sVars, SameStart

LEMMA SHelloStep ==
  ASSUME IInv, SHello
  PROVE  IInv' /\ Steady
<1>1. /\ bwd # <<>> /\ bwd' = Tail(bwd) /\ paired' = TRUE
      /\ UNCHANGED <<sUp, rUp, batch, at, resume, queued, awaiting, cancelled, told,
                     rVars, fwd, hVars>>
  BY DEF SHello, Hears, rVars, hVars
<1>2. Links' /\ Receiving' /\ Confirmed'
  BY <1>1, LinksKept, ReceivingKept, ConfirmedKept DEF IInv, rVars
<1>3. Sending'
  BY <1>1 DEF IInv, Sending, hVars
<1>4. Forward'
  BY <1>1, ForwardLoop DEF IInv, SameStart
<1>5. Backward'
  BY <1>1, BackwardTail DEF IInv, rVars
<1> QED
  BY <1>1, <1>2, <1>3, <1>4, <1>5, SteadyKept DEF IInv, rVars, SameStart

-----------------------------------------------------------------------------
(* The steps of the receiving device.                                      *)

(* Before the offer nothing is open, and nothing that arrives opens a file *)
(* but the offer.                                                          *)
LEMMA NothingOpens ==
  ASSUME Untouched, completed' = completed, given' = given,
         \A f \in Files : entry'[f] = entry[f] \/ entry'[f] = "none"
  PROVE  Untouched'
BY DEF Untouched

LEMMA EntryUpdate ==
  ASSUME Receiving, NEW f \in Files, NEW e \in {"none", "open", "failed"},
         entry' = [entry EXCEPT ![f] = e]
  PROVE  /\ entry' \in [Files -> {"none", "open", "failed"}]
         /\ \A g \in Files : entry'[g] = IF g = f THEN e ELSE entry[g]
BY DEF Receiving

LEMMA IntactUpdate ==
  ASSUME Receiving, NEW f \in Files, NEW b, b,
         intact' = [intact EXCEPT ![f] = @ /\ b]
  PROVE  intact' \in [Files -> BOOLEAN] /\ \A g \in Files : intact'[g]
<1>1. intact \in [Files -> BOOLEAN] /\ \A g \in Files : intact[g] \in BOOLEAN
  BY Zenon DEF Receiving
<1>2. \A g \in Files : intact[g]
  BY DEF Receiving, Settled
<1>3. (intact[f] /\ b) \in BOOLEAN
  OBVIOUS
<1>4. intact' \in [Files -> BOOLEAN]
  BY <1>1, <1>3, Zenon
<1>5. ASSUME NEW g \in Files
      PROVE  intact'[g]
  <2>1. CASE g = f
    BY <1>1, <1>2, <2>1, Zenon
  <2>2. CASE g # f
    BY <1>1, <1>2, <2>2, Zenon
  <2> QED
    BY <2>1, <2>2
<1> QED
  BY <1>4, <1>5

LEMMA ROfferStep ==
  ASSUME IInv, ROffer
  PROVE  IInv' /\ Steady
<1>1. /\ fwd # <<>> /\ Head(fwd).t = "offer" /\ fwd' = Tail(fwd)
      /\ entry' = [f \in Files |-> "open"] /\ got' = [f \in Files |-> 0]
      /\ UNCHANGED <<sUp, rUp, sVars, completed, rcancelled, intact, tagFailed, given,
                     bwd, hVars>>
  BY DEF ROffer, FromPeer, sVars, hVars
<1>2. fwd \in Seq(FwdFrames) /\ OneOffer(fwd)
  BY DEF IInv, Forward
<1>3. HasOffer(fwd) /\ ~HasOffer(Tail(fwd)) /\ Tail(fwd) \in Seq(FwdFrames) /\ OneOffer(Tail(fwd))
  <2>1. Head(fwd) = fwd[1] /\ 1 \in 1..Len(fwd)
    BY <1>1, <1>2
  <2>2. HasOffer(fwd)
    BY <1>1, <2>1 DEF HasOffer
  <2> QED
    BY <1>1, <1>2, <2>2, TailOffers
<1>4. batch # "idle" /\ Untouched
  BY <1>3 DEF IInv, Forward
<1>5. Links' /\ Sending' /\ Confirmed' /\ Backward'
  BY <1>1, LinksKept, SendingKept, ConfirmedKept, BackwardKept DEF IInv, sVars
<1>6. Receiving'
  <2>1. \A f \in Files : Size[f] \in Nat
    BY TransferAssumption
  <2>2. got' \in [Files -> Nat] /\ \A f \in Files : got'[f] <= Size[f]
    BY <1>1, <2>1
  <2>3. \A f \in Files : Settled(f)'
    BY <1>1, <1>4 DEF IInv, Receiving, Settled, Untouched
  <2>4. entry' \in [Files -> {"none", "open", "failed"}]
    BY <1>1
  <2> QED
    BY <1>1, <2>2, <2>3, <2>4 DEF IInv, Receiving
<1>7. Forward'
  <2>1. OneOffer(fwd)' = OneOffer(fwd') /\ HasOffer(fwd)' = HasOffer(fwd')
    BY DEF OneOffer, HasOffer
  <2> QED
    BY <1>1, <1>3, <1>4, <2>1 DEF Forward, sVars
<1> QED
  BY <1>1, <1>5, <1>6, <1>7, SteadyKept DEF IInv, sVars, SameStart

LEMMA RDataStep ==
  ASSUME IInv, RData
  PROVE  IInv' /\ GivesUp /\ UNCHANGED sVars
<1> DEFINE f == Head(fwd).f
           n == Head(fwd).n
<1>1. fwd # <<>> /\ Head(fwd).t = "data" /\ fwd' = Tail(fwd)
  BY DEF RData, FromPeer
<1>2. f \in Files /\ n \in Nat /\ n < Size[f]
  BY <1>1, FwdHead DEF IInv
<1>3. /\ UNCHANGED <<sUp, rUp, sVars, bwd, hVars, completed, rcancelled>>
      /\ \/ UNCHANGED rVars
         \/ /\ entry[f] = "open" /\ Fail(f) /\ UNCHANGED <<got, intact>>
            /\ tagFailed' = tagFailed \/ tagFailed' = tagFailed \cup {f}
         \/ /\ entry[f] = "open" /\ n = got[f]
            /\ got' = [got EXCEPT ![f] = @ + 1]
            /\ intact' = [intact EXCEPT ![f] = @ /\ n = got[f]]
            /\ UNCHANGED <<entry, tagFailed, given>>
  BY DEF RData, Opens, rVars, sVars, hVars
<1> HIDE DEF f, n
<1>4. Receiving
  BY DEF IInv
<1>5. Receiving'
  <2>1. CASE UNCHANGED rVars
    BY <1>4, <2>1, ReceivingKept
  <2>2. CASE /\ entry[f] = "open" /\ Fail(f) /\ UNCHANGED <<got, intact>>
             /\ tagFailed' = tagFailed \/ tagFailed' = tagFailed \cup {f}
    <3>1. /\ entry' \in [Files -> {"none", "open", "failed"}]
          /\ \A g \in Files : entry'[g] = IF g = f THEN "failed" ELSE entry[g]
          /\ given' = given \cup {f}
      BY <1>2, <1>4, <2>2, EntryUpdate DEF Fail
    <3>2. f \notin completed
      BY <1>2, <1>4, <2>2 DEF Receiving, Settled
    <3>3. \A g \in Files : Settled(g)'
      BY <1>3, <1>4, <2>2, <3>1, <3>2 DEF Receiving, Settled
    <3> QED
      BY <1>2, <1>3, <1>4, <2>2, <3>1, <3>3 DEF Receiving
  <2>3. CASE /\ entry[f] = "open" /\ n = got[f]
             /\ got' = [got EXCEPT ![f] = @ + 1]
             /\ intact' = [intact EXCEPT ![f] = @ /\ n = got[f]]
             /\ UNCHANGED <<entry, tagFailed, given>>
    <3>1. intact' \in [Files -> BOOLEAN] /\ \A g \in Files : intact'[g]
      BY <1>2, <1>4, <2>3, IntactUpdate
    <3>2. /\ got' \in [Files -> Nat] /\ \A g \in Files : got'[g] <= Size[g]
          /\ \A g \in Files : g # f => got'[g] = got[g]
      <4>1. got \in [Files -> Nat] /\ Size[f] \in Nat /\ got[f] + 1 <= Size[f]
        <5>1. got[f] \in Nat /\ got[f] < Size[f]
          BY <1>2, <1>4, <2>3 DEF Receiving
        <5>2. Size[f] \in Nat
          BY <1>2, TransferAssumption
        <5>3. \A x, y \in Nat : x < y => x + 1 <= y
          OBVIOUS
        <5> QED
          BY <1>4, <5>1, <5>2, <5>3 DEF Receiving
      <4> QED
        BY <1>2, <1>4, <2>3, <4>1 DEF Receiving
    <3>3. f \notin completed
      BY <1>2, <1>4, <2>3 DEF Receiving, Settled
    <3>4. \A g \in Files : Settled(g)'
      BY <1>3, <1>4, <2>3, <3>1, <3>2, <3>3 DEF Receiving, Settled
    <3> QED
      BY <1>3, <1>4, <2>3, <3>1, <3>2, <3>4 DEF Receiving
  <2> QED
    BY <1>3, <2>1, <2>2, <2>3
<1>6. Links' /\ Sending' /\ Confirmed' /\ Backward'
  BY <1>3, LinksKept, SendingKept, ConfirmedKept, BackwardKept DEF IInv, sVars
<1>7. Untouched => Untouched'
  BY <1>2, <1>3, UntouchedKept DEF Untouched, rVars, rBase
<1>8. Forward'
  BY <1>1, <1>3, <1>7, ForwardTail DEF IInv, SameStart, sVars
<1>9. GivesUp
  BY <1>2, <1>3, <1>4 DEF GivesUp, Fail, Receiving, Settled, rVars
<1> QED
  BY <1>3, <1>5, <1>6, <1>8, <1>9 DEF IInv, sVars, Reported

LEMMA REndStep ==
  ASSUME IInv, REnd
  PROVE  IInv' /\ (GivesUp \/ Saves) /\ UNCHANGED sVars
<1> DEFINE f == Head(fwd).f
<1>1. fwd # <<>> /\ Head(fwd).t = "end" /\ fwd' = Tail(fwd)
  BY DEF REnd, FromPeer
<1>2. f \in Files
  BY <1>1, FwdHead DEF IInv
<1>3. /\ UNCHANGED <<sUp, rUp, sVars, got, rcancelled, intact, tagFailed, hVars>>
      /\ entry' = [entry EXCEPT ![f] = "none"]
      /\ \/ UNCHANGED <<completed, given, bwd>>
         \/ entry[f] = "open" /\ given' = given \cup {f} /\ UNCHANGED <<completed, bwd>>
         \/ /\ entry[f] = "open" /\ got[f] = Size[f]
            /\ completed' = completed \cup {f} /\ Reply(<<Ack(f)>>) /\ given' = given
  BY DEF REnd, Whole, sVars, hVars
<1> HIDE DEF f
<1>4. Receiving
  BY DEF IInv
<1>5. /\ entry' \in [Files -> {"none", "open", "failed"}]
      /\ \A g \in Files : entry'[g] = IF g = f THEN "none" ELSE entry[g]
  BY <1>2, <1>3, <1>4, EntryUpdate
<1>6. entry[f] = "open" => f \notin completed /\ f \notin given
  BY <1>2, <1>4 DEF Receiving, Settled
<1>7. Receiving'
  <2>1. \A g \in Files : Settled(g)'
    BY <1>3, <1>4, <1>5, <1>6 DEF Receiving, Settled
  <2>2. completed' \subseteq Files /\ given' \subseteq Files
    BY <1>2, <1>3, <1>4 DEF Receiving
  <2> QED
    BY <1>3, <1>4, <1>5, <2>1, <2>2 DEF Receiving
<1>8. completed \subseteq completed'
  BY <1>3
<1>9. Links' /\ Sending' /\ Confirmed'
  BY <1>3, <1>8, LinksKept, SendingKept, ConfirmedKept DEF IInv, sVars
<1>10. Backward'
  <2>1. CASE bwd' = bwd
    BY <1>8, <2>1, BackwardKept DEF IInv
  <2>2. CASE completed' = completed \cup {f} /\ Reply(<<Ack(f)>>)
    <3>1. Ack(f) \in BwdFrames(completed')
      BY <2>2, BwdFact
    <3> QED
      BY <1>8, <2>2, <3>1, BackwardReplyOne DEF IInv
  <2> QED
    BY <1>3, <2>1, <2>2
<1>11. Untouched => Untouched'
  BY <1>2, <1>3, <1>5 DEF Untouched
<1>12. Forward'
  BY <1>1, <1>3, <1>11, ForwardTail DEF IInv, SameStart, sVars
<1>13. GivesUp \/ Saves
  BY <1>2, <1>3, <1>6 DEF GivesUp, Saves
<1> QED
  BY <1>3, <1>7, <1>9, <1>10, <1>12, <1>13 DEF IInv, sVars, Reported

LEMMA CancelIncomingStep ==
  ASSUME Receiving, NEW f \in Files, CancelIncoming(f),
         UNCHANGED <<got, completed, intact, tagFailed>>
  PROVE  Receiving' /\ GivesUp /\ (Untouched => Untouched')
<1>1. /\ rcancelled' = rcancelled \cup {f} /\ entry' = [entry EXCEPT ![f] = "none"]
      /\ \/ entry[f] = "none" /\ given' = given
         \/ entry[f] # "none" /\ given' = given \cup {f}
  BY DEF CancelIncoming
<1>2. /\ entry' \in [Files -> {"none", "open", "failed"}]
      /\ \A g \in Files : entry'[g] = IF g = f THEN "none" ELSE entry[g]
  BY <1>1, EntryUpdate
<1>3. entry[f] # "none" => f \notin completed
  BY DEF Receiving, Settled
<1>4. \A g \in Files : Settled(g)'
  BY <1>1, <1>2, <1>3 DEF Receiving, Settled
<1>5. Receiving'
  BY <1>1, <1>2, <1>4 DEF Receiving
<1>6. GivesUp
  BY <1>1, <1>3 DEF GivesUp
<1>7. Untouched => Untouched'
  BY <1>1, <1>2 DEF Untouched
<1> QED
  BY <1>5, <1>6, <1>7

LEMMA RCancelStep ==
  ASSUME IInv, RCancel
  PROVE  IInv' /\ GivesUp /\ UNCHANGED sVars
<1> DEFINE f == Head(fwd).f
<1>1. /\ fwd # <<>> /\ Head(fwd).t = "cancel" /\ fwd' = Tail(fwd) /\ CancelIncoming(f)
      /\ UNCHANGED <<sUp, rUp, sVars, got, completed, intact, tagFailed, bwd, hVars>>
  BY DEF RCancel, FromPeer, sVars, hVars
<1>2. f \in Files
  BY <1>1, FwdHead DEF IInv
<1> HIDE DEF f
<1>3. Receiving' /\ GivesUp /\ (Untouched => Untouched')
  BY <1>1, <1>2, CancelIncomingStep DEF IInv
<1>4. Links' /\ Sending' /\ Confirmed' /\ Backward'
  BY <1>1, LinksKept, SendingKept, ConfirmedKept, BackwardKept DEF IInv, sVars
<1>5. Forward'
  BY <1>1, <1>3, ForwardTail DEF IInv, SameStart, sVars
<1> QED
  BY <1>1, <1>3, <1>4, <1>5 DEF IInv, sVars, Reported

LEMMA CancelReceivingStep ==
  ASSUME IInv, NEW f \in Files, CancelReceiving(f)
  PROVE  IInv' /\ GivesUp /\ UNCHANGED sVars
<1>1. /\ CancelIncoming(f) /\ Reply(<<Cancel(f)>>)
      /\ UNCHANGED <<sUp, rUp, sVars, got, completed, intact, tagFailed, fwd, hVars>>
  BY DEF CancelReceiving, sVars, hVars
<1>2. Receiving' /\ GivesUp /\ (Untouched => Untouched')
  BY <1>1, CancelIncomingStep DEF IInv
<1>3. Links' /\ Sending' /\ Confirmed'
  BY <1>1, LinksKept, SendingKept, ConfirmedKept DEF IInv, sVars
<1>4. Forward'
  BY <1>1, <1>2, ForwardKept DEF IInv, SameStart, sVars
<1>5. Backward'
  <2>1. Cancel(f) \in BwdFrames(completed')
    BY BwdFact
  <2> QED
    BY <1>1, <2>1, BackwardReplyOne DEF IInv
<1> QED
  BY <1>1, <1>2, <1>3, <1>4, <1>5 DEF IInv, sVars, Reported

LEMMA RHelloStep ==
  ASSUME IInv, RHello
  PROVE  IInv' /\ Steady
<1>1. /\ fwd # <<>> /\ fwd' = Tail(fwd) /\ Reply(Resync)
      /\ UNCHANGED <<sUp, rUp, sVars, rVars, hVars>>
  BY DEF RHello, FromPeer, sVars, rVars, hVars
<1>2. Links' /\ Sending' /\ Receiving' /\ Confirmed'
  BY <1>1, LinksKept, SendingKept, ReceivingKept, ConfirmedKept DEF IInv, sVars, rVars
<1>3. Forward'
  BY <1>1, ForwardTail, UntouchedKept, BaseKept DEF IInv, SameStart, sVars
<1>4. Backward'
  <2>1. completed' = completed
    BY <1>1 DEF rVars
  <2> QED
    BY <1>1, <2>1, ResyncType, BackwardReply DEF IInv
<1> QED
  BY <1>1, <1>2, <1>3, <1>4, SteadyKept DEF IInv, sVars, rVars, SameStart

LEMMA RPeerJoinedStep ==
  ASSUME IInv, RPeerJoined
  PROVE  IInv' /\ Steady
<1>1. /\ fwd # <<>> /\ fwd' = Tail(fwd) /\ Reply(<<Hello>>)
      /\ UNCHANGED <<sUp, rUp, sVars, rVars, hVars>>
  BY DEF RPeerJoined, FromPeer, sVars, rVars, hVars
<1>2. Links' /\ Sending' /\ Receiving' /\ Confirmed'
  BY <1>1, LinksKept, SendingKept, ReceivingKept, ConfirmedKept DEF IInv, sVars, rVars
<1>3. Forward'
  BY <1>1, ForwardTail, UntouchedKept, BaseKept DEF IInv, SameStart, sVars
<1>4. Backward'
  <2>1. completed' = completed /\ Hello \in BwdFrames(completed')
    BY <1>1, BwdFact DEF rVars
  <2> QED
    BY <1>1, <2>1, BackwardReplyOne DEF IInv
<1> QED
  BY <1>1, <1>2, <1>3, <1>4, SteadyKept DEF IInv, sVars, rVars, SameStart

-----------------------------------------------------------------------------
(* Connections.                                                            *)

LEMMA RDropStep ==
  ASSUME IInv, RDrop
  PROVE  IInv' /\ Steady
<1>1. /\ rUp' = FALSE /\ fwd' \in Suffixes(fwd)
      /\ UNCHANGED <<sUp, sVars, rVars, hVars>>
  BY DEF RDrop, sVars, rVars, hVars
<1>2. PICK kept \in Prefixes(bwd) : bwd' = kept \o <<PeerLeft>>
  BY DEF RDrop
<1>3. Links'
  BY <1>1 DEF IInv, Links
<1>4. Sending' /\ Receiving' /\ Confirmed'
  BY <1>1, SendingKept, ReceivingKept, ConfirmedKept DEF IInv, sVars, rVars
<1>5. Forward'
  BY <1>1, ForwardPart, BaseKept DEF IInv, SameStart, sVars
<1>6. Backward'
  <2>1. completed' = completed
    BY <1>1 DEF rVars
  <2>2. kept \in Seq(BwdFrames(completed))
    BY PartOffers DEF IInv, Backward
  <2>3. <<PeerLeft>> \in Seq(BwdFrames(completed))
    BY BwdFact
  <2>4. bwd' \in Seq(BwdFrames(completed))
    BY <1>2, <2>2, <2>3
  <2> QED
    BY <2>1, <2>4 DEF Backward, BwdFrames
<1> QED
  BY <1>1, <1>3, <1>4, <1>5, <1>6, SteadyKept DEF IInv, sVars, rVars, SameStart

LEMMA RReconnectStep ==
  ASSUME IInv, RReconnect
  PROVE  IInv' /\ Steady
<1>1. /\ rUp' = TRUE /\ bwd' = (bwd \o <<PeerJoined, Hello>>) \o Resync
      /\ UNCHANGED <<sUp, sVars, rVars, fwd, hVars>>
  BY DEF RReconnect, sVars, rVars, hVars
<1>2. Links'
  BY <1>1 DEF IInv, Links
<1>3. Sending' /\ Receiving' /\ Confirmed'
  BY <1>1, SendingKept, ReceivingKept, ConfirmedKept DEF IInv, sVars, rVars
<1>4. Forward'
  BY <1>1, ForwardKept, UntouchedKept, BaseKept DEF IInv, SameStart, sVars
<1>5. Backward'
  <2>1. completed' = completed
    BY <1>1 DEF rVars
  <2>2. <<PeerJoined, Hello>> \in Seq(BwdFrames(completed))
    BY BwdFact
  <2>3. bwd \in Seq(BwdFrames(completed)) /\ Resync \in Seq(BwdFrames(completed))
    BY ResyncType DEF IInv, Backward
  <2>4. bwd' \in Seq(BwdFrames(completed))
    BY <1>1, <2>2, <2>3
  <2> QED
    BY <2>1, <2>4 DEF Backward, BwdFrames
<1> QED
  BY <1>1, <1>2, <1>3, <1>4, <1>5, SteadyKept DEF IInv, sVars, rVars, SameStart

LEMMA RelayDropsForwardStep ==
  ASSUME IInv, RelayDropsForward
  PROVE  IInv' /\ Steady
<1>1. /\ fwd # <<>> /\ fwd' = Tail(fwd)
      /\ UNCHANGED <<sUp, rUp, sVars, rVars, bwd, hVars>>
  BY DEF RelayDropsForward, sVars, rVars, hVars
<1>2. Links' /\ Sending' /\ Receiving' /\ Confirmed' /\ Backward'
  BY <1>1, LinksKept, SendingKept, ReceivingKept, ConfirmedKept, BackwardKept
  DEF IInv, sVars, rVars
<1>3. Forward'
  BY <1>1, ForwardTail, UntouchedKept, BaseKept DEF IInv, SameStart, sVars
<1> QED
  BY <1>1, <1>2, <1>3, SteadyKept DEF IInv, sVars, rVars, SameStart

LEMMA SDropStep ==
  ASSUME IInv, SDrop
  PROVE  IInv' /\ Steady
<1>1. /\ sUp' = FALSE /\ fwd' \in Prefixes(fwd) /\ bwd' \in Suffixes(bwd) /\ Abort
      /\ UNCHANGED <<rUp, paired, queued, awaiting, cancelled, told, rVars, hVars>>
  BY DEF SDrop, rVars, hVars
<1>2. Links'
  BY <1>1 DEF IInv, Links
<1>3. /\ batch' \in {"idle", "running", "over"} /\ SameStart
      /\ at' = <<1, 0>> /\ resume' \in [Files -> Nat \cup {Idle}]
  BY <1>1, AbortFact DEF IInv
<1>4. Sending'
  BY <1>1, <1>3, StartAt DEF IInv, Sending, hVars, SameStart
<1>5. Receiving' /\ Confirmed'
  BY <1>1, ReceivingKept, ConfirmedKept DEF IInv, rVars
<1>6. Forward'
  BY <1>1, <1>3, ForwardPart, BaseKept DEF IInv
<1>7. Backward'
  BY <1>1, BackwardPart DEF IInv, rVars
<1> QED
  BY <1>1, <1>2, <1>3, <1>4, <1>5, <1>6, <1>7, SteadyKept DEF IInv, rVars

LEMMA SReconnectStep ==
  ASSUME IInv, SReconnect
  PROVE  IInv' /\ Steady
<1>1. /\ sUp' = TRUE /\ cancelled' = {} /\ fwd' = fwd \o <<PeerJoined, Hello>>
      /\ UNCHANGED <<rUp, paired, batch, at, resume, queued, awaiting, told, rVars, bwd, hVars>>
  BY DEF SReconnect, Rebuild, rVars, hVars
<1>2. Links'
  BY <1>1 DEF IInv, Links
<1>3. Sending'
  BY <1>1 DEF IInv, Sending, hVars
<1>4. Receiving' /\ Confirmed' /\ Backward'
  BY <1>1, ReceivingKept, ConfirmedKept, BackwardKept DEF IInv, rVars
<1>5. Forward'
  <2> DEFINE u == <<PeerJoined, Hello>>
  <2>1. u \in Seq(FwdFrames) /\ Len(u) = 2 /\ u[1].t # "offer" /\ u[2].t # "offer"
    BY FwdFact
  <2>2. \A i \in 1..Len(u) : u[i].t # "offer"
    BY <2>1
  <2> HIDE DEF u
  <2>3. SameStart /\ UNCHANGED rBase
    BY <1>1, BaseKept DEF SameStart
  <2>4. fwd' = fwd \o u
    BY <1>1 DEF u
  <2> QED
    BY <2>1, <2>2, <2>3, <2>4, ForwardPush DEF IInv
<1> QED
  BY <1>1, <1>2, <1>3, <1>4, <1>5, SteadyKept DEF IInv, rVars, SameStart

LEMMA RelayDropsBackwardStep ==
  ASSUME IInv, RelayDropsBackward
  PROVE  IInv' /\ Steady
<1>1. /\ bwd # <<>> /\ bwd' = Tail(bwd)
      /\ UNCHANGED <<sUp, rUp, sVars, rVars, fwd, hVars>>
  BY DEF RelayDropsBackward, sVars, rVars, hVars
<1>2. Links' /\ Sending' /\ Receiving' /\ Confirmed'
  BY <1>1, LinksKept, SendingKept, ReceivingKept, ConfirmedKept DEF IInv, sVars, rVars
<1>3. Forward'
  BY <1>1, ForwardKept, UntouchedKept, BaseKept DEF IInv, SameStart, sVars
<1>4. Backward'
  BY <1>1, BackwardTail DEF IInv, rVars
<1> QED
  BY <1>1, <1>2, <1>3, <1>4, SteadyKept DEF IInv, sVars, rVars, SameStart

LEMMA CutStep ==
  ASSUME IInv, Cut
  PROVE  IInv' /\ Steady
<1>1. /\ fwd' \in Prefixes(fwd) /\ bwd' \in Prefixes(bwd)
      /\ UNCHANGED <<sUp, rUp, sVars, rVars, hVars>>
  BY DEF Cut, sVars, rVars, hVars
<1>2. Links' /\ Sending' /\ Receiving' /\ Confirmed'
  BY <1>1, LinksKept, SendingKept, ReceivingKept, ConfirmedKept DEF IInv, sVars, rVars
<1>3. Forward'
  BY <1>1, ForwardPart, BaseKept DEF IInv, SameStart, sVars
<1>4. Backward'
  BY <1>1, BackwardPart DEF IInv, rVars
<1> QED
  BY <1>1, <1>2, <1>3, <1>4, SteadyKept DEF IInv, sVars, rVars, SameStart

LEMMA SFallsBackStep ==
  ASSUME IInv, SFallsBack
  PROVE  IInv' /\ Steady
<1>1. UNCHANGED <<sUp, rUp, sVars, rVars, fwd, bwd, hVars>>
  BY DEF SFallsBack, sVars, rVars, hVars
<1>2. Links' /\ Sending' /\ Receiving' /\ Confirmed' /\ Backward'
  BY <1>1, LinksKept, SendingKept, ReceivingKept, ConfirmedKept, BackwardKept
  DEF IInv, sVars, rVars
<1>3. Forward'
  BY <1>1, ForwardKept, UntouchedKept, BaseKept DEF IInv, SameStart, sVars
<1> QED
  BY <1>1, <1>2, <1>3, SteadyKept DEF IInv, sVars, rVars, SameStart

LEMMA RFallsBackStep ==
  ASSUME IInv, RFallsBack
  PROVE  IInv' /\ Steady
<1>1. /\ bwd' = bwd \o Resync
      /\ UNCHANGED <<sUp, rUp, sVars, rVars, fwd, hVars>>
  BY DEF RFallsBack, Resyncs, sVars, rVars, hVars
<1>2. Links' /\ Sending' /\ Receiving' /\ Confirmed'
  BY <1>1, LinksKept, SendingKept, ReceivingKept, ConfirmedKept DEF IInv, sVars, rVars
<1>3. Forward'
  BY <1>1, ForwardKept, UntouchedKept, BaseKept DEF IInv, SameStart, sVars
<1>4. Backward'
  <2>1. completed' = completed
    BY <1>1 DEF rVars
  <2> QED
    BY <1>1, <2>1, ResyncType, BackwardPush DEF IInv
<1> QED
  BY <1>1, <1>2, <1>3, <1>4, SteadyKept DEF IInv, sVars, rVars, SameStart

-----------------------------------------------------------------------------
(* The invariant.                                                          *)

LEMMA InitIInv == Init => IInv
<1> SUFFICES ASSUME Init PROVE IInv
  OBVIOUS
<1>1. \A f \in Files : Size[f] \in Nat
  BY TransferAssumption
<1>2. Sending
  BY StartAt DEF Init, Sending
<1>3. Receiving
  <2>1. \A f \in Files : Settled(f)
    BY DEF Init, Settled
  <2>2. intact \in [Files -> BOOLEAN]
    BY Zenon DEF Init
  <2> QED
    BY <1>1, <2>1, <2>2 DEF Init, Receiving
<1>4. Forward /\ Backward
  BY DEF Init, Forward, Backward, OneOffer, HasOffer, Untouched
<1> QED
  BY <1>2, <1>3, <1>4 DEF IInv, Init, Links, Confirmed, Reported

(* Every step keeps the invariant, and settles at most one file.           *)
LEMMA StepIInv ==
  ASSUME IInv, Next
  PROVE  /\ IInv'
         /\ Steady \/ Reports \/ ((GivesUp \/ Saves) /\ UNCHANGED sVars)
<1>1. CASE SendFiles
  BY <1>1, SendFilesStep
<1>2. CASE BatchStep
  BY <1>2, BatchStepStep
<1>3. ASSUME NEW f \in Files, ResumeStep(f) \/ CancelSending(f) \/ CancelReceiving(f)
      PROVE  IInv' /\ (Steady \/ (GivesUp /\ UNCHANGED sVars))
  BY <1>3, ResumeStepStep, CancelSendingStep, CancelReceivingStep
<1>4. CASE SAck
  BY <1>4, SAckStep
<1>5. CASE SResume
  BY <1>5, SResumeStep
<1>6. CASE SCancel
  BY <1>6, SCancelStep
<1>7. CASE SPeerLeft
  BY <1>7, SPeerLeftStep
<1>8. CASE SPeerJoined
  BY <1>8, SPeerJoinedStep
<1>9. CASE SHello
  BY <1>9, SHelloStep
<1>10. CASE ROffer
  BY <1>10, ROfferStep
<1>11. CASE RData
  BY <1>11, RDataStep
<1>12. CASE REnd
  BY <1>12, REndStep
<1>13. CASE RCancel
  BY <1>13, RCancelStep
<1>14. CASE RHello
  BY <1>14, RHelloStep
<1>15. CASE RPeerJoined
  BY <1>15, RPeerJoinedStep
<1>16. CASE RDrop
  BY <1>16, RDropStep
<1>17. CASE RReconnect
  BY <1>17, RReconnectStep
<1>18. CASE RelayDropsForward
  BY <1>18, RelayDropsForwardStep
<1>19. CASE SDrop
  BY <1>19, SDropStep
<1>20. CASE SReconnect
  BY <1>20, SReconnectStep
<1>21. CASE RelayDropsBackward
  BY <1>21, RelayDropsBackwardStep
<1>22. CASE Cut
  BY <1>22, CutStep
<1>23. CASE SFallsBack
  BY <1>23, SFallsBackStep
<1>24. CASE RFallsBack
  BY <1>24, RFallsBackStep
<1> QED
  BY <1>1, <1>2, <1>3, <1>4, <1>5, <1>6, <1>7, <1>8, <1>9, <1>10, <1>11, <1>12,
     <1>13, <1>14, <1>15, <1>16, <1>17, <1>18, <1>19, <1>20, <1>21, <1>22,
     <1>23, <1>24 DEF Next

LEMMA StutterIInv ==
  ASSUME IInv, UNCHANGED vars
  PROVE  IInv' /\ Steady
<1>1. UNCHANGED <<sUp, rUp, sVars, rVars, fwd, bwd, hVars>>
  BY DEF vars
<1>2. Links' /\ Sending' /\ Receiving' /\ Confirmed' /\ Backward'
  BY <1>1, LinksKept, SendingKept, ReceivingKept, ConfirmedKept, BackwardKept
  DEF IInv, sVars, rVars
<1>3. Forward'
  BY <1>1, ForwardKept, UntouchedKept, BaseKept DEF IInv, SameStart, sVars
<1> QED
  BY <1>1, <1>2, <1>3, SteadyKept DEF IInv, SameStart, sVars, rVars

THEOREM Inductive == Spec => []IInv
<1>1. IInv /\ [Next]_vars => IInv'
  BY StepIInv, StutterIInv
<1> QED
  BY InitIInv, <1>1, PTL DEF Spec

(* What carries the frames changes with the direct connection only.        *)
LEMMA WayStep ==
  ASSUME way \in Ways, [Next]_vars
  PROVE  way' \in Ways
<1>1. CASE SendFiles \/ BatchStep \/ \E f \in Files : ResumeStep(f) \/ CancelSending(f)
  BY <1>1 DEF SendFiles, BatchStep, ResumeStep, CancelSending
<1>2. CASE \/ SAck \/ SResume \/ SCancel \/ SPeerLeft \/ SPeerJoined \/ SHello
           \/ ROffer \/ RData \/ REnd \/ RCancel \/ RHello \/ RPeerJoined
           \/ \E f \in Files : CancelReceiving(f)
  BY <1>2 DEF SAck, SResume, SCancel, SPeerLeft, SPeerJoined, SHello,
     ROffer, RData, REnd, RCancel, RHello, RPeerJoined, CancelReceiving
<1>3. CASE \/ RDrop \/ RReconnect \/ RelayDropsForward
           \/ SDrop \/ SReconnect \/ RelayDropsBackward
  BY <1>3 DEF RDrop, RReconnect, RelayDropsForward, SDrop, SReconnect, RelayDropsBackward
<1>4. CASE Cut \/ SFallsBack \/ RFallsBack
  BY <1>4 DEF Cut, SFallsBack, RFallsBack, Ways
<1>5. CASE UNCHANGED vars
  BY <1>5 DEF vars
<1> QED
  BY <1>1, <1>2, <1>3, <1>4, <1>5 DEF Next

(* Every variable keeps its type, and only frames of the protocol are on   *)
(* their way.                                                              *)
THEOREM TypeCorrect == Spec => []TypeOK
<1>1. IInv /\ way \in Ways => TypeOK
  <2> SUFFICES ASSUME IInv, way \in Ways PROVE TypeOK
    OBVIOUS
  <2>1. \A i \in DOMAIN fwd : fwd[i].t \in FrameTypes
    <3>1. \A i \in DOMAIN fwd : fwd[i] \in FwdFrames
      BY DEF IInv, Forward
    <3> QED
      BY <3>1, FwdRead DEF FrameTypes
  <2>2. \A i \in DOMAIN bwd : bwd[i].t \in FrameTypes
    <3>1. \A i \in DOMAIN bwd : bwd[i] \in BwdFrames(completed)
      BY DEF IInv, Backward
    <3> QED
      BY <3>1, BwdRead DEF FrameTypes
  <2> QED
    BY <2>1, <2>2 DEF TypeOK, IInv, Links, Sending, Receiving
<1>2. Spec => [](way \in Ways)
  <2>1. Init => way \in Ways
    BY DEF Init, Ways
  <2>2. way \in Ways /\ [Next]_vars => (way \in Ways)'
    BY WayStep
  <2> QED
    BY <2>1, <2>2, PTL DEF Spec
<1> QED
  BY Inductive, <1>1, <1>2, PTL

(* A file that completes is the file that was sent, however many drops,    *)
(* resumes and refused writes there were on the way.                       *)
THEOREM WholeWhenSaved == Spec => []SavedIntact
<1>1. IInv => SavedIntact
  BY DEF IInv, Receiving, Settled, SavedIntact
<1> QED
  BY Inductive, <1>1, PTL

-----------------------------------------------------------------------------
(* The transfer implements FileDelivery.                                   *)

offeredBar == queued \cup completed \cup given \cup {f \in Files : told[f] # {}}

LEMMA OfferedTypes ==
  ASSUME IInv
  PROVE  /\ offeredBar = Announced \cup completed \cup given /\ offeredBar \subseteq Files
         /\ batch # "idle" => offeredBar = Files
BY DEF IInv, Sending, Receiving, offeredBar, Announced

LEMMA InitDelivers == Init => Delivery!Init
BY DEF Init, Delivery!Init

(* A steady step announces, or shows nothing.                              *)
LEMMA SteadyDelivers ==
  ASSUME IInv, IInv', Steady
  PROVE  Delivery!Offer
<1>1. offeredBar \subseteq offeredBar' /\ offeredBar' \in SUBSET Files
  BY OfferedTypes DEF IInv, Sending, Receiving, Steady, Announced, offeredBar
<1> QED
  BY <1>1 DEF Steady, Delivery!Offer, offeredBar, Reported

(* A step that settles a file is taken by a batch that has begun, and of a *)
(* batch that has begun every file was offered.                            *)
LEMMA BegunOffersAll ==
  ASSUME IInv, IInv', batch' = batch, completed' # {} \/ given' # {}
  PROVE  offeredBar = Files /\ offeredBar' = Files
<1>1. batch # "idle" /\ batch' # "idle"
  BY DEF IInv, Forward, Untouched
<1> QED
  BY <1>1, OfferedTypes DEF IInv, Sending, Receiving, offeredBar

LEMMA SavesDelivers ==
  ASSUME IInv, IInv', Saves, UNCHANGED sVars
  PROVE  \E f \in Files : Delivery!Save(f)
<1>1. PICK f \in Files \ (completed \cup given) : completed' = completed \cup {f}
  BY DEF Saves
<1>2. offeredBar = Files /\ offeredBar' = Files
  BY <1>1, BegunOffersAll DEF sVars
<1>3. given' = given /\ Reported' = Reported
  BY DEF Saves, Reported, sVars
<1>4. Delivery!Save(f)
  BY <1>1, <1>2, <1>3 DEF Delivery!Save, offeredBar, Reported
<1> QED
  BY <1>4

LEMMA GivesUpDelivers ==
  ASSUME IInv, IInv', GivesUp, UNCHANGED sVars
  PROVE  Steady \/ \E f \in Files : Delivery!GiveUp(f)
<1>1. CASE given' = given
  BY <1>1, SteadyKept DEF GivesUp, sVars, SameStart
<1>2. CASE \E f \in Files \ completed : given' = given \cup {f}
  <2>1. PICK f \in Files \ completed : given' = given \cup {f}
    BY <1>2
  <2>2. offeredBar = Files /\ offeredBar' = Files
    BY <2>1, BegunOffersAll DEF sVars
  <2>3. completed' = completed /\ Reported' = Reported
    BY DEF GivesUp, Reported, sVars
  <2>4. Delivery!GiveUp(f)
    BY <2>1, <2>2, <2>3 DEF Delivery!GiveUp, offeredBar, Reported
  <2> QED
    BY <2>4
<1> QED
  BY <1>1, <1>2 DEF GivesUp

LEMMA ReportsDelivers ==
  ASSUME IInv, IInv', Reports
  PROVE  \E f \in Files : Delivery!Report(f)
<1>1. PICK f \in completed : Reported' = Reported \cup {f}
  BY DEF Reports
<1>2. UNCHANGED <<completed, given, batch>> /\ f \in Files
  BY DEF Reports, IInv, Receiving
<1>3. offeredBar = Files /\ offeredBar' = Files
  BY <1>2, BegunOffersAll
<1>4. Delivery!Report(f)
  BY <1>1, <1>2, <1>3 DEF Delivery!Report, offeredBar, Reported
<1> QED
  BY <1>2, <1>4

(* Whatever is lost, resent, resumed or cancelled, a file is saved at most *)
(* once, only if it was offered and never after it was given up, and the   *)
(* sending row reads done only over a file the receiving device has.       *)
THEOREM ImplementsDelivery == Spec => Delivers
<1>1. IInv /\ IInv' /\ [Next]_vars => [Delivery!Next]_(Delivery!dvars)
  <2> SUFFICES ASSUME IInv, IInv', [Next]_vars
               PROVE  Delivery!Next
    OBVIOUS
  <2>1. Steady \/ Reports \/ ((GivesUp \/ Saves) /\ UNCHANGED sVars)
    BY StepIInv, StutterIInv
  <2>2. Steady => Delivery!Offer
    BY SteadyDelivers
  <2> QED
    BY <2>1, <2>2, SavesDelivers, GivesUpDelivers, ReportsDelivers DEF Delivery!Next
<1>2. Spec => [][Delivery!Next]_(Delivery!dvars)
  BY <1>1, Inductive, PTL DEF Spec
<1> QED
  BY InitDelivers, <1>2, PTL DEF Spec, Delivers, Delivery!Spec
===============================================================================
