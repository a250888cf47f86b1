---------------------------- MODULE SendPathProofs ----------------------------
(***************************************************************************)
(* Proofs about SendPath, for any number of calls, attempts and Senders:   *)
(* no key and number seal two frames that reach the wire, control frames   *)
(* leave in the order of their numbers, the cutover waits for a frame      *)
(* boundary, and the live connection belongs to the present peer.          *)
(***************************************************************************)
EXTENDS SendPath, TLAPS

-----------------------------------------------------------------------------
(* The inductive invariant.                                                *)

(* Calls are made on Senders that exist; keys only ever grow; a Sender     *)
(* writes to a switchable that exists.                                     *)
Built ==
  /\ \A c \in Calls : of[c] <= gen
  /\ \A g \in Gens : key[g] <= g /\ on[g] <= sw
  /\ \A g \in Gens : g <= gen => key[g] <= key[gen]
  /\ sw >= 1

(* A Sender replaced by one with the same key can put nothing more on the  *)
(* wire: it was aborted, or its switchable was replaced.                   *)
Superseded ==
  \A g, h \in Gens :
    g < h /\ h <= gen /\ key[g] = key[h] => aborted[g] \/ on[g] < sw

Taken == {"sealing", "sent"}

(* Numbers come from the counter, and a Sender's counter is past every     *)
(* number an earlier Sender of its key has put on the wire.                *)
Counted ==
  \A c \in Calls :
    /\ st[c] \in Taken => seq[c] < next[of[c]]
    /\ \A h \in Gens :
         st[c] = "sent" /\ of[c] < h /\ h <= gen /\ key[of[c]] = key[h] =>
           seq[c] < next[h]

Distinct ==
  \A c, d \in Calls :
    st[c] \in Taken /\ st[d] \in Taken /\ c # d /\ of[c] = of[d] => seq[c] # seq[d]

Ascending ==
  \A c, d \in Calls :
    st[c] = "sent" /\ st[d] \in Taken /\ of[c] < of[d] /\ key[of[c]] = key[of[d]] =>
      seq[c] < seq[d]

(* One control call of a Sender is sealed at a time, after every control   *)
(* call of it that was sent.                                               *)
Chained ==
  /\ \A c \in Control : st[c] = "sealing" => MyTurn(c)
  /\ \A c, d \in Control :
       st[c] = "sent" /\ st[d] = "sealing" /\ of[c] = of[d] => seq[c] < seq[d]

HeardSent ==
  \A k \in Gens :
    heard[k] # -1 =>
      \E c \in Control : st[c] = "sent" /\ key[of[c]] = k /\ seq[c] = heard[k]

Inv == Built /\ Superseded /\ Counted /\ Distinct /\ Ascending /\ Chained /\ HeardSent

IInv == TypeOK /\ Inv /\ ControlInOrder

-----------------------------------------------------------------------------
LEMMA GensFact == MaxGen \in Nat /\ Gens \subseteq Nat /\ 1 \in Gens
BY SendPathAssumption DEF Gens

LEMMA MyTurnControl ==
  ASSUME NEW c \in Control
  PROVE  MyTurn(c) <=> chain[of[c]] # <<>> /\ Head(chain[of[c]]) = c
BY DEF MyTurn

LEMMA InitOK == Init => IInv
<1> SUFFICES ASSUME Init PROVE IInv
  OBVIOUS
<1>1. TypeOK
  <2>1. /\ gen \in Gens
        /\ key \in [Gens -> Gens]
        /\ next \in [Gens -> Nat]
        /\ on \in [Gens -> Nat]
    BY GensFact DEF Init
  <2>2. chain \in [Gens -> Seq(Control)] /\ heard \in [Gens -> Nat \cup {-1}]
    BY GensFact DEF Init
  <2>3. aborted \in [Gens -> BOOLEAN] /\ cancelled \in [Attempts -> BOOLEAN]
    BY DEF Init
  <2>4. /\ st \in [Calls -> {"idle", "waiting", "sealing", "sent", "lost", "failed"}]
        /\ of \in [Calls -> Gens]
        /\ seq \in [Calls -> Nat]
    BY GensFact DEF Init
  <2>5. QED
    BY <2>1, <2>2, <2>3, <2>4 DEF Init, TypeOK
<1>2. Inv
  <2>1. Built /\ Superseded
    BY GensFact DEF Init, Built, Superseded
  <2>2. Counted /\ Distinct /\ Ascending
    BY DEF Init, Counted, Distinct, Ascending, Taken
  <2>3. Chained /\ HeardSent
    BY DEF Init, Chained, HeardSent, Calls
  <2>4. QED
    BY <2>1, <2>2, <2>3 DEF Inv
<1>3. QED
  BY <1>1, <1>2 DEF IInv, ControlInOrder, Init

-----------------------------------------------------------------------------
(* Types, action by action.                                                *)
LEMMA TailType ==
  ASSUME NEW S, NEW s \in Seq(S), s # <<>>
  PROVE  Tail(s) \in Seq(S)
OBVIOUS

LEMMA PerformType ==
  ASSUME TypeOK, NEW a \in Attempts, Perform(a)
  PROVE  /\ live' \in Attempts \cup {None}
         /\ upgrade' \in Attempts \cup {None}
         /\ phase' \in [Attempts -> {"idle", "opening", "queued", "swapped", "failed"}]
BY DEF TypeOK, Perform, Over

LEMMA BuildType ==
  ASSUME TypeOK, Built, NEW k \in Gens, k <= gen + 1, NEW w \in Nat, BuildSender(k, w)
  PROVE  /\ gen' \in Gens /\ gen + 1 \in Gens
         /\ key' \in [Gens -> Gens] /\ next' \in [Gens -> Nat] /\ on' \in [Gens -> Nat]
<1>1. gen \in Gens /\ gen + 1 \in Gens /\ gen' = gen + 1
  BY GensFact DEF TypeOK, BuildSender, Gens
<1>2. key' \in [Gens -> Gens] /\ on' \in [Gens -> Nat]
  BY <1>1 DEF TypeOK, BuildSender
<1>3. next[gen] \in Nat /\ next' = [next EXCEPT ![gen + 1] = next[gen]]
  BY <1>1 DEF TypeOK, BuildSender, Carried
<1>4. next' \in [Gens -> Nat]
  BY <1>3 DEF TypeOK
<1>5. QED
  BY <1>1, <1>2, <1>4

LEMMA TypeStep == TypeOK /\ Inv /\ [Next]_vars => TypeOK'
<1> SUFFICES ASSUME TypeOK, Inv, [Next]_vars PROVE TypeOK'
  OBVIOUS
<1> USE SendPathAssumption, GensFact
<1>1. ASSUME NEW c \in Calls, NEW g \in Gens, IssueData(c, g) PROVE TypeOK'
  BY <1>1 DEF TypeOK, IssueData, senderVars, gateVars
<1>2. ASSUME NEW c \in Calls, NEW g \in Gens, IssueControl(c, g) PROVE TypeOK'
  <2>1. chain' \in [Gens -> Seq(Control)]
    BY <1>2 DEF TypeOK, IssueControl
  <2>2. QED
    BY <1>2, <2>1 DEF TypeOK, IssueControl, gateVars
<1>3. ASSUME NEW c \in Calls, Enter(c) PROVE TypeOK'
  <2>1. of[c] \in Gens /\ next[of[c]] \in Nat
    BY DEF TypeOK
  <2>2. next' \in [Gens -> Nat] /\ seq' \in [Calls -> Nat]
    BY <1>3, <2>1 DEF TypeOK, Enter
  <2>3. QED
    BY <1>3, <2>2 DEF TypeOK, Enter, gateVars
<1>4. ASSUME NEW c \in Calls, Send(c) PROVE TypeOK'
  <2>1. chain' \in [Gens -> Seq(Control)]
    BY <1>4, TailType DEF TypeOK, Send, Settle, Inv, Chained, MyTurn
  <2>2. key[of[c]] \in Gens /\ seq[c] \in Nat
    BY DEF TypeOK
  <2>3. heard' \in [Gens -> Nat \cup {-1}]
    BY <1>4, <2>2 DEF TypeOK, Send, Emit
  <2>4. reordered' \subseteq Control
    BY <1>4 DEF TypeOK, Send, Emit
  <2>5. st' \in [Calls -> {"idle", "waiting", "sealing", "sent", "lost", "failed"}]
    BY <1>4 DEF TypeOK, Send, Emit
  <2>6. QED
    BY <1>4, <2>1, <2>3, <2>4, <2>5 DEF TypeOK, Send, gateVars
<1>5. ASSUME NEW c \in Calls, Discard(c) PROVE TypeOK'
  <2>1. chain' \in [Gens -> Seq(Control)]
    BY <1>5, TailType DEF TypeOK, Discard, Settle, Inv, Chained, MyTurn
  <2>2. QED
    BY <1>5, <2>1 DEF TypeOK, Discard, gateVars
<1>6. ASSUME PeerLeft PROVE TypeOK'
  <2>1. key[gen] \in Gens /\ key[gen] <= gen + 1 /\ sw \in Nat
    BY DEF TypeOK, Inv, Built, Gens
  <2>2. BuildSender(key[gen], sw)
    BY <1>6 DEF PeerLeft
  <2>3. cancelled' \in [Attempts -> BOOLEAN] /\ aborted' \in [Gens -> BOOLEAN]
    BY <1>6 DEF PeerLeft, TypeOK
  <2>4. QED
    BY <1>6, <2>1, <2>2, <2>3, BuildType DEF TypeOK, PeerLeft, callVars, Inv
<1>7. ASSUME Rekey PROVE TypeOK'
  <2>1. key[gen] + 1 \in Gens /\ key[gen] + 1 <= gen + 1 /\ sw \in Nat
    <3>1. gen + 1 \in Gens /\ key[gen] \in Nat /\ key[gen] <= gen
      BY <1>7 DEF TypeOK, Inv, Built, Gens, Rekey, BuildSender
    <3>2. gen \in Nat /\ sw \in Nat
      BY DEF TypeOK
    <3>3. QED
      BY <3>1, <3>2 DEF Gens
  <2>2. QED
    BY <1>7, <2>1, BuildType DEF TypeOK, Rekey, callVars, gateVars, Inv
<1>8. ASSUME OwnDrop PROVE TypeOK'
  BY <1>8 DEF TypeOK, OwnDrop, callVars
<1>9. ASSUME OwnReconnect PROVE TypeOK'
  <2>1. key[gen] \in Gens /\ key[gen] <= gen + 1 /\ sw + 1 \in Nat
    BY DEF TypeOK, Inv, Built, Gens
  <2>2. QED
    BY <1>9, <2>1, BuildType DEF TypeOK, OwnReconnect, callVars, Inv
<1>10. ASSUME NEW a \in Attempts, StartUpgrade(a) PROVE TypeOK'
  BY <1>10 DEF TypeOK, StartUpgrade, senderVars, callVars
<1>11. ASSUME NEW a \in Attempts, Open(a) PROVE TypeOK'
  <2>1. /\ live' \in Attempts \cup {None}
        /\ upgrade' \in Attempts \cup {None}
        /\ phase' \in [Attempts -> {"idle", "opening", "queued", "swapped", "failed"}]
        /\ barrier' \in Attempts \cup {None}
    <3>1. CASE Perform(a) /\ UNCHANGED barrier
      BY <3>1, PerformType DEF TypeOK
    <3>2. CASE ~(Perform(a) /\ UNCHANGED barrier)
      BY <1>11, <3>2 DEF TypeOK, Open, Over
    <3>3. QED
      BY <3>1, <3>2
  <2>2. QED
    BY <1>11, <2>1 DEF TypeOK, Open, senderVars, callVars
<1>12. ASSUME NEW a \in Attempts, OpenFails(a) PROVE TypeOK'
  BY <1>12 DEF TypeOK, OpenFails, Over, senderVars, callVars
<1>13. ASSUME NEW a \in Attempts, Swap(a) PROVE TypeOK'
  BY <1>13, PerformType DEF TypeOK, Swap, senderVars, callVars
<1>14. ASSUME FallBack PROVE TypeOK'
  BY <1>14 DEF TypeOK, FallBack, senderVars, callVars
<1>15. CASE UNCHANGED vars
  BY <1>15 DEF TypeOK, vars, senderVars, callVars, gateVars
<1>16. QED
  BY <1>1, <1>2, <1>3, <1>4, <1>5, <1>6, <1>7, <1>8, <1>9, <1>10, <1>11,
     <1>12, <1>13, <1>14, <1>15 DEF Next

-----------------------------------------------------------------------------
(* What one step may do to a frame: a call keeps its Sender and number     *)
(* once it has taken one, and only a connected Sender, the latest of its   *)
(* key, puts anything on the wire.                                         *)
LEMMA LatestSends ==
  ASSUME TypeOK, Inv, NEW c \in Calls, Send(c), Connected(of[c]),
         NEW h \in Gens, of[c] < h, h <= gen
  PROVE  key[of[c]] # key[h]
BY DEF TypeOK, Inv, Superseded, Send, Connected

-----------------------------------------------------------------------------
(* Steps that leave the calls and the counters alone.                      *)
LEMMA QuietStep ==
  ASSUME Inv,
         UNCHANGED <<gen, key, next, on, chain, heard, st, of, seq, sw>>,
         \A g \in Gens : aborted[g] => aborted'[g]
  PROVE  Inv'
<1>1. Built' /\ Superseded'
  BY DEF Inv, Built, Superseded
<1>2. Counted' /\ Distinct' /\ Ascending'
  BY DEF Inv, Counted, Distinct, Ascending
<1>3. Chained' /\ HeardSent'
  BY DEF Inv, Chained, HeardSent, MyTurn
<1>4. QED
  BY <1>1, <1>2, <1>3 DEF Inv

(* A Sender is built: it starts past everything its key has sent, and the  *)
(* Sender it replaces, if their keys agree, is silenced.                   *)
LEMMA BuildStep ==
  ASSUME TypeOK, Inv, NEW k \in Gens, NEW w \in Nat, BuildSender(k, w),
         k = key[gen] \/ k = key[gen] + 1,
         sw' \in Nat, sw <= sw', w <= sw',
         k = key[gen] => aborted'[gen] \/ sw < sw',
         \A g \in Gens : aborted[g] => aborted'[g],
         UNCHANGED <<chain, heard, callVars>>
  PROVE  Inv'
<1> USE GensFact
<1>1. /\ gen \in Gens /\ gen + 1 \in Gens /\ gen' = gen + 1
      /\ key[gen] \in Gens /\ key[gen] <= gen
  BY DEF TypeOK, BuildSender, Gens, Inv, Built
<1>2. /\ key' = [key EXCEPT ![gen + 1] = k] /\ on' = [on EXCEPT ![gen + 1] = w]
      /\ next' = [next EXCEPT ![gen + 1] = next[gen]]
  BY DEF BuildSender, Carried
<1>3. \A g \in Gens : g # gen + 1 => key'[g] = key[g] /\ on'[g] = on[g] /\ next'[g] = next[g]
  BY <1>2 DEF TypeOK
<1>4. key'[gen + 1] = k /\ on'[gen + 1] = w /\ next'[gen + 1] = next[gen]
  BY <1>1, <1>2 DEF TypeOK
<1>5. \A c \in Calls : of[c] \in Gens /\ of[c] <= gen /\ of[c] # gen + 1 /\ seq[c] \in Nat
  BY <1>1 DEF TypeOK, Inv, Built
<1>6. st' = st /\ of' = of /\ seq' = seq /\ chain' = chain /\ heard' = heard
  BY DEF callVars
<1>7. /\ \A g \in Gens : key[g] \in Nat /\ on[g] \in Nat /\ next[g] \in Nat /\ g \in Nat
      /\ sw \in Nat /\ gen \in Nat /\ k \in Nat /\ w \in Nat
  BY DEF TypeOK
<1>14. key[gen] \in Nat /\ key[gen] <= k /\ k <= gen + 1
  BY <1>1, <1>7
<1>15. \A g \in Gens : g <= gen => key[g] <= key[gen]
  BY DEF Inv, Built
<1>8. Built'
  <2>1. ASSUME NEW c \in Calls PROVE of[c] <= gen'
    <3>1. of[c] \in Nat /\ of[c] <= gen
      BY <1>5
    <3>2. QED
      BY <1>1, <1>7, <3>1
  <2>2. \A g \in Gens : key'[g] <= g /\ on'[g] <= sw'
    <3>1. ASSUME NEW g \in Gens, g # gen + 1 PROVE key'[g] <= g /\ on'[g] <= sw'
      <4>1. key[g] <= g /\ on[g] <= sw
        BY DEF Inv, Built
      <4>2. QED
        BY <1>3, <1>7, <3>1, <4>1
    <3>2. QED
      BY <1>1, <1>4, <1>14, <3>1
  <2>3. \A g \in Gens : g <= gen' => key'[g] <= key'[gen']
    <3>1. ASSUME NEW g \in Gens, g # gen + 1, g <= gen' PROVE key'[g] <= k
      <4>1. g <= gen
        BY <1>1, <1>7, <3>1
      <4>2. QED
        BY <1>3, <1>7, <1>14, <1>15, <3>1, <4>1
    <3>2. QED
      BY <1>1, <1>4, <1>7, <3>1
  <2>4. sw' >= 1
    BY DEF Inv, Built, TypeOK
  <2>5. QED
    BY <1>6, <2>1, <2>2, <2>3, <2>4 DEF Built
<1>9. Superseded'
  <2> SUFFICES ASSUME NEW g \in Gens, NEW h \in Gens, g < h, h <= gen', key'[g] = key'[h]
               PROVE  aborted'[g] \/ on'[g] < sw'
    BY DEF Superseded
  <2>1. g # gen + 1 /\ g <= gen /\ key'[g] = key[g] /\ on'[g] = on[g]
    BY <1>1, <1>3, <1>7
  <2>2. CASE h <= gen
    <3>1. h # gen + 1
      BY <1>7, <2>2
    <3>4. key[g] = key[h]
      BY <1>3, <2>1, <3>1
    <3>2. aborted[g] \/ on[g] < sw
      BY <2>2, <3>4 DEF Inv, Superseded
    <3>3. QED
      BY <1>7, <2>1, <3>2
  <2>3. CASE h = gen + 1
    <3>1. key[g] = k /\ key[g] <= key[gen]
      BY <1>4, <2>1, <2>3 DEF Inv, Built
    <3>2. k = key[gen]
      BY <1>1, <1>7, <3>1
    <3>3. CASE g = gen
      BY <1>1, <2>1, <3>2, <3>3 DEF Inv, Built, TypeOK
    <3>4. CASE g < gen
      <4>1. aborted[g] \/ on[g] < sw
        BY <1>1, <1>7, <3>1, <3>2, <3>4 DEF Inv, Superseded
      <4>2. QED
        BY <1>7, <2>1, <4>1
    <3>5. QED
      BY <1>1, <1>7, <2>1, <3>3, <3>4
  <2>4. QED
    BY <1>1, <1>7, <2>2, <2>3
<1>10. Counted'
  <2> SUFFICES ASSUME NEW c \in Calls
               PROVE  /\ st[c] \in Taken => seq[c] < next'[of[c]]
                      /\ \A h \in Gens :
                           st[c] = "sent" /\ of[c] < h /\ h <= gen' /\ key'[of[c]] = key'[h] =>
                             seq[c] < next'[h]
    BY <1>6 DEF Counted
  <2>1. next'[of[c]] = next[of[c]] /\ key'[of[c]] = key[of[c]]
    BY <1>3, <1>5
  <2>2. st[c] \in Taken => seq[c] < next'[of[c]]
    BY <2>1 DEF Inv, Counted
  <2>3. ASSUME NEW h \in Gens, st[c] = "sent", of[c] < h, h <= gen', key'[of[c]] = key'[h]
        PROVE  seq[c] < next'[h]
    <3>1. CASE h <= gen
      <4>3. h # gen + 1
        BY <1>7, <3>1
      <4>1. h # gen + 1 /\ key[of[c]] = key[h] /\ next'[h] = next[h]
        BY <1>3, <2>1, <2>3, <4>3
      <4>2. QED
        BY <2>3, <3>1, <4>1 DEF Inv, Counted
    <3>2. CASE h = gen + 1
      <4>1. key[of[c]] = k /\ key[of[c]] <= key[gen]
        BY <1>4, <1>5, <2>1, <2>3, <3>2 DEF Inv, Built
      <4>2. k = key[gen] /\ next'[h] = next[gen]
        BY <1>1, <1>4, <1>5, <1>7, <3>2, <4>1
      <4>3. CASE of[c] = gen
        BY <2>2, <2>3, <2>1, <4>2, <4>3 DEF Taken
      <4>4. CASE of[c] < gen
        <5>1. gen \in Gens /\ gen <= gen /\ key[of[c]] = key[gen]
          BY <1>1, <1>7, <4>1, <4>2
        <5>2. seq[c] < next[gen]
          BY <2>3, <4>4, <5>1 DEF Inv, Counted
        <5>3. QED
          BY <4>2, <5>2
      <4>5. of[c] \in Nat /\ of[c] <= gen
        BY <1>5
      <4>6. QED
        BY <1>7, <4>3, <4>4, <4>5
    <3>3. h \in Nat /\ h <= gen + 1
      BY <1>1, <1>7, <2>3
    <3>4. QED
      BY <1>7, <3>1, <3>2, <3>3
  <2>4. QED
    BY <2>2, <2>3
<1>11. Distinct' /\ Ascending'
  BY <1>3, <1>5, <1>6 DEF Inv, Distinct, Ascending
<1>12. Chained' /\ HeardSent'
  <2>1. Chained'
    BY <1>6 DEF Inv, Chained, MyTurn
  <2>2. \A c \in Control : key'[of[c]] = key[of[c]]
    BY <1>3, <1>5 DEF Calls
  <2>3. HeardSent'
    BY <1>6, <2>2 DEF Inv, HeardSent
  <2>4. QED
    BY <2>1, <2>3
<1>13. QED
  BY <1>8, <1>9, <1>10, <1>11, <1>12 DEF Inv

-----------------------------------------------------------------------------
(* Steps of a call.                                                        *)

(* A call starts to wait: nothing it could disturb has a number yet.       *)
LEMMA WaitStep ==
  ASSUME TypeOK, Inv, NEW c \in Calls, NEW g \in Gens, g <= gen,
         st[c] = "idle",
         st' = [st EXCEPT ![c] = "waiting"],
         of' = [of EXCEPT ![c] = g],
         \/ chain' = chain
         \/ c \in Control /\ chain' = [chain EXCEPT ![g] = Append(@, c)],
         UNCHANGED <<gen, key, next, aborted, on, sw, seq, heard>>
  PROVE  Inv'
<1> USE GensFact
<1>1. \A d \in Calls : d # c => st'[d] = st[d] /\ of'[d] = of[d]
  BY DEF TypeOK
<1>2. st'[c] = "waiting" /\ of'[c] = g
  BY DEF TypeOK
<1>3. Built' /\ Superseded'
  BY <1>1, <1>2 DEF Inv, Built, Superseded
<1>4. Counted'
  BY <1>1, <1>2 DEF Inv, Counted, Taken
<1>5. Distinct' /\ Ascending'
  BY <1>1, <1>2 DEF Inv, Distinct, Ascending, Taken
<1>6. Chained'
  <2>1. ASSUME NEW d \in Control, st'[d] = "sealing" PROVE MyTurn(d)'
    <3>1. d \in Calls /\ d # c /\ st[d] = "sealing" /\ of'[d] = of[d] /\ of[d] \in Gens
      BY <1>1, <1>2, <2>1 DEF Calls, TypeOK
    <3>2. chain[of[d]] # <<>> /\ Head(chain[of[d]]) = d
      BY <2>1, <3>1, MyTurnControl DEF Inv, Chained
    <3>3. chain'[of[d]] # <<>> /\ Head(chain'[of[d]]) = d
      <4>1. CASE chain' = chain
        BY <3>2, <4>1
      <4>2. CASE c \in Control /\ chain' = [chain EXCEPT ![g] = Append(@, c)]
        <5>1. chain[of[d]] \in Seq(Control)
          BY <3>1 DEF TypeOK
        <5>2. chain'[of[d]] \in {chain[of[d]], Append(chain[of[d]], c)}
          BY <3>1, <4>2 DEF TypeOK
        <5>3. /\ Append(chain[of[d]], c) # <<>>
              /\ Head(Append(chain[of[d]], c)) = Head(chain[of[d]])
          BY <3>2, <4>2, <5>1
        <5>4. QED
          BY <3>2, <5>2, <5>3
      <4>3. QED
        BY <4>1, <4>2
    <3>4. QED
      BY <3>1, <3>3 DEF MyTurn
  <2>2. \A d, e \in Control :
          st'[d] = "sent" /\ st'[e] = "sealing" /\ of'[d] = of'[e] => seq'[d] < seq'[e]
    BY <1>1, <1>2 DEF Inv, Chained, Calls
  <2>3. QED
    BY <2>1, <2>2 DEF Chained
<1>7. HeardSent'
  BY <1>1 DEF Inv, HeardSent, Calls
<1>8. QED
  BY <1>3, <1>4, <1>5, <1>6, <1>7 DEF Inv

(* A call takes the next number of its Sender.                             *)
LEMMA EnterStep ==
  ASSUME TypeOK, Inv, NEW c \in Calls, Enter(c)
  PROVE  Inv'
<1> USE GensFact
<1>1. /\ st[c] = "waiting" /\ of[c] \in Gens /\ of[c] <= gen /\ next[of[c]] \in Nat
      /\ st'[c] = "sealing" /\ seq'[c] = next[of[c]]
      /\ \A d \in Calls : d # c => st'[d] = st[d] /\ seq'[d] = seq[d]
      /\ next'[of[c]] = next[of[c]] + 1
      /\ \A h \in Gens : h # of[c] => next'[h] = next[h]
      /\ UNCHANGED <<gen, key, aborted, on, sw, of, chain, heard>>
  BY DEF TypeOK, Inv, Built, Enter, gateVars
<1>2. \A d \in Calls : of[d] \in Gens /\ seq[d] \in Nat
  BY DEF TypeOK
<1>3. \A h \in Gens : next[h] \in Nat /\ next'[h] \in Nat /\ next[h] <= next'[h]
  BY <1>1 DEF TypeOK
<1>12. ASSUME NEW h \in Gens, NEW n \in Nat, n < next[h] PROVE n < next'[h]
  <2>1. next[h] \in Nat /\ next'[h] \in Nat /\ next[h] <= next'[h]
    BY <1>3
  <2>2. QED
    BY <1>12, <2>1
<1>4. Built' /\ Superseded'
  BY <1>1 DEF Inv, Built, Superseded
<1>5. Counted'
  <2> SUFFICES ASSUME NEW d \in Calls
               PROVE  /\ st'[d] \in Taken => seq'[d] < next'[of[d]]
                      /\ \A h \in Gens :
                           st'[d] = "sent" /\ of[d] < h /\ h <= gen /\ key[of[d]] = key[h] =>
                             seq'[d] < next'[h]
    BY <1>1 DEF Counted
  <2>1. CASE d = c
    BY <1>1, <2>1
  <2>2. CASE d # c
    <3>1. /\ st[d] \in Taken => seq[d] < next[of[d]]
          /\ \A h \in Gens :
               st[d] = "sent" /\ of[d] < h /\ h <= gen /\ key[of[d]] = key[h] =>
                 seq[d] < next[h]
      BY DEF Inv, Counted
    <3>2. st'[d] = st[d] /\ seq'[d] = seq[d] /\ seq[d] \in Nat /\ of[d] \in Gens
      BY <1>1, <1>2, <2>2
    <3>3. st[d] \in Taken => seq[d] < next'[of[d]]
      BY <1>12, <3>1, <3>2
    <3>4. ASSUME NEW h \in Gens, st[d] = "sent", of[d] < h, h <= gen, key[of[d]] = key[h]
          PROVE  seq[d] < next'[h]
      BY <1>12, <3>1, <3>2, <3>4
    <3>5. QED
      BY <3>2, <3>3, <3>4
  <2>3. QED
    BY <2>1, <2>2
<1>6. \A d \in Calls : d # c /\ st[d] \in Taken /\ of[d] = of[c] => seq[d] < seq'[c]
  BY <1>1 DEF Inv, Counted
<1>7. Distinct'
  <2> SUFFICES ASSUME NEW d \in Calls, NEW e \in Calls, st'[d] \in Taken, st'[e] \in Taken,
                      d # e, of[d] = of[e]
               PROVE  seq'[d] # seq'[e]
    BY <1>1 DEF Distinct
  <2>1. CASE d # c /\ e # c
    BY <1>1, <2>1 DEF Inv, Distinct
  <2>2. CASE d = c \/ e = c
    BY <1>1, <1>2, <1>6, <2>2
  <2>3. QED
    BY <2>1, <2>2
<1>8. Ascending'
  <2> SUFFICES ASSUME NEW d \in Calls, NEW e \in Calls, st'[d] = "sent", st'[e] \in Taken,
                      of[d] < of[e], key[of[d]] = key[of[e]]
               PROVE  seq'[d] < seq'[e]
    BY <1>1 DEF Ascending
  <2>1. d # c /\ st[d] = "sent" /\ seq'[d] = seq[d]
    BY <1>1
  <2>2. CASE e # c
    BY <1>1, <2>1, <2>2 DEF Inv, Ascending
  <2>3. CASE e = c
    BY <1>1, <2>1, <2>3 DEF Inv, Counted
  <2>4. QED
    BY <2>2, <2>3
<1>9. Chained'
  <2>1. MyTurn(c) /\ \A d \in Control : MyTurn(d)' = MyTurn(d)
    BY <1>1 DEF Enter, MyTurn
  <2>2. ASSUME NEW d \in Control, st'[d] = "sealing" PROVE MyTurn(d)'
    BY <1>1, <2>1, <2>2 DEF Inv, Chained, Calls
  <2>3. ASSUME NEW d \in Control, NEW e \in Control, st'[d] = "sent", st'[e] = "sealing",
               of[d] = of[e]
        PROVE  seq'[d] < seq'[e]
    <3>1. d \in Calls /\ e \in Calls /\ d # c /\ st[d] = "sent" /\ seq'[d] = seq[d]
      BY <1>1, <2>3 DEF Calls
    <3>2. CASE e = c
      BY <1>6, <2>3, <3>1, <3>2 DEF Taken
    <3>3. CASE e # c
      BY <1>1, <2>3, <3>1, <3>3 DEF Inv, Chained
    <3>4. QED
      BY <3>2, <3>3
  <2>4. QED
    BY <1>1, <2>2, <2>3 DEF Chained
<1>10. HeardSent'
  BY <1>1 DEF Inv, HeardSent, Calls
<1>11. QED
  BY <1>4, <1>5, <1>7, <1>8, <1>9, <1>10 DEF Inv

(* A sealed call settles: whichever way it went, the control calls still   *)
(* being sealed belong to other Senders and keep their turn.               *)
LEMMA SettleKeepsTurns ==
  ASSUME TypeOK, Inv, NEW c \in Calls, st[c] = "sealing", Settle(c), of' = of,
         NEW d \in Control, d # c, st[d] = "sealing"
  PROVE  MyTurn(d)' /\ (c \in Control => of[c] # of[d])
<1>1. chain[of[d]] # <<>> /\ Head(chain[of[d]]) = d /\ of[d] \in Gens /\ of[c] \in Gens
  BY MyTurnControl DEF Inv, Chained, TypeOK, Calls
<1>2. c \in Control => of[c] # of[d]
  BY <1>1, MyTurnControl DEF Inv, Chained
<1>3. chain'[of[d]] = chain[of[d]]
  BY <1>1, <1>2 DEF Settle, TypeOK
<1>4. QED
  BY <1>1, <1>2, <1>3 DEF MyTurn

(* A call that settles without reaching the wire.                          *)
LEMMA DropStep ==
  ASSUME TypeOK, Inv, NEW c \in Calls, st[c] = "sealing", Settle(c),
         NEW how \in {"failed", "lost"}, st' = [st EXCEPT ![c] = how],
         UNCHANGED <<gen, key, next, aborted, on, sw, of, seq, heard>>
  PROVE  Inv'
<1>1. st'[c] = how /\ \A d \in Calls : d # c => st'[d] = st[d]
  BY DEF TypeOK
<1>2. Built' /\ Superseded'
  BY DEF Inv, Built, Superseded
<1>3. \A d \in Calls : (st'[d] \in Taken => st[d] \in Taken) /\ (st'[d] = "sent" => st[d] = "sent")
  BY <1>1 DEF Taken
<1>4. Counted' /\ Distinct' /\ Ascending'
  BY <1>3 DEF Inv, Counted, Distinct, Ascending
<1>5. Chained'
  <2>1. \A d \in Control : st'[d] = "sealing" => d # c /\ st[d] = "sealing"
    BY <1>1 DEF Calls
  <2>2. \A d \in Control : st'[d] = "sealing" => MyTurn(d)'
    BY <2>1, SettleKeepsTurns
  <2>3. \A d \in Control : st'[d] = "sent" => st[d] = "sent"
    BY <1>3 DEF Calls
  <2>4. QED
    BY <2>1, <2>2, <2>3 DEF Inv, Chained
<1>6. HeardSent'
  <2>1. \A d \in Control : st[d] = "sent" => st'[d] = "sent"
    BY <1>1 DEF Calls
  <2>2. QED
    BY <2>1 DEF Inv, HeardSent
<1>7. QED
  BY <1>2, <1>4, <1>5, <1>6 DEF Inv

(* The call reaches the wire. Its Sender is the latest of its key, so      *)
(* nothing with that key has a higher number, on the wire or off it.       *)
LEMMA WireStep ==
  ASSUME IInv, NEW c \in Calls, Send(c), Connected(of[c])
  PROVE  Inv' /\ ControlInOrder'
<1> USE GensFact
<1> DEFINE k == key[of[c]]
<1>1. /\ TypeOK /\ Inv /\ ControlInOrder
      /\ st[c] = "sealing" /\ of[c] \in Gens /\ of[c] <= gen /\ k \in Gens /\ seq[c] \in Nat
      /\ UNCHANGED <<gen, key, next, aborted, on, sw, of, seq>>
      /\ Settle(c)
  BY DEF IInv, TypeOK, Inv, Built, Send, gateVars
<1>2. st'[c] = "sent" /\ \A d \in Calls : d # c => st'[d] = st[d]
  BY <1>1 DEF TypeOK, Send, Emit
<1>3. \A d \in Calls : of[d] \in Gens /\ of[d] <= gen /\ seq[d] \in Nat
  BY <1>1 DEF TypeOK, Inv, Built
<1>4. \A h \in Gens : of[c] < h /\ h <= gen => key[of[c]] # key[h]
  BY <1>1, LatestSends
<1>5. Built' /\ Superseded'
  BY <1>1 DEF Inv, Built, Superseded
<1>6. \A d \in Calls : st'[d] \in Taken => st[d] \in Taken
  BY <1>1, <1>2 DEF Taken
<1>7. Counted'
  BY <1>1, <1>2, <1>4, <1>6 DEF Inv, Counted, Taken
<1>8. Distinct'
  BY <1>1, <1>6 DEF Inv, Distinct
<1>9. Ascending'
  BY <1>1, <1>2, <1>3, <1>4, <1>6 DEF Inv, Ascending
<1>10. \A d \in Control : st[d] = "sent" /\ key[of[d]] = k => seq[d] < seq[c] \/ c \notin Control
  <2> SUFFICES ASSUME NEW d \in Control, st[d] = "sent", key[of[d]] = k, c \in Control
               PROVE  seq[d] < seq[c]
    OBVIOUS
  <2>1. d \in Calls /\ of[d] \in Nat /\ of[c] \in Nat /\ of[d] \in Gens /\ of[d] <= gen
    BY <1>1, <1>3 DEF Calls
  <2>2. CASE of[d] = of[c]
    BY <1>1, <2>2 DEF Inv, Chained
  <2>3. CASE of[d] < of[c]
    BY <1>1, <2>1, <2>3 DEF Inv, Ascending, Taken
  <2>4. CASE of[c] < of[d]
    BY <1>4, <2>1, <2>4
  <2>5. QED
    BY <2>1, <2>2, <2>3, <2>4
<1>11. c \in Control => heard[k] < seq[c]
  <2>1. heard[k] \in Nat \cup {-1}
    BY <1>1 DEF TypeOK
  <2>2. CASE heard[k] = -1
    BY <1>1, <2>2
  <2>3. CASE heard[k] # -1
    BY <1>1, <1>10, <2>3 DEF Inv, HeardSent
  <2>4. QED
    BY <2>2, <2>3
<1>12. ~(c \in Control /\ seq[c] <= heard[k])
  <2>1. heard[k] \in Nat \cup {-1} /\ seq[c] \in Nat
    BY <1>1 DEF TypeOK
  <2>2. QED
    BY <1>11, <2>1
<1>13. ControlInOrder'
  BY <1>1, <1>12 DEF Send, Emit, ControlInOrder
<1>14. heard' = IF c \in Control THEN [heard EXCEPT ![k] = seq[c]] ELSE heard
  BY <1>12 DEF Send, Emit
<1>15. HeardSent'
  <2> SUFFICES ASSUME NEW j \in Gens, heard'[j] # -1
               PROVE  \E d \in Control : st'[d] = "sent" /\ key[of[d]] = j /\ seq[d] = heard'[j]
    BY <1>1 DEF HeardSent
  <2>1. CASE c \in Control /\ j = k
    <3>1. heard'[k] = seq[c]
      BY <1>1, <1>14, <2>1 DEF TypeOK
    <3>2. c \in Control /\ st'[c] = "sent" /\ key[of[c]] = j /\ seq[c] = heard'[j]
      BY <1>2, <2>1, <3>1
    <3>3. QED
      BY <3>2
  <2>2. CASE ~(c \in Control /\ j = k)
    <3>1. heard'[j] = heard[j]
      BY <1>1, <1>14, <2>2 DEF TypeOK
    <3>2. \A d \in Control : st[d] = "sent" => st'[d] = "sent"
      BY <1>2 DEF Calls
    <3>3. QED
      BY <1>1, <3>1, <3>2 DEF Inv, HeardSent
  <2>3. QED
    BY <2>1, <2>2
<1>16. Chained'
  <2>1. \A d \in Control : st'[d] = "sealing" => d # c /\ st[d] = "sealing"
    BY <1>2 DEF Calls
  <2>2. \A d \in Control : st'[d] = "sealing" => MyTurn(d)'
    BY <1>1, <2>1, SettleKeepsTurns
  <2>3. ASSUME NEW d \in Control, NEW e \in Control, st'[d] = "sent", st'[e] = "sealing",
               of[d] = of[e]
        PROVE  seq[d] < seq[e]
    <3>1. e # c /\ st[e] = "sealing"
      BY <2>1, <2>3
    <3>2. d # c
      BY <1>1, <2>3, <3>1, SettleKeepsTurns
    <3>3. st[d] = "sent"
      BY <1>2, <2>3, <3>2 DEF Calls
    <3>4. QED
      BY <1>1, <2>3, <3>1, <3>3 DEF Inv, Chained
  <2>4. QED
    BY <1>1, <2>2, <2>3 DEF Chained
<1>17. QED
  BY <1>5, <1>7, <1>8, <1>9, <1>13, <1>15, <1>16 DEF Inv

(* Aborting one Sender revives no other.                                   *)
LEMMA AbortFact ==
  ASSUME NEW g \in Gens, NEW f, f = [aborted EXCEPT ![g] = TRUE],
         aborted \in [Gens -> BOOLEAN]
  PROVE  f[g] /\ \A h \in Gens : aborted[h] => f[h]
<1>1. f[g] = TRUE /\ \A h \in Gens : h # g => f[h] = aborted[h]
  OBVIOUS
<1>2. ASSUME NEW h \in Gens, aborted[h] PROVE f[h]
  <2>1. CASE h = g
    BY <1>1, <2>1
  <2>2. CASE h # g
    BY <1>1, <1>2, <2>2, Zenon
  <2>3. QED
    BY <2>1, <2>2
<1>3. QED
  BY <1>1, <1>2

LEMMA LostStep ==
  ASSUME IInv, NEW c \in Calls, Send(c), ~Connected(of[c])
  PROVE  Inv' /\ ControlInOrder'
<1>1. /\ TypeOK /\ Inv /\ ControlInOrder
      /\ st[c] = "sealing" /\ Settle(c)
      /\ st' = [st EXCEPT ![c] = "lost"] /\ heard' = heard /\ reordered' = reordered
      /\ UNCHANGED <<gen, key, next, aborted, on, sw, of, seq>>
  BY DEF IInv, Send, Emit, gateVars
<1>2. Inv'
  BY <1>1, DropStep
<1>3. QED
  BY <1>1, <1>2 DEF ControlInOrder

-----------------------------------------------------------------------------
(* Every step of the next-state relation keeps the invariant.              *)
LEMMA InvStep == IInv /\ [Next]_vars => Inv' /\ ControlInOrder'
<1> SUFFICES ASSUME IInv, [Next]_vars PROVE Inv' /\ ControlInOrder'
  OBVIOUS
<1> USE GensFact
<1>0. TypeOK /\ Inv /\ ControlInOrder
  BY DEF IInv
<1>1. ASSUME NEW c \in Calls, NEW g \in Gens, IssueData(c, g) PROVE Inv' /\ ControlInOrder'
  BY <1>0, <1>1, WaitStep DEF IssueData, ControlInOrder, senderVars, gateVars
<1>2. ASSUME NEW c \in Calls, NEW g \in Gens, IssueControl(c, g) PROVE Inv' /\ ControlInOrder'
  BY <1>0, <1>2, WaitStep DEF IssueControl, ControlInOrder, gateVars
<1>3. ASSUME NEW c \in Calls, Enter(c) PROVE Inv' /\ ControlInOrder'
  BY <1>0, <1>3, EnterStep DEF Enter, ControlInOrder
<1>4. ASSUME NEW c \in Calls, Send(c) PROVE Inv' /\ ControlInOrder'
  BY <1>4, WireStep, LostStep
<1>5. ASSUME NEW c \in Calls, Discard(c) PROVE Inv' /\ ControlInOrder'
  BY <1>0, <1>5, DropStep DEF Discard, ControlInOrder, gateVars
<1>6. ASSUME PeerLeft PROVE Inv' /\ ControlInOrder'
  <2>1. /\ key[gen] \in Gens /\ sw \in Nat /\ gen \in Gens
        /\ BuildSender(key[gen], sw)
        /\ aborted' = [aborted EXCEPT ![gen] = TRUE]
        /\ UNCHANGED <<chain, heard, reordered, callVars, sw>>
    BY <1>0, <1>6 DEF TypeOK, PeerLeft
  <2>3. aborted \in [Gens -> BOOLEAN] /\ gen \in Gens /\ aborted' = [aborted EXCEPT ![gen] = TRUE]
    BY <1>0, <2>1 DEF TypeOK
  <2>2. aborted'[gen] /\ \A g \in Gens : aborted[g] => aborted'[g]
    BY <2>3, AbortFact
  <2>4. /\ sw' \in Nat /\ sw <= sw'
        /\ UNCHANGED <<chain, heard, callVars>>
        /\ key[gen] = key[gen] => aborted'[gen] \/ sw < sw'
    BY <2>1, <2>2
  <2>5. Inv'
    BY <1>0, <2>1, <2>2, <2>4, BuildStep
  <2>6. QED
    BY <1>0, <2>1, <2>5 DEF ControlInOrder
<1>7. ASSUME Rekey PROVE Inv' /\ ControlInOrder'
  <2>1. /\ key[gen] \in Nat /\ sw \in Nat /\ gen \in Gens
        /\ BuildSender(key[gen] + 1, sw)
        /\ UNCHANGED <<aborted, chain, heard, reordered, callVars, sw>>
    BY <1>0, <1>7 DEF TypeOK, Rekey, gateVars
  <2>2. key[gen] + 1 \in Gens
    <3>1. gen + 1 \in Gens /\ key[gen] <= gen /\ gen \in Nat
      BY <1>0, <2>1 DEF TypeOK, Inv, Built, Gens, BuildSender
    <3>2. QED
      BY <2>1, <3>1 DEF Gens
  <2>3. Inv'
    BY <1>0, <2>1, <2>2, BuildStep
  <2>4. QED
    BY <1>0, <2>1, <2>3 DEF ControlInOrder
<1>8. ASSUME OwnDrop PROVE Inv' /\ ControlInOrder'
  <2>1. \A g \in Gens : aborted[g] => aborted'[g]
    BY <1>0, <1>8, AbortFact DEF TypeOK, OwnDrop
  <2>2. QED
    BY <1>0, <1>8, <2>1, QuietStep DEF OwnDrop, callVars, ControlInOrder
<1>9. ASSUME OwnReconnect PROVE Inv' /\ ControlInOrder'
  <2>1. /\ key[gen] \in Gens /\ sw \in Nat /\ sw' = sw + 1
        /\ BuildSender(key[gen], sw + 1)
        /\ UNCHANGED <<aborted, chain, heard, reordered, callVars>>
    BY <1>0, <1>9 DEF TypeOK, OwnReconnect
  <2>2. /\ sw' \in Nat /\ sw + 1 \in Nat /\ sw <= sw' /\ sw + 1 <= sw'
        /\ UNCHANGED <<chain, heard, callVars>>
        /\ key[gen] = key[gen] => aborted'[gen] \/ sw < sw'
        /\ \A g \in Gens : aborted[g] => aborted'[g]
    BY <2>1
  <2>3. Inv'
    BY <1>0, <2>1, <2>2, BuildStep
  <2>4. QED
    BY <1>0, <2>1, <2>3 DEF ControlInOrder
<1>10. CASE UNCHANGED <<senderVars, callVars, sw>>
  BY <1>0, <1>10, QuietStep DEF senderVars, callVars, ControlInOrder
<1>11. ASSUME NEW a \in Attempts,
              StartUpgrade(a) \/ Open(a) \/ OpenFails(a) \/ Swap(a) \/ FallBack
       PROVE  UNCHANGED <<senderVars, callVars, sw>>
  BY <1>11 DEF StartUpgrade, Open, OpenFails, Swap, FallBack, senderVars, callVars
<1>12. FallBack \/ UNCHANGED vars => UNCHANGED <<senderVars, callVars, sw>>
  BY DEF FallBack, vars, senderVars, callVars, gateVars
<1>13. QED
  BY <1>1, <1>2, <1>3, <1>4, <1>5, <1>6, <1>7, <1>8, <1>9, <1>10, <1>11, <1>12 DEF Next

THEOREM Invariance == Spec => []IInv
<1>1. IInv /\ [Next]_vars => IInv'
  BY TypeStep, InvStep DEF IInv
<1>2. QED
  BY InitOK, <1>1, PTL DEF Spec

(* TypeOK holds in every reachable state.                                  *)
THEOREM TypeCorrect == Spec => []TypeOK
<1>1. IInv => TypeOK
  BY DEF IInv
<1>2. QED
  BY Invariance, <1>1, PTL

(* NonceOnce, for any number of rebuilds of the Sender (#unpair,           *)
(* #establish, #resumeAfterReconnect) and calls in flight across them: the *)
(* promise on which Session keeps one nonce prefix for its whole life.     *)
THEOREM NoncesAreUnique == Spec => []NonceOnce
<1>1. IInv => NonceOnce
  <2> SUFFICES ASSUME IInv, NEW c \in Calls, NEW d \in Calls, c # d,
                      st[c] = "sent", st[d] = "sent", key[of[c]] = key[of[d]]
               PROVE  seq[c] # seq[d]
    BY DEF NonceOnce
  <2>1. of[c] \in Nat /\ of[d] \in Nat /\ seq[c] \in Nat /\ seq[d] \in Nat
    BY GensFact DEF IInv, TypeOK
  <2>2. CASE of[c] = of[d]
    BY <2>2 DEF IInv, Inv, Distinct, Taken
  <2>3. CASE of[c] < of[d]
    BY <2>1, <2>3 DEF IInv, Inv, Ascending, Taken
  <2>4. CASE of[d] < of[c]
    BY <2>1, <2>4 DEF IInv, Inv, Ascending, Taken
  <2>5. QED
    BY <2>1, <2>2, <2>3, <2>4
<1>2. QED
  BY Invariance, <1>1, PTL

(* ControlInOrder: the Receiver's monotonicity check never refuses a       *)
(* control frame for the order in which #sendControl put it on the wire.   *)
THEOREM ControlStaysInOrder == Spec => []ControlInOrder
<1>1. IInv => ControlInOrder
  BY DEF IInv
<1>2. QED
  BY Invariance, <1>1, PTL

(* SwapAtBoundary: runExclusive never cuts over while a frame is in flight.*)
THEOREM SwapsAtBoundaries == Spec => SwapAtBoundary
<1>1. [Next]_vars => [live' \notin {None, live} => ~InFlight]_vars
  <2> SUFFICES ASSUME Next, live' \notin {None, live} PROVE ~InFlight
    OBVIOUS
  <2>1. \E a \in Attempts : Open(a) \/ Swap(a)
    BY DEF Next, IssueData, IssueControl, Enter, Send, Discard, PeerLeft, Rekey,
       OwnDrop, OwnReconnect, StartUpgrade, OpenFails, FallBack, gateVars
  <2>2. QED
    BY <2>1 DEF Open, Swap
<1>2. QED
  BY <1>1, PTL DEF Spec, SwapAtBoundary

(* LiveIsCurrent: a cancel fired by a departing peer, and a reconnect that *)
(* replaced the switchable, both win over a swap that is still queued.     *)
LiveInv == live # None => ~cancelled[live] /\ target[live] = sw /\ ~down

LEMMA PerformLive ==
  ASSUME NEW a \in Attempts, Perform(a), LiveInv,
         UNCHANGED <<sw, target, cancelled, down>>
  PROVE  LiveInv'
<1>1. CASE live' = live
  BY <1>1 DEF LiveInv
<1>2. CASE live' = a /\ ~cancelled[a] /\ target[a] = sw /\ ~down
  BY <1>2 DEF LiveInv
<1>3. QED
  BY <1>1, <1>2 DEF Perform

THEOREM LiveStaysCurrent == Spec => []LiveIsCurrent
<1>1. Init => LiveInv
  BY DEF Init, LiveInv
<1>2. LiveInv /\ [Next]_vars => LiveInv'
  <2> SUFFICES ASSUME LiveInv, [Next]_vars PROVE LiveInv'
    OBVIOUS
  <2>1. CASE UNCHANGED <<gateVars, down>>
    BY <2>1 DEF LiveInv, gateVars
  <2>2. ASSUME NEW c \in Calls, NEW g \in Gens,
               \/ IssueData(c, g) \/ IssueControl(c, g)
               \/ Enter(c) \/ Send(c) \/ Discard(c)
        PROVE  UNCHANGED <<gateVars, down>>
    BY <2>2 DEF IssueData, IssueControl, Enter, Send, Discard
  <2>3. CASE Rekey \/ UNCHANGED vars
    BY <2>1, <2>3 DEF Rekey, vars
  <2>4. CASE PeerLeft \/ OwnDrop \/ FallBack
    BY <2>4 DEF PeerLeft, OwnDrop, FallBack, LiveInv
  <2>5. CASE OwnReconnect
    BY <2>5 DEF OwnReconnect, LiveInv
  <2>6. ASSUME NEW a \in Attempts, StartUpgrade(a) PROVE LiveInv'
    BY <2>6 DEF StartUpgrade, LiveInv
  <2>7. ASSUME NEW a \in Attempts, Open(a) PROVE LiveInv'
    BY <2>7, PerformLive DEF Open, LiveInv
  <2>8. ASSUME NEW a \in Attempts, OpenFails(a) PROVE LiveInv'
    BY <2>8 DEF OpenFails, LiveInv
  <2>9. ASSUME NEW a \in Attempts, Swap(a) PROVE LiveInv'
    BY <2>9, PerformLive DEF Swap
  <2>10. QED
    BY <2>1, <2>2, <2>3, <2>4, <2>5, <2>6, <2>7, <2>8, <2>9, GensFact DEF Next
<1>3. LiveInv => LiveIsCurrent
  BY DEF LiveInv, LiveIsCurrent
<1>4. QED
  BY <1>1, <1>2, <1>3, PTL DEF Spec
===============================================================================
