---------------------------- MODULE ChannelProofs -----------------------------
(***************************************************************************)
(* The two ways a frame can go: through the relay, whose rooms introduce   *)
(* the devices (Relay), and past it, when each device has switched to the  *)
(* direct connection (Switch).                                             *)
(***************************************************************************)
EXTENDS Relay, Switch, TLAPS
-----------------------------------------------------------------------------
(***************************************************************************)
(* The relay keeps its two views of a seating, the handler closures and    *)
(* the registry, consistent for any number of connections and codes.       *)
(***************************************************************************)

(* A socket knows a seat exactly when it knows a code; a closed one knows  *)
(* neither, and one in no room has been told of no peer.                   *)
Closures ==
  \A s \in Sockets :
    /\ code[s] = None <=> peerId[s] = None
    /\ conn[s] = "closed" => code[s] = None
    /\ code[s] = None => ~told[s]

IInv ==
  /\ TypeOK /\ Closures
  /\ SeatHeld /\ RoomsOccupied /\ PresenceAccurate

LEMMA Opposites ==
  ASSUME NEW p \in Seats
  PROVE  Opposite(p) \in Seats /\ Opposite(p) # p
                               /\ \A q \in Seats : q = p \/ q = Opposite(p)
BY DEF Seats, Opposite

LEMMA InitTypeOK == Init => TypeOK
BY RelayAssumption DEF Init, TypeOK, NoFrame, Empty, Seats

LEMMA SeatUpdate ==
  ASSUME NEW f \in [Codes -> [Seats -> Sockets \cup {None}]], NEW c \in Codes,
         NEW p, NEW s \in Sockets \cup {None}, NEW g,
         g = [f EXCEPT ![c][p] = s]
  PROVE  g \in [Codes -> [Seats -> Sockets \cup {None}]]
<1>1. [f[c] EXCEPT ![p] = s] \in [Seats -> Sockets \cup {None}]
  OBVIOUS
<1> QED
  BY <1>1

LEMMA NextTypeOK == TypeOK /\ [Next]_vars => TypeOK'
<1> SUFFICES ASSUME TypeOK, [Next]_vars PROVE TypeOK'
  OBVIOUS
<1> USE RelayAssumption
<1>1. ASSUME NEW s \in Sockets, Connect(s) PROVE TypeOK'
  BY <1>1 DEF TypeOK, Connect, NoFrame
<1>2. ASSUME NEW s \in Sockets, NEW c \in Codes, Create(s, c) PROVE TypeOK'
  BY <1>2 DEF TypeOK, Create, NoFrame, Empty, Seats
<1>3. ASSUME NEW s \in Sockets, CreateExhausted(s) PROVE TypeOK'
  BY <1>3 DEF TypeOK, CreateExhausted, NoFrame
<1>4. ASSUME NEW s \in Sockets, NEW c \in Codes, Join(s, c) PROVE TypeOK'
  <2>1. FirstFree(c) \in Seats
    BY DEF FirstFree, Seats
  <2>2. seat' \in [Codes -> [Seats -> Sockets \cup {None}]]
    BY <1>4, <2>1, SeatUpdate DEF TypeOK, Join
  <2>3. told' \in [Sockets -> BOOLEAN]
    <3>1. \A t \in Sockets : told[t] \in BOOLEAN
      BY DEF TypeOK
    <3> QED
      BY <1>4, <3>1, Zenon DEF Join
  <2> QED
    <3>1. /\ age' \in [Codes -> 0..MaxIdle]
          /\ code' \in [Sockets -> Codes \cup {None}]
          /\ peerId' \in [Sockets -> Seats \cup {None}]
      BY <1>4, <2>1 DEF TypeOK, Join
    <3>2. /\ frame' \in (Sockets \cup {None}) \X (Sockets \cup {None})
          /\ UNCHANGED <<rooms, conn, recycled>>
      BY <1>4 DEF Join, NoFrame
    <3> QED
      BY <2>2, <2>3, <3>1, <3>2 DEF TypeOK
<1>5. ASSUME NEW s \in Sockets, Forward(s) PROVE TypeOK'
  <2>1. code[s] \in rooms => Other(code[s], peerId[s]) \in Sockets \cup {None}
    BY <1>5, Opposites DEF TypeOK, Forward, Other, Opposite, Seats
  <2>2. Other(code[s], peerId[s]) \in Sockets \cup {None}
    BY <2>1 DEF Other
  <2>3. frame' \in (Sockets \cup {None}) \X (Sockets \cup {None})
    BY <1>5, <2>2 DEF Forward, NoFrame
  <2>4. age' \in [Codes -> 0..MaxIdle]
    BY <1>5 DEF TypeOK, Forward, Touch
  <2> QED
    BY <1>5, <2>3, <2>4 DEF TypeOK, Forward
<1>6. ASSUME NEW s \in Sockets, ClientCloses(s) PROVE TypeOK'
  BY <1>6 DEF TypeOK, ClientCloses, NoFrame
<1>7. ASSUME NEW s \in Sockets, Closed(s) PROVE TypeOK'
  <2>1. told' \in [Sockets -> BOOLEAN]
    <3>1. \A t \in Sockets : told[t] \in BOOLEAN
      BY DEF TypeOK
    <3> QED
      BY <1>7, <3>1, Zenon DEF Closed
  <2>2. /\ rooms' \subseteq Codes /\ age' \in [Codes -> 0..MaxIdle]
        /\ seat' \in [Codes -> [Seats -> Sockets \cup {None}]]
    <3>1. CASE code[s] = None
      BY <1>7, <3>1 DEF TypeOK, Closed
    <3>2. CASE code[s] # None
      <4>1. code[s] \in rooms =>
              seat' = [seat EXCEPT ![code[s]][peerId[s]] = None]
        BY <1>7, <3>2 DEF Closed, Leave
      <4>2. seat' \in [Codes -> [Seats -> Sockets \cup {None}]]
        <5>1. CASE code[s] \in rooms
          <6>1. code[s] \in Codes /\ seat \in [Codes -> [Seats -> Sockets \cup {None}]]
            BY <5>1 DEF TypeOK
          <6> QED
            BY <4>1, <5>1, <6>1, SeatUpdate
        <5>2. CASE code[s] \notin rooms
          BY <1>7, <3>2, <5>2 DEF TypeOK, Closed, Leave
        <5> QED
          BY <5>1, <5>2
      <4> QED
        BY <1>7, <3>2, <4>2 DEF TypeOK, Closed, Leave
    <3> QED
      BY <3>1, <3>2
  <2> QED
    BY <1>7, <2>1, <2>2 DEF TypeOK, Closed, NoFrame
<1>8. CASE Tick
  BY <1>8 DEF TypeOK, Tick, NoFrame
<1>9. CASE Sweep
  BY <1>9 DEF TypeOK, Sweep, NoFrame, Empty, Seats
<1>10. CASE UNCHANGED vars
  BY <1>10 DEF TypeOK, vars
<1> QED
  BY <1>1, <1>2, <1>3, <1>4, <1>5, <1>6, <1>7, <1>8, <1>9, <1>10 DEF Next

(* Every variable keeps its type, for any sockets, codes and idle limit.   *)
THEOREM TypeCorrect == Spec => []TypeOK
BY InitTypeOK, NextTypeOK, PTL DEF Spec

-----------------------------------------------------------------------------
LEMMA InitIInv == Init => IInv
<1> SUFFICES ASSUME Init PROVE IInv
  OBVIOUS
<1> QED
  BY RelayAssumption, InitTypeOK
  DEF IInv, Closures, SeatHeld, RoomsOccupied, PresenceAccurate, Init, Empty, Seats

(* Steps that leave the registry and the closures alone.                   *)
LEMMA QuietStep ==
  ASSUME IInv, TypeOK', UNCHANGED <<rooms, seat, code, peerId, told, recycled>>,
         \A s \in Sockets : conn'[s] = conn[s] \/ conn'[s] = "closing"
                            \/ (conn[s] = "closed" /\ conn'[s] = "open"),
         \A s \in Sockets : conn'[s] = "closed" => conn[s] = "closed"
  PROVE  IInv'
<1>1. Closures'
  BY DEF IInv, Closures
<1>2. SeatHeld'
  BY DEF IInv, SeatHeld, Closures
<1>3. RoomsOccupied'
  BY DEF IInv, RoomsOccupied, TypeOK, Seats
<1>4. PresenceAccurate'
  BY DEF IInv, PresenceAccurate, Closures
<1> QED
  BY <1>1, <1>2, <1>3, <1>4 DEF IInv

LEMMA CreateIInv ==
  ASSUME IInv, TypeOK', NEW s \in Sockets, NEW c \in Codes, Create(s, c)
  PROVE  IInv'
<1> USE RelayAssumption
<1>0. c \notin rooms /\ code[s] = None
  BY DEF Create
<1>1. Closures'
  BY DEF IInv, Closures, TypeOK, Create, Seats
<1>2. SeatHeld'
  BY <1>0 DEF IInv, SeatHeld, TypeOK, Create, Seats, Empty
<1>3. RoomsOccupied'
  <2> SUFFICES ASSUME NEW d \in Codes PROVE
        /\ (d \in rooms)' <=> \E p \in Seats : seat'[d][p] # None
        /\ \A p \in Seats : seat'[d][p] # None =>
             code'[seat'[d][p]] = d /\ peerId'[seat'[d][p]] = p
                                    /\ conn'[seat'[d][p]] # "closed"
    BY DEF RoomsOccupied
  <2>1. CASE d = c
    BY <2>1 DEF IInv, TypeOK, Create, Seats, Empty
  <2>2. CASE d # c
    BY <2>2, <1>0 DEF IInv, RoomsOccupied, TypeOK, Create, Seats
  <2> QED
    BY <2>1, <2>2
<1>4. PresenceAccurate'
  <2> SUFFICES ASSUME NEW t \in Sockets, (conn[t] = "open")', code'[t] # None,
                      code'[t] \notin recycled'
               PROVE  told'[t] = (seat'[code'[t]][Opposite(peerId'[t])] # None)
    BY DEF PresenceAccurate
  <2>1. CASE t = s
    BY <2>1 DEF IInv, Closures, TypeOK, Create, Seats, Empty, Opposite
  <2>2. CASE t # s
    <3>1. code'[t] = code[t] /\ peerId'[t] = peerId[t] /\ code[t] # c
      BY <2>2 DEF IInv, TypeOK, Create
    <3> QED
      BY <2>2, <3>1 DEF IInv, PresenceAccurate, TypeOK, Create
  <2> QED
    BY <2>1, <2>2
<1> QED
  BY <1>1, <1>2, <1>3, <1>4 DEF IInv

LEMMA JoinIInv ==
  ASSUME IInv, TypeOK', NEW s \in Sockets, NEW c \in Codes, Join(s, c)
  PROVE  IInv'
<1> USE RelayAssumption
<1> DEFINE f == FirstFree(c)
           m == seat[c][Opposite(f)]
<1>0. /\ f \in Seats /\ Opposite(f) \in Seats /\ f # Opposite(f)
      /\ \A q \in Seats : q = f \/ q = Opposite(f)
  BY Opposites DEF FirstFree, Seats
<1>1. c \in rooms /\ code[s] = None /\ conn[s] # "closed" /\ seat[c][f] = None
  BY DEF Join
<1>2. m \in Sockets /\ m # None /\ code[m] = c /\ peerId[m] = Opposite(f) /\ m # s
  <2>1. PICK q \in Seats : seat[c][q] # None
    BY <1>1 DEF IInv, RoomsOccupied
  <2>2. q = Opposite(f)
    BY <2>1, <1>0, <1>1
  <2>3. m \in Sockets /\ m # None
    BY <2>1, <2>2 DEF IInv, TypeOK
  <2>4. code[m] = c /\ peerId[m] = Opposite(f)
    BY <2>1, <2>2 DEF IInv, RoomsOccupied
  <2> QED
    BY <2>3, <2>4, <1>1
<1>3. /\ seat' = [seat EXCEPT ![c][f] = s]
      /\ code' = [code EXCEPT ![s] = c]
      /\ peerId' = [peerId EXCEPT ![s] = f]
      /\ told' = [t \in Sockets |->
                    IF t \in {s, m} /\ conn[t] = "open" THEN TRUE ELSE told[t]]
      /\ UNCHANGED <<rooms, conn, recycled>>
  BY DEF Join
<1> HIDE DEF f, m
<1>4. Closures'
  BY <1>0, <1>1, <1>2, <1>3 DEF IInv, Closures, TypeOK, Seats
<1>5. SeatHeld'
  BY <1>0, <1>1, <1>3 DEF IInv, SeatHeld, Closures, TypeOK
<1>6. RoomsOccupied'
  BY <1>0, <1>1, <1>2, <1>3 DEF IInv, RoomsOccupied, TypeOK
<1>7. PresenceAccurate'
  <2> SUFFICES ASSUME NEW t \in Sockets, conn'[t] = "open", code'[t] # None,
                      code'[t] \notin recycled'
               PROVE  told'[t] = (seat'[code'[t]][Opposite(peerId'[t])] # None)
    BY DEF PresenceAccurate
  <2>1. CASE t = s
    BY <2>1, <1>0, <1>1, <1>2, <1>3 DEF IInv, TypeOK, m
  <2>2. CASE t = m
    <3>1. Opposite(peerId'[t]) = f
      BY <2>2, <1>0, <1>2, <1>3, Opposites DEF IInv, TypeOK, Seats, Opposite
    <3>2. told'[t] = TRUE
      BY <2>2, <1>2, <1>3
    <3>3. code'[t] = c /\ seat'[c][f] = s /\ s # None
      BY <2>2, <1>0, <1>2, <1>3 DEF IInv, TypeOK
    <3> QED
      BY <3>1, <3>2, <3>3
  <2>3. CASE t # s /\ t # m /\ code[t] # c
    BY <2>3, <1>0, <1>3 DEF IInv, PresenceAccurate, TypeOK
  <2>4. CASE t # s /\ t # m /\ code[t] = c
    <3>1. seat[c][peerId[t]] = t /\ peerId[t] \in Seats
      BY <2>4, <1>1, <1>3 DEF IInv, SeatHeld, Closures, TypeOK
    <3> QED
      BY <2>4, <3>1, <1>0, <1>1 DEF m
  <2> QED
    BY <2>1, <2>2, <2>3, <2>4
<1> QED
  BY <1>4, <1>5, <1>6, <1>7 DEF IInv

LEMMA ClosedIInv ==
  ASSUME IInv, TypeOK', NEW s \in Sockets, Closed(s)
  PROVE  IInv'
<1> USE RelayAssumption
<1> DEFINE c == code[s]
           p == peerId[s]
           mate == IF c = None THEN None ELSE Other(c, p)
<1>1. /\ conn' = [conn EXCEPT ![s] = "closed"]
      /\ code' = [code EXCEPT ![s] = None]
      /\ peerId' = [peerId EXCEPT ![s] = None]
      /\ told' = [t \in Sockets |->
                    IF t = s \/ (t = mate /\ conn[t] = "open")
                      THEN FALSE ELSE told[t]]
      /\ recycled' = recycled
      /\ conn[s] = "closing"
  BY DEF Closed
<1>2. CASE c = None \/ c \notin rooms
  <2>1. UNCHANGED <<rooms, seat>> /\ mate = None
    BY <1>2 DEF Closed, Leave, Other
  <2>2. Closures'
    BY <1>1, <2>1 DEF IInv, Closures, TypeOK
  <2>3. SeatHeld'
    BY <1>1, <2>1 DEF IInv, SeatHeld, TypeOK
  <2>4. RoomsOccupied'
    BY <1>1, <1>2, <2>1 DEF IInv, RoomsOccupied, TypeOK
  <2>5. PresenceAccurate'
    <3> SUFFICES ASSUME NEW t \in Sockets, conn'[t] = "open", code'[t] # None,
                        code'[t] \notin recycled
                 PROVE  told'[t] = (seat[code'[t]][Opposite(peerId'[t])] # None)
      BY <1>1, <2>1 DEF PresenceAccurate
    <3>1. /\ t # s /\ code'[t] = code[t] /\ peerId'[t] = peerId[t] /\ conn[t] = "open"
      BY <1>1 DEF IInv, TypeOK
    <3>2. told'[t] = told[t]
      BY <3>1, <1>1, <2>1
    <3> QED
      BY <3>1, <3>2 DEF IInv, PresenceAccurate
  <2> QED
    BY <2>2, <2>3, <2>4, <2>5 DEF IInv
<1>3. CASE c # None /\ c \in rooms
  <2>1. c \in Codes /\ p \in Seats
    BY <1>3 DEF IInv, Closures, TypeOK
  <2>2. /\ Opposite(p) \in Seats /\ Opposite(p) # p
        /\ \A q \in Seats : q = p \/ q = Opposite(p)
    BY <2>1, Opposites
  <2>3. /\ seat' = [seat EXCEPT ![c][p] = None]
        /\ rooms' = IF seat[c][Opposite(p)] = None THEN rooms \ {c} ELSE rooms
        /\ mate = seat[c][Opposite(p)]
    BY <1>3 DEF Closed, Leave, Other
  <2>4. \/ c \in recycled
        \/ seat[c][p] = s
    BY <1>3, <1>1 DEF IInv, SeatHeld
  <2> HIDE DEF c, p, mate
  <2>5. s \in Sockets /\ c = code[s] /\ p = peerId[s]
    BY DEF c, p
  <2>6. Closures'
    BY <1>1 DEF IInv, Closures, TypeOK
  <2>7. SeatHeld'
    <3> SUFFICES ASSUME NEW t \in Sockets, code'[t] # None, code'[t] \notin recycled
                 PROVE  \/ code'[t] \in rooms' /\ seat'[code'[t]][peerId'[t]] = t
                        \/ code'[t] \notin rooms' /\ conn'[t] = "closing"
      BY <1>1 DEF SeatHeld
    <3>1. t # s /\ code'[t] = code[t] /\ peerId'[t] = peerId[t] /\ conn'[t] = conn[t]
      BY <1>1 DEF IInv, TypeOK
    <3>2. \/ code[t] \in rooms /\ seat[code[t]][peerId[t]] = t
          \/ code[t] \notin rooms /\ conn[t] = "closing"
      BY <1>1, <3>1 DEF IInv, SeatHeld
    <3>3. code[t] \in Codes /\ peerId[t] \in Seats
      BY <3>1 DEF IInv, Closures, TypeOK
    <3>4. CASE code[t] = c
      BY <3>1, <3>2, <3>3, <3>4, <1>3, <1>1, <2>1, <2>2, <2>3, <2>4 DEF IInv, TypeOK
    <3>5. CASE code[t] # c
      BY <3>1, <3>2, <3>3, <3>5, <2>1, <2>3 DEF IInv, TypeOK
    <3> QED
      BY <3>4, <3>5
  <2>8. RoomsOccupied'
    <3> SUFFICES ASSUME NEW d \in Codes PROVE
          /\ (d \in rooms)' <=> \E q \in Seats : seat'[d][q] # None
          /\ \A q \in Seats : seat'[d][q] # None =>
               code'[seat'[d][q]] = d /\ peerId'[seat'[d][q]] = q
                                      /\ conn'[seat'[d][q]] # "closed"
      BY DEF RoomsOccupied
    <3>0. /\ d \in rooms <=> \E q \in Seats : seat[d][q] # None
          /\ \A q \in Seats : seat[d][q] # None =>
               code[seat[d][q]] = d /\ peerId[seat[d][q]] = q
                                    /\ conn[seat[d][q]] # "closed"
      BY DEF IInv, RoomsOccupied
    <3>1. \A q \in Seats : seat'[d][q] # None =>
             seat'[d][q] = seat[d][q] /\ seat'[d][q] # s /\ seat'[d][q] \in Sockets
      BY <3>0, <2>1, <2>2, <2>3, <2>5 DEF IInv, TypeOK
    <3>2. \A q \in Seats : seat'[d][q] # None =>
               code'[seat'[d][q]] = d /\ peerId'[seat'[d][q]] = q
                                      /\ conn'[seat'[d][q]] # "closed"
      BY <3>0, <3>1, <1>1 DEF IInv, TypeOK
    <3>3. (d \in rooms)' <=> \E q \in Seats : seat'[d][q] # None
      BY <3>0, <1>3, <2>1, <2>2, <2>3 DEF IInv, TypeOK
    <3> QED
      BY <3>2, <3>3
  <2>9. PresenceAccurate'
    <3> SUFFICES ASSUME NEW t \in Sockets, conn'[t] = "open", code'[t] # None,
                        code'[t] \notin recycled
                 PROVE  told'[t] = (seat'[code'[t]][Opposite(peerId'[t])] # None)
      BY <1>1 DEF PresenceAccurate
    <3>1. /\ t # s /\ code'[t] = code[t] /\ peerId'[t] = peerId[t] /\ conn[t] = "open"
          /\ code[t] \in Codes /\ peerId[t] \in Seats
      BY <1>1 DEF IInv, TypeOK, Closures
    <3>2. code[t] \in rooms /\ seat[code[t]][peerId[t]] = t
      BY <3>1, <1>1 DEF IInv, SeatHeld
    <3>3. told[t] = (seat[code[t]][Opposite(peerId[t])] # None)
      BY <3>1, <1>1 DEF IInv, PresenceAccurate
    <3>4. CASE code[t] = c
      <4>1. seat[c][p] = s /\ peerId[t] = Opposite(p) /\ Opposite(peerId[t]) = p
        BY <3>4, <3>1, <3>2, <1>1, <2>1, <2>2, <2>4 DEF Opposite, Seats
      <4>2. mate = t
        BY <4>1, <3>2, <3>4, <2>3
      <4>3. told'[t] = FALSE
        BY <4>2, <3>1, <1>1
      <4>4. seat'[c][p] = None
        BY <2>1, <2>3 DEF IInv, TypeOK
      <4> QED
        BY <4>1, <4>3, <4>4, <3>1, <3>4
    <3>5. CASE code[t] # c
      <4>1. t # mate
        BY <3>5, <3>1, <2>1, <2>2, <2>3 DEF IInv, RoomsOccupied, TypeOK
      <4> QED
        BY <4>1, <3>1, <3>3, <3>5, <1>1, <2>1, <2>3 DEF IInv, TypeOK
    <3> QED
      BY <3>4, <3>5
  <2> QED
    BY <2>6, <2>7, <2>8, <2>9 DEF IInv
<1> QED
  BY <1>2, <1>3

LEMMA SweepIInv ==
  ASSUME IInv, TypeOK', Sweep
  PROVE  IInv'
<1> USE RelayAssumption
<1> DEFINE swept == {c \in rooms : Idle(c)}
           seated == {s \in Sockets : \E c \in swept, p \in Seats : seat[c][p] = s}
<1>1. /\ rooms' = rooms \ swept
      /\ seat' = [c \in Codes |-> IF c \in swept THEN Empty ELSE seat[c]]
      /\ conn' = [s \in Sockets |->
                    IF s \in seated /\ conn[s] = "open" THEN "closing" ELSE conn[s]]
      /\ UNCHANGED <<code, peerId, told, recycled>>
  BY DEF Sweep
<1>2. \A s \in Sockets : (\E c \in swept, p \in Seats : seat[c][p] = s) => s \in seated
  OBVIOUS
<1>3. swept \subseteq rooms
  OBVIOUS
<1> HIDE DEF swept, seated
<1>4. Closures'
  BY <1>1 DEF IInv, Closures, TypeOK
<1>5. SeatHeld'
  <2> SUFFICES ASSUME NEW s \in Sockets, code[s] # None, code[s] \notin recycled
               PROVE  \/ code[s] \in rooms' /\ seat'[code[s]][peerId[s]] = s
                      \/ code[s] \notin rooms' /\ conn'[s] = "closing"
    BY <1>1 DEF SeatHeld
  <2>1. code[s] \in Codes /\ peerId[s] \in Seats /\ conn[s] \in {"open", "closing"}
    BY DEF IInv, Closures, TypeOK
  <2>2. \/ code[s] \in rooms /\ seat[code[s]][peerId[s]] = s
        \/ code[s] \notin rooms /\ conn[s] = "closing"
    BY DEF IInv, SeatHeld
  <2> QED
    BY <2>1, <2>2, <1>1, <1>2
<1>6. RoomsOccupied'
  BY <1>1, <1>3 DEF IInv, RoomsOccupied, TypeOK, Empty
<1>7. PresenceAccurate'
  <2> SUFFICES ASSUME NEW s \in Sockets, conn'[s] = "open", code[s] # None,
                      code[s] \notin recycled
               PROVE  told[s] = (seat'[code[s]][Opposite(peerId[s])] # None)
    BY <1>1 DEF PresenceAccurate
  <2>1. code[s] \in Codes /\ peerId[s] \in Seats /\ conn[s] = "open"
    BY <1>1 DEF IInv, Closures, TypeOK
  <2>2. code[s] \in rooms /\ seat[code[s]][peerId[s]] = s
    BY <2>1 DEF IInv, SeatHeld
  <2>3. code[s] \notin swept
    BY <2>1, <2>2, <1>1, <1>2
  <2> QED
    BY <2>1, <2>3, <1>1 DEF IInv, PresenceAccurate
<1> QED
  BY <1>4, <1>5, <1>6, <1>7 DEF IInv

LEMMA NextIInv == IInv /\ [Next]_vars => IInv'
<1> SUFFICES ASSUME IInv, [Next]_vars PROVE IInv'
  OBVIOUS
<1>0. TypeOK'
  BY NextTypeOK DEF IInv
<1>1. ASSUME NEW s \in Sockets, Connect(s) PROVE IInv'
  BY <1>0, <1>1, QuietStep DEF IInv, TypeOK, Connect
<1>2. ASSUME NEW s \in Sockets, CreateExhausted(s) PROVE IInv'
  BY <1>0, <1>2, QuietStep DEF IInv, TypeOK, CreateExhausted
<1>3. ASSUME NEW s \in Sockets, Forward(s) PROVE IInv'
  BY <1>0, <1>3, QuietStep DEF Forward
<1>4. ASSUME NEW s \in Sockets, ClientCloses(s) PROVE IInv'
  BY <1>0, <1>4, QuietStep DEF IInv, TypeOK, ClientCloses
<1>5. CASE Tick
  BY <1>0, <1>5, QuietStep DEF Tick
<1>6. CASE UNCHANGED vars
  BY <1>0, <1>6, QuietStep DEF vars
<1> QED
  BY <1>0, <1>1, <1>2, <1>3, <1>4, <1>5, <1>6,
     CreateIInv, JoinIInv, ClosedIInv, SweepIInv DEF Next

LEMMA SpecIInv == Spec => []IInv
BY InitIInv, NextIInv, PTL DEF Spec

(* The registry and the handler closures never disagree about who sits     *)
(* where.                                                                  *)
THEOREM SeatsAreHeld == Spec => []SeatHeld
BY SpecIInv, PTL DEF IInv

(* Rooms exist exactly while they are occupied, by sockets that know it.   *)
THEOREM NoRoomLeaks == Spec => []RoomsOccupied
BY SpecIInv, PTL DEF IInv

(* What the relay told each device about its peer is what is so.           *)
THEOREM PresenceIsAccurate == Spec => []PresenceAccurate
BY SpecIInv, PTL DEF IInv

(* Every frame goes from one occupant of a room to the other.              *)
THEOREM FramesAreConfined == Spec => []FramesStayInRoom
<1>1. Init => FramesStayInRoom
  BY DEF Init, FramesStayInRoom
<1>2. IInv /\ FramesStayInRoom /\ [Next]_vars => FramesStayInRoom'
  <2> SUFFICES ASSUME IInv, FramesStayInRoom, [Next]_vars PROVE FramesStayInRoom'
    OBVIOUS
  <2>1. ASSUME NEW s \in Sockets, Forward(s) PROVE FramesStayInRoom'
    <3> DEFINE mate == Other(code[s], peerId[s])
    <3> SUFFICES ASSUME frame' # NoFrame, code[s] \notin recycled
                 PROVE  frame'[1] = s /\ Mates(s, frame'[2])
      BY <2>1 DEF FramesStayInRoom, Forward, Mates
    <3>1. frame' = <<s, mate>> /\ mate # None
      BY <2>1 DEF Forward
    <3>2. code[s] \in rooms /\ mate = seat[code[s]][Opposite(peerId[s])]
      BY <3>1 DEF Other
    <3>3. code[s] # None /\ seat[code[s]][peerId[s]] = s /\ peerId[s] \in Seats
      BY <2>1, <3>2 DEF Forward, IInv, SeatHeld, Closures, TypeOK
    <3> QED
      BY <3>1, <3>2, <3>3 DEF Mates
  <2>2. CASE UNCHANGED vars
    BY <2>2 DEF vars, FramesStayInRoom, Mates
  <2>3. CASE frame' = NoFrame
    BY <2>3 DEF FramesStayInRoom
  <2> QED
    BY <2>1, <2>2, <2>3
    DEF Next, Connect, Create, CreateExhausted, Join, ClientCloses, Closed, Tick, Sweep
<1> QED
  BY <1>1, <1>2, SpecIInv, PTL DEF Spec
-----------------------------------------------------------------------------
(***************************************************************************)
(* Types, and that a device which heard its relay socket die is not left   *)
(* sending on it, for any high water mark and any cap on the buffers.      *)
(***************************************************************************)

(* A frame is sealed only where both buffers have room for it, and nothing *)
(* is handed over meanwhile.                                               *)
RoomWhenSealed ==
  \A e \in Ends : sealing[e] => \A w \in Ways : buffer[e][w] < Cap

SwitchInv == SwitchTypeOK /\ RoomWhenSealed /\ NotOnDeadRelay
-----------------------------------------------------------------------------
LEMMA AcrossFact == \A e \in Ends : Across(e) \in Ends /\ Across(e) # e
BY DEF Ends, Across

LEMMA InitSwitchInv == SwitchInit => SwitchInv
<1> SUFFICES ASSUME SwitchInit PROVE SwitchInv
  OBVIOUS
<1>1. /\ session \in [Ends -> {"paired", "lost", "alone"}] /\ live \in [Ends -> Ways]
      /\ attempt \in [Ends -> {"opening", "queued", "swapped", "failed"}]
      /\ buffer \in [Ends -> [Ways -> 0..Cap]]
  BY SwitchAssumption DEF SwitchInit, Ways
<1>2. \A f \in {died, fresh, closed, sealing, parked, polling, report, socket, left} :
        f \in [Ends -> BOOLEAN]
  BY DEF SwitchInit
<1>3. RoomWhenSealed /\ NotOnDeadRelay /\ cut \in BOOLEAN
  BY DEF SwitchInit, RoomWhenSealed, NotOnDeadRelay
<1> QED
  BY <1>1, <1>2, <1>3 DEF SwitchInv, SwitchTypeOK

LEMMA BufferFact ==
  ASSUME NEW B \in [Ends -> [Ways -> 0..Cap]], NEW e \in Ends, NEW w \in Ways, NEW v \in 0..Cap
  PROVE  /\ [B EXCEPT ![e][w] = v] \in [Ends -> [Ways -> 0..Cap]]
         /\ \A f \in Ends : \A x \in Ways :
              [B EXCEPT ![e][w] = v][f][x] = IF f = e /\ x = w THEN v ELSE B[f][x]
<1>1. [B[e] EXCEPT ![w] = v] \in [Ways -> 0..Cap]
  OBVIOUS
<1>2. [B EXCEPT ![e][w] = v] = [B EXCEPT ![e] = [B[e] EXCEPT ![w] = v]]
  OBVIOUS
<1> QED
  BY <1>1, <1>2

(* What arrives, or is dropped, makes a buffer no larger.                  *)
LEMMA LessFact ==
  ASSUME SwitchInv, NEW e \in Ends, NEW w \in Ways, NEW v \in 0..Cap, v <= buffer[e][w],
         buffer' = [buffer EXCEPT ![e][w] = v]
  PROVE  /\ buffer' \in [Ends -> [Ways -> 0..Cap]]
         /\ \A f \in Ends : \A x \in Ways : buffer'[f][x] <= buffer[f][x]
<1>1. buffer \in [Ends -> [Ways -> 0..Cap]]
  BY DEF SwitchInv, SwitchTypeOK
<1> QED
  BY <1>1, BufferFact, SwitchAssumption

LEMMA HandFact ==
  ASSUME SwitchInv, NEW e \in Ends, sealing[e], Hand(e),
         sealing' = [sealing EXCEPT ![e] = FALSE]
  PROVE  /\ buffer' \in [Ends -> [Ways -> 0..Cap]] /\ RoomWhenSealed'
         /\ polling' \in [Ends -> BOOLEAN] /\ report' \in [Ends -> BOOLEAN]
         /\ sealing' \in [Ends -> BOOLEAN]
<1>1. live[e] \in Ways /\ buffer[e][live[e]] \in 0..Cap /\ buffer[e][live[e]] < Cap
  BY DEF SwitchInv, SwitchTypeOK, RoomWhenSealed
<1>2. buffer[e][live[e]] + 1 \in 0..Cap
  BY <1>1, SwitchAssumption
<1>3. buffer' \in [Ends -> [Ways -> 0..Cap]]
      /\ \A f \in Ends \ {e} : \A w \in Ways : buffer'[f][w] = buffer[f][w]
  <2>1. buffer \in [Ends -> [Ways -> 0..Cap]]
    BY DEF SwitchInv, SwitchTypeOK
  <2>2. CASE buffer' = buffer
    BY <2>1, <2>2
  <2>3. CASE buffer' = [buffer EXCEPT ![e][live[e]] = buffer[e][live[e]] + 1]
    BY <1>1, <1>2, <2>1, <2>3, BufferFact
  <2> QED
    BY <2>2, <2>3 DEF Hand
<1>4. RoomWhenSealed'
  BY <1>3 DEF SwitchInv, SwitchTypeOK, RoomWhenSealed
<1>5. polling' \in [Ends -> BOOLEAN] /\ report' \in [Ends -> BOOLEAN]
  BY DEF SwitchInv, SwitchTypeOK, Hand
<1> QED
  BY <1>3, <1>4, <1>5 DEF SwitchInv, SwitchTypeOK

(* Moving to the direct connection, and back from it.                      *)
LEMMA SwapToFact ==
  ASSUME SwitchInv, NEW e \in Ends, SwapTo(e)
  PROVE  /\ live' \in [Ends -> Ways] /\ fresh' \in [Ends -> BOOLEAN]
         /\ attempt' \in [Ends -> {"opening", "queued", "swapped", "failed"}]
         /\ parked' \in [Ends -> BOOLEAN] /\ UNCHANGED <<session, died, closed>>
         /\ NotOnDeadRelay'
BY DEF SwitchInv, SwitchTypeOK, SwapTo, Release, NotOnDeadRelay, Paired, Ways

LEMMA FallBackFact ==
  ASSUME SwitchInv, NEW e \in Ends, FallBack(e)
  PROVE  /\ live' \in [Ends -> Ways] /\ session' \in [Ends -> {"paired", "lost", "alone"}]
         /\ \A f \in {fresh', closed', report', sealing', parked'} : f \in [Ends -> BOOLEAN]
         /\ \A f \in Ends : sealing'[f] => sealing[f]
         /\ UNCHANGED <<died, attempt>> /\ NotOnDeadRelay'
<1>1. /\ live' \in [Ends -> Ways] /\ session' \in [Ends -> {"paired", "lost", "alone"}]
      /\ \A f \in Ends : sealing'[f] => sealing[f]
      /\ UNCHANGED <<died, attempt>>
  BY DEF SwitchInv, SwitchTypeOK, FallBack, Ways
<1>2. /\ fresh' \in [Ends -> BOOLEAN] /\ closed' \in [Ends -> BOOLEAN]
      /\ report' \in [Ends -> BOOLEAN] /\ sealing' \in [Ends -> BOOLEAN]
      /\ parked' \in [Ends -> BOOLEAN]
  BY DEF SwitchInv, SwitchTypeOK, FallBack, Close, Release
<1>3. NotOnDeadRelay'
  BY DEF SwitchInv, SwitchTypeOK, FallBack, NothingLeft, NotOnDeadRelay, Paired
<1> QED
  BY <1>1, <1>2, <1>3

LEMMA ZeroFact ==
  /\ 0 \in 0..Cap /\ "relay" \in Ways /\ "direct" \in Ways
  /\ \A n \in 0..Cap : 0 <= n /\ n <= n /\ (n > 0 => n - 1 \in 0..Cap /\ n - 1 <= n)
  /\ SwitchInv => \A e \in Ends : \A w \in Ways : buffer[e][w] \in 0..Cap
BY SwitchAssumption DEF Ways, SwitchInv, SwitchTypeOK

LEMMA SendInv ==
  ASSUME SwitchInv, NEW e \in Ends,
         \/ Seal(e) \/ SendThenSwap(e) \/ Poll(e) \/ Report(e)
         \/ \E data \in BOOLEAN : Send(e, data)
  PROVE  SwitchInv'
<1>1. ASSUME Seal(e) PROVE SwitchInv'
  <2>1. sealing' \in [Ends -> BOOLEAN] /\ RoomWhenSealed'
    BY <1>1 DEF Seal, SwitchInv, SwitchTypeOK, RoomWhenSealed
  <2> QED
    BY <1>1, <2>1 DEF Seal, SwitchInv, SwitchTypeOK, NotOnDeadRelay, Paired, switchVars, netVars
<1>2. ASSUME SendThenSwap(e) PROVE SwitchInv'
  <2>1. /\ buffer' \in [Ends -> [Ways -> 0..Cap]] /\ RoomWhenSealed'
        /\ polling' \in [Ends -> BOOLEAN] /\ report' \in [Ends -> BOOLEAN]
        /\ sealing' \in [Ends -> BOOLEAN]
    BY <1>2, HandFact DEF SendThenSwap
  <2>2. /\ live' \in [Ends -> Ways] /\ fresh' \in [Ends -> BOOLEAN]
        /\ attempt' \in [Ends -> {"opening", "queued", "swapped", "failed"}]
        /\ parked' \in [Ends -> BOOLEAN] /\ UNCHANGED <<session, died, closed>>
        /\ NotOnDeadRelay'
    BY <1>2, SwapToFact DEF SendThenSwap
  <2> QED
    BY <1>2, <2>1, <2>2 DEF SendThenSwap, SwitchInv, SwitchTypeOK, netVars
<1>3. ASSUME Poll(e) PROVE SwitchInv'
  <2>1. polling' \in [Ends -> BOOLEAN] /\ parked' \in [Ends -> BOOLEAN]
    BY <1>3 DEF Poll, SwitchInv, SwitchTypeOK
  <2> QED
    BY <1>3, <2>1
    DEF Poll, SwitchInv, SwitchTypeOK, RoomWhenSealed, NotOnDeadRelay, Paired, switchVars, netVars
<1>4. ASSUME Report(e) PROVE SwitchInv'
  <2>1. report' \in [Ends -> BOOLEAN] /\ parked' \in [Ends -> BOOLEAN]
    BY <1>4 DEF Report, SwitchInv, SwitchTypeOK
  <2> QED
    BY <1>4, <2>1
    DEF Report, SwitchInv, SwitchTypeOK, RoomWhenSealed, NotOnDeadRelay, Paired, switchVars, netVars
<1>5. ASSUME NEW data \in BOOLEAN, Send(e, data) PROVE SwitchInv'
  <2>1. parked' \in [Ends -> BOOLEAN]
    BY <1>5 DEF Send, SwitchInv, SwitchTypeOK
  <2>2. NotOnDeadRelay'
    BY <1>5 DEF Send, SwitchInv, NotOnDeadRelay, Paired, switchVars
  <2>3. /\ buffer' \in [Ends -> [Ways -> 0..Cap]] /\ RoomWhenSealed'
        /\ polling' \in [Ends -> BOOLEAN] /\ report' \in [Ends -> BOOLEAN]
        /\ sealing' \in [Ends -> BOOLEAN]
    BY <1>5, HandFact DEF Send
  <2> QED
    BY <1>5, <2>1, <2>2, <2>3 DEF Send, SwitchInv, SwitchTypeOK, switchVars, netVars
<1> QED
  BY <1>1, <1>2, <1>3, <1>4, <1>5

LEMMA AttemptInv ==
  ASSUME SwitchInv, NEW e \in Ends, Opens(e) \/ TimesOut(e) \/ HearClosed(e) \/ WindowPasses(e)
  PROVE  SwitchInv'
<1>1. ASSUME Opens(e) PROVE SwitchInv'
  <2>1. CASE SwapTo(e)
    BY <1>1, <2>1, SwapToFact DEF Opens, SwitchInv, SwitchTypeOK, RoomWhenSealed, netVars
  <2>2. CASE UNCHANGED <<session, live, died, fresh, closed, parked>>
    BY <1>1, <2>2
    DEF Opens, SwapTo, SwitchInv, SwitchTypeOK, RoomWhenSealed, NotOnDeadRelay, Paired, netVars
  <2> QED
    BY <1>1, <2>1, <2>2 DEF Opens
<1>2. ASSUME TimesOut(e) PROVE SwitchInv'
  BY <1>2 DEF TimesOut, Close, SwitchInv, SwitchTypeOK, RoomWhenSealed, NotOnDeadRelay, Paired, netVars
<1>3. ASSUME HearClosed(e) PROVE SwitchInv'
  <2>1. buffer' \in [Ends -> [Ways -> 0..Cap]]
        /\ \A f \in Ends : \A w \in Ways : buffer'[f][w] <= buffer[f][w]
    BY <1>3, LessFact, ZeroFact DEF HearClosed
  <2>2. CASE FallBack(e)
    BY <1>3, <2>1, <2>2, FallBackFact, SwitchAssumption
    DEF HearClosed, SwitchInv, SwitchTypeOK, RoomWhenSealed, netVars
  <2>3. CASE UNCHANGED <<session, live, died, fresh, sealing, parked>> /\ Close(e)
             /\ attempt' = [attempt EXCEPT ![e] = IF @ = "opening" THEN "failed" ELSE @]
    BY <1>3, <2>1, <2>3, SwitchAssumption
    DEF HearClosed, Close, SwitchInv, SwitchTypeOK, RoomWhenSealed, NotOnDeadRelay, Paired, netVars
  <2> QED
    BY <1>3, <2>2, <2>3 DEF HearClosed
<1>4. ASSUME WindowPasses(e) PROVE SwitchInv'
  BY <1>4
  DEF WindowPasses, SwitchInv, SwitchTypeOK, RoomWhenSealed, NotOnDeadRelay, Paired, sendVars, netVars
<1> QED
  BY <1>1, <1>2, <1>3, <1>4

LEMMA ArriveInv ==
  ASSUME SwitchInv, NEW e \in Ends, ArriveByRelay(e) \/ ArriveDirect(e)
  PROVE  SwitchInv'
<1>1. ASSUME ArriveByRelay(e) PROVE SwitchInv'
  <2>1. Across(e) \in Ends
    BY AcrossFact
  <2>2. buffer' \in [Ends -> [Ways -> 0..Cap]]
        /\ \A f \in Ends : \A w \in Ways : buffer'[f][w] <= buffer[f][w]
    <3> DEFINE B == [buffer EXCEPT ![e]["relay"] = @ - 1]
    <3>1. buffer[e]["relay"] - 1 \in 0..Cap /\ buffer \in [Ends -> [Ways -> 0..Cap]]
      BY <1>1, ZeroFact DEF ArriveByRelay, SwitchInv, SwitchTypeOK
    <3>2. /\ B \in [Ends -> [Ways -> 0..Cap]]
          /\ \A f \in Ends : \A w \in Ways : B[f][w] <= buffer[f][w]
      BY <3>1, BufferFact, ZeroFact
    <3>3. CASE buffer' = B
      BY <3>2, <3>3
    <3>4. CASE buffer' = [B EXCEPT ![Across(e)]["direct"] = 0]
      <4>1. /\ buffer' \in [Ends -> [Ways -> 0..Cap]]
            /\ \A f \in Ends : \A w \in Ways : buffer'[f][w] <= B[f][w]
        <5> HIDE DEF B
        <5> QED
          BY <2>1, <3>2, <3>4, BufferFact, ZeroFact
      <4> QED
        BY <3>1, <3>2, <4>1, SwitchAssumption
    <3> QED
      BY <1>1, <3>3, <3>4 DEF ArriveByRelay
  <2>3. CASE FallBack(Across(e))
    BY <1>1, <2>1, <2>2, <2>3, FallBackFact, SwitchAssumption
    DEF ArriveByRelay, SwitchInv, SwitchTypeOK, RoomWhenSealed, netVars
  <2>4. CASE UNCHANGED <<switchVars, sealing, parked, report>>
    BY <1>1, <2>2, <2>4, SwitchAssumption
    DEF ArriveByRelay, SwitchInv, SwitchTypeOK, RoomWhenSealed, NotOnDeadRelay, Paired, switchVars, netVars
  <2> QED
    BY <1>1, <2>3, <2>4 DEF ArriveByRelay
<1>2. ASSUME ArriveDirect(e) PROVE SwitchInv'
  <2>1. buffer' \in [Ends -> [Ways -> 0..Cap]]
        /\ \A f \in Ends : \A w \in Ways : buffer'[f][w] <= buffer[f][w]
    <3>1. buffer' = [buffer EXCEPT ![e]["direct"] = buffer[e]["direct"] - 1]
      BY <1>2 DEF ArriveDirect
    <3>2. buffer[e]["direct"] - 1 \in 0..Cap /\ buffer[e]["direct"] - 1 <= buffer[e]["direct"]
      BY <1>2, ZeroFact DEF ArriveDirect
    <3> QED
      BY <3>1, <3>2, LessFact, ZeroFact
  <2> QED
    BY <1>2, <2>1, SwitchAssumption
    DEF ArriveDirect, SwitchInv, SwitchTypeOK, RoomWhenSealed, NotOnDeadRelay, Paired, switchVars, netVars
<1> QED
  BY <1>1, <1>2

LEMMA SocketInv ==
  ASSUME SwitchInv, NEW e \in Ends, SocketDies(e) \/ HearSocket(e) \/ HearLeft(e)
  PROVE  SwitchInv'
<1>1. ASSUME SocketDies(e) PROVE SwitchInv'
  <2>1. buffer' \in [Ends -> [Ways -> 0..Cap]]
        /\ \A f \in Ends : \A w \in Ways : buffer'[f][w] <= buffer[f][w]
    BY <1>1, LessFact, ZeroFact DEF SocketDies
  <2>2. left' \in [Ends -> BOOLEAN] /\ socket' \in [Ends -> BOOLEAN]
    BY <1>1, AcrossFact DEF SocketDies, SwitchInv, SwitchTypeOK
  <2> QED
    BY <1>1, <2>1, <2>2, SwitchAssumption
    DEF SocketDies, SwitchInv, SwitchTypeOK, RoomWhenSealed, NotOnDeadRelay, Paired, switchVars
<1>2. ASSUME HearSocket(e) PROVE SwitchInv'
  <2>1. SwitchTypeOK'
    <3>1. session' \in [Ends -> {"paired", "lost", "alone"}] /\ died' \in [Ends -> BOOLEAN]
      BY <1>2 DEF HearSocket, SwitchInv, SwitchTypeOK
    <3>2. /\ sealing' \in [Ends -> BOOLEAN] /\ parked' \in [Ends -> BOOLEAN]
          /\ polling' \in [Ends -> BOOLEAN]
      BY <1>2 DEF HearSocket, SwitchInv, SwitchTypeOK
    <3> QED
      BY <1>2, <3>1, <3>2 DEF HearSocket, SwitchInv, SwitchTypeOK, netVars
  <2>2. RoomWhenSealed'
    BY <1>2 DEF HearSocket, SwitchInv, SwitchTypeOK, RoomWhenSealed
  <2>3. NotOnDeadRelay'
    BY <1>2 DEF HearSocket, SwitchInv, SwitchTypeOK, NotOnDeadRelay, Paired
  <2> QED
    BY <2>1, <2>2, <2>3 DEF SwitchInv
<1>3. ASSUME HearLeft(e) PROVE SwitchInv'
  <2>1. buffer' \in [Ends -> [Ways -> 0..Cap]]
        /\ \A f \in Ends : \A w \in Ways : buffer'[f][w] <= buffer[f][w]
    <3>1. buffer' = [buffer EXCEPT ![e]["direct"] = 0]
      BY <1>3 DEF HearLeft
    <3> QED
      BY <3>1, LessFact, ZeroFact
  <2>2. SwitchTypeOK'
    BY <1>3, <2>1 DEF HearLeft, Close, SwitchInv, SwitchTypeOK, Ways
  <2>3. RoomWhenSealed'
    BY <1>3, <2>1, SwitchAssumption DEF HearLeft, SwitchInv, SwitchTypeOK, RoomWhenSealed
  <2>4. NotOnDeadRelay'
    BY <1>3 DEF HearLeft, SwitchInv, SwitchTypeOK, NotOnDeadRelay, Paired
  <2> QED
    BY <2>2, <2>3, <2>4 DEF SwitchInv
<1> QED
  BY <1>1, <1>2, <1>3

LEMMA NextSwitchInv == SwitchInv /\ [SwitchNext]_endVars => SwitchInv'
<1> SUFFICES ASSUME SwitchInv, [SwitchNext]_endVars PROVE SwitchInv'
  OBVIOUS
<1>1. CASE Cut
  BY <1>1 DEF Cut, SwitchInv, SwitchTypeOK, RoomWhenSealed, NotOnDeadRelay, Paired, switchVars, sendVars
<1>2. CASE UNCHANGED endVars
  BY <1>2 DEF endVars, SwitchInv, SwitchTypeOK, RoomWhenSealed, NotOnDeadRelay, Paired, switchVars, sendVars,
              netVars
<1> QED
  BY <1>1, <1>2, SendInv, AttemptInv, ArriveInv, SocketInv DEF SwitchNext

LEMMA SpecSwitchInv == SwitchSpec => []SwitchInv
BY InitSwitchInv, NextSwitchInv, PTL DEF SwitchSpec
-----------------------------------------------------------------------------
(* Every reachable state is well typed; in particular the buffers respect  *)
(* the cap although a frame is handed over some time after it was sealed.  *)
THEOREM SwitchTypeCorrect == SwitchSpec => []SwitchTypeOK
<1>1. SwitchInv => SwitchTypeOK
  BY DEF SwitchInv
<1> QED
  BY SpecSwitchInv, <1>1, PTL

(* A device that heard its relay socket close is on the direct connection, *)
(* or knows its session lost (upgrade.ts, #baselineDied).                  *)
THEOREM NobodyOnDeadRelay == SwitchSpec => []NotOnDeadRelay
<1>1. SwitchInv => NotOnDeadRelay
  BY DEF SwitchInv
<1> QED
  BY SpecSwitchInv, <1>1, PTL
-----------------------------------------------------------------------------
(* Why a parked sender is not forgotten. A buffer of the relay at the mark *)
(* is polled, the direct buffer is used after the swap only and is empty   *)
(* once the connection is closed, and only a paired device seals.          *)
Drains(e) ==
  /\ sealing[e] \/ parked[e] => Paired(e)
  /\ buffer[e]["relay"] >= HighWater => polling[e]
  /\ ~socket[e] => buffer[e]["relay"] = 0
  /\ attempt[e] # "swapped" => live[e] = "relay" /\ buffer[e]["direct"] = 0
  /\ closed[e] => buffer[e]["direct"] = 0
  /\ parked[e] /\ live[e] = "relay" => polling[e]
  /\ parked[e] /\ live[e] = "direct" =>
       ~closed[e] /\ (report[e] \/ buffer[e]["direct"] > HighWater)

(* What Drains(f) speaks of, in a step that is about another end.          *)
Own(f) == <<session[f], live[f], attempt[f], closed[f], sealing[f], parked[f], polling[f],
            report[f], socket[f], buffer[f]["relay"], buffer[f]["direct"]>>

LEMMA DrainsKept ==
  ASSUME NEW f \in Ends, Drains(f), UNCHANGED Own(f)
  PROVE  Drains(f)'
BY DEF Own, Drains, Paired

LEMMA OwnTypes ==
  ASSUME SwitchInv, NEW f \in Ends
  PROVE  /\ buffer[f]["relay"] \in Nat /\ buffer[f]["direct"] \in Nat
         /\ live[f] \in {"relay", "direct"} /\ HighWater \in Nat \ {0}
BY SwitchAssumption DEF SwitchInv, SwitchTypeOK, Ways

AllDrain == \A e \in Ends : Drains(e)

LEMMA DrainsInit == SwitchInit => AllDrain
BY SwitchAssumption DEF SwitchInit, AllDrain, Drains, Paired, Ways

(* What a frame handed over changes of its end, and of no other.           *)
LEMMA HandOwn ==
  ASSUME SwitchInv, NEW e \in Ends, sealing[e], Hand(e)
  PROVE  /\ \A f \in Ends \ {e} : /\ polling'[f] = polling[f] /\ report'[f] = report[f]
                                  /\ \A w \in Ways : buffer'[f][w] = buffer[f][w]
         /\ \/ /\ Takes(e)
               /\ \A w \in Ways : buffer'[e][w] = buffer[e][w] + (IF w = live[e] THEN 1 ELSE 0)
               /\ polling[e] => polling'[e]
               /\ live[e] = "relay" /\ buffer[e]["relay"] + 1 >= HighWater => polling'[e]
               /\ report[e] \/ live[e] = "direct" => report'[e]
            \/ ~Takes(e) /\ UNCHANGED <<buffer, polling, report>>
<1>1. /\ live[e] \in Ways /\ buffer[e][live[e]] + 1 \in 0..Cap
      /\ buffer \in [Ends -> [Ways -> 0..Cap]] /\ \A w \in Ways : buffer[e][w] \in Nat
  BY SwitchAssumption DEF SwitchInv, SwitchTypeOK, RoomWhenSealed
<1>2. polling \in [Ends -> BOOLEAN] /\ report \in [Ends -> BOOLEAN]
  BY DEF SwitchInv, SwitchTypeOK
<1>3. CASE Takes(e)
  <2>1. buffer' = [buffer EXCEPT ![e][live[e]] = buffer[e][live[e]] + 1]
    BY <1>3 DEF Hand
  <2>2. \A f \in Ends : \A w \in Ways :
          buffer'[f][w] = IF f = e /\ w = live[e] THEN buffer[e][live[e]] + 1 ELSE buffer[f][w]
    BY <1>1, <2>1, BufferFact
  <2>3. \A f \in Ends \ {e} : polling'[f] = polling[f] /\ report'[f] = report[f]
    BY <1>2, <1>3 DEF Hand
  <2>4. /\ polling[e] => polling'[e]
        /\ live[e] = "relay" /\ buffer[e]["relay"] + 1 >= HighWater => polling'[e]
    BY <1>2, <1>3 DEF Hand, StartsPolling
  <2>5. report[e] \/ live[e] = "direct" => report'[e]
    BY <1>2, <1>3 DEF Hand
  <2> QED
    BY <1>1, <1>3, <2>2, <2>3, <2>4, <2>5
<1>4. CASE ~Takes(e)
  BY <1>4 DEF Hand
<1> QED
  BY <1>3, <1>4

(* Leaving the direct connection, as its end sees it.                      *)
LEMMA FallBackOwn ==
  ASSUME SwitchInv, NEW e \in Ends, FallBack(e)
  PROVE  /\ \A f \in Ends \ {e} :
              UNCHANGED <<session[f], live[f], attempt[f], closed[f], sealing[f], parked[f], report[f]>>
         /\ live'[e] = "relay" /\ closed'[e] /\ UNCHANGED attempt
         /\ \/ ~sealing'[e] /\ ~parked'[e]
            \/ /\ session'[e] = session[e] /\ sealing'[e] = sealing[e]
               /\ parked'[e] => parked[e] /\ buffer[e]["relay"] >= HighWater
BY DEF SwitchInv, SwitchTypeOK, FallBack, Close, Release

LEMMA SendDrains ==
  ASSUME SwitchInv, NEW e \in Ends, NEW f \in Ends, Drains(e), Drains(f),
         \/ Seal(e) \/ SendThenSwap(e) \/ Poll(e) \/ Report(e)
         \/ \E data \in BOOLEAN : Send(e, data)
  PROVE  Drains(f)'
<1>0. /\ buffer[e]["relay"] \in Nat /\ buffer[e]["direct"] \in Nat
      /\ live[e] \in {"relay", "direct"} /\ HighWater \in Nat \ {0}
      /\ \A w \in Ways : w = "relay" \/ w = "direct"
      /\ "relay" \in Ways /\ "direct" \in Ways
  BY OwnTypes DEF Ways
<1>1. ASSUME Seal(e) PROVE Drains(f)'
  BY <1>1 DEF Seal, Drains, Paired, SwitchInv, SwitchTypeOK, switchVars, netVars
<1>2. ASSUME SendThenSwap(e) PROVE Drains(f)'
  <2>1. sealing[e] /\ attempt[e] = "queued" /\ Hand(e) /\ SwapTo(e) /\ UNCHANGED netVars
    BY <1>2 DEF SendThenSwap
  <2>2. live[e] = "relay" /\ buffer[e]["direct"] = 0 /\ buffer'[e]["direct"] = 0
    BY <1>0, <2>1, HandOwn DEF Drains
  <2>3. CASE f = e
    <3>1. live'[e] = "direct" /\ attempt'[e] = "swapped" /\ ~parked'[e] /\ ~sealing'[e]
      <4>1. parked' = [parked EXCEPT ![e] = @ /\ buffer[e]["direct"] >= HighWater]
            /\ parked \in [Ends -> BOOLEAN]
        BY <2>1 DEF SwapTo, Release, SwitchInv, SwitchTypeOK
      <4>2. ~(buffer[e]["direct"] >= HighWater)
        BY <1>0, <2>2
      <4> QED
        BY <1>2, <2>1, <4>1, <4>2 DEF SendThenSwap, SwapTo, SwitchInv, SwitchTypeOK
    <3>2. UNCHANGED <<closed, socket>>
      BY <2>1 DEF SwapTo, netVars
    <3> QED
      BY <1>0, <2>1, <2>2, <2>3, <3>1, <3>2, HandOwn DEF Drains, Takes
  <2>4. CASE f # e
    <3>1. UNCHANGED <<session[f], live[f], attempt[f], closed[f], sealing[f], parked[f], socket[f]>>
      BY <1>2, <2>1, <2>4 DEF SendThenSwap, SwapTo, Release, SwitchInv, SwitchTypeOK, netVars
    <3> QED
      BY <1>0, <2>1, <2>4, <3>1, HandOwn, DrainsKept DEF Own
  <2> QED
    BY <2>3, <2>4
<1>3. ASSUME Poll(e) PROVE Drains(f)'
  <2>1. /\ buffer[e]["relay"] < HighWater
        /\ polling' = [polling EXCEPT ![e] = FALSE]
        /\ parked' = [parked EXCEPT ![e] = @ /\ live[e] # "relay"]
        /\ polling \in [Ends -> BOOLEAN] /\ parked \in [Ends -> BOOLEAN]
        /\ UNCHANGED <<session, live, attempt, closed, sealing, buffer, report, socket>>
    BY <1>3 DEF Poll, SwitchInv, SwitchTypeOK, switchVars, netVars
  <2>2. CASE f = e
    <3>1. ~polling'[e] /\ (parked'[e] => parked[e] /\ live[e] # "relay")
      BY <2>1
    <3> QED
      BY <1>0, <2>1, <2>2, <3>1 DEF Drains, Paired
  <2>3. CASE f # e
    BY <2>1, <2>3, DrainsKept DEF Own
  <2> QED
    BY <2>2, <2>3
<1>4. ASSUME Report(e) PROVE Drains(f)'
  BY <1>0, <1>4 DEF Report, Drains, Paired, SwitchInv, SwitchTypeOK, switchVars, netVars
<1>5. ASSUME NEW data \in BOOLEAN, Send(e, data) PROVE Drains(f)'
  <2>1. sealing[e] /\ Hand(e) /\ UNCHANGED <<switchVars, netVars>>
    BY <1>5 DEF Send
  <2>2. CASE f = e
    <3>1. ~sealing'[e] /\ (parked'[e] => parked[e] \/ buffer'[e][live[e]] >= HighWater)
      BY <1>5 DEF Send, SwitchInv, SwitchTypeOK
    <3>2. UNCHANGED <<session, live, attempt, closed, socket>>
      BY <2>1 DEF switchVars, netVars
    <3> QED
      <4>1. CASE ~Takes(e)
        BY <1>0, <2>1, <2>2, <3>1, <3>2, <4>1, HandOwn DEF Drains, Takes, Paired
      <4>2. CASE Takes(e)
        <5>1. /\ buffer'[e]["relay"] = buffer[e]["relay"] + (IF live[e] = "relay" THEN 1 ELSE 0)
              /\ buffer'[e]["direct"] = buffer[e]["direct"] + (IF live[e] = "direct" THEN 1 ELSE 0)
              /\ polling[e] => polling'[e]
              /\ live[e] = "relay" /\ buffer[e]["relay"] + 1 >= HighWater => polling'[e]
              /\ report[e] \/ live[e] = "direct" => report'[e]
          BY <1>0, <2>1, <4>2, HandOwn
        <5>2. CASE live[e] = "relay"
          BY <1>0, <2>1, <2>2, <3>1, <3>2, <4>2, <5>1, <5>2 DEF Drains, Takes, Paired
        <5>3. CASE live[e] = "direct"
          BY <1>0, <2>1, <2>2, <3>1, <3>2, <4>2, <5>1, <5>3 DEF Drains, Takes, Paired
        <5> QED
          BY <1>0, <5>2, <5>3
      <4> QED
        BY <4>1, <4>2
  <2>3. CASE f # e
    <3>1. UNCHANGED <<session[f], live[f], attempt[f], closed[f], sealing[f], parked[f], socket[f]>>
      BY <1>5, <2>1, <2>3 DEF Send, SwitchInv, SwitchTypeOK, switchVars, netVars
    <3> QED
      BY <1>0, <2>1, <2>3, <3>1, HandOwn, DrainsKept DEF Own
  <2> QED
    BY <2>2, <2>3
<1> QED
  BY <1>1, <1>2, <1>3, <1>4, <1>5

LEMMA AttemptDrains ==
  ASSUME SwitchInv, NEW e \in Ends, NEW f \in Ends, Drains(e), Drains(f),
         Opens(e) \/ TimesOut(e) \/ HearClosed(e) \/ WindowPasses(e)
  PROVE  Drains(f)'
<1>0. /\ buffer[e]["relay"] \in Nat /\ buffer[e]["direct"] \in Nat
      /\ live[e] \in {"relay", "direct"} /\ HighWater \in Nat \ {0}
  BY OwnTypes
<1>1. ASSUME Opens(e) PROVE Drains(f)'
  <2>1. CASE SwapTo(e)
    BY <1>0, <1>1, <2>1
    DEF Opens, SwapTo, Release, Drains, Paired, SwitchInv, SwitchTypeOK, netVars
  <2>2. CASE UNCHANGED <<session, live, died, fresh, closed, parked>>
             /\ attempt' = [attempt EXCEPT ![e] = "queued"]
    BY <1>0, <1>1, <2>2 DEF Opens, Drains, Paired, SwitchInv, SwitchTypeOK, netVars
  <2> QED
    BY <1>1, <2>1, <2>2 DEF Opens
<1>2. ASSUME TimesOut(e) PROVE Drains(f)'
  BY <1>0, <1>2 DEF TimesOut, Close, Drains, Paired, SwitchInv, SwitchTypeOK, netVars
<1>3. ASSUME HearClosed(e) PROVE Drains(f)'
  <2>1. \A x \in Ends : \A w \in Ways :
          buffer'[x][w] = IF x = e /\ w = "direct" THEN 0 ELSE buffer[x][w]
    BY <1>3, BufferFact, ZeroFact DEF HearClosed, SwitchInv, SwitchTypeOK
  <2>2. UNCHANGED <<polling, socket>> /\ "relay" \in Ways /\ "direct" \in Ways
    BY <1>3 DEF HearClosed, netVars, Ways
  <2>3. CASE FallBack(e)
    <3>1. CASE f = e
      BY <1>0, <2>1, <2>2, <2>3, <3>1, FallBackOwn DEF Drains, Paired
    <3>2. CASE f # e
      BY <2>1, <2>2, <2>3, <3>2, FallBackOwn, DrainsKept DEF Own
    <3> QED
      BY <3>1, <3>2
  <2>4. CASE /\ live[e] = "relay" /\ Close(e)
             /\ attempt' = [attempt EXCEPT ![e] = IF @ = "opening" THEN "failed" ELSE @]
             /\ UNCHANGED <<session, live, died, fresh, sealing, parked>>
    BY <1>0, <2>1, <2>2, <2>4 DEF Close, Drains, Paired, SwitchInv, SwitchTypeOK
  <2> QED
    BY <1>3, <2>3, <2>4 DEF HearClosed
<1>4. ASSUME WindowPasses(e) PROVE Drains(f)'
  BY <1>4 DEF WindowPasses, Drains, Paired, sendVars, netVars
<1> QED
  BY <1>1, <1>2, <1>3, <1>4

LEMMA ArriveDrains ==
  ASSUME SwitchInv, NEW e \in Ends, NEW f \in Ends, Drains(f), Drains(Across(e)),
         ArriveByRelay(e) \/ ArriveDirect(e)
  PROVE  Drains(f)'
<1>0. /\ \A x \in Ends : buffer[x]["relay"] \in Nat /\ buffer[x]["direct"] \in Nat
      /\ live[e] \in {"relay", "direct"} /\ HighWater \in Nat \ {0}
      /\ "relay" \in Ways /\ "direct" \in Ways /\ Across(e) \in Ends
      /\ buffer \in [Ends -> [Ways -> 0..Cap]]
  BY OwnTypes, AcrossFact DEF Ways, SwitchInv, SwitchTypeOK
<1>1. ASSUME ArriveByRelay(e) PROVE Drains(f)'
  <2>1. UNCHANGED <<polling, socket>>
    BY <1>1 DEF ArriveByRelay, netVars
  <2>2. CASE /\ FallBack(Across(e))
             /\ buffer' = [buffer EXCEPT ![e]["relay"] = @ - 1, ![Across(e)]["direct"] = 0]
    <3>1. \A x \in Ends :
            /\ buffer'[x]["relay"] = IF x = e THEN buffer[x]["relay"] - 1 ELSE buffer[x]["relay"]
            /\ buffer'[x]["direct"] = IF x = Across(e) THEN 0 ELSE buffer[x]["direct"]
      BY <1>0, <2>2, AcrossFact
    <3>2. buffer[e]["relay"] > 0
      BY <1>1 DEF ArriveByRelay
    <3>3. CASE f = Across(e)
      BY <1>0, <2>1, <2>2, <3>1, <3>3, AcrossFact, FallBackOwn DEF Drains, Paired
    <3>4. CASE f # Across(e)
      <4>1. /\ UNCHANGED <<session[f], live[f], attempt[f], closed[f], sealing[f], parked[f],
                           report[f]>>
            /\ buffer'[f]["direct"] = buffer[f]["direct"]
        <5> DEFINE o == Across(e)
        <5>1. o \in Ends /\ FallBack(o) /\ f \in Ends \ {o}
          BY <1>0, <2>2, <3>4
        <5> HIDE DEF o
        <5>2. UNCHANGED <<session[f], live[f], attempt[f], closed[f], sealing[f], parked[f],
                          report[f]>>
          BY <5>1, FallBackOwn
        <5> QED
          BY <3>1, <3>4, <5>2
      <4>2. UNCHANGED <<polling[f], socket[f]>>
        BY <2>1
      <4>3. /\ buffer'[f]["relay"] <= buffer[f]["relay"] /\ buffer'[f]["relay"] \in Nat
            /\ buffer[f]["relay"] = 0 => buffer'[f]["relay"] = 0
        BY <1>0, <3>1, <3>2
      <4> QED
        BY <1>0, <4>1, <4>2, <4>3 DEF Drains, Paired
    <3> QED
      BY <3>3, <3>4
  <2>3. CASE /\ buffer' = [buffer EXCEPT ![e]["relay"] = @ - 1]
             /\ UNCHANGED <<switchVars, sealing, parked, report>>
    <3>1. \A x \in Ends :
            /\ buffer'[x]["relay"] = IF x = e THEN buffer[x]["relay"] - 1 ELSE buffer[x]["relay"]
            /\ buffer'[x]["direct"] = buffer[x]["direct"]
      BY <1>0, <2>3
    <3>2. buffer[e]["relay"] > 0
      BY <1>1 DEF ArriveByRelay
    <3> QED
      BY <1>0, <2>1, <2>3, <3>1, <3>2 DEF Drains, Paired, switchVars
  <2> QED
    BY <1>1, <2>2, <2>3 DEF ArriveByRelay
<1>2. ASSUME ArriveDirect(e) PROVE Drains(f)'
  <2>1. \A x \in Ends :
          /\ buffer'[x]["direct"] = IF x = e THEN buffer[x]["direct"] - 1 ELSE buffer[x]["direct"]
          /\ buffer'[x]["relay"] = buffer[x]["relay"]
    BY <1>0, <1>2 DEF ArriveDirect
  <2>2. buffer[e]["direct"] > 0 /\ UNCHANGED <<sealing, polling, report, switchVars, netVars>>
    BY <1>2 DEF ArriveDirect
  <2>3. parked' = [parked EXCEPT ![e] = @ /\ buffer[e]["direct"] # HighWater + 1]
        /\ parked \in [Ends -> BOOLEAN]
    BY <1>2 DEF ArriveDirect, SwitchInv, SwitchTypeOK
  <2> QED
    <3>1. CASE f = e
      <4>1. parked'[e] => parked[e] /\ buffer[e]["direct"] # HighWater + 1
        BY <2>3
      <4> QED
        BY <1>0, <2>1, <2>2, <3>1, <4>1 DEF Drains, Paired, switchVars, netVars
    <3>2. CASE f # e
      BY <2>1, <2>2, <2>3, <3>2, DrainsKept DEF Own, switchVars, netVars
    <3> QED
      BY <3>1, <3>2
<1> QED
  BY <1>1, <1>2

LEMMA SocketDrains ==
  ASSUME SwitchInv, NEW e \in Ends, NEW f \in Ends, Drains(e), Drains(f),
         SocketDies(e) \/ HearSocket(e) \/ HearLeft(e)
  PROVE  Drains(f)'
<1>0. /\ \A x \in Ends : buffer[x]["relay"] \in Nat /\ buffer[x]["direct"] \in Nat
      /\ live[e] \in {"relay", "direct"} /\ HighWater \in Nat \ {0}
      /\ buffer \in [Ends -> [Ways -> 0..Cap]] /\ "relay" \in Ways /\ "direct" \in Ways
  BY OwnTypes DEF Ways, SwitchInv, SwitchTypeOK
<1>1. ASSUME SocketDies(e) PROVE Drains(f)'
  <2>1. \A x \in Ends : /\ buffer'[x]["relay"] = IF x = e THEN 0 ELSE buffer[x]["relay"]
                        /\ buffer'[x]["direct"] = buffer[x]["direct"]
    BY <1>0, <1>1 DEF SocketDies
  <2>2. socket' = [socket EXCEPT ![e] = FALSE] /\ socket \in [Ends -> BOOLEAN]
    BY <1>1 DEF SocketDies, SwitchInv, SwitchTypeOK
  <2> QED
    BY <1>0, <1>1, <2>1, <2>2 DEF SocketDies, Drains, Paired, switchVars
<1>2. ASSUME HearSocket(e) PROVE Drains(f)'
  BY <1>0, <1>2 DEF HearSocket, Drains, Paired, SwitchInv, SwitchTypeOK, netVars
<1>3. ASSUME HearLeft(e) PROVE Drains(f)'
  <2>1. \A x \in Ends : /\ buffer'[x]["direct"] = IF x = e THEN 0 ELSE buffer[x]["direct"]
                        /\ buffer'[x]["relay"] = buffer[x]["relay"]
    BY <1>0, <1>3 DEF HearLeft
  <2> QED
    BY <1>0, <1>3, <2>1 DEF HearLeft, Close, Drains, Paired, SwitchInv, SwitchTypeOK
<1> QED
  BY <1>1, <1>2, <1>3

LEMMA DrainsStep ==
  ASSUME SwitchInv, AllDrain, [SwitchNext]_endVars
  PROVE  AllDrain'
<1> USE DEF AllDrain
<1> SUFFICES ASSUME NEW f \in Ends PROVE Drains(f)'
  OBVIOUS
<1>1. CASE Cut \/ UNCHANGED endVars
  BY <1>1, DrainsKept DEF Cut, Own, endVars, switchVars, sendVars, netVars
<1> QED
  BY <1>1, AcrossFact, SendDrains, AttemptDrains, ArriveDrains, SocketDrains DEF SwitchNext

(* A sender that waits for a drain is never forgotten: what ends its wait  *)
(* is on its way, whatever was replaced, refilled or lost meanwhile        *)
(* (sender.ts's #awaitDrain, upgrade.ts's releaseDrainIfIdle).             *)
THEOREM NobodyForgotten == SwitchSpec => []WakeupComes
<1>1. AllDrain => WakeupComes
  BY DEF AllDrain, Drains, WakeupComes
<1>2. SwitchInv /\ AllDrain /\ [SwitchNext]_endVars => AllDrain'
  BY DrainsStep
<1> QED
  BY SpecSwitchInv, DrainsInit, <1>1, <1>2, PTL DEF SwitchSpec
===============================================================================
