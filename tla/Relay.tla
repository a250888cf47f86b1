-------------------------------- MODULE Relay --------------------------------
(***************************************************************************)
(* The relay server: the room registry (server/rooms.ts) and the WebSocket *)
(* handler that drives it (server/index.ts, GET /ws).                      *)
(*                                                                         *)
(* A socket's handler is a closure over `code` and `peerId`; the registry  *)
(* keeps the same association the other way round, from a code and a seat  *)
(* to the socket. Each event (a message, the close event, the sweep timer) *)
(* runs to completion on Node's event loop, so each is one action.         *)
(*                                                                         *)
(* Payloads are opaque to the relay and are not modelled; what matters is  *)
(* which socket a frame is handed to. Replies that change nothing (bad     *)
(* request, rate limited, not found, full) are stuttering steps.           *)
(*                                                                         *)
(* Definitions that differ from their neighbour by one mistake (OtherSelf, *)
(* JoinSilent, LeaveKeepsRoom, IdleTooLong, SweepOnly) are faulty          *)
(* variants: no action uses them; they stand for the bug a property below  *)
(* must be able to see.                                                    *)
(***************************************************************************)
EXTENDS Integers

CONSTANTS
  Sockets,   \* server ends of WebSocket connections; a closed one is reused
  Codes,     \* room codes
  MaxIdle,   \* MAX_IDLE_MS, in sweep intervals
  None       \* no socket / no code / no seat

ASSUME RelayAssumption ==
  /\ MaxIdle \in Nat \ {0}
  /\ None \notin Sockets
  /\ None \notin Codes
  /\ None \notin {"a", "b"}

Seats == {"a", "b"}
Opposite(p) == IF p = "a" THEN "b" ELSE "a"

VARIABLES
  rooms,     \* the keys of RoomRegistry.#rooms
  seat,      \* Room.peers of every code
  age,       \* now - Room.lastActivity, in sweep intervals, capped at MaxIdle
  conn,      \* readyState of each socket: "open", "closing" or "closed"
  code,      \* the handler closure's `code`
  peerId,    \* the handler closure's `peerId`
  told,      \* what the socket was last told about its peer: TRUE = present
  frame,     \* history: the frame this step forwarded, as <<from, to>>
  recycled   \* history: codes drawn again while a swept socket still held them

vars == <<rooms, seat, age, conn, code, peerId, told, frame, recycled>>

NoFrame == <<None, None>>

Empty == [p \in Seats |-> None]

Init ==
  /\ rooms = {}
  /\ seat = [c \in Codes |-> Empty]
  /\ age = [c \in Codes |-> 0]
  /\ conn = [s \in Sockets |-> "closed"]
  /\ code = [s \in Sockets |-> None]
  /\ peerId = [s \in Sockets |-> None]
  /\ told = [s \in Sockets |-> FALSE]
  /\ frame = NoFrame
  /\ recycled = {}

-----------------------------------------------------------------------------
(* RoomRegistry.other: the socket seated opposite, None if there is none.  *)
OtherSelf(c, p) == IF c \in rooms THEN seat[c][p] ELSE None
Other(c, p) == IF c \in rooms THEN seat[c][Opposite(p)] ELSE None

Touch(c) == age' = IF c \in rooms THEN [age EXCEPT ![c] = 0] ELSE age

(* The WebSocket upgrade: a new handler closure, knowing no room.          *)
Connect(s) ==
  /\ conn[s] = "closed"
  /\ conn' = [conn EXCEPT ![s] = "open"]
  /\ frame' = NoFrame
  /\ UNCHANGED <<rooms, seat, age, code, peerId, told, recycled>>

(* `create`: RoomRegistry.create draws codes until one is unused. A socket *)
(* that is closing still has its messages delivered to the handler.        *)
Create(s, c) ==
  /\ conn[s] # "closed" /\ code[s] = None
  /\ c \notin rooms
  /\ rooms' = rooms \cup {c}
  /\ seat' = [seat EXCEPT ![c] = [Empty EXCEPT !["a"] = s]]
  /\ age' = [age EXCEPT ![c] = 0]
  /\ code' = [code EXCEPT ![s] = c]
  /\ peerId' = [peerId EXCEPT ![s] = "a"]
  /\ told' = told
  /\ recycled' = IF \E t \in Sockets : code[t] = c
                   THEN recycled \cup {c} ELSE recycled \ {c}
  /\ frame' = NoFrame
  /\ UNCHANGED conn

(* `create` when every draw collided: create throws, and the handler's     *)
(* catch closes the socket with 1011.                                      *)
CreateExhausted(s) ==
  /\ conn[s] # "closed" /\ code[s] = None
  /\ rooms # {}
  /\ conn' = [conn EXCEPT ![s] = "closing"]
  /\ frame' = NoFrame
  /\ UNCHANGED <<rooms, seat, age, code, peerId, told, recycled>>

(* `join`: the first free seat of a, b; the joiner is answered `joined`    *)
(* and the socket opposite is told `peer-joined`.                          *)
FirstFree(c) == IF seat[c]["a"] = None THEN "a" ELSE "b"

JoinSilent(s, c) ==
  /\ conn[s] # "closed" /\ code[s] = None
  /\ c \in rooms
  /\ seat[c][FirstFree(c)] = None
  /\ seat' = [seat EXCEPT ![c][FirstFree(c)] = s]
  /\ age' = [age EXCEPT ![c] = 0]
  /\ code' = [code EXCEPT ![s] = c]
  /\ peerId' = [peerId EXCEPT ![s] = FirstFree(c)]
  /\ told' = [told EXCEPT ![s] = (conn[s] = "open")]
  /\ frame' = NoFrame
  /\ UNCHANGED <<rooms, conn, recycled>>

Join(s, c) ==
  LET free == FirstFree(c)
      mate == seat[c][Opposite(free)]
  IN  /\ conn[s] # "closed" /\ code[s] = None
      /\ c \in rooms
      /\ seat[c][free] = None
      /\ seat' = [seat EXCEPT ![c][free] = s]
      /\ age' = [age EXCEPT ![c] = 0]
      /\ code' = [code EXCEPT ![s] = c]
      /\ peerId' = [peerId EXCEPT ![s] = free]
      /\ told' = [t \in Sockets |->
                    IF t \in {s, mate} /\ conn[t] = "open" THEN TRUE ELSE told[t]]
      /\ frame' = NoFrame
      /\ UNCHANGED <<rooms, conn, recycled>>

(* A binary frame, or an `rtc` signal the limiter lets through: touch the  *)
(* room and hand the frame to the socket opposite, if it is open.          *)
Forward(s) ==
  LET mate == Other(code[s], peerId[s])
  IN  /\ conn[s] # "closed" /\ code[s] # None
      /\ Touch(code[s])
      /\ frame' = IF mate # None /\ conn[mate] = "open"
                    THEN <<s, mate>> ELSE NoFrame
      /\ UNCHANGED <<rooms, seat, conn, code, peerId, told, recycled>>

(* The client, or the network, starts closing the connection.              *)
ClientCloses(s) ==
  /\ conn[s] = "open"
  /\ conn' = [conn EXCEPT ![s] = "closing"]
  /\ frame' = NoFrame
  /\ UNCHANGED <<rooms, seat, age, code, peerId, told, recycled>>

(* RoomRegistry.leave, as called by the close event.                       *)
LeaveKeepsRoom(c, p) ==
  IF c \notin rooms THEN UNCHANGED <<rooms, seat, age>>
  ELSE /\ seat' = [seat EXCEPT ![c][p] = None]
       /\ age' = [age EXCEPT ![c] = 0]
       /\ rooms' = rooms

Leave(c, p) ==
  IF c \notin rooms THEN UNCHANGED <<rooms, seat, age>>
  ELSE /\ seat' = [seat EXCEPT ![c][p] = None]
       /\ age' = [age EXCEPT ![c] = 0]
       /\ rooms' = IF seat[c][Opposite(p)] = None THEN rooms \ {c} ELSE rooms

(* The close event: tell the socket opposite `peer-left`, leave the room,  *)
(* forget it.                                                              *)
Closed(s) ==
  LET mate == IF code[s] = None THEN None ELSE Other(code[s], peerId[s])
  IN  /\ conn[s] = "closing"
      /\ IF code[s] = None THEN UNCHANGED <<rooms, seat, age>>
                          ELSE Leave(code[s], peerId[s])
      /\ told' = [t \in Sockets |->
                    IF t = s \/ (t = mate /\ conn[t] = "open")
                      THEN FALSE ELSE told[t]]
      /\ conn' = [conn EXCEPT ![s] = "closed"]
      /\ code' = [code EXCEPT ![s] = None]
      /\ peerId' = [peerId EXCEPT ![s] = None]
      /\ frame' = NoFrame
      /\ UNCHANGED recycled

(* The clock: every room grows one sweep interval older.                   *)
Tick ==
  /\ \E c \in rooms : age[c] < MaxIdle
  /\ age' = [c \in Codes |->
               IF c \in rooms /\ age[c] < MaxIdle THEN age[c] + 1 ELSE age[c]]
  /\ frame' = NoFrame
  /\ UNCHANGED <<rooms, seat, conn, code, peerId, told, recycled>>

(* RoomRegistry.sweep: every room idle for MaxIdle is deleted and its      *)
(* sockets start closing; their close events come later.                   *)
IdleTooLong(c) == age[c] > MaxIdle
Idle(c) == age[c] >= MaxIdle

SweepOnly ==
  LET swept == {c \in rooms : Idle(c)}
  IN  /\ swept # {}
      /\ rooms' = rooms \ swept
      /\ seat' = [c \in Codes |-> IF c \in swept THEN Empty ELSE seat[c]]
      /\ age' = [c \in Codes |-> IF c \in swept THEN 0 ELSE age[c]]
      /\ frame' = NoFrame
      /\ UNCHANGED <<conn, code, peerId, told, recycled>>

Sweep ==
  LET swept == {c \in rooms : Idle(c)}
      seated == {s \in Sockets : \E c \in swept, p \in Seats : seat[c][p] = s}
  IN  /\ swept # {}
      /\ rooms' = rooms \ swept
      /\ seat' = [c \in Codes |-> IF c \in swept THEN Empty ELSE seat[c]]
      /\ conn' = [s \in Sockets |->
                    IF s \in seated /\ conn[s] = "open" THEN "closing" ELSE conn[s]]
      /\ age' = [c \in Codes |-> IF c \in swept THEN 0 ELSE age[c]]
      /\ frame' = NoFrame
      /\ UNCHANGED <<code, peerId, told, recycled>>

Next ==
  \/ \E s \in Sockets :
       \/ Connect(s) \/ CreateExhausted(s) \/ Forward(s)
       \/ ClientCloses(s) \/ Closed(s)
       \/ \E c \in Codes : Create(s, c) \/ Join(s, c)
  \/ Tick \/ Sweep

Spec == Init /\ [][Next]_vars

(* The clock and the sweep timer (setInterval) do run, and a WebSocket     *)
(* close completes: ws destroys the connection 30 s after it asked.        *)
Fairness ==
  /\ WF_vars(Tick) /\ WF_vars(Sweep)
  /\ \A s \in Sockets : WF_vars(Closed(s))

FairSpec == Spec /\ Fairness

-----------------------------------------------------------------------------
TypeOK ==
  /\ rooms \subseteq Codes
  /\ seat \in [Codes -> [Seats -> Sockets \cup {None}]]
  /\ age \in [Codes -> 0..MaxIdle]
  /\ conn \in [Sockets -> {"open", "closing", "closed"}]
  /\ code \in [Sockets -> Codes \cup {None}]
  /\ peerId \in [Sockets -> Seats \cup {None}]
  /\ told \in [Sockets -> BOOLEAN]
  /\ frame \in (Sockets \cup {None}) \X (Sockets \cup {None})
  /\ recycled \subseteq Codes

(* Closures and registry agree: a socket that is not yet closed and that   *)
(* believes it sits in a room holds exactly that seat, unless the room was *)
(* swept from under it, in which case it is already closing. No open       *)
(* connection is ever left talking into a room it is not in, whatever      *)
(* joins, leaves and sweeps happened in between. A code drawn again while  *)
(* a swept socket still remembers it is excepted: that socket's late close *)
(* event empties a seat of the new room.                                   *)
SeatHeld ==
  \A s \in Sockets :
    code[s] # None /\ code[s] \notin recycled =>
      \/ code[s] \in rooms /\ seat[code[s]][peerId[s]] = s
      \/ code[s] \notin rooms /\ conn[s] = "closing"

(* The registry leaks nothing: a room exists exactly while somebody sits   *)
(* in it, and whoever sits in it has a handler that will leave it.         *)
RoomsOccupied ==
  \A c \in Codes :
    /\ c \in rooms <=> \E p \in Seats : seat[c][p] # None
    /\ \A p \in Seats :
         seat[c][p] # None =>
           /\ code[seat[c][p]] = c /\ peerId[seat[c][p]] = p
           /\ conn[seat[c][p]] # "closed"

(* The pairing signals add up: what an open, seated socket was last told   *)
(* about its peer (created: alone; joined and peer-joined: present;        *)
(* peer-left: alone) is whether the opposite seat is taken.                *)
PresenceAccurate ==
  \A s \in Sockets :
    conn[s] = "open" /\ code[s] # None /\ code[s] \notin recycled =>
      told[s] = (seat[code[s]][Opposite(peerId[s])] # None)

(* Frames flow only between the two sockets that sit in one room when the  *)
(* frame is forwarded.                                                     *)
Mates(s, t) == \E c \in rooms, p \in Seats : seat[c][p] = s /\ seat[c][Opposite(p)] = t

FramesStayInRoom ==
  frame # NoFrame => \/ Mates(frame[1], frame[2])
                     \/ code[frame[1]] \in recycled

(* A room nobody uses goes away: it is swept, or something happens in it.  *)
AbandonedRoomsExpire ==
  \A c \in Codes : (c \in rooms /\ age[c] > 0) ~> (c \notin rooms \/ age[c] = 0)
==============================================================================
