----------------------------- MODULE ShareInbox -----------------------------
(***************************************************************************)
(* Files shared to the app from the system's share sheet: the service      *)
(* worker stashes them in a Cache, the page it redirects to takes them.    *)
(*   client/share/inbox.ts          stashShare, takeShare                  *)
(*   client/sw.ts                   the POST that stashes                  *)
(*   client/screens/CreateScreen.tsx   the page that takes                 *)
(*                                                                         *)
(* Every storage call is awaited, so stashes and takes interleave between  *)
(* any two; a stash dies with the worker. Deleting a Cache takes its name  *)
(* away: who has it open still reads and writes what it holds, unseen by   *)
(* whoever opens the name next.                                            *)
(*                                                                         *)
(* Abstractions. Names, types and the note are left out, and so is the     *)
(* browser evicting one entry of a Cache.                                  *)
(***************************************************************************)
EXTENDS Integers, FiniteSets, Sequences

CONSTANTS
  Shares,    \* shares made, each with the page it leads to
  Size       \* how many files each holds

ASSUME ShareInboxAssumption ==
  /\ IsFiniteSet(Shares) /\ "none" \notin Shares
  /\ Size \in [Shares -> Nat]

NoCache == 0
(* One Cache for each call that may create one.                            *)
Caches == 1..(2 * Cardinality(Shares))
Positions(s) == 1..Size[s]

VARIABLES
  named,    \* the Cache that has the name, or NoCache
  created,  \* Caches created so far
  index,    \* per Cache: the share its index names, or "none"
  bodies,   \* per Cache: its bodies, <<position, share>>
  stash,    \* per share: "none", "deleted", "opened", "done" or "killed"
  into,     \* the Cache it writes to
  take,     \* per page: "none", "opened", "reading", "taken", "missed" or "closed"
  from,     \* the Cache it reads
  found,    \* the share whose index it read, or "none"
  got,      \* the bodies it read, in order
  began,    \* history: the shares in the order their stashes began
  overlapped \* history: shares stashed while another was

cacheVars == <<named, created, index, bodies>>
stashVars == <<stash, into, began, overlapped>>
takeVars == <<take, from, found, got>>
inboxVars == <<cacheVars, stashVars, takeVars>>

InboxInit ==
  /\ named = NoCache /\ created = 0
  /\ index = [c \in Caches |-> "none"]
  /\ bodies = [c \in Caches |-> {}]
  /\ stash = [s \in Shares |-> "none"]
  /\ into = [s \in Shares |-> NoCache]
  /\ take = [s \in Shares |-> "none"]
  /\ from = [s \in Shares |-> NoCache]
  /\ found = [s \in Shares |-> "none"]
  /\ got = [s \in Shares |-> <<>>]
  /\ began = <<>> /\ overlapped = {}

-----------------------------------------------------------------------------
(* storage.open: the Cache that has the name, created if there is none.    *)
Opened == IF named # NoCache THEN named ELSE created + 1
Open == named' = Opened /\ created' = IF named # NoCache THEN created ELSE created + 1

(* storage.delete: the name goes, whoever's Cache had it.                  *)
LeavesEarlier == UNCHANGED named
DropsEarlier == named' = NoCache

Stashing == {s \in Shares : stash[s] \in {"deleted", "opened"}}

(* The POST: an earlier share nobody claimed is dropped first.             *)
StashDelete(s) ==
  /\ stash[s] = "none"
  /\ stash' = [stash EXCEPT ![s] = "deleted"]
  /\ DropsEarlier
  /\ began' = Append(began, s)
  /\ overlapped' = IF Stashing = {} THEN overlapped
                   ELSE overlapped \cup Stashing \cup {s}
  /\ UNCHANGED <<created, index, bodies, into, takeVars>>

StashOpen(s) ==
  /\ stash[s] = "deleted"
  /\ stash' = [stash EXCEPT ![s] = "opened"]
  /\ Open
  /\ into' = [into EXCEPT ![s] = Opened]
  /\ UNCHANGED <<index, bodies, began, overlapped, takeVars>>

(* The bodies are put all at once, and land in any order; what lay at a    *)
(* position is replaced. The index comes last.                             *)
Put(s, i) == {b \in bodies[into[s]] : b[1] # i} \cup {<<i, s>>}

StashBody(s, i) ==
  /\ stash[s] = "opened"
  /\ <<i, s>> \notin bodies[into[s]]
  /\ bodies' = [bodies EXCEPT ![into[s]] = Put(s, i)]
  /\ UNCHANGED <<named, created, index, stashVars, takeVars>>

IndexEarly(s) == stash[s] = "opened"
AllPut(s) == \A i \in Positions(s) : <<i, s>> \in bodies[into[s]]

StashIndex(s) ==
  /\ stash[s] = "opened"
  /\ AllPut(s)
  /\ index' = [index EXCEPT ![into[s]] = s]
  /\ stash' = [stash EXCEPT ![s] = "done"]
  /\ UNCHANGED <<named, created, bodies, into, began, overlapped, takeVars>>

(* The worker ends: the page is told the share was missed.                 *)
WorkerEnds ==
  /\ Stashing # {}
  /\ stash' = [s \in Shares |-> IF s \in Stashing THEN "killed" ELSE stash[s]]
  /\ UNCHANGED <<into, began, overlapped, cacheVars, takeVars>>

-----------------------------------------------------------------------------
(* The page a finished stash leads to takes what is there.                 *)
TakeOpen(s) ==
  /\ stash[s] = "done" /\ take[s] = "none"
  /\ take' = [take EXCEPT ![s] = "opened"]
  /\ Open
  /\ from' = [from EXCEPT ![s] = Opened]
  /\ UNCHANGED <<index, bodies, found, got, stashVars>>

TakeIndex(s) ==
  /\ take[s] = "opened"
  /\ found' = [found EXCEPT ![s] = index[from[s]]]
  /\ take' = [take EXCEPT
                ![s] = IF index[from[s]] = "none" THEN "missed" ELSE "reading"]
  /\ UNCHANGED <<from, got, cacheVars, stashVars>>

(* One position after the other; an absent body is passed over.            *)
Read(s) == Len(got[s]) + 1

TakeBody(s) ==
  /\ take[s] = "reading"
  /\ Read(s) \in Positions(found[s])
  /\ LET here == {b[2] : b \in {x \in bodies[from[s]] : x[1] = Read(s)}} IN
       got' = [got EXCEPT ![s] = Append(@, here)]
  /\ UNCHANGED <<take, from, found, cacheVars, stashVars>>

TakeDelete(s) ==
  /\ take[s] = "reading"
  /\ Read(s) \notin Positions(found[s])
  /\ take' = [take EXCEPT ![s] = "taken"]
  /\ named' = NoCache
  /\ UNCHANGED <<created, index, bodies, from, found, got, stashVars>>

(* The page is closed before it is done.                                   *)
ClosePage(s) ==
  /\ stash[s] = "done" /\ take[s] \in {"none", "opened", "reading"}
  /\ take' = [take EXCEPT ![s] = "closed"]
  /\ UNCHANGED <<from, found, got, cacheVars, stashVars>>

-----------------------------------------------------------------------------
InboxNext ==
  \/ \E s \in Shares :
       \/ StashDelete(s) \/ StashOpen(s) \/ StashIndex(s)
       \/ \E i \in Positions(s) : StashBody(s, i)
       \/ TakeOpen(s) \/ TakeIndex(s) \/ TakeBody(s) \/ TakeDelete(s) \/ ClosePage(s)
  \/ WorkerEnds

InboxSpec == InboxInit /\ [][InboxNext]_inboxVars

-----------------------------------------------------------------------------
InboxTypeOK ==
  /\ named \in {NoCache} \cup Caches /\ created \in {NoCache} \cup Caches
  /\ index \in [Caches -> Shares \cup {"none"}]
  /\ bodies \in [Caches -> SUBSET (Nat \X Shares)]
  /\ stash \in [Shares -> {"none", "deleted", "opened", "done", "killed"}]
  /\ into \in [Shares -> {NoCache} \cup Caches]
  /\ take \in [Shares -> {"none", "opened", "reading", "taken", "missed", "closed"}]
  /\ from \in [Shares -> {NoCache} \cup Caches]
  /\ found \in [Shares -> Shares \cup {"none"}]
  /\ got \in [Shares -> Seq(SUBSET Shares)]
  /\ began \in Seq(Shares) /\ overlapped \subseteq Shares

(* What a page takes is one share, whole: every file its index names, and  *)
(* no file of another, whatever is stashed or killed while it reads        *)
(* (inbox.ts, "A partial stash therefore reads as no stash at all").       *)
(* Shares stashed at the same time may open the same Cache and are not     *)
(* told apart by the code.                                                 *)
TakenWhole ==
  \A s \in Shares : take[s] = "taken" /\ found[s] \notin overlapped =>
    got[s] = [i \in Positions(found[s]) |-> {found[s]}]

(* A share that is safely stashed is replaced by a later one or taken by a *)
(* page that has read it; it does not just vanish. inbox.ts:77 gives that  *)
(* as the reason for the Cache; takeShare ends by deleting whatever Cache  *)
(* has the name by then.                                                   *)
NeverVanishes ==
  \A s \in Shares :
    stash[s] = "done" /\ s = began[Len(began)] /\ named # into[s] =>
      \E p \in Shares : found[p] = s

=============================================================================
