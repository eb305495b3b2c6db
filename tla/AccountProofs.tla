--------------------------- MODULE AccountProofs ----------------------------
(***************************************************************************)
(* Theorems about the account of a player: its row and events (Profiles)   *)
(* and its session (Sessions), for any number of players, names, requests, *)
(* replicas and connections and every lifetime and latency.                *)
(*                                                                         *)
(* Uniqueness of the committed rows is kept by what holds of transactions  *)
(* that have written and not yet committed: no two of them concern one     *)
(* player or share a key (Locked), and none shares a key with another      *)
(* player's committed row (Checked), though that row may have been         *)
(* committed after the write.  Events are stamped under the same lock, so  *)
(* an open one is later than its player's committed ones (StampInv).       *)
(*                                                                         *)
(* The argument for the revocation bound: a lookup that saw a session now  *)
(* deleted was sent before the deletion, so the session has been deleted   *)
(* for no longer than the lookup has been under way (since <= wait[q]); a  *)
(* cached verdict from such a lookup has less than what remains of the     *)
(* window to live (since + left <= Window); and a deleted session is never *)
(* saved again, since a token is issued once.                              *)
(***************************************************************************)
EXTENDS Profiles, Sessions, TLAPS

-----------------------------------------------------------------------------
(* The rows: Profiles *)

\* What is kept of a request's working copy: once it is to be written, it is whole.
Whole ==
  /\ row \in [Players -> Rows \cup {NoRow}]
  /\ pc \in [Calls -> {"new", "load", "write", "insert", "commit", "done", "error"}]
  /\ who \in [Calls -> Players]
  /\ input \in [Calls -> Inputs] /\ copy \in [Calls -> Inputs]
  /\ \A c \in Calls : pc[c] \in {"write", "insert", "commit"} => copy[c] \in Rows

Locked == \A c, d \in Open : c # d => who[c] # who[d] /\ ~Clash(copy[c], copy[d])

Checked ==
  \A c \in Open, p \in Players :
    p # who[c] /\ row[p] # NoRow => ~Clash(row[p], copy[c])

ProfilesInv == Whole /\ Locked /\ Checked /\ IdentityUnique

-----------------------------------------------------------------------------
\* The absent row is an input like any other, but not a row.
LEMMA NoRowTyped == NoRow \in Inputs /\ NoRow \notin Rows
  BY ProfilesAssumption DEF NoRow, Inputs, Rows

\* A whole row could have come as an input.
LEMMA RowsAreInputs == Rows \subseteq Inputs
  BY DEF Rows, Inputs

\* Sharing a key is mutual.
LEMMA ClashSymmetric == \A r, s : Clash(r, s) <=> Clash(s, r)
  BY DEF Clash

\* A row with some of its fields replaced is still whole.
LEMMA PatchTyped == ASSUME NEW r \in Rows, NEW in \in Inputs PROVE Patch(r, in) \in Rows
  BY DEF Patch, Rows, Inputs

\* The empty table satisfies the invariant.
LEMMA ProfilesInitInv == ProfilesInit => ProfilesInv
  BY NoRowTyped DEF ProfilesInit, ProfilesInv, Whole, Locked, Checked, IdentityUnique, Open

\* A step that opens no transaction and commits nothing, and changes only copies of
\* requests that are not in one.
LEMMA OutsideInv ==
  ASSUME ProfilesInv, Whole', row' = row, who' = who, Open' \subseteq Open,
         \A c \in Open : copy'[c] = copy[c]
  PROVE  ProfilesInv'
<1>1. Locked' /\ Checked'
  BY DEF ProfilesInv, Locked, Checked, Clash
<1>2. IdentityUnique'
  BY DEF ProfilesInv, IdentityUnique, Clash
<1> QED
  BY <1>1, <1>2 DEF ProfilesInv

\* A request arrives.
LEMMA RegisterInv ==
  ASSUME ProfilesInv, NEW c \in Calls, NEW in \in Inputs, Register(c, in) \/ Update(c, in)
  PROVE  ProfilesInv'
<1>1. Whole'
  BY RowsAreInputs DEF ProfilesInv, Whole, Register, Update, Goto
<1>2. Open' \subseteq Open /\ \A d \in Open : copy'[d] = copy[d]
  BY DEF ProfilesInv, Whole, Register, Update, Goto, Open
<1> QED
  BY <1>1, <1>2, OutsideInv DEF Register, Update

\* UpdateMe reads the row it will change.
LEMMA LoadInv == ASSUME ProfilesInv, NEW c \in Calls, Load(c) PROVE ProfilesInv'
<1>1. CASE row[who[c]] = NoRow
  <2>1. Whole' /\ Open' \subseteq Open /\ copy' = copy
    BY <1>1 DEF ProfilesInv, Whole, Load, Goto, Open
  <2> QED
    BY <2>1, OutsideInv DEF Load
<1>2. CASE row[who[c]] # NoRow
  <2> DEFINE new == Patch(row[who[c]], input[c])
  <2>1. new \in Rows
    BY <1>2, PatchTyped DEF ProfilesInv, Whole
  <2>2. copy' = [copy EXCEPT ![c] = new] /\ pc' = [pc EXCEPT ![c] = "write"]
    BY <1>2 DEF Load, Goto
  <2> HIDE DEF new
  <2>3. Whole' /\ Open' \subseteq Open /\ \A d \in Open : copy'[d] = copy[d]
    BY <2>1, <2>2, RowsAreInputs DEF ProfilesInv, Whole, Load, Open
  <2> QED
    BY <2>3, OutsideInv DEF Load
<1> QED
  BY <1>1, <1>2

\* The write waits for the locks of the open transactions, and fails on a key that
\* another player's row holds.
LEMMA WriteInv == ASSUME ProfilesInv, NEW c \in Calls, Write(c) PROVE ProfilesInv'
<1>1. CASE \E p \in Players \ {who[c]} : row[p] # NoRow /\ Clash(row[p], copy[c])
  <2>1. pc' = [pc EXCEPT ![c] = "error"]
    BY <1>1, Zenon DEF Write, Goto
  <2>2. Whole' /\ Open' \subseteq Open
    BY <2>1 DEF ProfilesInv, Whole, Write, Open
  <2> QED
    BY <2>2, OutsideInv DEF Write
<1>2. CASE ~\E p \in Players \ {who[c]} : row[p] # NoRow /\ Clash(row[p], copy[c])
  <2>1. pc' = [pc EXCEPT ![c] = "insert"]
    BY <1>2 DEF Write, Goto
  <2>2. Whole' /\ Open' = Open \cup {c}
    BY <2>1 DEF ProfilesInv, Whole, Write, Open
  <2>3. Locked'
    BY <2>2, ClashSymmetric DEF ProfilesInv, Locked, Write, Clash
  <2>4. Checked' /\ IdentityUnique'
    BY <1>2, <2>2 DEF ProfilesInv, Checked, IdentityUnique, Write, Clash
  <2> QED
    BY <2>2, <2>3, <2>4 DEF ProfilesInv
<1> QED
  BY <1>1, <1>2

\* Publish on the transaction, and a rollback.
LEMMA InsertFailInv ==
  ASSUME ProfilesInv, NEW c \in Calls, Insert(c) \/ Fail(c)
  PROVE  ProfilesInv'
<1>1. Whole' /\ Open' \subseteq Open
  BY DEF ProfilesInv, Whole, Insert, Fail, Goto, Open
<1> QED
  BY <1>1, OutsideInv DEF Insert, Fail

\* The row that appears shares no key with a committed one, because its write was
\* checked, nor with an open one, because of the lock.
LEMMA CommitInv == ASSUME ProfilesInv, NEW c \in Calls, Commit(c) PROVE ProfilesInv'
<1>1. c \in Open /\ Open' = Open \ {c}
  BY DEF ProfilesInv, Whole, Commit, Goto, Open
<1>2. copy[c] \in Rows /\ who[c] \in Players
  BY DEF ProfilesInv, Whole, Commit
<1>3. Whole'
  BY <1>2 DEF ProfilesInv, Whole, Commit, Goto
<1>4. \A p \in Players : row'[p] = IF p = who[c] THEN copy[c] ELSE row[p]
  BY DEF ProfilesInv, Whole, Commit
<1>5. Locked'
  BY <1>1 DEF ProfilesInv, Locked, Commit, Clash
<1>6. Checked'
  BY <1>1, <1>4 DEF ProfilesInv, Locked, Checked, Commit, Clash
<1>7. IdentityUnique'
  BY <1>1, <1>2, <1>4 DEF ProfilesInv, Checked, IdentityUnique, Clash
<1> QED
  BY <1>3, <1>5, <1>6, <1>7 DEF ProfilesInv

\* Every step keeps the invariant of the rows.
LEMMA ProfilesNextInv == ProfilesInv /\ [ProfilesNext]_profileVars => ProfilesInv'
<1> SUFFICES ASSUME ProfilesInv, [ProfilesNext]_profileVars PROVE ProfilesInv'
  OBVIOUS
<1>1. CASE UNCHANGED profileVars
  <2>1. Whole' /\ Open' \subseteq Open
    BY <1>1 DEF profileVars, ProfilesInv, Whole, Open
  <2> QED
    BY <1>1, <2>1, OutsideInv DEF profileVars
<1> QED
  BY <1>1, RegisterInv, LoadInv, WriteInv, InsertFailInv, CommitInv DEF ProfilesNext

-----------------------------------------------------------------------------
\* Events are stamped while their row is locked: one not yet committed is later than
\* all committed ones of its player, and of these the last has the row's contents.
LaterThanCommitted ==
  \A c, d \in Calls :
    pc[c] = "commit" /\ pc[d] = "done" /\ who[d] = who[c] => stamp[d] < stamp[c]

\* The event of c is the last committed one of p, and tells its row.
Tells(p, c) ==
  /\ pc[c] = "done" /\ who[c] = p /\ copy[c] = row[p]
  /\ \A d \in Calls \ {c} : pc[d] = "done" /\ who[d] = p => stamp[d] < stamp[c]

StampInv ==
  /\ clock \in Nat /\ stamp \in [Calls -> 0..clock]
  /\ \A c \in Calls : pc[c] \in {"commit", "done"} => stamp[c] # 0
  /\ LaterThanCommitted
  /\ \A p \in Players : row[p] # NoRow => \E c \in Calls : Tells(p, c)

\* No event has a stamp in the beginning.
LEMMA StampInitInv == ProfilesInit => StampInv
  BY DEF ProfilesInit, StampInv, LaterThanCommitted

\* A step that neither inserts an event nor commits one.
LEMMA NoEventInv ==
  ASSUME ProfilesInv, StampInv, row' = row, who' = who, stamp' = stamp, clock' = clock,
         \A c \in Calls : /\ pc'[c] \in {"commit", "done"} <=> pc[c] \in {"commit", "done"}
                          /\ pc[c] \in {"commit", "done"} => pc'[c] = pc[c] /\ copy'[c] = copy[c]
  PROVE  StampInv'
<1>1. \A c \in Calls : (pc'[c] = "commit" <=> pc[c] = "commit") /\ (pc'[c] = "done" <=> pc[c] = "done")
  BY Zenon
<1>2. \A p \in Players, c \in Calls : Tells(p, c) => Tells(p, c)'
  BY <1>1 DEF Tells
<1> QED
  BY <1>1, <1>2 DEF StampInv, LaterThanCommitted

\* Publish: a new event is later than every other one.
LEMMA EventInsertInv ==
  ASSUME ProfilesInv, StampInv, NEW c \in Calls, Insert(c)
  PROVE  StampInv'
<1>1. /\ pc[c] = "insert" /\ clock' = clock + 1 /\ stamp' = [stamp EXCEPT ![c] = clock + 1]
      /\ pc' = [pc EXCEPT ![c] = "commit"] /\ UNCHANGED <<row, who, copy>>
  BY DEF Insert, Goto
<1>2. pc \in [Calls -> {"new", "load", "write", "insert", "commit", "done", "error"}]
  BY DEF ProfilesInv, Whole
<1>3. clock \in Nat /\ stamp \in [Calls -> 0..clock]
  BY DEF StampInv
<1>4. clock' \in Nat /\ stamp' \in [Calls -> 0..clock']
  BY <1>1, <1>3
<1>5. /\ stamp'[c] = clock + 1 /\ pc'[c] = "commit"
      /\ \A d \in Calls \ {c} : stamp'[d] = stamp[d] /\ pc'[d] = pc[d] /\ stamp[d] < clock + 1
  BY <1>1, <1>2, <1>3
<1>6. \A d \in Calls : pc'[d] \in {"commit", "done"} => stamp'[d] # 0
  BY <1>3, <1>5 DEF StampInv
<1>7. LaterThanCommitted'
  BY <1>1, <1>5 DEF StampInv, LaterThanCommitted
<1>8. \A p \in Players, d \in Calls : Tells(p, d) => Tells(p, d)'
  BY <1>1, <1>5 DEF Tells
<1> QED
  BY <1>1, <1>4, <1>6, <1>7, <1>8 DEF StampInv

\* A rollback takes its event with it, and no committed one.
LEMMA EventFailInv ==
  ASSUME ProfilesInv, StampInv, NEW c \in Calls, Fail(c)
  PROVE  StampInv'
<1>1. /\ pc[c] # "done" /\ clock' = clock /\ stamp' = [stamp EXCEPT ![c] = 0]
      /\ pc' = [pc EXCEPT ![c] = "error"] /\ UNCHANGED <<row, who, copy>>
  BY DEF Fail, Goto
<1>2. pc \in [Calls -> {"new", "load", "write", "insert", "commit", "done", "error"}]
  BY DEF ProfilesInv, Whole
<1>3. clock \in Nat /\ stamp \in [Calls -> 0..clock]
  BY DEF StampInv
<1>4. stamp' \in [Calls -> 0..clock']
  BY <1>1, <1>3
<1>5. pc'[c] = "error" /\ \A d \in Calls \ {c} : stamp'[d] = stamp[d] /\ pc'[d] = pc[d]
  BY <1>1, <1>2, <1>3
<1>6. LaterThanCommitted' /\ \A d \in Calls : pc'[d] \in {"commit", "done"} => stamp'[d] # 0
  BY <1>1, <1>5 DEF StampInv, LaterThanCommitted
<1>7. \A p \in Players, d \in Calls : Tells(p, d) => Tells(p, d)'
  BY <1>1, <1>5 DEF Tells
<1> QED
  BY <1>1, <1>3, <1>4, <1>6, <1>7 DEF StampInv

\* The event that is committed is its player's last, because no other transaction
\* of the player is open beside it.
LEMMA EventCommitInv ==
  ASSUME ProfilesInv, StampInv, NEW c \in Calls, Commit(c)
  PROVE  StampInv'
<1>1. /\ pc[c] = "commit" /\ row' = [row EXCEPT ![who[c]] = copy[c]]
      /\ pc' = [pc EXCEPT ![c] = "done"] /\ UNCHANGED <<who, copy, stamp, clock>>
  BY DEF Commit, Goto, outbox
<1>2. /\ pc \in [Calls -> {"new", "load", "write", "insert", "commit", "done", "error"}]
      /\ row \in [Players -> Rows \cup {NoRow}] /\ who \in [Calls -> Players]
  BY DEF ProfilesInv, Whole
<1>3. pc'[c] = "done" /\ \A d \in Calls \ {c} : pc'[d] = pc[d]
  BY <1>1, <1>2
<1>4. \A d \in Calls \ {c} : pc[d] = "commit" => who[d] # who[c]
  BY <1>1 DEF ProfilesInv, Locked, Open
<1>5. LaterThanCommitted' /\ \A d \in Calls : pc'[d] \in {"commit", "done"} => stamp'[d] # 0
  BY <1>1, <1>3, <1>4 DEF StampInv, LaterThanCommitted
<1>6. Tells(who[c], c)'
  <2>1. row'[who[c]] = copy[c]
    BY <1>1, <1>2
  <2>2. \A d \in Calls \ {c} : pc[d] = "done" /\ who[d] = who[c] => stamp[d] < stamp[c]
    BY <1>1 DEF StampInv, LaterThanCommitted
  <2> QED
    BY <1>1, <1>3, <2>1, <2>2 DEF Tells
<1>7. \A p \in Players, d \in Calls : p # who[c] /\ Tells(p, d) => Tells(p, d)'
  <2>1. \A p \in Players : p # who[c] => row'[p] = row[p]
    BY <1>1, <1>2
  <2> QED
    BY <1>1, <1>3, <2>1 DEF Tells
<1>8. \A p \in Players : row'[p] # NoRow => \E d \in Calls : Tells(p, d)'
  <2>1. \A p \in Players : p # who[c] => row'[p] = row[p]
    BY <1>1, <1>2
  <2> QED
    BY <1>1, <1>6, <1>7, <2>1 DEF StampInv
<1>9. clock' \in Nat /\ stamp' \in [Calls -> 0..clock']
  BY <1>1 DEF StampInv
<1> QED
  BY <1>5, <1>8, <1>9 DEF StampInv

\* Every step keeps the invariant of the events.
LEMMA StampNextInv == ProfilesInv /\ StampInv /\ [ProfilesNext]_profileVars => StampInv'
<1> SUFFICES ASSUME ProfilesInv, StampInv, [ProfilesNext]_profileVars PROVE StampInv'
  OBVIOUS
<1>0. /\ pc \in [Calls -> {"new", "load", "write", "insert", "commit", "done", "error"}]
      /\ copy \in [Calls -> Inputs]
  BY DEF ProfilesInv, Whole
<1>1. CASE UNCHANGED profileVars
  BY <1>1, NoEventInv DEF profileVars
<1>2. ASSUME NEW c \in Calls, NEW in \in Inputs, Register(c, in) \/ Update(c, in) PROVE StampInv'
  BY <1>0, <1>2, NoEventInv DEF Register, Update, Goto, outbox
<1>3. ASSUME NEW c \in Calls, Load(c) PROVE StampInv'
  <2>1. /\ pc[c] = "load" /\ UNCHANGED <<row, who, stamp, clock>>
        /\ \E l \in {"error", "write"} : pc' = [pc EXCEPT ![c] = l]
        /\ \A d \in Calls \ {c} : copy'[d] = copy[d]
    BY <1>0, <1>3 DEF Load, Goto, outbox
  <2> QED
    BY <1>0, <2>1, NoEventInv
<1>4. ASSUME NEW c \in Calls, Write(c) PROVE StampInv'
  <2>1. /\ pc[c] = "write" /\ UNCHANGED <<row, who, copy, stamp, clock>>
        /\ \E l \in {"error", "insert"} : pc' = [pc EXCEPT ![c] = l]
    BY <1>4, Zenon DEF Write, Goto, outbox
  <2> QED
    BY <1>0, <2>1, NoEventInv
<1> QED
  BY <1>1, <1>2, <1>3, <1>4, EventInsertInv, EventFailInv, EventCommitInv DEF ProfilesNext

\* CreateWithOutbox and UpdateWithOutbox over the unique columns, for any number of
\* racing requests: no two players ever share a username or an e-mail address.
THEOREM ProfilesUnique == ProfilesSpec => []IdentityUnique
<1>1. ProfilesInv => IdentityUnique
  BY DEF ProfilesInv
<1> QED
  BY <1>1, ProfilesInitInv, ProfilesNextInv, PTL DEF ProfilesSpec

\* UpdateWithOutbox inserts the event in the transaction that holds the row: of a
\* player's committed events the one stamped last tells what the row holds, for any
\* number of racing updates and rollbacks.
THEOREM LastEventIsRow == ProfilesSpec => []LastEventTellsRow
<1>1. ProfilesInv /\ StampInv => LastEventTellsRow
  <2> SUFFICES ASSUME ProfilesInv, StampInv PROVE LastEventTellsRow
    OBVIOUS
  <2>1. ProfilesTypeOK
    BY DEF ProfilesInv, Whole, StampInv, ProfilesTypeOK
  <2>2. ASSUME NEW p \in Players, NEW c \in Calls, Tells(p, c)
        PROVE  /\ c \in {d \in Calls : pc[d] = "done" /\ who[d] = p /\ stamp[d] # 0}
               /\ copy[c] = row[p]
               /\ \A d \in {e \in Calls : pc[e] = "done" /\ who[e] = p /\ stamp[e] # 0} \ {c} :
                    stamp[d] < stamp[c]
    BY <2>2 DEF Tells, StampInv
  <2> QED
    BY <2>1, <2>2 DEF StampInv, LastEventTellsRow
<1> QED
  BY <1>1, ProfilesInitInv, ProfilesNextInv, StampInitInv, StampNextInv, PTL DEF ProfilesSpec

-----------------------------------------------------------------------------
(* The session: Sessions *)

\* A session that was never issued has left no trace in the gateway.
NotIssued ==
  token = "none" => cache = "none" /\ \A q \in Requests : check[q] = "none"

\* Deleted sessions stay deleted, and age only once they are.
DeletedForGood ==
  /\ Revoked => token # "none" /\ key = FALSE
  /\ ~Revoked => since = 0

\* What may still say yes of a deleted session, and for how long.
StaleYes ==
  /\ cache # "none" => left > 0
  /\ Revoked /\ cache = "yes" => since + left <= Window
  /\ \A q \in Requests : Revoked /\ check[q] = "yes" => since <= wait[q]

\* While nothing fails, a token in use has its session.
LiveKey ==
  token = "valid" /\ logout = "none" /\ faults = 0 => key = TRUE

SessionsInv ==
  TypeOK /\ NotIssued /\ DeletedForGood /\ StaleYes /\ LiveKey /\ NoFalseReject

-----------------------------------------------------------------------------
\* Before the login the invariant holds.
LEMMA SessionsInitInv == Init => SessionsInv
<1> SUFFICES ASSUME Init PROVE SessionsInv
  OBVIOUS
<1>1. key \in BOOLEAN
  BY Zenon DEF Init
<1> QED
  BY <1>1, SessionsAssumption
  DEF Init, SessionsInv, TypeOK, NotIssued, DeletedForGood, StaleYes, LiveKey,
      NoFalseReject, Revoked, Verdicts, Window

\* Nothing the WebSocket replicas do touches what the gateway's promise is about.
LEMMA SocketsInv ==
  ASSUME SessionsInv, loginVars' = loginVars, gateVars' = gateVars,
         faults' \in 0..MaxFaults, faults' = 0 => faults = 0,
         conn' \in [Conns -> {"none", "checked", "open", "closing", "closed"}],
         events' \in SUBSET Sockets, sweep' \in [Sockets -> SUBSET Conns]
  PROVE  SessionsInv'
  BY DEF SessionsInv, TypeOK, NotIssued, DeletedForGood, StaleYes, LiveKey,
         NoFalseReject, Revoked, Verdicts, Window, loginVars, gateVars

\* Login saves the session and, once, its token.
LEMMA LoginInv == SessionsInv /\ Login => SessionsInv'
<1> SUFFICES ASSUME SessionsInv, Login PROVE SessionsInv'
  OBVIOUS
<1>1. key' \in BOOLEAN
  BY Zenon DEF Login
<1> QED
  BY <1>1, SessionsAssumption
  DEF SessionsInv, TypeOK, NotIssued, DeletedForGood, StaleYes, LiveKey, NoFalseReject,
      Revoked, Verdicts, Window, Login, CacheSet, Fault, sockVars

\* Logout evicts, deletes and announces.
LEMMA LogoutInv == SessionsInv /\ Logout => SessionsInv'
<1> SUFFICES ASSUME SessionsInv, Logout PROVE SessionsInv'
  OBVIOUS
<1> USE SessionsAssumption
    DEF SessionsInv, TypeOK, NotIssued, DeletedForGood, StaleYes, LiveKey, NoFalseReject,
        Revoked, Verdicts, Window, Fault, sockVars, gateVars
<1>1. CASE Evict
  BY <1>1 DEF Evict
<1>2. CASE Delete
  <2>1. key' \in BOOLEAN
    BY <1>2, Zenon DEF Delete
  <2> QED
    BY <1>2, <2>1 DEF Delete
<1>3. CASE Announce
  BY <1>3 DEF Announce
<1> QED
  BY <1>1, <1>2, <1>3, Zenon DEF Logout

\* Token and session expire on their own clocks.
LEMMA ExpiryInv == SessionsInv /\ (ExpireToken \/ ExpireKey) => SessionsInv'
  BY Zenon DEF SessionsInv, TypeOK, NotIssued, DeletedForGood, StaleYes, LiveKey, NoFalseReject,
         Revoked, Verdicts, Window, ExpireToken, ExpireKey, sockVars, gateVars

\* A tick ages lookups, verdicts and deleted sessions alike.
LEMMA TickInv == SessionsInv /\ Tick => SessionsInv'
  BY SessionsAssumption
  DEF SessionsInv, TypeOK, NotIssued, DeletedForGood, StaleYes, LiveKey, NoFalseReject,
      Revoked, Verdicts, Window, Tick, sockVars

\* A lookup reads before or after the deletion, and its verdict is cached.
LEMMA RequestInv ==
  ASSUME SessionsInv, NEW q \in Requests, Ask(q) \/ Request(q) \/ AskError(q)
  PROVE  SessionsInv'
<1> USE SessionsAssumption
    DEF SessionsInv, TypeOK, NotIssued, DeletedForGood, StaleYes, LiveKey, NoFalseReject,
        Revoked, Verdicts, Window, loginVars, sockVars
<1>1. CASE Ask(q)
  BY <1>1 DEF Ask
<1>2. CASE Read(q)
  BY <1>2 DEF Read
<1>3. CASE Answer(q)
  BY <1>3 DEF Answer, CacheSet
<1>4. CASE AskError(q)
  BY <1>4 DEF AskError, Fault
<1> QED
  BY <1>1, <1>2, <1>3, <1>4, Zenon DEF Request

\* A connection of the WebSocket gateway comes or goes.
LEMMA ConnInv ==
  ASSUME SessionsInv, NEW c \in Conns, Handshake(c) \/ Upgrade(c) \/ Unregister(c)
  PROVE  SessionsInv'
<1>1. /\ loginVars' = loginVars /\ gateVars' = gateVars
      /\ events' = events /\ sweep' = sweep
      /\ conn' \in [Conns -> {"none", "checked", "open", "closing", "closed"}]
      /\ faults' \in 0..MaxFaults /\ (faults' = 0 => faults = 0)
  BY SessionsAssumption
  DEF SessionsInv, TypeOK, Handshake, Upgrade, Unregister, Fault, loginVars, gateVars
<1> QED
  BY <1>1, SocketsInv DEF SessionsInv, TypeOK

\* A replica hears of a logout, or sweeps.
LEMMA SocketInv ==
  ASSUME SessionsInv, NEW w \in Sockets, Socket(w) \/ MissEvent(w) \/ SweepError(w)
  PROVE  SessionsInv'
<1>1. \A S : CloseWith(S) \in [Conns -> {"none", "checked", "open", "closing", "closed"}]
  BY DEF CloseWith, SessionsInv, TypeOK
<1>2. Held(w) \subseteq Conns
  BY DEF Held
<1>3. /\ loginVars' = loginVars /\ gateVars' = gateVars
      /\ events' \in SUBSET Sockets /\ sweep' \in [Sockets -> SUBSET Conns]
      /\ conn' \in [Conns -> {"none", "checked", "open", "closing", "closed"}]
      /\ faults' \in 0..MaxFaults /\ (faults' = 0 => faults = 0)
  BY <1>1, <1>2, SessionsAssumption
  DEF SessionsInv, TypeOK, Socket, Dispatch, SweepClients, SweepSessions, MissEvent,
      SweepError, Fault, loginVars, gateVars
<1> QED
  BY <1>3, SocketsInv

\* Every step keeps the invariant of the sessions.
LEMMA SessionsNextInv == SessionsInv /\ [Next]_vars => SessionsInv'
<1> SUFFICES ASSUME SessionsInv, [Next]_vars PROVE SessionsInv'
  OBVIOUS
<1>1. CASE UNCHANGED vars
  BY <1>1, SocketsInv DEF vars, loginVars, gateVars, SessionsInv, TypeOK
<1> QED
  BY <1>1, LoginInv, LogoutInv, ExpiryInv, TickInv, RequestInv, ConnInv, SocketInv
  DEF Next

\* The invariant holds throughout.
LEMMA SessionsAlwaysInv == Spec => []SessionsInv
  BY SessionsInitInv, SessionsNextInv, PTL DEF Spec

-----------------------------------------------------------------------------
\* cachedSessionStore and Auth, for every lifetime, latency and number of racing
\* lookups: once a session has been deleted for the cache's lifetime and the
\* longest lookup, this gateway no longer takes it for a live one.
THEOREM RevocationWindow == Spec => []RevocationBounded
<1>1. SessionsInv => RevocationBounded
  BY SessionsAssumption
  DEF SessionsInv, TypeOK, DeletedForGood, StaleYes, RevocationBounded, Revoked, Window
<1> QED
  BY <1>1, SessionsAlwaysInv, PTL

\* While neither Redis nor the event bus fails, no request of a session that was
\* issued and not logged out is turned away, whatever lookups are under way.
THEOREM LiveSessionsPass == Spec => []NoFalseReject
<1>1. SessionsInv => NoFalseReject
  BY DEF SessionsInv
<1> QED
  BY <1>1, SessionsAlwaysInv, PTL
=============================================================================
