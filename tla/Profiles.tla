------------------------------ MODULE Profiles ------------------------------
(***************************************************************************)
(* Players' rows in PostgreSQL and the requests that write them            *)
(* (internal/player): registration inserts a row and its event in one      *)
(* transaction; an update loads the row outside any transaction, changes   *)
(* the fields its input names, and saves the whole row and its event in    *)
(* one transaction.  PostgreSQL runs the transactions at read committed: a *)
(* writer waits for a transaction that holds the same row, or the same     *)
(* value in a unique index, and then sees what that one committed.         *)
(***************************************************************************)
EXTENDS Naturals

CONSTANTS
  Players,   \* player ids
  Names,     \* usernames
  Mails,     \* e-mail addresses
  Calls,     \* requests, each made at most once
  None       \* a field that is not given

ASSUME ProfilesAssumption == None \notin Names \cup Mails

VARIABLES
  row,      \* row[p]: the committed row of p
  pc,       \* pc[c]: how far request c has come
  who,      \* who[c]: its player
  input,    \* input[c]: the fields it gives
  copy,     \* copy[c]: the Player struct it works on
  stamp,    \* stamp[c]: created_at of its event in outbox_events, 0 if there is none
  clock     \* the time of the last stamp

outbox == <<stamp, clock>>
profileVars == <<row, pc, who, input, copy, stamp, clock>>

NoRow == [name |-> None, mail |-> None]
Rows == [name : Names, mail : Mails]
Inputs == [name : Names \cup {None}, mail : Mails \cup {None}]

ProfilesTypeOK ==
  /\ row \in [Players -> Rows \cup {NoRow}]
  /\ pc \in [Calls -> {"new", "load", "write", "insert", "commit", "done", "error"}]
  /\ who \in [Calls -> Players]
  /\ input \in [Calls -> Inputs] /\ copy \in [Calls -> Inputs]
  /\ clock \in Nat /\ stamp \in [Calls -> 0..clock]

ProfilesInit ==
  /\ row = [p \in Players |-> NoRow]
  /\ pc = [c \in Calls |-> "new"]
  /\ who \in [Calls -> Players]
  /\ input = [c \in Calls |-> NoRow] /\ copy = [c \in Calls |-> NoRow]
  /\ clock = 0 /\ stamp = [c \in Calls |-> 0]

Goto(c, label) == pc' = [pc EXCEPT ![c] = label]

\* Requests in an open transaction that has written its row.
Open == {c \in Calls : pc[c] \in {"insert", "commit"}}

Clash(r, s) == r.name = s.name \/ r.mail = s.mail

\* The fields of in that are given replace those of r.
Patch(r, in) ==
  [name |-> IF in.name = None THEN r.name ELSE in.name,
   mail |-> IF in.mail = None THEN r.mail ELSE in.mail]

-----------------------------------------------------------------------------
\* Register: a fresh id and both fields.
Register(c, in) ==
  /\ pc[c] = "new" /\ in \in Rows
  /\ row[who[c]] = NoRow
  /\ \A d \in Calls \ {c} : who[d] = who[c] => pc[d] \in {"new", "load", "error"}
  /\ copy' = [copy EXCEPT ![c] = in] /\ input' = [input EXCEPT ![c] = in]
  /\ Goto(c, "write")
  /\ UNCHANGED <<row, who, outbox>>

\* updateProfile: the caller's own id, the fields given.
Update(c, in) ==
  /\ pc[c] = "new"
  /\ input' = [input EXCEPT ![c] = in]
  /\ Goto(c, "load")
  /\ UNCHANGED <<row, who, copy, outbox>>

\* UpdateProfile, GetByID and the changes, in memory.
Load(c) ==
  /\ pc[c] = "load"
  /\ IF row[who[c]] = NoRow
     THEN Goto(c, "error") /\ UNCHANGED copy
     ELSE copy' = [copy EXCEPT ![c] = Patch(row[who[c]], input[c])] /\ Goto(c, "write")
  /\ UNCHANGED <<row, who, input, outbox>>

\* A uniqueness check by a query, which does not see open transactions.
Write_CheckByQuery(c) ==
  /\ pc[c] = "write"
  /\ \A d \in Open : who[d] # who[c]
  /\ Goto(c, IF \E p \in Players \ {who[c]} : row[p] # NoRow /\ Clash(row[p], copy[c])
             THEN "error" ELSE "insert")
  /\ UNCHANGED <<row, who, input, copy, outbox>>

\* A write that does not lock the row.
Write_NoRowLock(c) ==
  /\ pc[c] = "write"
  /\ \A d \in Open : who[d] = who[c] \/ ~Clash(copy[d], copy[c])
  /\ Goto(c, IF \E p \in Players \ {who[c]} : row[p] # NoRow /\ Clash(row[p], copy[c])
             THEN "error" ELSE "insert")
  /\ UNCHANGED <<row, who, input, copy, outbox>>

\* tx.Create or tx.Save: waits for the row and for the unique keys; translate
\* turns a unique violation into ErrDuplicate, and the transaction is undone.
Write(c) ==
  /\ pc[c] = "write"
  /\ \A d \in Open : who[d] # who[c] /\ ~Clash(copy[d], copy[c])
  /\ Goto(c, IF \E p \in Players \ {who[c]} : row[p] # NoRow /\ Clash(row[p], copy[c])
             THEN "error" ELSE "insert")
  /\ UNCHANGED <<row, who, input, copy, outbox>>

\* Publisher.Publish on the transaction: the event, stamped with the time.
Insert(c) ==
  /\ pc[c] = "insert"
  /\ clock' = clock + 1
  /\ stamp' = [stamp EXCEPT ![c] = clock + 1]
  /\ Goto(c, "commit")
  /\ UNCHANGED <<row, who, input, copy>>

\* The transaction commits row and event.
Commit(c) ==
  /\ pc[c] = "commit"
  /\ row' = [row EXCEPT ![who[c]] = copy[c]]
  /\ Goto(c, "done")
  /\ UNCHANGED <<who, input, copy, outbox>>

\* A statement or the process fails: the transaction is rolled back.
Fail(c) ==
  /\ pc[c] \in {"load", "write", "insert", "commit"}
  /\ stamp' = [stamp EXCEPT ![c] = 0]
  /\ Goto(c, "error")
  /\ UNCHANGED <<row, who, input, copy, clock>>

ProfilesNext ==
  \E c \in Calls :
    \/ \E in \in Inputs : Register(c, in) \/ Update(c, in)
    \/ Load(c) \/ Write(c) \/ Insert(c) \/ Commit(c) \/ Fail(c)

ProfilesSpec == ProfilesInit /\ [][ProfilesNext]_profileVars

-----------------------------------------------------------------------------
(* What the player store promises *)

\* The unique columns behind login: no two players share a username or an
\* e-mail address, whatever registrations and updates race each other.
IdentityUnique ==
  \A p, q \in Players :
    p # q /\ row[p] # NoRow /\ row[q] # NoRow => ~Clash(row[p], row[q])

\* UpdateWithOutbox: of a player's committed events the one stamped last tells
\* what the row now holds, since the stamp is taken while the row is locked.
\* Every variable keeps its type.
LastEventTellsRow ==
  /\ ProfilesTypeOK
  /\ \A p \in Players :
       LET committed == {c \in Calls : pc[c] = "done" /\ who[c] = p /\ stamp[c] # 0}
       IN  row[p] # NoRow =>
             \E c \in committed : /\ copy[c] = row[p]
                                  /\ \A d \in committed \ {c} : stamp[d] < stamp[c]

-----------------------------------------------------------------------------
(* A sentence of the documentation that the code does not keep *)

\* service_test.go on UpdateProfile: "unset fields stay unchanged".
UnsetFieldsUnchanged ==
  [][\A c \in Calls :
       Commit(c) => /\ input[c].name = None => row'[who[c]].name = row[who[c]].name
                    /\ input[c].mail = None => row'[who[c]].mail = row[who[c]].mail]_profileVars
=============================================================================
