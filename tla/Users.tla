--------------------------------- MODULE Users ---------------------------------
(***************************************************************************)
(* user-service: accounts, profiles and delivery addresses.                *)
(*                                                                         *)
(* A user has one default address as soon as there is any.  Three          *)
(* transactions see to that: the first address becomes the default, a new  *)
(* default clears the old one, and deleting it promotes the lowest id left.*)
(* Each takes several statements, and some decide by a SELECT that takes no*)
(* lock.                                                                   *)
(*                                                                         *)
(* MySQL at REPEATABLE READ, modelled by what it does for these statements:*)
(* a SELECT sees what is committed and what its own transaction has        *)
(* written; a write sees the latest rows, waits for those another          *)
(* transaction has written, and locks its own until the end; an UPDATE by  *)
(* user_id locks that user's range of the index, which keeps new rows out. *)
(* Whoever waits may be rolled back, as the victim of a deadlock or at the *)
(* lock wait timeout.                                                      *)
(*                                                                         *)
(* Left out: what an address says beyond is_default, passwords and tokens, *)
(* and the checks of a request that fail before its transaction begins.    *)
(***************************************************************************)
EXTENDS Integers, FiniteSets, SharedNames

CONSTANTS
  Owners,           \* users
  AddressCalls,     \* calls that change addresses, one after the other
  MaxAddressId,     \* bound: addresses that are ever inserted
  MaxProfile        \* bound: profile_version

AddressIds == 1 .. MaxAddressId

Address == [owner : Owners, isDefault : BOOLEAN]

ASSUME UsersConstants ==
  /\ None \notin AddressCalls
  /\ None \notin Address
  /\ MaxAddressId \in Nat
  /\ MaxProfile \in Nat \ {0}

AddressRequests == [op : {"create", "update", "delete"}, user : Owners,
              id : AddressIds \cup {0}, isDefault : BOOLEAN]

VARIABLES
  profile,    \* profile_version, 0 without an account
  saved,      \* user_addresses as committed
  written,    \* ... with the writes of open transactions
  writer,     \* who holds a row
  ranged,     \* who holds a user's range
  nextId,     \* AUTO_INCREMENT
  asking,     \* where a call is
  asked,      \* what for
  sawDefault, \* the SELECT of a deletion has found the default
  raced,      \* users whose default may have been lost between two calls
  demoted     \* users who have taken the mark from their default themselves

addressRows == <<saved, written, writer, ranged, nextId>>
addressCalls == <<asking, asked, sawDefault>>
userVars == <<profile, addressRows, addressCalls, raced, demoted>>

Statements == {"insert", "count", "clear", "set", "update", "others",
               "read", "delete", "promote", "commit"}

UsersTypeOK ==
  /\ profile \in [Owners -> 0 .. MaxProfile]
  /\ saved \in [AddressIds -> Address \cup {None}]
  /\ written \in [AddressIds -> Address \cup {None}]
  /\ writer \in [AddressIds -> AddressCalls \cup {None}]
  /\ ranged \in [Owners -> AddressCalls \cup {None}]
  /\ nextId \in 1 .. MaxAddressId + 1
  /\ asking \in [AddressCalls -> Statements \cup {"idle"}]
  /\ asked \in [AddressCalls -> AddressRequests \cup {None}]
  /\ sawDefault \in [AddressCalls -> BOOLEAN]
  /\ raced \subseteq Owners
  /\ demoted \subseteq Owners

UsersInit ==
  /\ profile = [u \in Owners |-> 0]
  /\ saved = [i \in AddressIds |-> None]
  /\ written = saved
  /\ writer = [i \in AddressIds |-> None]
  /\ ranged = [u \in Owners |-> None]
  /\ nextId = 1
  /\ asking = [c \in AddressCalls |-> "idle"]
  /\ asked = [c \in AddressCalls |-> None]
  /\ sawDefault = [c \in AddressCalls |-> FALSE]
  /\ raced = {}
  /\ demoted = {}

AddressesOf(table, u) == {i \in AddressIds : table[i] # None /\ table[i].owner = u}
DefaultsOf(table, u) == {i \in AddressesOf(table, u) : table[i].isDefault}

--------------------------------------------------------------------------------
(* Accounts and profiles.                                                    *)

\* users and user_profiles in one transaction; a second account with one email is
\* refused by the unique key.
CreateUserWithProfile(u) ==
  /\ profile[u] = 0
  /\ profile' = [profile EXCEPT ![u] = 1]
  /\ UNCHANGED <<addressRows, addressCalls, raced, demoted>>

UpdateProfile(u) ==
  /\ profile[u] \in 1 .. MaxProfile - 1
  /\ profile' = [profile EXCEPT ![u] = @ + 1]
  /\ UNCHANGED <<addressRows, addressCalls, raced, demoted>>

--------------------------------------------------------------------------------
(* Transactions.                                                             *)

User(c) == asked[c].user

Proceed(c, statement) == asking' = [asking EXCEPT ![c] = statement]

\* Two calls of one user whose SELECTs may both be overtaken by the other: one deletes,
\* or both insert a first address.
MayRace(q, r) ==
  \/ "delete" \in {q.op, r.op}
  \/ q.op = "create" /\ r.op = "create" /\ AddressesOf(saved, q.user) = {}

FirstStatement == [create |-> "insert", update |-> "update", delete |-> "read"]

BeginAddressCall(c, r) ==
  /\ asking[c] = "idle"
  /\ profile[r.user] > 0
  /\ asked' = [asked EXCEPT ![c] = r]
  /\ Proceed(c, FirstStatement[r.op])
  /\ raced' = IF \E d \in AddressCalls \ {c} :
                   asking[d] # "idle" /\ User(d) = r.user /\ MayRace(asked[d], r)
              THEN raced \cup {r.user} ELSE raced
  /\ UNCHANGED <<profile, addressRows, sawDefault, demoted>>

Mine(c) == {i \in AddressIds : writer[i] = c}

Unlocked(c) ==
  /\ writer' = [i \in AddressIds |-> IF writer[i] = c THEN None ELSE writer[i]]
  /\ ranged' = [u \in Owners |-> IF ranged[u] = c THEN None ELSE ranged[u]]

Ended(c) ==
  /\ Proceed(c, "idle")
  /\ asked' = [asked EXCEPT ![c] = None]
  /\ sawDefault' = [sawDefault EXCEPT ![c] = FALSE]

\* Also when the answer of Commit is lost.
CommitAddresses(c) ==
  /\ asking[c] = "commit"
  /\ saved' = [i \in AddressIds |-> IF i \in Mine(c) THEN written[i] ELSE saved[i]]
  /\ demoted' = IF DefaultsOf(saved', User(c)) # {} THEN demoted \ {User(c)}
                ELSE IF asked[c].op = "update" THEN demoted \cup {User(c)}
                ELSE demoted
  /\ Unlocked(c)
  /\ Ended(c)
  /\ UNCHANGED <<profile, written, nextId, raced>>

\* A statement finds no row, fails, or has waited too long; or the process dies.  The id
\* is used up.
RollBack(c) ==
  /\ asking[c] # "idle"
  /\ written' = [i \in AddressIds |-> IF i \in Mine(c) THEN saved[i] ELSE written[i]]
  /\ Unlocked(c)
  /\ Ended(c)
  /\ UNCHANGED <<profile, saved, nextId, raced, demoted>>

\* The statement that locks and writes these rows does not have to wait.
WriteRows(c, rows) ==
  /\ \A i \in DOMAIN rows : writer[i] \in {None, c}
  /\ written' = [i \in AddressIds |-> IF i \in DOMAIN rows THEN rows[i] ELSE written[i]]
  /\ writer' = [i \in AddressIds |-> IF i \in DOMAIN rows THEN c ELSE writer[i]]

\* An UPDATE by user_id that sets is_default to what value says.
WriteAll(c, value(_)) ==
  /\ ranged[User(c)] \in {None, c}
  /\ \A i \in AddressesOf(saved, User(c)) : writer[i] \in {None, c}
  /\ WriteRows(c, [i \in AddressesOf(written, User(c)) |->
                 [written[i] EXCEPT !.isDefault = value(i)]])
  /\ ranged' = [ranged EXCEPT ![User(c)] = c]

--------------------------------------------------------------------------------
(* CreateAddress.                                                            *)

InsertAddress(c) ==
  /\ asking[c] = "insert"
  /\ nextId \in AddressIds
  /\ ranged[User(c)] \in {None, c}
  /\ written' = [written EXCEPT ![nextId] = [owner |-> User(c), isDefault |-> FALSE]]
  /\ writer' = [writer EXCEPT ![nextId] = c]
  /\ asked' = [asked EXCEPT ![c].id = nextId]
  /\ nextId' = nextId + 1
  /\ Proceed(c, "count")
  /\ UNCHANGED <<profile, saved, ranged, sawDefault, raced, demoted>>

\* The default there is keeps its mark ...
AfterCountBug(c, first) == IF asked[c].isDefault \/ first THEN "set" ELSE "commit"

AfterCount(c, first) ==
  IF asked[c].isDefault /\ ~first THEN "clear"
  ELSE IF asked[c].isDefault \/ first THEN "set" ELSE "commit"

\* COUNT(*), its own row included.
CountAddresses(c) ==
  /\ asking[c] = "count"
  /\ Proceed(c, AfterCount(c, AddressesOf(saved, User(c)) = {}))
  /\ UNCHANGED <<profile, addressRows, asked, sawDefault, raced, demoted>>

ClearDefault(c) ==
  /\ asking[c] = "clear"
  /\ WriteAll(c, LAMBDA i : FALSE)
  /\ Proceed(c, "set")
  /\ UNCHANGED <<profile, saved, nextId, asked, sawDefault, raced, demoted>>

SetDefault(c) ==
  /\ asking[c] = "set"
  /\ WriteRows(c, [i \in {asked[c].id} |-> [written[i] EXCEPT !.isDefault = TRUE]])
  /\ Proceed(c, "commit")
  /\ UNCHANGED <<profile, saved, ranged, nextId, asked, sawDefault, raced, demoted>>

--------------------------------------------------------------------------------
(* UpdateAddress and DeleteAddress.                                          *)

\* Only the user's own: anything else is NotFound, and so is an update that changes
\* nothing, for which MySQL counts no row.
Found(c) == asked[c].id \in AddressesOf(written, User(c))

UpdateAddress(c) ==
  /\ asking[c] = "update"
  /\ Found(c)
  /\ WriteRows(c, [i \in {asked[c].id} |-> [written[i] EXCEPT !.isDefault = asked[c].isDefault]])
  /\ Proceed(c, IF asked[c].isDefault THEN "others" ELSE "commit")
  /\ UNCHANGED <<profile, saved, ranged, nextId, asked, sawDefault, raced, demoted>>

ClearOthers(c) ==
  /\ asking[c] = "others"
  /\ WriteAll(c, LAMBDA i : i = asked[c].id)
  /\ Proceed(c, "commit")
  /\ UNCHANGED <<profile, saved, nextId, asked, sawDefault, raced, demoted>>

\* SELECT is_default, without FOR UPDATE.
ReadAddress(c) ==
  /\ asking[c] = "read"
  /\ asked[c].id \in AddressesOf(saved, User(c))
  /\ sawDefault' = [sawDefault EXCEPT ![c] = saved[asked[c].id].isDefault]
  /\ Proceed(c, "delete")
  /\ UNCHANGED <<profile, addressRows, asked, raced, demoted>>

\* How many rows it deletes is not looked at.
DeleteOwnAddress(c) ==
  /\ asking[c] = "delete"
  /\ WriteRows(c, [i \in {asked[c].id} |-> None])
  /\ Proceed(c, IF sawDefault[c] THEN "promote" ELSE "commit")
  /\ UNCHANGED <<profile, saved, ranged, nextId, asked, sawDefault, raced, demoted>>

\* ORDER BY id LIMIT 1.
PromoteLowest(c) ==
  /\ asking[c] = "promote"
  /\ WriteAll(c, LAMBDA i : \/ written[i].isDefault
                            \/ \A j \in AddressesOf(written, User(c)) : i <= j)
  /\ Proceed(c, "commit")
  /\ UNCHANGED <<profile, saved, nextId, asked, sawDefault, raced, demoted>>

--------------------------------------------------------------------------------

AddressStep(c) ==
  \/ \E r \in AddressRequests : (r.op = "create" <=> r.id = 0) /\ BeginAddressCall(c, r)
  \/ InsertAddress(c)
  \/ CountAddresses(c)
  \/ ClearDefault(c)
  \/ SetDefault(c)
  \/ UpdateAddress(c)
  \/ ClearOthers(c)
  \/ ReadAddress(c)
  \/ DeleteOwnAddress(c)
  \/ PromoteLowest(c)
  \/ CommitAddresses(c)
  \/ RollBack(c)

UsersNext ==
  \/ \E u \in Owners : CreateUserWithProfile(u) \/ UpdateProfile(u)
  \/ \E c \in AddressCalls : AddressStep(c)

UsersSpec == UsersInit /\ [][UsersNext]_userVars

--------------------------------------------------------------------------------
(* Properties                                                                *)

\* "On address creation, the first address is made default ...  Deleting a default
\* address promotes the lowest remaining address ID": a user has exactly one default,
\* as soon as there is an address and until the user takes the mark away.  CreateAddress
\* and UpdateAddress may overlap as they like once there is an address, since the row
\* locks make one of two new defaults wait for the other or give up.  What may break it
\* is a DeleteAddress at the same time as any other call, and two first addresses.
DefaultsFollowTheRules ==
  \A u \in Owners \ raced :
    /\ Cardinality(DefaultsOf(saved, u)) <= 1
    /\ AddressesOf(saved, u) # {} /\ u \notin demoted => DefaultsOf(saved, u) # {}

================================================================================
