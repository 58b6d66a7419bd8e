-------------------------- MODULE ChannelPoolProofs --------------------------
(***************************************************************************)
(* Theorems about ChannelPool, for any number of channels, holders,        *)
(* processes and faults.                                                   *)
(*                                                                         *)
(* A lease is kept because Release compares tokens.  That the number in a  *)
(* row is one its account has consumed, and that a free channel whose      *)
(* holders all knew their outcome remembers the account's own number,      *)
(* needs more: a holder's lease stays on the row it was taken from, no two *)
(* holders have one token, and a transaction that is pending is followed   *)
(* by the one holder of its channel.  Both hold when every process is      *)
(* configured with the same seed; a row that moves to another account      *)
(* keeps its lease, and its holder releases a number of the old one.       *)
(***************************************************************************)
EXTENDS ChannelPool, FiniteSetTheorems, TLAPS

-----------------------------------------------------------------------------
(* The inductive invariant.                                                *)

\* Every process derives its channel keys from one seed.
SeedIsShared == \A g, k \in Configs : g.seed = k.seed

Seed == FirstSync.seed

\* Only a row that was configured is leased.
AbsentIsFree == \A c \in Channels : row[c].status = "absent" => row[c].token = NoToken

\* A holder has a lease while it is at work, and builds on a number it has read.
LeaseIsHeld ==
  \A h \in Holders :
    /\ pc[h] = "idle" => lease[h].token = NoToken
    /\ pc[h] # "idle" => lease[h].token \in Tokens
    /\ pc[h] \in {"send", "poll"} => lease[h].last \in Nat
    /\ lease[h].back \in Nat \cup {NoSeq}

\* What the protocol keeps whatever the processes are configured with.
BaseInv == TypeOK /\ AbsentIsFree /\ LeaseIsHeld

\* Rows and leases are of accounts of the one seed.
OneSeed ==
  /\ \A c \in Channels : row[c].seed = Seed
  /\ \A h \in Holders : lease[h].seed = Seed

\* A pending transaction that is followed is its holder's next, and its holder polls.
PendingIsFollowers ==
  \A a \in Account : LET h == pending[a].by IN
    h # Nobody =>
      /\ pc[h] = "poll" /\ h \notin landed /\ AccountOf(h) = a
      /\ SeqOf(h) = applied[a] + 1

\* A holder's numbers are the account's.
HeldIsConsumed ==
  \A h \in Holders :
    /\ pc[h] # "idle" => lease[h].last <= applied[AccountOf(h)]
    /\ lease[h].back <= applied[AccountOf(h)]
    /\ h \in landed => pc[h] = "poll" /\ SeqOf(h) <= applied[AccountOf(h)]

ConsumedInv ==
  BaseInv /\ OneSeed /\ PendingIsFollowers /\ HeldIsConsumed /\ KnownIsConsumed

\* No two holders have one token.
TokensAreUnique ==
  \A h, k \in Holders : pc[h] # "idle" /\ lease[k].token = lease[h].token => h = k

\* Without doubt about its account, a holder still has its row.
RowIsHeld ==
  \A h \in Holders :
    pc[h] # "idle" /\ AccountOf(h) \notin doubt => row[lease[h].chan].token = lease[h].token

\* Without doubt about the account, what is pending is followed.
PendingIsFollowed ==
  \A a \in Account : pending[a] # NoTx /\ a \notin doubt => pending[a].by # Nobody

\* Without doubt about its account, the number a holder builds on, has seen landed, or
\* hands back is the account's.
HeldIsUpToDate ==
  \A h \in Holders : AccountOf(h) \notin doubt =>
    /\ pc[h] = "send" => lease[h].last = applied[AccountOf(h)]
    /\ h \in landed => SeqOf(h) = applied[AccountOf(h)]
    /\ pc[h] = "release" /\ ~lease[h].resync => lease[h].back = applied[AccountOf(h)]

IInv ==
  /\ ConsumedInv
  /\ TokensAreUnique /\ RowIsHeld /\ PendingIsFollowed /\ HeldIsUpToDate
  /\ FreeChannelIsUpToDate

-----------------------------------------------------------------------------
(* Typing, and what holds whatever the configurations.                     *)

LEMMA NoLeaseType ==
  /\ NoLease \in Lease /\ NoLease.token = NoToken /\ NoLease.back = NoSeq
  /\ NoLease.seed = Seed /\ NoLease.last = 0
<1>1. (CHOOSE c \in Channels : TRUE) \in Channels
  BY ConfigsAreConfigs
<1>2. FirstSync.seed \in Seeds
  BY ConfigsAreConfigs
<1> QED BY <1>1, <1>2 DEF NoLease, Lease, NoSeq, Seed

LEMMA AccountType ==
  ASSUME TypeOK
  PROVE  /\ \A h \in Holders : AccountOf(h) \in Account /\ lease[h] \in Lease
         /\ \A c \in Channels : AccountAt(c) \in Account /\ row[c] \in Row
         /\ \A a \in Account : applied[a] \in Nat
BY DEF TypeOK, AccountOf, AccountAt, Account, Lease, Row

\* What Sync makes of a row is a row, with the lease it had.
LEMMA SyncedRow ==
  ASSUME NEW g \in Configs, NEW r \in Row
  PROVE  /\ Configured(r, g.seed) \in Row /\ Retired(r) \in Row
         /\ r.status # "absent" => /\ Configured(r, g.seed).token = r.token
                                   /\ Configured(r, g.seed).expiry = r.expiry
         /\ r.status = "absent" => Configured(r, g.seed) = FreshRow(g.seed)
         /\ Configured(r, g.seed).status # "absent"
         /\ Retired(r).token = r.token /\ Retired(r).expiry = r.expiry
         /\ Retired(r).status = "absent" => r.status = "absent"
<1>1. g.seed \in Seeds
  BY ConfigsAreConfigs
<1>2. FreshRow(g.seed) \in Row /\ FreshRow(g.seed).status = "active"
  BY <1>1 DEF FreshRow, Row, NoSeq
<1>3. Moved(r, g.seed) \in Row /\ Moved(r, g.seed).status = "active"
      /\ Moved(r, g.seed).token = r.token /\ Moved(r, g.seed).expiry = r.expiry
  BY <1>1 DEF Moved, Row
<1> QED BY <1>2, <1>3 DEF Configured, Retired, Row

LEMMA InitBase == Init => BaseInv
<1> SUFFICES ASSUME Init PROVE BaseInv
  OBVIOUS
<1> USE DEF Init
<1>1. FirstSync \in Configs /\ FirstSync.seed \in Seeds
  BY ConfigsAreConfigs
<1>2. ASSUME NEW c \in Channels
      PROVE  /\ EmptyTable[c] \in Row /\ EmptyTable[c].token = NoToken
             /\ EmptyTable[c].expiry = "null" /\ EmptyTable[c].status = "absent"
  BY <1>1 DEF EmptyTable, FreshRow, Row, NoSeq
<1>3. ASSUME NEW c \in Channels
      PROVE  row[c] \in Row /\ row[c].token = NoToken /\ row[c].expiry = "null"
  <2>1. row[c] = Configured(EmptyTable[c], FirstSync.seed) \/ row[c] = Retired(EmptyTable[c])
    BY DEF Synced
  <2>2. FreshRow(FirstSync.seed).token = NoToken /\ FreshRow(FirstSync.seed).expiry = "null"
    BY DEF FreshRow
  <2> QED BY <2>1, <2>2, <1>1, <1>2, SyncedRow
<1>4. row \in [Channels -> Row]
  BY <1>3 DEF Synced
<1>5. NoTx \in [seq : Nat, by : Holders \cup {Nobody}]
  BY DEF NoTx
<1>6. TypeOK
  BY <1>3, <1>4, <1>5, NoLeaseType, ConfigsAreConfigs DEF TypeOK
<1>7. AbsentIsFree
  BY <1>3 DEF AbsentIsFree
<1>8. LeaseIsHeld
  BY NoLeaseType DEF LeaseIsHeld
<1> QED BY <1>6, <1>7, <1>8 DEF BaseInv

\* The parts of a step that only counts a fault, or does not.
LEMMA FaultType ==
  ASSUME TypeOK, Fault \/ UNCHANGED faults
  PROVE  faults' \in 0 .. MaxFaults
BY ConfigsAreConfigs DEF TypeOK, Fault

\* A step on the rows alone that leaves every lease where it is.
LEMMA RowStepBase ==
  ASSUME BaseInv, row' \in [Channels -> Row], Fault \/ UNCHANGED faults,
         UNCHANGED <<pc, lease, applied, pending, landed, doubt, sent>>,
         \A c \in Channels : /\ row'[c].token = row[c].token
                             /\ row'[c].expiry = "null" <=> row[c].expiry = "null"
                             /\ row'[c].status = "absent" => row[c].status = "absent"
  PROVE  BaseInv'
<1>1. faults' \in 0 .. MaxFaults
  BY FaultType DEF BaseInv
<1>2. TypeOK'
  BY <1>1 DEF BaseInv, TypeOK
<1>3. AbsentIsFree' /\ LeaseIsHeld'
  BY DEF BaseInv, AbsentIsFree, LeaseIsHeld
<1> QED BY <1>2, <1>3 DEF BaseInv

LEMMA SyncBase == ASSUME BaseInv, NEW g \in Configs, Sync(g) PROVE BaseInv'
<1>1. ASSUME NEW c \in Channels
      PROVE  /\ row'[c] \in Row /\ row'[c].token = row[c].token
             /\ row'[c].expiry = row[c].expiry
             /\ row'[c].status = "absent" => row[c].status = "absent"
  <2>1. row[c] \in Row
    BY DEF BaseInv, TypeOK
  <2>2. row'[c] = Configured(row[c], g.seed) \/ row'[c] = Retired(row[c])
    BY DEF Sync, Synced
  <2>3. row[c].status = "absent" => row[c].token = NoToken /\ row[c].expiry = "null"
    BY DEF BaseInv, TypeOK, AbsentIsFree
  <2>4. FreshRow(g.seed).token = NoToken /\ FreshRow(g.seed).expiry = "null"
    BY DEF FreshRow
  <2> QED BY <2>1, <2>2, <2>3, <2>4, SyncedRow
<1>2. row' \in [Channels -> Row]
  BY <1>1 DEF Sync, Synced
<1> QED BY <1>1, <1>2, RowStepBase DEF Sync

LEMMA RecordBalanceBase == ASSUME BaseInv, NEW c \in Channels, RecordBalance(c) PROVE BaseInv'
<1>1. row[c] \in Row /\ row \in [Channels -> Row]
  BY DEF BaseInv, TypeOK
<1>2. PICK s \in {"active", "disabled"} : row' = [row EXCEPT ![c].status = s]
  BY DEF RecordBalance
<1>3. [row[c] EXCEPT !.status = s] \in Row
  BY <1>1 DEF Row
<1>4. row' \in [Channels -> Row]
  BY <1>1, <1>2, <1>3
<1>5. \A d \in Channels : /\ row'[d].token = row[d].token
                          /\ row'[d].expiry = "null" <=> row[d].expiry = "null"
                          /\ row'[d].status = "absent" => row[d].status = "absent"
  BY <1>1, <1>2 DEF Row
<1> QED BY <1>4, <1>5, RowStepBase DEF RecordBalance

LEMMA LapseBase == ASSUME BaseInv, NEW c \in Channels, Lapse(c) PROVE BaseInv'
<1>1. row[c] \in Row /\ row \in [Channels -> Row]
  BY DEF BaseInv, TypeOK
<1>2. row' = [row EXCEPT ![c].expiry = "past"] /\ row[c].expiry = "ahead"
  BY DEF Lapse
<1>3. [row[c] EXCEPT !.expiry = "past"] \in Row
  BY <1>1 DEF Row
<1>4. row' \in [Channels -> Row]
  BY <1>1, <1>2, <1>3
<1>5. \A d \in Channels : /\ row'[d].token = row[d].token
                          /\ row'[d].expiry = "null" <=> row[d].expiry = "null"
                          /\ row'[d].status = "absent" => row[d].status = "absent"
  BY <1>1, <1>2 DEF Row
<1> QED BY <1>4, <1>5, RowStepBase DEF Lapse

\* A set that a function fills from a finite set is finite and no larger.
LEMMA RangeIsFinite ==
  ASSUME NEW S, IsFiniteSet(S), NEW f, f = [x \in S |-> f[x]]
  PROVE  LET T == {f[x] : x \in S}
         IN  IsFiniteSet(T) /\ Cardinality(T) \in Nat /\ Cardinality(T) <= Cardinality(S)
<1> DEFINE T == {f[x] : x \in S}
<1>1. f \in [S -> T]
  OBVIOUS
<1>2. \A y \in T : \E x \in S : f[x] = y
  OBVIOUS
<1>3. f \in Surjection(S, T)
  BY <1>1, <1>2 DEF Surjection
<1> HIDE DEF T
<1>4. IsFiniteSet(T) /\ Cardinality(T) <= Cardinality(S)
  BY <1>3, FS_Surjection
<1>5. Cardinality(T) \in Nat
  BY <1>4, FS_CardinalityType
<1> QED BY <1>4, <1>5 DEF T

\* There is a token for an idle holder: the others and the rows use fewer than there are.
LEMMA NewTokenIsFresh ==
  ASSUME BaseInv, NEW h \in Holders, pc[h] = "idle"
  PROVE  newToken \in Tokens /\ ~InUse(newToken)
<1> DEFINE others == Holders \ {h}
           f == [c \in Channels |-> row[c].token]
           g == [k \in others |-> lease[k].token]
           F == {f[c] : c \in Channels}
           G == {g[k] : k \in others}
<1>1. IsFiniteSet(Channels) /\ IsFiniteSet(Holders) /\ IsFiniteSet(Tokens)
  BY ConfigsAreConfigs
<1>2. IsFiniteSet(others) /\ Cardinality(others) = Cardinality(Holders) - 1
  BY <1>1, FS_RemoveElement
<1>3. IsFiniteSet(F) /\ Cardinality(F) \in Nat /\ Cardinality(F) <= Cardinality(Channels)
  <2>1. f = [c \in Channels |-> f[c]]
    OBVIOUS
  <2> HIDE DEF f
  <2> QED BY <2>1, <1>1, RangeIsFinite
<1>4. IsFiniteSet(G) /\ Cardinality(G) \in Nat /\ Cardinality(G) <= Cardinality(others)
  <2>1. g = [k \in others |-> g[k]]
    OBVIOUS
  <2> HIDE DEF g, others
  <2> QED BY <2>1, <1>2, RangeIsFinite
<1>5. \E t \in Tokens : t \notin F \cup G
  <2> HIDE DEF F, G
  <2>1. IsFiniteSet(F \cup G) /\ Cardinality(F \cup G) <= Cardinality(F) + Cardinality(G)
    <3>1. Cardinality(F \cap G) \in Nat
      BY <1>3, FS_Intersection, FS_CardinalityType
    <3>2. /\ IsFiniteSet(F \cup G)
          /\ Cardinality(F \cup G) = Cardinality(F) + Cardinality(G) - Cardinality(F \cap G)
      BY <1>3, <1>4, FS_Union
    <3> QED BY <3>1, <3>2, <1>3, <1>4
  <2>2. /\ Cardinality(F \cup G) \in Nat /\ Cardinality(Tokens) \in Nat
        /\ Cardinality(Channels) \in Nat /\ Cardinality(Holders) \in Nat
    BY <1>1, <2>1, FS_CardinalityType
  <2>3. Cardinality(F \cup G) < Cardinality(Tokens)
    BY <1>2, <1>3, <1>4, <2>1, <2>2, ConfigsAreConfigs
  <2>4. SUFFICES ASSUME Tokens \subseteq F \cup G PROVE FALSE
    OBVIOUS
  <2>5. Cardinality(Tokens) <= Cardinality(F \cup G)
    BY <2>1, <2>4, FS_Subset
  <2> QED BY <2>2, <2>3, <2>5
<1>6. \A t \in Tokens : t \notin F \cup G => ~InUse(t)
  <2> SUFFICES ASSUME NEW t \in Tokens, InUse(t) PROVE t \in F \cup G
    OBVIOUS
  <2>1. ASSUME NEW c \in Channels, row[c].token = t PROVE t \in F
    BY <2>1
  <2>2. ASSUME NEW k \in Holders, lease[k].token = t PROVE t \in G
    <3>1. lease[h].token = NoToken /\ t # NoToken
      BY NamesAreFresh DEF BaseInv, LeaseIsHeld
    <3> QED BY <2>2, <3>1
  <2> QED BY <2>1, <2>2 DEF InUse
<1>7. \E t \in Tokens : ~InUse(t)
  BY <1>5, <1>6
<1> QED BY <1>7 DEF newToken

LEMMA AcquireBase ==
  ASSUME BaseInv, NEW h \in Holders, NEW c \in Channels, Acquire(h, c)
  PROVE  BaseInv'
<1> DEFINE r == [row[c] EXCEPT !.token = newToken, !.expiry = "ahead", !.resync = TakenOver(row[c])]
           l == [chan |-> c, seed |-> row[c].seed, token |-> newToken,
                 last |-> row[c].seq, back |-> NoSeq, resync |-> TRUE]
<1>1. row[c] \in Row /\ row \in [Channels -> Row] /\ AccountAt(c) \in Account
  BY AccountType DEF BaseInv, TypeOK
<1>2. newToken \in Tokens /\ newToken # NoToken
  BY NewTokenIsFresh, NamesAreFresh DEF Acquire
<1>3. TakenOver(row[c]) \in BOOLEAN
  BY DEF TakenOver
<1>4. r \in Row /\ r.token = newToken /\ r.expiry = "ahead" /\ r.status = row[c].status
  BY <1>1, <1>2, <1>3 DEF Row
<1>5. l \in Lease /\ l.token = newToken /\ l.last = row[c].seq /\ l.back = NoSeq
  BY <1>1, <1>2 DEF Row, Lease, NoSeq
<1>6. row' = [row EXCEPT ![c] = r] /\ row[c].status = "active" /\ UNCHANGED <<applied, pending, landed, sent>>
  BY DEF Acquire
<1>7. doubt' \subseteq Account
  BY <1>1 DEF Acquire, BaseInv, TypeOK
<1>8. \/ Fault /\ UNCHANGED <<pc, lease>>
      \/ /\ lease' = [lease EXCEPT ![h] = l]
         /\ \/ pc' = [pc EXCEPT ![h] = "release"] \/ pc' = [pc EXCEPT ![h] = "load"]
            \/ pc' = [pc EXCEPT ![h] = "send"] /\ row[c].seq # NoSeq
         /\ UNCHANGED faults
  BY DEF Acquire, Goto
<1>9. faults' \in 0 .. MaxFaults
  BY <1>8, FaultType DEF BaseInv
<1> HIDE DEF r, l
<1>10. TypeOK'
  <2>1. row' \in [Channels -> Row]
    BY <1>1, <1>4, <1>6
  <2>2. \A d \in Channels : row'[d].token = NoToken <=> row'[d].expiry = "null"
    BY <1>1, <1>2, <1>4, <1>6 DEF BaseInv, TypeOK
  <2>3. lease' \in [Holders -> Lease]
    BY <1>5, <1>8 DEF BaseInv, TypeOK
  <2>4. pc' \in [Holders -> {"idle", "load", "send", "poll", "release"}]
    BY <1>8 DEF BaseInv, TypeOK
  <2> QED BY <2>1, <2>2, <2>3, <2>4, <1>6, <1>7, <1>9 DEF BaseInv, TypeOK
<1>11. AbsentIsFree'
  BY <1>1, <1>4, <1>6 DEF BaseInv, AbsentIsFree
<1>12. LeaseIsHeld'
  <2>1. row[c].seq # NoSeq => row[c].seq \in Nat
    BY <1>1 DEF Row
  <2> QED BY <1>2, <1>5, <1>8, <2>1 DEF BaseInv, TypeOK, LeaseIsHeld
<1> QED BY <1>10, <1>11, <1>12 DEF BaseInv

\* A step of a holder that moves it on with another lease record and leaves the rows.
LEMMA HolderStepBase ==
  ASSUME BaseInv, NEW h \in Holders, Fault \/ UNCHANGED faults, UNCHANGED <<row, applied>>,
         NEW l \in Lease, lease' = [lease EXCEPT ![h] = l],
         NEW step \in {"idle", "load", "send", "poll", "release"}, pc' = [pc EXCEPT ![h] = step],
         step = "idle" => l.token = NoToken,
         step # "idle" => l.token \in Tokens,
         step \in {"send", "poll"} => l.last \in Nat,
         l.back \in Nat \cup {NoSeq},
         pending' \in [Account -> [seq : Nat, by : Holders \cup {Nobody}]],
         landed' \subseteq Holders, doubt' \subseteq Account, sent' \in 0 .. MaxSent
  PROVE  BaseInv'
<1>1. faults' \in 0 .. MaxFaults
  BY FaultType DEF BaseInv
<1>2. TypeOK'
  BY <1>1 DEF BaseInv, TypeOK
<1>3. AbsentIsFree' /\ LeaseIsHeld'
  BY DEF BaseInv, TypeOK, AbsentIsFree, LeaseIsHeld
<1> QED BY <1>2, <1>3 DEF BaseInv

\* What Back leaves of a lease.
Handed(l, b, resync) == [l EXCEPT !.back = b, !.resync = resync]

LEMMA BackIsHanded ==
  ASSUME TypeOK, NEW h \in Holders, NEW b \in Nat \cup {NoSeq}, NEW resync \in BOOLEAN,
         Back(h, b, resync)
  PROVE  LET l == Handed(lease[h], b, resync)
         IN  /\ lease' = [lease EXCEPT ![h] = l] /\ pc' = [pc EXCEPT ![h] = "release"]
             /\ l \in Lease /\ l.back = b /\ l.resync = resync
             /\ l.chan = lease[h].chan /\ l.seed = lease[h].seed
             /\ l.token = lease[h].token /\ l.last = lease[h].last
<1>1. lease[h] \in Lease /\ lease \in [Holders -> Lease]
  BY DEF TypeOK
<1>2. b \in Int
  BY DEF NoSeq
<1> QED BY <1>1, <1>2 DEF Back, Goto, Handed, Lease

\* The steps that hand the lease back.
LEMMA BackBase ==
  ASSUME BaseInv, NEW h \in Holders, Fault \/ UNCHANGED faults, UNCHANGED <<row, applied>>,
         NEW b \in Nat \cup {NoSeq}, NEW resync \in BOOLEAN, Back(h, b, resync), pc[h] # "idle",
         pending' \in [Account -> [seq : Nat, by : Holders \cup {Nobody}]],
         landed' \subseteq Holders, doubt' \subseteq Account, sent' \in 0 .. MaxSent
  PROVE  BaseInv'
<1> DEFINE l == Handed(lease[h], b, resync)
<1>1. /\ lease' = [lease EXCEPT ![h] = l] /\ pc' = [pc EXCEPT ![h] = "release"]
      /\ l \in Lease /\ l.back = b /\ l.token = lease[h].token
  BY BackIsHanded DEF BaseInv
<1>2. lease[h].token \in Tokens
  BY DEF BaseInv, LeaseIsHeld
<1> HIDE DEF l
<1> QED BY <1>1, <1>2, HolderStepBase

LEMMA LoadAccountBase == ASSUME BaseInv, NEW h \in Holders, LoadAccount(h) PROVE BaseInv'
<1>1. /\ lease[h] \in Lease /\ lease[h].token \in Tokens /\ lease[h].back \in Nat \cup {NoSeq}
      /\ AccountOf(h) \in Account /\ applied[AccountOf(h)] \in Nat
      /\ pc[h] # "idle" /\ lease \in [Holders -> Lease]
  BY AccountType DEF BaseInv, TypeOK, LeaseIsHeld, LoadAccount
<1>2. /\ UNCHANGED <<row, applied, pending, landed, sent>>
      /\ pending \in [Account -> [seq : Nat, by : Holders \cup {Nobody}]]
      /\ landed \subseteq Holders /\ sent \in 0 .. MaxSent
      /\ doubt' \subseteq Account /\ (Fault \/ UNCHANGED faults)
  BY <1>1 DEF BaseInv, TypeOK, LoadAccount
<1>3. CASE Back(h, NoSeq, TRUE)
  BY <1>1, <1>2, <1>3, BackBase
<1>4. ASSUME NEW n \in Nat, lease' = [lease EXCEPT ![h].last = n], pc' = [pc EXCEPT ![h] = "send"]
      PROVE  BaseInv'
  <2> DEFINE l == [lease[h] EXCEPT !.last = n]
  <2>1. lease' = [lease EXCEPT ![h] = l]
    BY <1>4
  <2>2. l \in Lease /\ l.last = n /\ l.token = lease[h].token /\ l.back = lease[h].back
    BY <1>1 DEF Lease
  <2> HIDE DEF l
  <2> QED BY <2>1, <2>2, <1>1, <1>2, <1>4, HolderStepBase
<1>5. \/ Back(h, NoSeq, TRUE)
      \/ \E n \in Nat : lease' = [lease EXCEPT ![h].last = n] /\ pc' = [pc EXCEPT ![h] = "send"]
  <2>1. applied[AccountOf(h)] > 0 => applied[AccountOf(h)] - 1 \in Nat
    BY <1>1
  <2> QED BY <2>1, <1>1, Zenon DEF LoadAccount, Goto
<1> QED BY <1>3, <1>4, <1>5

LEMMA SendBase ==
  ASSUME BaseInv, NEW h \in Holders,
         SendAccepted(h) \/ SendBadSeq(h) \/ SendUnknown(h) \/ SendRefused(h)
  PROVE  BaseInv'
<1> USE DEF SendAccepted, SendBadSeq, SendUnknown, SendRefused
<1>1. /\ lease[h] \in Lease /\ lease[h].token \in Tokens /\ lease[h].back \in Nat \cup {NoSeq}
      /\ lease[h].last \in Nat /\ SeqOf(h) \in Nat
      /\ AccountOf(h) \in Account /\ pc[h] = "send" /\ lease \in [Holders -> Lease]
  <2>1. pc[h] = "send"
    BY Zenon
  <2>2. AccountOf(h) \in Account /\ lease[h] \in Lease /\ lease \in [Holders -> Lease]
    BY AccountType DEF BaseInv, TypeOK
  <2>3. lease[h].token \in Tokens /\ lease[h].last \in Nat /\ lease[h].back \in Nat \cup {NoSeq}
    BY <2>1 DEF BaseInv, LeaseIsHeld
  <2>4. SeqOf(h) \in Nat
    BY <2>3 DEF SeqOf
  <2> QED BY <2>1, <2>2, <2>3, <2>4
<1>2. \A k \in Holders \cup {Nobody} :
        [pending EXCEPT ![AccountOf(h)] = [seq |-> SeqOf(h), by |-> k]]
          \in [Account -> [seq : Nat, by : Holders \cup {Nobody}]]
  BY <1>1 DEF BaseInv, TypeOK
<1>3. /\ UNCHANGED <<row, applied, landed>> /\ landed' \subseteq Holders /\ doubt' \subseteq Account
      /\ Fault \/ UNCHANGED faults
  BY <1>1 DEF BaseInv, TypeOK, SendAccepted, SendBadSeq, SendUnknown, SendRefused
<1>4. sent' \in 0 .. MaxSent
  <2>1. sent' = sent \/ (sent < MaxSent /\ sent' = sent + 1)
    BY Zenon
  <2> QED BY <2>1, ConfigsAreConfigs DEF BaseInv, TypeOK
<1>5. pending' \in [Account -> [seq : Nat, by : Holders \cup {Nobody}]]
  <2>1. pending' = pending \/ \E k \in Holders \cup {Nobody} :
          pending' = [pending EXCEPT ![AccountOf(h)] = [seq |-> SeqOf(h), by |-> k]]
    BY Zenon
  <2> QED BY <2>1, <1>2 DEF BaseInv, TypeOK
<1>6. CASE SendAccepted(h)
  <2>1. lease' = [lease EXCEPT ![h] = lease[h]] /\ pc' = [pc EXCEPT ![h] = "poll"]
    BY <1>1, <1>6 DEF SendAccepted, Goto
  <2> QED BY <2>1, <1>1, <1>3, <1>4, <1>5, HolderStepBase
<1>7. CASE SendBadSeq(h) \/ SendUnknown(h) \/ SendRefused(h)
  <2>1. Back(h, NoSeq, TRUE) \/ Back(h, lease[h].last, FALSE)
    BY <1>7 DEF SendBadSeq, SendUnknown, SendRefused, ReloadNext
  <2> QED BY <2>1, <1>1, <1>3, <1>4, <1>5, BackBase
<1> QED BY <1>6, <1>7

\* What Leave does to the queue.
LEMMA LeaveType ==
  ASSUME TypeOK, NEW h \in Holders, Leave(h)
  PROVE  /\ pending' \in [Account -> [seq : Nat, by : Holders \cup {Nobody}]]
         /\ \A a \in Account : /\ pending'[a].seq = pending[a].seq
                               /\ pending'[a].by = IF pending[a].by = h THEN Nobody ELSE pending[a].by
                               /\ pending[a].by # h => pending'[a] = pending[a]
         /\ landed' = landed \ {h} /\ landed' \subseteq Holders
         /\ doubt \subseteq doubt' /\ doubt' \subseteq Account
<1>1. \A a \in Account : pending[a] \in [seq : Nat, by : Holders \cup {Nobody}]
  BY DEF TypeOK
<1>2. ASSUME NEW a \in Account
      PROVE  /\ pending'[a] \in [seq : Nat, by : Holders \cup {Nobody}]
             /\ pending'[a].seq = pending[a].seq
             /\ pending'[a].by = IF pending[a].by = h THEN Nobody ELSE pending[a].by
             /\ pending[a].by # h => pending'[a] = pending[a]
  BY <1>1 DEF Leave
<1>3. pending' \in [Account -> [seq : Nat, by : Holders \cup {Nobody}]]
  BY <1>2 DEF Leave
<1>4. AccountOf(h) \in Account
  BY AccountType
<1> QED BY <1>2, <1>3, <1>4 DEF Leave, TypeOK

LEMMA PollBase ==
  ASSUME BaseInv, NEW h \in Holders, PollLanded(h) \/ PollUnconfirmed(h)
  PROVE  BaseInv'
<1>1. lease[h].last \in Nat /\ SeqOf(h) \in Nat /\ pc[h] = "poll"
  <2>1. pc[h] = "poll"
    BY Zenon DEF PollLanded, PollUnconfirmed
  <2>2. lease[h].last \in Nat
    BY <2>1 DEF BaseInv, LeaseIsHeld
  <2> QED BY <2>1, <2>2 DEF SeqOf
<1>2. CASE PollLanded(h)
  BY <1>1, <1>2, BackBase DEF BaseInv, TypeOK, PollLanded, Consumed
<1>3. CASE PollUnconfirmed(h)
  <2>1. Back(h, NoSeq, TRUE) /\ UNCHANGED <<row, applied, sent>> /\ (Fault \/ UNCHANGED faults)
        /\ sent \in 0 .. MaxSent
    BY <1>3 DEF PollUnconfirmed, BaseInv, TypeOK
  <2> QED BY <2>1, <1>1, <1>3, LeaveType, BackBase DEF BaseInv, PollUnconfirmed
<1> QED BY <1>2, <1>3

\* What a release makes of the row.
LEMMA FreedRow ==
  ASSUME NEW r \in Row, NEW l \in Lease, l.back \in Nat \cup {NoSeq}
  PROVE  /\ Freed(r, l) \in Row /\ Freed(r, l).token = NoToken /\ Freed(r, l).expiry = "null"
         /\ Freed(r, l).status = r.status /\ Freed(r, l).seed = r.seed
         /\ Freed(r, l).seq = (IF l.back = NoSeq THEN r.seq ELSE l.back)
         /\ Freed(r, l).resync = l.resync
BY DEF Freed, Row, Lease

LEMMA ReleaseBase == ASSUME BaseInv, NEW h \in Holders, Release(h) PROVE BaseInv'
<1> DEFINE l == lease[h]
           f == Freed(row[l.chan], l)
<1>1. l \in Lease /\ l.back \in Nat \cup {NoSeq} /\ l.chan \in Channels /\ row[l.chan] \in Row
  BY DEF BaseInv, TypeOK, LeaseIsHeld, Lease
<1>2. f \in Row /\ f.token = NoToken /\ f.expiry = "null" /\ f.status = row[l.chan].status
  BY <1>1, FreedRow
<1>3. row' = row \/ row' = [row EXCEPT ![l.chan] = f]
  BY DEF Release
<1>4. /\ lease' = [lease EXCEPT ![h] = NoLease] /\ pc' = [pc EXCEPT ![h] = "idle"]
      /\ UNCHANGED <<applied, pending, landed, doubt, sent>> /\ (Fault \/ UNCHANGED faults)
  BY DEF Release, Goto
<1>5. faults' \in 0 .. MaxFaults
  BY <1>4, FaultType DEF BaseInv
<1> HIDE DEF f
<1>6. TypeOK'
  BY <1>1, <1>2, <1>3, <1>4, <1>5, NoLeaseType DEF BaseInv, TypeOK
<1>7. AbsentIsFree'
  BY <1>1, <1>2, <1>3 DEF BaseInv, TypeOK, AbsentIsFree
<1>8. LeaseIsHeld'
  BY <1>4, NoLeaseType DEF BaseInv, TypeOK, LeaseIsHeld
<1> QED BY <1>6, <1>7, <1>8 DEF BaseInv

LEMMA CrashBase == ASSUME BaseInv, NEW h \in Holders, Crash(h) PROVE BaseInv'
<1>1. /\ lease' = [lease EXCEPT ![h] = NoLease] /\ pc' = [pc EXCEPT ![h] = "idle"]
      /\ UNCHANGED <<row, applied, sent>> /\ Fault /\ Leave(h) /\ sent \in 0 .. MaxSent
  BY DEF Crash, Goto, BaseInv, TypeOK
<1>2. NoLease \in Lease /\ NoLease.token = NoToken /\ NoLease.back \in Nat \cup {NoSeq}
  BY NoLeaseType
<1> QED BY <1>1, <1>2, LeaveType, HolderStepBase DEF BaseInv

LEMMA NetworkBase ==
  ASSUME BaseInv, NEW a \in Account, Land(a) \/ Drop(a)
  PROVE  BaseInv'
<1>1. faults' \in 0 .. MaxFaults
  BY FaultType DEF BaseInv, Land, Drop
<1>2. NoTx \in [seq : Nat, by : Holders \cup {Nobody}]
  BY DEF NoTx
<1>3. landed' \subseteq Holders
  BY DEF BaseInv, TypeOK, Land, Drop
<1>4. TypeOK'
  BY <1>1, <1>2, <1>3 DEF BaseInv, TypeOK, Land, Drop
<1>5. AbsentIsFree' /\ LeaseIsHeld'
  BY DEF BaseInv, AbsentIsFree, LeaseIsHeld, Land, Drop
<1> QED BY <1>4, <1>5 DEF BaseInv

LEMMA StepBase == BaseInv /\ [Next]_vars => BaseInv'
<1> SUFFICES ASSUME BaseInv, [Next]_vars PROVE BaseInv'
  OBVIOUS
<1>1. ASSUME NEW h \in Holders, Transfer(h) \/ Crash(h) PROVE BaseInv'
  BY <1>1, AcquireBase, LoadAccountBase, SendBase, PollBase, ReleaseBase, CrashBase DEF Transfer
<1>2. CASE UNCHANGED vars
  BY <1>2 DEF vars, BaseInv, TypeOK, AbsentIsFree, LeaseIsHeld
<1> QED BY <1>1, <1>2, LapseBase, RecordBalanceBase, SyncBase, NetworkBase DEF Next

LEMMA BaseHolds == Spec => []BaseInv
BY InitBase, StepBase, PTL DEF Spec

\* The table, the leases and the network keep their types.
THEOREM Typing == Spec => []TypeOK
<1>1. BaseInv => TypeOK
  BY DEF BaseInv
<1> QED BY <1>1, BaseHolds, PTL

\* A lease that has not lapsed ends only by a release with its own token: neither
\* Acquire nor Sync nor the release of an earlier holder ends it.
THEOREM LeasesAreKept == Spec => LeaseIsKept
<1> DEFINE Kept(c) == row[c].expiry = "ahead" /\ row'[c].token # row[c].token =>
                        \E h \in Holders : lease[h].token = row[c].token /\ pc[h] = "release"
<1>1. BaseInv /\ [Next]_vars => [\A c \in Channels : Kept(c)]_vars
  <2> SUFFICES ASSUME BaseInv, Next, NEW c \in Channels, row[c].expiry = "ahead",
                      row'[c].token # row[c].token
               PROVE  \E h \in Holders : lease[h].token = row[c].token /\ pc[h] = "release"
    OBVIOUS
  <2>1. row[c] \in Row /\ row[c].token # NoToken /\ row[c].status # "absent"
    BY DEF BaseInv, TypeOK, AbsentIsFree
  <2>2. ASSUME NEW g \in Configs, Sync(g) PROVE FALSE
    <3>1. row'[c] = Configured(row[c], g.seed) \/ row'[c] = Retired(row[c])
      BY <2>2 DEF Sync, Synced
    <3> QED BY <3>1, <2>1, SyncedRow
  <2>3. ASSUME NEW d \in Channels, RecordBalance(d) \/ Lapse(d) PROVE FALSE
    <3>1. row'[c].token = row[c].token
      BY <2>3, <2>1 DEF RecordBalance, Lapse, BaseInv, TypeOK, Row
    <3> QED BY <3>1
  <2>4. ASSUME NEW h \in Holders, NEW d \in Channels, Acquire(h, d) PROVE FALSE
    <3>1. d # c
      BY <2>1, <2>4 DEF Acquire, Leasable
    <3>2. row'[c] = row[c]
      BY <3>1, <2>4 DEF Acquire, BaseInv, TypeOK
    <3> QED BY <3>2
  <2>5. ASSUME NEW h \in Holders, Release(h)
        PROVE  lease[h].token = row[c].token /\ pc[h] = "release"
    <3>1. lease[h].chan = c /\ SameToken(h) /\ pc[h] = "release"
      BY <2>5 DEF Release, BaseInv, TypeOK
    <3> QED BY <3>1 DEF SameToken
  <2>6. \/ row' = row
        \/ \E g \in Configs : Sync(g)
        \/ \E d \in Channels : RecordBalance(d) \/ Lapse(d)
        \/ \E h \in Holders : Release(h) \/ \E d \in Channels : Acquire(h, d)
    BY DEF Next, Transfer, LoadAccount, SendAccepted, SendBadSeq, SendUnknown, SendRefused, PollLanded,
           PollUnconfirmed, Crash, Land, Drop
  <2> QED BY <2>2, <2>3, <2>4, <2>5, <2>6
<1> QED BY <1>1, BaseHolds, PTL DEF Spec, LeaseIsKept

-----------------------------------------------------------------------------
(* With one seed.                                                          *)

\* Rows and leases of a channel are of one account.
LEMMA OneAccount ==
  ASSUME IInv
  PROVE  /\ \A c \in Channels : AccountAt(c) = <<Seed, c>> /\ <<Seed, c>> \in Account
         /\ \A h \in Holders : /\ AccountOf(h) = <<Seed, lease[h].chan>>
                                /\ lease[h].chan \in Channels /\ AccountOf(h) \in Account
         /\ \A c \in Channels, h \in Holders : AccountAt(c) = AccountOf(h) <=> lease[h].chan = c
<1>1. TypeOK /\ OneSeed
  BY DEF IInv, ConsumedInv, BaseInv
<1>2. \A c \in Channels : AccountAt(c) = <<Seed, c>> /\ <<Seed, c>> \in Account
  BY <1>1, AccountType DEF OneSeed, AccountAt
<1>3. \A h \in Holders : /\ AccountOf(h) = <<Seed, lease[h].chan>>
                         /\ lease[h].chan \in Channels /\ AccountOf(h) \in Account
  BY <1>1, AccountType DEF OneSeed, AccountOf, Lease
<1>4. ASSUME NEW c \in Channels, NEW h \in Holders
      PROVE  AccountAt(c) = AccountOf(h) <=> lease[h].chan = c
  BY <1>1 DEF OneSeed, AccountAt, AccountOf
<1> QED BY <1>2, <1>3, <1>4

\* A step that changes rows only in what no holder relies on.
RowFrame ==
  /\ UNCHANGED <<pc, lease, applied, pending, landed, doubt>>
  /\ \A c \in Channels :
       /\ row'[c].token = row[c].token /\ row'[c].seed = row[c].seed
       /\ \/ row'[c].seq = row[c].seq /\ row'[c].resync = row[c].resync
          \/ row'[c].seq = NoSeq /\ row'[c].resync = TRUE

LEMMA RowFrameKeeps == ASSUME IInv, BaseInv', RowFrame PROVE IInv'
<1> USE DEF IInv, ConsumedInv, RowFrame
<1>1. /\ \A h \in Holders : AccountOf(h)' = AccountOf(h) /\ SeqOf(h)' = SeqOf(h)
      /\ \A c \in Channels : AccountAt(c)' = AccountAt(c) /\ applied[AccountAt(c)] \in Nat
  BY AccountType DEF AccountOf, AccountAt, SeqOf, BaseInv
<1>2. OneSeed' /\ PendingIsFollowers' /\ HeldIsConsumed'
  BY <1>1 DEF OneSeed, PendingIsFollowers, HeldIsConsumed, AccountOf, SeqOf
<1>3. KnownIsConsumed'
  BY <1>1 DEF KnownIsConsumed, NoSeq
<1>4. TokensAreUnique' /\ PendingIsFollowed'
  BY DEF TokensAreUnique, PendingIsFollowed
<1>5. RowIsHeld'
  BY <1>1, OneAccount DEF RowIsHeld
<1>6. HeldIsUpToDate'
  BY <1>1 DEF HeldIsUpToDate
<1>7. FreeChannelIsUpToDate'
  BY <1>1 DEF FreeChannelIsUpToDate
<1> QED BY <1>2, <1>3, <1>4, <1>5, <1>6, <1>7

LEMMA RowStepKeeps ==
  ASSUME SeedIsShared, IInv, BaseInv',
         \/ \E g \in Configs : Sync(g)
         \/ \E c \in Channels : RecordBalance(c) \/ Lapse(c)
  PROVE  IInv'
<1>1. UNCHANGED <<pc, lease, applied, pending, landed, doubt>>
  BY DEF Sync, RecordBalance, Lapse
<1>2. \A c \in Channels : row[c] \in Row /\ row[c].seed = Seed
                         /\ (row[c].status = "absent" => row[c].token = NoToken)
  BY DEF IInv, ConsumedInv, BaseInv, TypeOK, OneSeed, AbsentIsFree
<1>3. ASSUME NEW g \in Configs, Sync(g), NEW c \in Channels
      PROVE  /\ row'[c].token = row[c].token /\ row'[c].seed = row[c].seed
             /\ \/ row'[c].seq = row[c].seq /\ row'[c].resync = row[c].resync
                \/ row'[c].seq = NoSeq /\ row'[c].resync = TRUE
  <2>1. g.seed = Seed
    BY ConfigsAreConfigs DEF SeedIsShared, Seed
  <2>2. row'[c] = Configured(row[c], Seed) \/ row'[c] = Retired(row[c])
    BY <1>3, <2>1 DEF Sync, Synced
  <2>3. /\ FreshRow(Seed).token = NoToken /\ FreshRow(Seed).seed = Seed
        /\ FreshRow(Seed).seq = NoSeq /\ FreshRow(Seed).resync = TRUE
    BY DEF FreshRow
  <2>4. IF row[c].status = "absent" THEN Configured(row[c], Seed) = FreshRow(Seed)
        ELSE Configured(row[c], Seed) \in {row[c], [row[c] EXCEPT !.status = "active"]}
    BY <1>2 DEF Configured
  <2>5. Retired(row[c]) \in {row[c], [row[c] EXCEPT !.status = "retired"]}
    BY DEF Retired
  <2>6. CASE row'[c] \in {row[c], [row[c] EXCEPT !.status = "active"],
                          [row[c] EXCEPT !.status = "retired"]}
    BY <2>6, <1>2 DEF Row
  <2>7. CASE row'[c] = FreshRow(Seed) /\ row[c].status = "absent"
    BY <2>7, <2>3, <1>2
  <2> QED BY <2>2, <2>4, <2>5, <2>6, <2>7
<1>4. ASSUME NEW d \in Channels, RecordBalance(d) \/ Lapse(d), NEW c \in Channels
      PROVE  /\ row'[c].token = row[c].token /\ row'[c].seed = row[c].seed
             /\ row'[c].seq = row[c].seq /\ row'[c].resync = row[c].resync
  <2>1. row \in [Channels -> Row]
    BY DEF IInv, ConsumedInv, BaseInv, TypeOK
  <2>2. \/ \E s \in {"active", "disabled"} : row' = [row EXCEPT ![d].status = s]
        \/ row' = [row EXCEPT ![d].expiry = "past"]
    BY <1>4 DEF RecordBalance, Lapse
  <2> QED BY <2>1, <2>2 DEF Row
<1>5. RowFrame
  BY <1>1, <1>3, <1>4 DEF RowFrame
<1> QED BY <1>5, RowFrameKeeps

\* Two holders of one account of which nothing is in doubt are one.
LEMMA OneHolder ==
  ASSUME IInv, NEW h \in Holders, NEW k \in Holders, pc[h] # "idle", pc[k] # "idle",
         AccountOf(h) = AccountOf(k), AccountOf(h) \notin doubt
  PROVE  h = k
<1>1. lease[h].chan = lease[k].chan
  BY OneAccount DEF IInv, ConsumedInv, OneSeed, AccountOf
<1>2. lease[h].token = lease[k].token
  BY <1>1 DEF IInv, RowIsHeld
<1> QED BY <1>2 DEF IInv, TokensAreUnique

LEMMA AcquireKeeps ==
  ASSUME IInv, BaseInv', NEW h \in Holders, NEW c \in Channels, Acquire(h, c)
  PROVE  IInv'
<1> DEFINE r == [row[c] EXCEPT !.token = newToken, !.expiry = "ahead", !.resync = TakenOver(row[c])]
           l == [chan |-> c, seed |-> row[c].seed, token |-> newToken,
                 last |-> row[c].seq, back |-> NoSeq, resync |-> TRUE]
<1> USE DEF IInv, ConsumedInv
<1>1. row[c] \in Row /\ row \in [Channels -> Row] /\ AccountAt(c) \in Account /\ pc[h] = "idle"
      /\ TypeOK /\ lease \in [Holders -> Lease] /\ row[c].seed = Seed
      /\ pc \in [Holders -> {"idle", "load", "send", "poll", "release"}]
      /\ applied[AccountAt(c)] \in Nat
  BY AccountType DEF BaseInv, TypeOK, Acquire, OneSeed
<1>2. newToken \in Tokens /\ newToken # NoToken /\ ~InUse(newToken)
  BY <1>1, NewTokenIsFresh, NamesAreFresh
<1>3. r.token = newToken /\ r.seed = row[c].seed /\ r.seq = row[c].seq
  BY <1>1 DEF Row
<1>4. l.token = newToken /\ l.last = row[c].seq /\ l.back = NoSeq /\ l.chan = c /\ l.seed = row[c].seed
      /\ l.resync = TRUE
  OBVIOUS
<1>5. row' = [row EXCEPT ![c] = r] /\ UNCHANGED <<applied, pending, landed, sent>>
  BY DEF Acquire
<1>6. \A d \in Channels : /\ row'[d].seed = row[d].seed /\ row'[d].seq = row[d].seq
                          /\ row'[d].token = IF d = c THEN newToken ELSE row[d].token
                          /\ d # c => row'[d] = row[d]
  <2> HIDE DEF r
  <2> QED BY <1>1, <1>3, <1>5
<1>7. doubt \subseteq doubt' /\ (row[c].token # NoToken => AccountAt(c) \in doubt')
  BY DEF Acquire
<1>8. \/ UNCHANGED <<pc, lease>>
      \/ /\ lease' = [lease EXCEPT ![h] = l]
         /\ \/ pc' = [pc EXCEPT ![h] = "release"] \/ pc' = [pc EXCEPT ![h] = "load"]
            \/ /\ pc' = [pc EXCEPT ![h] = "send"]
               /\ ~row[c].resync /\ row[c].seq # NoSeq
  BY DEF Acquire, Goto, TakenOver
<1> HIDE DEF r, l
<1>9. ASSUME NEW k \in Holders
      PROVE  \/ lease'[k] = lease[k] /\ pc'[k] = pc[k]
             \/ /\ k = h /\ lease'[k] = l
                /\ pc'[k] \in {"release", "load", "send"}
                /\ pc'[k] = "send" => ~row[c].resync /\ row[c].seq # NoSeq
  BY <1>1, <1>8
<1>10. ASSUME NEW k \in Holders
       PROVE  \/ /\ lease'[k] = lease[k] /\ pc'[k] = pc[k]
                 /\ AccountOf(k)' = AccountOf(k) /\ SeqOf(k)' = SeqOf(k)
              \/ /\ k = h /\ lease'[k] = l /\ AccountOf(k)' = AccountAt(c)
                 /\ pc'[k] \in {"release", "load", "send"}
                 /\ pc'[k] = "send" => ~row[c].resync /\ row[c].seq # NoSeq
  BY <1>9, <1>4 DEF AccountOf, AccountAt, SeqOf
<1>11. h \notin landed /\ \A a \in Account : pending[a].by # h
  <2>1. h \notin landed
    BY <1>1 DEF HeldIsConsumed
  <2>2. \A a \in Account : pending[a].by # h
    BY <1>1, NamesAreFresh DEF PendingIsFollowers
  <2> QED BY <2>1, <2>2
<1>12. OneSeed'
  BY <1>1, <1>4, <1>6, <1>9 DEF OneSeed
<1>13. PendingIsFollowers'
  <2> SUFFICES ASSUME NEW a \in Account, NEW k \in Holders, pending[a].by = k
               PROVE  /\ pc'[k] = "poll" /\ k \notin landed /\ AccountOf(k)' = a
                      /\ SeqOf(k)' = applied[a] + 1
    BY <1>1, <1>5 DEF TypeOK, PendingIsFollowers, AccountOf, SeqOf
  <2>1. k # h
    BY <1>11
  <2>2. pc'[k] = pc[k] /\ AccountOf(k)' = AccountOf(k) /\ SeqOf(k)' = SeqOf(k)
    BY <1>10, <2>1
  <2> QED BY <2>2, NamesAreFresh DEF PendingIsFollowers
<1>14. HeldIsConsumed'
  <2> SUFFICES ASSUME NEW k \in Holders
               PROVE  /\ pc'[k] # "idle" => lease'[k].last <= applied[AccountOf(k)']
                      /\ lease'[k].back <= applied[AccountOf(k)']
                      /\ k \in landed => pc'[k] = "poll" /\ SeqOf(k)' <= applied[AccountOf(k)']
    BY <1>5 DEF HeldIsConsumed, AccountOf, SeqOf
  <2>1. CASE k = h /\ lease'[k] = l /\ AccountOf(k)' = AccountAt(c)
    BY <2>1, <1>1, <1>4, <1>11 DEF KnownIsConsumed, NoSeq
  <2> QED BY <2>1, <1>10 DEF HeldIsConsumed
<1>15. KnownIsConsumed'
  BY <1>5, <1>6 DEF KnownIsConsumed, AccountAt
<1>16. TokensAreUnique'
  <2>1. \A k \in Holders : lease[k].token # newToken
    BY <1>2 DEF InUse
  <2> QED BY <2>1, <1>4, <1>9 DEF TokensAreUnique
<1>17. RowIsHeld'
  <2> SUFFICES ASSUME NEW k \in Holders, pc'[k] # "idle", AccountOf(k)' \notin doubt'
               PROVE  row'[lease'[k].chan].token = lease'[k].token
    BY DEF RowIsHeld, AccountOf
  <2>1. CASE k = h /\ lease'[k] = l
    BY <2>1, <1>4, <1>6
  <2>2. CASE lease'[k] = lease[k] /\ pc'[k] = pc[k] /\ AccountOf(k)' = AccountOf(k)
    <3>1. row[lease[k].chan].token = lease[k].token /\ lease[k].token \in Tokens
      BY <2>2, <1>7 DEF RowIsHeld, BaseInv, LeaseIsHeld
    <3>2. lease[k].chan # c
      BY <3>1, <2>2, <1>7, OneAccount, NamesAreFresh
    <3>3. lease[k].chan \in Channels
      BY OneAccount
    <3> QED BY <3>1, <3>2, <3>3, <2>2, <1>6
  <2> QED BY <2>1, <2>2, <1>10
<1>18. PendingIsFollowed'
  BY <1>5, <1>7 DEF PendingIsFollowed
<1>19. HeldIsUpToDate'
  <2> SUFFICES ASSUME NEW k \in Holders, AccountOf(k)' \notin doubt'
               PROVE  /\ pc'[k] = "send" => lease'[k].last = applied[AccountOf(k)']
                      /\ k \in landed => SeqOf(k)' = applied[AccountOf(k)']
                      /\ pc'[k] = "release" /\ ~lease'[k].resync =>
                           lease'[k].back = applied[AccountOf(k)']
    BY <1>5 DEF HeldIsUpToDate, AccountOf, SeqOf
  <2>1. CASE /\ k = h /\ lease'[k] = l /\ AccountOf(k)' = AccountAt(c)
             /\ pc'[k] = "send" => ~row[c].resync /\ row[c].seq # NoSeq
    <3>1. row[c].token = NoToken /\ AccountAt(c) \notin doubt
      BY <2>1, <1>7
    <3>2. pc'[k] = "send" => row[c].seq = applied[AccountAt(c)]
      BY <3>1, <2>1 DEF FreeChannelIsUpToDate
    <3> QED BY <3>2, <2>1, <1>4, <1>11
  <2>2. CASE /\ lease'[k] = lease[k] /\ pc'[k] = pc[k] /\ AccountOf(k)' = AccountOf(k)
             /\ SeqOf(k)' = SeqOf(k)
    BY <2>2, <1>7 DEF HeldIsUpToDate
  <2> QED BY <2>1, <2>2, <1>10
<1>20. FreeChannelIsUpToDate'
  <2> SUFFICES ASSUME NEW d \in Channels, row'[d].token = NoToken, ~row'[d].resync,
                      AccountAt(d)' \notin doubt'
               PROVE  row'[d].seq = applied[AccountAt(d)']
    BY <1>5 DEF FreeChannelIsUpToDate, AccountAt
  <2>1. d # c /\ row'[d] = row[d] /\ AccountAt(d)' = AccountAt(d)
    BY <1>2, <1>6 DEF AccountAt
  <2> QED BY <2>1, <1>7 DEF FreeChannelIsUpToDate
<1> QED BY <1>12, <1>13, <1>14, <1>15, <1>16, <1>17, <1>18, <1>19, <1>20

\* A holder goes on: its lease is of the same row, and the rows are left alone.
Moves(h, l, step) ==
  /\ lease' = [lease EXCEPT ![h] = l] /\ pc' = [pc EXCEPT ![h] = step]
  /\ pc[h] # "idle" /\ step # "idle"
  /\ l.chan = lease[h].chan /\ l.seed = lease[h].seed /\ l.token = lease[h].token
  /\ UNCHANGED <<row, applied>>
  /\ doubt \subseteq doubt'

LEMMA BackMoves ==
  ASSUME TypeOK, NEW h \in Holders, NEW b \in Nat \cup {NoSeq}, NEW resync \in BOOLEAN,
         Back(h, b, resync), pc[h] # "idle", UNCHANGED <<row, applied>>, doubt \subseteq doubt'
  PROVE  /\ Moves(h, Handed(lease[h], b, resync), "release")
         /\ Handed(lease[h], b, resync).last = lease[h].last
         /\ Handed(lease[h], b, resync).back = b
         /\ Handed(lease[h], b, resync).resync = resync
BY BackIsHanded DEF Moves

LEMMA BackWithoutNumber ==
  ASSUME TypeOK, NEW h \in Holders, Back(h, NoSeq, TRUE), pc[h] # "idle",
         UNCHANGED <<row, applied>>, doubt \subseteq doubt'
  PROVE  /\ Moves(h, Handed(lease[h], NoSeq, TRUE), "release")
         /\ Handed(lease[h], NoSeq, TRUE).last = lease[h].last
         /\ Handed(lease[h], NoSeq, TRUE).back = NoSeq
         /\ Handed(lease[h], NoSeq, TRUE).resync = TRUE
<1>1. NoSeq \in Nat \cup {NoSeq} /\ TRUE \in BOOLEAN
  OBVIOUS
<1> QED BY <1>1, BackMoves

\* What every such step keeps.
LEMMA MovesKeeps ==
  ASSUME IInv, NEW h \in Holders, NEW l, NEW step, Moves(h, l, step)
  PROVE  /\ \A k \in Holders : /\ AccountOf(k)' = AccountOf(k)
                               /\ lease'[k] = IF k = h THEN l ELSE lease[k]
                               /\ pc'[k] = IF k = h THEN step ELSE pc[k]
                               /\ k # h => SeqOf(k)' = SeqOf(k)
                               /\ applied[AccountOf(k)] \in Nat
         /\ OneSeed' /\ KnownIsConsumed' /\ TokensAreUnique' /\ RowIsHeld'
         /\ FreeChannelIsUpToDate'
<1> USE DEF IInv, ConsumedInv, Moves
<1>1. \A k \in Holders : /\ lease'[k] = IF k = h THEN l ELSE lease[k]
                         /\ pc'[k] = IF k = h THEN step ELSE pc[k]
                         /\ applied[AccountOf(k)] \in Nat
  BY AccountType DEF BaseInv, TypeOK
<1>2. \A k \in Holders : /\ AccountOf(k)' = AccountOf(k)
                         /\ k # h => SeqOf(k)' = SeqOf(k)
                         /\ lease'[k].chan = lease[k].chan /\ lease'[k].token = lease[k].token
                         /\ pc'[k] # "idle" <=> pc[k] # "idle"
  BY <1>1 DEF AccountOf, SeqOf
<1>3. OneSeed'
  BY <1>1 DEF OneSeed
<1>4. KnownIsConsumed' /\ FreeChannelIsUpToDate'
  BY DEF KnownIsConsumed, FreeChannelIsUpToDate, AccountAt
<1>5. TokensAreUnique' /\ RowIsHeld'
  BY <1>2 DEF TokensAreUnique, RowIsHeld
<1> QED BY <1>1, <1>2, <1>3, <1>4, <1>5

\* A step of a holder that does not touch its transactions.
LEMMA QuietMoveKeeps ==
  ASSUME IInv, BaseInv', NEW h \in Holders, NEW l, NEW step, Moves(h, l, step),
         UNCHANGED <<pending, landed>>, pc[h] # "poll", step # "poll",
         l.last <= applied[AccountOf(h)], l.back <= applied[AccountOf(h)],
         AccountOf(h) \notin doubt' =>
           /\ step = "send" => l.last = applied[AccountOf(h)]
           /\ step = "release" /\ ~l.resync => l.back = applied[AccountOf(h)]
  PROVE  IInv'
<1> USE DEF IInv, ConsumedInv
<1>1. /\ \A k \in Holders : /\ AccountOf(k)' = AccountOf(k)
                            /\ lease'[k] = IF k = h THEN l ELSE lease[k]
                            /\ pc'[k] = IF k = h THEN step ELSE pc[k]
                            /\ k # h => SeqOf(k)' = SeqOf(k)
      /\ OneSeed' /\ KnownIsConsumed' /\ TokensAreUnique' /\ RowIsHeld'
      /\ FreeChannelIsUpToDate'
  BY MovesKeeps
<1>2. UNCHANGED applied /\ doubt \subseteq doubt'
  BY DEF Moves
<1>3. h \notin landed /\ \A a \in Account : pending[a].by # h
  BY NamesAreFresh DEF HeldIsConsumed, PendingIsFollowers
<1>4. PendingIsFollowers'
  <2> SUFFICES ASSUME NEW a \in Account, NEW k \in Holders, pending[a].by = k
               PROVE  /\ pc'[k] = "poll" /\ k \notin landed /\ AccountOf(k)' = a
                      /\ SeqOf(k)' = applied[a] + 1
    BY <1>2 DEF BaseInv, TypeOK, PendingIsFollowers, AccountOf, SeqOf
  <2>1. k # h
    BY <1>3
  <2> QED BY <2>1, <1>1, NamesAreFresh DEF PendingIsFollowers
<1>5. HeldIsConsumed'
  <2> SUFFICES ASSUME NEW k \in Holders
               PROVE  /\ pc'[k] # "idle" => lease'[k].last <= applied[AccountOf(k)']
                      /\ lease'[k].back <= applied[AccountOf(k)']
                      /\ k \in landed => pc'[k] = "poll" /\ SeqOf(k)' <= applied[AccountOf(k)']
    BY <1>2 DEF HeldIsConsumed, AccountOf, SeqOf
  <2>1. CASE k = h
    BY <2>1, <1>1, <1>3
  <2>2. CASE k # h
    BY <2>2, <1>1 DEF HeldIsConsumed
  <2> QED BY <2>1, <2>2
<1>6. PendingIsFollowed'
  BY <1>2 DEF PendingIsFollowed
<1>7. HeldIsUpToDate'
  <2> SUFFICES ASSUME NEW k \in Holders, AccountOf(k)' \notin doubt'
               PROVE  /\ pc'[k] = "send" => lease'[k].last = applied[AccountOf(k)']
                      /\ k \in landed => SeqOf(k)' = applied[AccountOf(k)']
                      /\ pc'[k] = "release" /\ ~lease'[k].resync =>
                           lease'[k].back = applied[AccountOf(k)']
    BY <1>2 DEF HeldIsUpToDate, AccountOf, SeqOf
  <2>1. CASE k = h
    BY <2>1, <1>1, <1>3
  <2>2. CASE k # h
    BY <2>2, <1>1, <1>2 DEF HeldIsUpToDate
  <2> QED BY <2>1, <2>2
<1> QED BY <1>1, <1>4, <1>5, <1>6, <1>7

LEMMA LoadAccountKeeps ==
  ASSUME IInv, BaseInv', NEW h \in Holders, LoadAccount(h)
  PROVE  IInv'
<1> DEFINE a == AccountOf(h)
<1>1. /\ TypeOK /\ lease[h] \in Lease /\ lease \in [Holders -> Lease] /\ applied[a] \in Nat
      /\ lease[h].back <= applied[a] /\ lease[h].last <= applied[a] /\ pc[h] = "load"
  BY AccountType DEF IInv, ConsumedInv, BaseInv, TypeOK, HeldIsConsumed, LoadAccount
<1>2. UNCHANGED <<row, applied, pending, landed>> /\ doubt \subseteq doubt'
  BY DEF LoadAccount
<1>3. CASE Back(h, NoSeq, TRUE)
  <2> DEFINE l == Handed(lease[h], NoSeq, TRUE)
  <2>1. Moves(h, l, "release") /\ l.last = lease[h].last /\ l.back = NoSeq /\ l.resync = TRUE
    BY <1>1, <1>2, <1>3, BackWithoutNumber
  <2> HIDE DEF l
  <2> QED BY <2>1, <1>1, <1>2, QuietMoveKeeps DEF NoSeq
<1>4. ASSUME NEW n \in Nat, lease' = [lease EXCEPT ![h].last = n], pc' = [pc EXCEPT ![h] = "send"],
             n <= applied[a], a \notin doubt' => n = applied[a]
      PROVE  IInv'
  <2> DEFINE l == [lease[h] EXCEPT !.last = n]
  <2>1. l.last = n /\ l.back = lease[h].back /\ l.chan = lease[h].chan /\ l.seed = lease[h].seed
        /\ l.token = lease[h].token
    BY <1>1 DEF Lease
  <2>2. Moves(h, l, "send")
    BY <2>1, <1>1, <1>2, <1>4 DEF Moves
  <2> HIDE DEF l
  <2> QED BY <2>1, <2>2, <1>1, <1>2, <1>4, QuietMoveKeeps
<1>5. \/ Back(h, NoSeq, TRUE)
      \/ \E n \in Nat : /\ lease' = [lease EXCEPT ![h].last = n] /\ pc' = [pc EXCEPT ![h] = "send"]
                       /\ n <= applied[a] /\ (a \notin doubt' => n = applied[a])
  <2>1. /\ applied[a] > 0 => applied[a] - 1 \in Nat /\ applied[a] - 1 <= applied[a]
        /\ applied[a] <= applied[a]
    BY <1>1
  <2>2. a \in doubt \cup {a}
    OBVIOUS
  <2> QED BY <2>1, <2>2, <1>1, Zenon DEF LoadAccount, Goto
<1> QED BY <1>3, <1>4, <1>5

\* What is known of a holder that is about to send.
LEMMA AtSend ==
  ASSUME IInv, NEW h \in Holders, pc[h] = "send"
  PROVE  /\ TypeOK /\ lease[h].last \in Nat /\ applied[AccountOf(h)] \in Nat
         /\ AccountOf(h) \in Account /\ h \notin landed
         /\ lease[h].last <= applied[AccountOf(h)] /\ lease[h].back <= applied[AccountOf(h)]
         /\ AccountOf(h) \notin doubt => lease[h].last = applied[AccountOf(h)]
         /\ \A a \in Account : pending[a].by # h
<1> USE DEF IInv, ConsumedInv
<1>1. TypeOK /\ lease[h].last \in Nat
  BY DEF BaseInv, LeaseIsHeld
<1>2. AccountOf(h) \in Account /\ applied[AccountOf(h)] \in Nat
  BY <1>1, AccountType
<1>3. /\ h \notin landed /\ lease[h].last <= applied[AccountOf(h)]
      /\ lease[h].back <= applied[AccountOf(h)]
  BY DEF HeldIsConsumed
<1>4. AccountOf(h) \notin doubt => lease[h].last = applied[AccountOf(h)]
  BY DEF HeldIsUpToDate
<1>5. \A a \in Account : pending[a].by # h
  BY NamesAreFresh DEF PendingIsFollowers
<1> QED BY <1>1, <1>2, <1>3, <1>4, <1>5

\* The number was refused, or nothing was sent.
LEMMA NotSentKeeps ==
  ASSUME IInv, BaseInv', NEW h \in Holders, pc[h] = "send",
         UNCHANGED <<row, applied, pending, landed, doubt>>,
         Back(h, NoSeq, TRUE) \/ Back(h, lease[h].last, FALSE)
  PROVE  IInv'
<1>1. CASE Back(h, NoSeq, TRUE)
  <2> DEFINE l == Handed(lease[h], NoSeq, TRUE)
  <2>1. Moves(h, l, "release") /\ l.last = lease[h].last /\ l.back = NoSeq /\ l.resync = TRUE
    BY <1>1, AtSend, BackWithoutNumber
  <2> HIDE DEF l
  <2> QED BY <2>1, AtSend, QuietMoveKeeps DEF NoSeq
<1>2. CASE Back(h, lease[h].last, FALSE)
  <2> DEFINE l == Handed(lease[h], lease[h].last, FALSE)
  <2>1. lease[h].last \in Nat \cup {NoSeq}
    BY AtSend
  <2>2. Moves(h, l, "release") /\ l.last = lease[h].last /\ l.back = lease[h].last
    BY <1>2, <2>1, AtSend, BackMoves
  <2> HIDE DEF l
  <2> QED BY <2>2, AtSend, QuietMoveKeeps
<1> QED BY <1>1, <1>2

\* A transaction joins the queue, followed or not.
LEMMA SentKeeps ==
  ASSUME IInv, BaseInv', NEW h \in Holders, pc[h] = "send", NEW l, NEW step, Moves(h, l, step),
         NEW by \in {h, Nobody}, Due(h), UNCHANGED landed,
         pending' = [pending EXCEPT ![AccountOf(h)] = [seq |-> SeqOf(h), by |-> by]],
         l.last = lease[h].last, l.back <= applied[AccountOf(h)],
         by = h => step = "poll",
         by = Nobody => step = "release" /\ l.resync = TRUE /\ AccountOf(h) \in doubt'
  PROVE  IInv'
<1> USE DEF IInv, ConsumedInv
<1> DEFINE b == AccountOf(h)
<1>1. /\ \A k \in Holders : /\ AccountOf(k)' = AccountOf(k)
                            /\ lease'[k] = IF k = h THEN l ELSE lease[k]
                            /\ pc'[k] = IF k = h THEN step ELSE pc[k]
                            /\ k # h => SeqOf(k)' = SeqOf(k)
      /\ OneSeed' /\ KnownIsConsumed' /\ TokensAreUnique' /\ RowIsHeld'
      /\ FreeChannelIsUpToDate'
  BY MovesKeeps
<1>2. UNCHANGED applied /\ doubt \subseteq doubt'
  BY DEF Moves
<1>3. /\ h \notin landed /\ b \in Account /\ lease[h].last <= applied[b]
      /\ \A a \in Account : pending[a].by # h
  BY AtSend
<1>4. SeqOf(h)' = SeqOf(h)
  BY <1>1 DEF SeqOf
<1>5. \A a \in Account : pending'[a] = IF a = b THEN [seq |-> SeqOf(h), by |-> by] ELSE pending[a]
  BY <1>3 DEF BaseInv, TypeOK
<1> HIDE DEF b
<1>6. PendingIsFollowers'
  <2> SUFFICES ASSUME NEW a \in Account, NEW k \in Holders, pending'[a].by = k
               PROVE  /\ pc'[k] = "poll" /\ k \notin landed /\ AccountOf(k)' = a
                      /\ SeqOf(k)' = applied[a] + 1
    BY <1>2 DEF BaseInv, TypeOK, PendingIsFollowers, AccountOf, SeqOf
  <2>1. CASE a = b
    <3>1. k = h /\ by = h
      BY <2>1, <1>5, NamesAreFresh
    <3> QED BY <3>1, <2>1, <1>1, <1>3, <1>4 DEF Due, b
  <2>2. CASE a # b
    <3>1. pending[a].by = k /\ k # h
      BY <2>2, <1>3, <1>5
    <3> QED BY <3>1, <1>1, NamesAreFresh DEF PendingIsFollowers
  <2> QED BY <2>1, <2>2
<1>7. HeldIsConsumed'
  <2> SUFFICES ASSUME NEW k \in Holders
               PROVE  /\ pc'[k] # "idle" => lease'[k].last <= applied[AccountOf(k)']
                      /\ lease'[k].back <= applied[AccountOf(k)']
                      /\ k \in landed => pc'[k] = "poll" /\ SeqOf(k)' <= applied[AccountOf(k)']
    BY <1>2 DEF HeldIsConsumed, AccountOf, SeqOf
  <2>1. CASE k = h
    BY <2>1, <1>1, <1>3 DEF b
  <2>2. CASE k # h
    BY <2>2, <1>1 DEF HeldIsConsumed
  <2> QED BY <2>1, <2>2
<1>8. PendingIsFollowed'
  <2> SUFFICES ASSUME NEW a \in Account, pending'[a] # NoTx, a \notin doubt'
               PROVE  pending'[a].by # Nobody
    BY DEF PendingIsFollowed
  <2>1. CASE a = b
    BY <2>1, <1>5, NamesAreFresh DEF b
  <2>2. CASE a # b
    BY <2>2, <1>2, <1>5 DEF PendingIsFollowed
  <2> QED BY <2>1, <2>2
<1>9. HeldIsUpToDate'
  <2> SUFFICES ASSUME NEW k \in Holders, AccountOf(k)' \notin doubt'
               PROVE  /\ pc'[k] = "send" => lease'[k].last = applied[AccountOf(k)']
                      /\ k \in landed => SeqOf(k)' = applied[AccountOf(k)']
                      /\ pc'[k] = "release" /\ ~lease'[k].resync =>
                           lease'[k].back = applied[AccountOf(k)']
    BY <1>2 DEF HeldIsUpToDate, AccountOf, SeqOf
  <2>1. CASE k = h
    BY <2>1, <1>1, <1>3
  <2>2. CASE k # h
    BY <2>2, <1>1, <1>2 DEF HeldIsUpToDate
  <2> QED BY <2>1, <2>2
<1> QED BY <1>1, <1>6, <1>7, <1>8, <1>9

LEMMA SendKeeps ==
  ASSUME IInv, BaseInv', NEW h \in Holders,
         SendAccepted(h) \/ SendBadSeq(h) \/ SendUnknown(h) \/ SendRefused(h)
  PROVE  IInv'
<1>1. pc[h] = "send"
  BY Zenon DEF SendAccepted, SendBadSeq, SendUnknown, SendRefused
<1>2. CASE SendAccepted(h)
  <2>1. Moves(h, lease[h], "poll")
    BY <1>2, AtSend DEF SendAccepted, Goto, Moves, TypeOK
  <2>2. /\ pending' = [pending EXCEPT ![AccountOf(h)] = [seq |-> SeqOf(h), by |-> h]]
        /\ Due(h) /\ UNCHANGED landed /\ h # Nobody
    BY <1>2, NamesAreFresh DEF SendAccepted
  <2> QED BY <1>1, <2>1, <2>2, AtSend, SentKeeps
<1>3. CASE SendUnknown(h) /\ ~UNCHANGED pending
  <2> DEFINE l == Handed(lease[h], NoSeq, TRUE)
  <2>1. /\ Back(h, NoSeq, TRUE) /\ UNCHANGED <<row, applied, landed>>
        /\ Due(h) /\ doubt' = doubt \cup {AccountOf(h)}
        /\ pending' = [pending EXCEPT ![AccountOf(h)] = [seq |-> SeqOf(h), by |-> Nobody]]
    BY <1>3 DEF SendUnknown
  <2>2. Moves(h, l, "release") /\ l.last = lease[h].last /\ l.back = NoSeq /\ l.resync = TRUE
    BY <1>1, <2>1, AtSend, BackWithoutNumber
  <2>3. NoSeq <= applied[AccountOf(h)]
    BY <1>1, AtSend DEF NoSeq
  <2> HIDE DEF l
  <2> QED BY <1>1, <2>1, <2>2, <2>3, SentKeeps, NamesAreFresh
<1>4. CASE SendBadSeq(h) \/ SendRefused(h) \/ (SendUnknown(h) /\ UNCHANGED pending)
  <2>1. CASE SendUnknown(h) /\ UNCHANGED pending
    <3>1. UNCHANGED doubt
      <4>1. ~Busy(h) => pending' # [pending EXCEPT ![AccountOf(h)] = [seq |-> SeqOf(h), by |-> Nobody]]
        <5>1. AccountOf(h) \in Account /\ lease[h].last \in Nat /\ pending \in [Account -> [seq : Nat, by : Holders \cup {Nobody}]]
          BY <1>1, AtSend DEF TypeOK
        <5>2. [seq |-> SeqOf(h), by |-> Nobody].seq = SeqOf(h) /\ NoTx.seq = 0 /\ SeqOf(h) # 0
          BY <5>1 DEF NoTx, SeqOf
        <5> QED BY <5>1, <5>2, <2>1 DEF Busy
      <4> QED BY <4>1, <2>1 DEF SendUnknown
    <3> QED BY <3>1, <2>1, <1>1, NotSentKeeps DEF SendUnknown
  <2>2. CASE SendBadSeq(h) \/ SendRefused(h)
    BY <2>2, <1>1, NotSentKeeps DEF SendBadSeq, SendRefused, ReloadNext
  <2> QED BY <1>4, <2>1, <2>2
<1> QED BY <1>2, <1>3, <1>4

LEMMA PollLandedKeeps ==
  ASSUME IInv, BaseInv', NEW h \in Holders, PollLanded(h)
  PROVE  IInv'
<1> USE DEF IInv, ConsumedInv
<1> DEFINE n == SeqOf(h)
           l == Handed(lease[h], n, FALSE)
<1>1. /\ TypeOK /\ pc[h] = "poll" /\ h \in landed /\ landed' = landed \ {h} /\ Back(h, n, FALSE)
      /\ UNCHANGED <<row, applied, pending, doubt>>
  BY DEF BaseInv, PollLanded, Consumed
<1>2. n \in Nat /\ lease[h].last \in Nat /\ applied[AccountOf(h)] \in Nat
  BY <1>1, AccountType DEF BaseInv, LeaseIsHeld, SeqOf
<1>3. n <= applied[AccountOf(h)] /\ lease[h].last <= applied[AccountOf(h)]
      /\ (AccountOf(h) \notin doubt => n = applied[AccountOf(h)])
  BY <1>1 DEF HeldIsConsumed, HeldIsUpToDate
<1>4. Moves(h, l, "release") /\ l.last = lease[h].last /\ l.back = n
  <2> HIDE DEF n
  <2> QED BY <1>1, <1>2, BackMoves
<1> HIDE DEF n, l
<1>5. /\ \A k \in Holders : /\ AccountOf(k)' = AccountOf(k)
                            /\ lease'[k] = IF k = h THEN l ELSE lease[k]
                            /\ pc'[k] = IF k = h THEN "release" ELSE pc[k]
                            /\ k # h => SeqOf(k)' = SeqOf(k)
      /\ OneSeed' /\ KnownIsConsumed' /\ TokensAreUnique' /\ RowIsHeld'
      /\ FreeChannelIsUpToDate'
  BY <1>4, MovesKeeps
<1>6. \A a \in Account : pending[a].by # h
  BY <1>1, NamesAreFresh DEF PendingIsFollowers
<1>7. PendingIsFollowers'
  <2> SUFFICES ASSUME NEW a \in Account, NEW k \in Holders, pending[a].by = k
               PROVE  /\ pc'[k] = "poll" /\ k \notin landed' /\ AccountOf(k)' = a
                      /\ SeqOf(k)' = applied[a] + 1
    BY <1>1 DEF TypeOK, PendingIsFollowers, AccountOf, SeqOf
  <2> QED BY <1>1, <1>5, <1>6, NamesAreFresh DEF PendingIsFollowers
<1>8. HeldIsConsumed'
  <2> SUFFICES ASSUME NEW k \in Holders
               PROVE  /\ pc'[k] # "idle" => lease'[k].last <= applied[AccountOf(k)']
                      /\ lease'[k].back <= applied[AccountOf(k)']
                      /\ k \in landed' => pc'[k] = "poll" /\ SeqOf(k)' <= applied[AccountOf(k)']
    BY <1>1 DEF HeldIsConsumed, AccountOf, SeqOf
  <2>1. CASE k = h
    BY <2>1, <1>1, <1>3, <1>4, <1>5
  <2>2. CASE k # h
    BY <2>2, <1>1, <1>5 DEF HeldIsConsumed
  <2> QED BY <2>1, <2>2
<1>9. PendingIsFollowed'
  BY <1>1 DEF PendingIsFollowed
<1>10. HeldIsUpToDate'
  <2> SUFFICES ASSUME NEW k \in Holders, AccountOf(k)' \notin doubt
               PROVE  /\ pc'[k] = "send" => lease'[k].last = applied[AccountOf(k)']
                      /\ k \in landed' => SeqOf(k)' = applied[AccountOf(k)']
                      /\ pc'[k] = "release" /\ ~lease'[k].resync =>
                           lease'[k].back = applied[AccountOf(k)']
    BY <1>1 DEF HeldIsUpToDate, AccountOf, SeqOf
  <2>1. CASE k = h
    BY <2>1, <1>1, <1>3, <1>4, <1>5
  <2>2. CASE k # h
    BY <2>2, <1>1, <1>5 DEF HeldIsUpToDate
  <2> QED BY <2>1, <2>2
<1> QED BY <1>5, <1>7, <1>8, <1>9, <1>10

\* A holder that leaves takes its name off what is pending, and leaves doubt where it
\* was.  What this keeps, whatever becomes of its lease.
LEMMA LeaveKeeps ==
  ASSUME IInv, NEW h \in Holders, Leave(h), UNCHANGED applied,
         \A k \in Holders : k # h => /\ lease'[k] = lease[k] /\ pc'[k] = pc[k]
                                     /\ AccountOf(k)' = AccountOf(k) /\ SeqOf(k)' = SeqOf(k)
  PROVE  /\ PendingIsFollowers' /\ PendingIsFollowed'
         /\ h \notin landed' /\ landed' \subseteq landed /\ doubt \subseteq doubt'
<1> USE DEF IInv, ConsumedInv
<1>1. TypeOK
  BY DEF BaseInv
<1>2. /\ \A a \in Account : /\ pending'[a].by = IF pending[a].by = h THEN Nobody ELSE pending[a].by
                            /\ pending[a].by # h => pending'[a] = pending[a]
      /\ landed' = landed \ {h} /\ doubt \subseteq doubt'
  BY <1>1, LeaveType
<1>3. PendingIsFollowers'
  <2> SUFFICES ASSUME NEW a \in Account, NEW k \in Holders, pending'[a].by = k
               PROVE  /\ pc'[k] = "poll" /\ k \notin landed' /\ AccountOf(k)' = a
                      /\ SeqOf(k)' = applied[a] + 1
    <3>1. \A a \in Account : pending'[a].by \in Holders \cup {Nobody}
      BY <1>1, <1>2 DEF TypeOK
    <3> QED BY <3>1 DEF PendingIsFollowers, AccountOf, SeqOf
  <2>1. k # h /\ pending[a].by = k
    BY <1>2, NamesAreFresh
  <2> QED BY <2>1, <1>2, NamesAreFresh DEF PendingIsFollowers
<1>4. PendingIsFollowed'
  <2> SUFFICES ASSUME NEW a \in Account, pending'[a] # NoTx, a \notin doubt'
               PROVE  pending'[a].by # Nobody
    BY DEF PendingIsFollowed
  <2>1. CASE pending[a].by = h
    <3>1. pc[h] = "poll" /\ AccountOf(h) = a
      BY <2>1, NamesAreFresh DEF PendingIsFollowers
    <3> QED BY <3>1 DEF Leave
  <2>2. CASE pending[a].by # h
    BY <2>2, <1>2 DEF PendingIsFollowed
  <2> QED BY <2>1, <2>2
<1> QED BY <1>2, <1>3, <1>4

LEMMA PollUnconfirmedKeeps ==
  ASSUME IInv, BaseInv', NEW h \in Holders, PollUnconfirmed(h)
  PROVE  IInv'
<1> USE DEF IInv, ConsumedInv
<1> DEFINE l == Handed(lease[h], NoSeq, TRUE)
<1>1. /\ TypeOK /\ pc[h] = "poll" /\ Back(h, NoSeq, TRUE) /\ Leave(h)
      /\ UNCHANGED <<row, applied>>
  BY DEF BaseInv, PollUnconfirmed
<1>2. doubt \subseteq doubt' /\ AccountOf(h) \in doubt'
  BY <1>1 DEF Leave
<1>3. Moves(h, l, "release") /\ l.last = lease[h].last /\ l.back = NoSeq /\ l.resync = TRUE
  BY <1>1, <1>2, BackWithoutNumber
<1> HIDE DEF l
<1>4. /\ \A k \in Holders : /\ AccountOf(k)' = AccountOf(k)
                            /\ lease'[k] = IF k = h THEN l ELSE lease[k]
                            /\ pc'[k] = IF k = h THEN "release" ELSE pc[k]
                            /\ k # h => SeqOf(k)' = SeqOf(k)
                            /\ applied[AccountOf(k)] \in Nat
      /\ OneSeed' /\ KnownIsConsumed' /\ TokensAreUnique' /\ RowIsHeld'
      /\ FreeChannelIsUpToDate'
  BY <1>3, MovesKeeps
<1>5. PendingIsFollowers' /\ PendingIsFollowed' /\ h \notin landed' /\ landed' \subseteq landed
  BY <1>1, <1>4, LeaveKeeps
<1>6. HeldIsConsumed'
  <2> SUFFICES ASSUME NEW k \in Holders
               PROVE  /\ pc'[k] # "idle" => lease'[k].last <= applied[AccountOf(k)']
                      /\ lease'[k].back <= applied[AccountOf(k)']
                      /\ k \in landed' => pc'[k] = "poll" /\ SeqOf(k)' <= applied[AccountOf(k)']
    BY <1>1 DEF HeldIsConsumed, AccountOf, SeqOf
  <2>1. CASE k = h
    <3>1. lease[h].last <= applied[AccountOf(h)]
      BY <1>1 DEF HeldIsConsumed
    <3> QED BY <2>1, <3>1, <1>3, <1>4, <1>5 DEF NoSeq
  <2>2. CASE k # h
    BY <2>2, <1>4, <1>5 DEF HeldIsConsumed
  <2> QED BY <2>1, <2>2
<1>7. HeldIsUpToDate'
  <2> SUFFICES ASSUME NEW k \in Holders, AccountOf(k)' \notin doubt'
               PROVE  /\ pc'[k] = "send" => lease'[k].last = applied[AccountOf(k)']
                      /\ k \in landed' => SeqOf(k)' = applied[AccountOf(k)']
                      /\ pc'[k] = "release" /\ ~lease'[k].resync =>
                           lease'[k].back = applied[AccountOf(k)']
    BY <1>1 DEF HeldIsUpToDate, AccountOf, SeqOf
  <2>1. k # h
    BY <1>2, <1>4
  <2> QED BY <2>1, <1>2, <1>4, <1>5 DEF HeldIsUpToDate
<1> QED BY <1>4, <1>5, <1>6, <1>7

\* A holder gives its lease up.
LEMMA GivenUp ==
  ASSUME IInv, NEW h \in Holders,
         lease' = [lease EXCEPT ![h] = NoLease], pc' = [pc EXCEPT ![h] = "idle"], UNCHANGED applied
  PROVE  /\ \A k \in Holders : k # h => /\ lease'[k] = lease[k] /\ pc'[k] = pc[k]
                                         /\ AccountOf(k)' = AccountOf(k) /\ SeqOf(k)' = SeqOf(k)
         /\ lease'[h] = NoLease /\ pc'[h] = "idle" /\ AccountOf(h)' \in Account
         /\ applied[AccountOf(h)'] \in Nat
         /\ \A k \in Holders : lease'[k].seed = Seed
         /\ TokensAreUnique'
<1> USE DEF IInv, ConsumedInv
<1>1. \A k \in Holders : /\ lease'[k] = IF k = h THEN NoLease ELSE lease[k]
                         /\ pc'[k] = IF k = h THEN "idle" ELSE pc[k]
  BY DEF BaseInv, TypeOK
<1>2. \A k \in Holders : k # h => AccountOf(k)' = AccountOf(k) /\ SeqOf(k)' = SeqOf(k)
  BY <1>1 DEF AccountOf, SeqOf
<1>3. AccountOf(h)' \in Account /\ applied[AccountOf(h)'] \in Nat
  <2>1. AccountOf(h)' = <<NoLease.seed, NoLease.chan>>
    BY <1>1 DEF AccountOf
  <2>2. AccountOf(h)' \in Account
    BY <2>1, NoLeaseType DEF Lease, Account
  <2> QED BY <2>2 DEF BaseInv, TypeOK
<1>4. \A k \in Holders : lease'[k].seed = Seed
  BY <1>1, NoLeaseType DEF OneSeed
<1>5. TokensAreUnique'
  <2>1. \A k \in Holders : pc[k] # "idle" => lease[k].token # NoToken
    BY NamesAreFresh DEF BaseInv, LeaseIsHeld
  <2> QED BY <2>1, <1>1, NoLeaseType DEF TokensAreUnique
<1> QED BY <1>1, <1>2, <1>3, <1>4, <1>5

LEMMA ReleaseKeeps ==
  ASSUME IInv, BaseInv', NEW h \in Holders, Release(h)
  PROVE  IInv'
<1> USE DEF IInv, ConsumedInv
<1> DEFINE l == lease[h]
           f == Freed(row[l.chan], l)
<1>1. l \in Lease /\ l.back \in Nat \cup {NoSeq} /\ l.chan \in Channels /\ row[l.chan] \in Row
      /\ pc[h] = "release" /\ TypeOK
  BY DEF BaseInv, TypeOK, LeaseIsHeld, Lease, Release
<1>2. /\ f.token = NoToken /\ f.seed = row[l.chan].seed /\ f.resync = l.resync
      /\ f.seq = (IF l.back = NoSeq THEN row[l.chan].seq ELSE l.back)
  BY <1>1, FreedRow
<1>3. row' = row \/ (SameToken(h) /\ row' = [row EXCEPT ![l.chan] = f])
  BY DEF Release
<1>4. /\ lease' = [lease EXCEPT ![h] = NoLease] /\ pc' = [pc EXCEPT ![h] = "idle"]
      /\ UNCHANGED <<applied, pending, landed, doubt>>
  BY DEF Release, Goto
<1> HIDE DEF f
<1>5. \A c \in Channels : row'[c] = row[c] \/ (SameToken(h) /\ c = l.chan /\ row'[c] = f)
  BY <1>1, <1>3 DEF TypeOK
<1>6. /\ \A k \in Holders : k # h => /\ lease'[k] = lease[k] /\ pc'[k] = pc[k]
                                      /\ AccountOf(k)' = AccountOf(k) /\ SeqOf(k)' = SeqOf(k)
      /\ lease'[h] = NoLease /\ pc'[h] = "idle" /\ AccountOf(h)' \in Account
      /\ applied[AccountOf(h)'] \in Nat
      /\ \A k \in Holders : lease'[k].seed = Seed
      /\ TokensAreUnique'
  BY <1>4, GivenUp
<1>7. h \notin landed /\ \A a \in Account : pending[a].by # h
  BY <1>1, NamesAreFresh DEF HeldIsConsumed, PendingIsFollowers
<1>8. OneSeed' /\ \A c \in Channels : AccountAt(c)' = AccountAt(c)
  BY <1>2, <1>5, <1>6 DEF OneSeed, AccountAt
<1>9. AccountAt(l.chan) = AccountOf(h) /\ applied[AccountOf(h)] \in Nat
  BY <1>1, OneAccount, AccountType
<1>10. PendingIsFollowers'
  <2> SUFFICES ASSUME NEW a \in Account, NEW k \in Holders, pending[a].by = k
               PROVE  /\ pc'[k] = "poll" /\ k \notin landed /\ AccountOf(k)' = a
                      /\ SeqOf(k)' = applied[a] + 1
    BY <1>1, <1>4 DEF TypeOK, PendingIsFollowers, AccountOf, SeqOf
  <2> QED BY <1>6, <1>7, NamesAreFresh DEF PendingIsFollowers
<1>11. HeldIsConsumed'
  <2> SUFFICES ASSUME NEW k \in Holders
               PROVE  /\ pc'[k] # "idle" => lease'[k].last <= applied[AccountOf(k)']
                      /\ lease'[k].back <= applied[AccountOf(k)']
                      /\ k \in landed => pc'[k] = "poll" /\ SeqOf(k)' <= applied[AccountOf(k)']
    BY <1>4 DEF HeldIsConsumed, AccountOf, SeqOf
  <2>1. CASE k = h
    BY <2>1, <1>6, <1>7, NoLeaseType DEF NoSeq
  <2>2. CASE k # h
    BY <2>2, <1>6 DEF HeldIsConsumed
  <2> QED BY <2>1, <2>2
<1>12. KnownIsConsumed'
  <2> SUFFICES ASSUME NEW c \in Channels PROVE row'[c].seq <= applied[AccountAt(c)]
    BY <1>4, <1>8 DEF KnownIsConsumed
  <2>1. CASE row'[c] = row[c]
    BY <2>1 DEF KnownIsConsumed
  <2>2. CASE c = l.chan /\ row'[c] = f
    BY <2>2, <1>1, <1>2, <1>9 DEF KnownIsConsumed, HeldIsConsumed
  <2> QED BY <2>1, <2>2, <1>5
<1>13. RowIsHeld'
  <2> SUFFICES ASSUME NEW k \in Holders, pc'[k] # "idle", AccountOf(k)' \notin doubt
               PROVE  row'[lease'[k].chan].token = lease'[k].token
    BY <1>4 DEF RowIsHeld, AccountOf
  <2>1. k # h /\ lease'[k] = lease[k] /\ pc[k] # "idle" /\ AccountOf(k) \notin doubt
    BY <1>6
  <2>2. row[lease[k].chan].token = lease[k].token /\ lease[k].chan \in Channels
    BY <2>1, OneAccount DEF RowIsHeld
  <2>3. row'[lease[k].chan] = row[lease[k].chan]
    <3>1. SUFFICES ASSUME SameToken(h), lease[k].chan = l.chan PROVE FALSE
      BY <2>2, <1>5
    <3>2. lease[k].token = lease[h].token
      BY <3>1, <2>2 DEF SameToken
    <3> QED BY <3>2, <2>1, <1>1 DEF TokensAreUnique
  <2> QED BY <2>1, <2>2, <2>3
<1>14. PendingIsFollowed'
  BY <1>4 DEF PendingIsFollowed
<1>15. HeldIsUpToDate'
  <2> SUFFICES ASSUME NEW k \in Holders, AccountOf(k)' \notin doubt
               PROVE  /\ pc'[k] = "send" => lease'[k].last = applied[AccountOf(k)']
                      /\ k \in landed => SeqOf(k)' = applied[AccountOf(k)']
                      /\ pc'[k] = "release" /\ ~lease'[k].resync =>
                           lease'[k].back = applied[AccountOf(k)']
    BY <1>4 DEF HeldIsUpToDate, AccountOf, SeqOf
  <2>1. CASE k = h
    BY <2>1, <1>6, <1>7
  <2>2. CASE k # h
    BY <2>2, <1>6 DEF HeldIsUpToDate
  <2> QED BY <2>1, <2>2
<1>16. FreeChannelIsUpToDate'
  <2> SUFFICES ASSUME NEW c \in Channels, row'[c].token = NoToken, ~row'[c].resync,
                      AccountAt(c) \notin doubt
               PROVE  row'[c].seq = applied[AccountAt(c)]
    BY <1>4, <1>8 DEF FreeChannelIsUpToDate
  <2>1. CASE row'[c] = row[c]
    BY <2>1 DEF FreeChannelIsUpToDate
  <2>2. CASE c = l.chan /\ row'[c] = f
    <3>1. l.back = applied[AccountOf(h)]
      BY <2>2, <1>1, <1>2, <1>9 DEF HeldIsUpToDate
    <3> QED BY <3>1, <2>2, <1>2, <1>9 DEF NoSeq
  <2> QED BY <2>1, <2>2, <1>5
<1> QED BY <1>6, <1>8, <1>10, <1>11, <1>12, <1>13, <1>14, <1>15, <1>16

LEMMA CrashKeeps == ASSUME IInv, BaseInv', NEW h \in Holders, Crash(h) PROVE IInv'
<1> USE DEF IInv, ConsumedInv
<1>1. /\ lease' = [lease EXCEPT ![h] = NoLease] /\ pc' = [pc EXCEPT ![h] = "idle"]
      /\ UNCHANGED <<row, applied>> /\ Leave(h)
  BY DEF Crash, Goto
<1>2. /\ \A k \in Holders : k # h => /\ lease'[k] = lease[k] /\ pc'[k] = pc[k]
                                      /\ AccountOf(k)' = AccountOf(k) /\ SeqOf(k)' = SeqOf(k)
      /\ lease'[h] = NoLease /\ pc'[h] = "idle"
      /\ applied[AccountOf(h)'] \in Nat
      /\ \A k \in Holders : lease'[k].seed = Seed
      /\ TokensAreUnique'
  BY <1>1, GivenUp
<1>3. /\ PendingIsFollowers' /\ PendingIsFollowed'
      /\ h \notin landed' /\ landed' \subseteq landed /\ doubt \subseteq doubt'
  BY <1>1, <1>2, LeaveKeeps
<1>4. OneSeed' /\ KnownIsConsumed' /\ FreeChannelIsUpToDate'
  BY <1>1, <1>2, <1>3 DEF OneSeed, KnownIsConsumed, FreeChannelIsUpToDate, AccountAt
<1>5. HeldIsConsumed'
  <2> SUFFICES ASSUME NEW k \in Holders
               PROVE  /\ pc'[k] # "idle" => lease'[k].last <= applied[AccountOf(k)']
                      /\ lease'[k].back <= applied[AccountOf(k)']
                      /\ k \in landed' => pc'[k] = "poll" /\ SeqOf(k)' <= applied[AccountOf(k)']
    BY <1>1 DEF HeldIsConsumed, AccountOf, SeqOf
  <2>1. CASE k = h
    BY <2>1, <1>2, <1>3, NoLeaseType DEF NoSeq
  <2>2. CASE k # h
    BY <2>2, <1>2, <1>3 DEF HeldIsConsumed
  <2> QED BY <2>1, <2>2
<1>6. RowIsHeld'
  <2> SUFFICES ASSUME NEW k \in Holders, pc'[k] # "idle", AccountOf(k)' \notin doubt'
               PROVE  row[lease'[k].chan].token = lease'[k].token
    BY <1>1 DEF RowIsHeld, AccountOf
  <2> QED BY <1>2, <1>3 DEF RowIsHeld
<1>7. HeldIsUpToDate'
  <2> SUFFICES ASSUME NEW k \in Holders, AccountOf(k)' \notin doubt'
               PROVE  /\ pc'[k] = "send" => lease'[k].last = applied[AccountOf(k)']
                      /\ k \in landed' => SeqOf(k)' = applied[AccountOf(k)']
                      /\ pc'[k] = "release" /\ ~lease'[k].resync =>
                           lease'[k].back = applied[AccountOf(k)']
    BY <1>1 DEF HeldIsUpToDate, AccountOf, SeqOf
  <2>1. CASE k = h
    BY <2>1, <1>2, <1>3
  <2>2. CASE k # h
    BY <2>2, <1>2, <1>3 DEF HeldIsUpToDate
  <2> QED BY <2>1, <2>2
<1> QED BY <1>2, <1>3, <1>4, <1>5, <1>6, <1>7

LEMMA LandKeeps == ASSUME IInv, BaseInv', NEW b \in Account, Land(b) PROVE IInv'
<1> USE DEF IInv, ConsumedInv
<1>1. /\ TypeOK /\ pending[b] # NoTx /\ UNCHANGED <<row, pc, lease, doubt>>
      /\ landed' = landed \cup ({pending[b].by} \ {Nobody})
      /\ pending' = [pending EXCEPT ![b] = NoTx] /\ applied' = [applied EXCEPT ![b] = @ + 1]
  BY DEF BaseInv, Land
<1>2. \A a \in Account : /\ applied[a] \in Nat
                         /\ applied'[a] = IF a = b THEN applied[a] + 1 ELSE applied[a]
                         /\ pending'[a] = IF a = b THEN NoTx ELSE pending[a]
  BY <1>1 DEF TypeOK
<1>3. /\ \A h \in Holders : /\ AccountOf(h)' = AccountOf(h) /\ SeqOf(h)' = SeqOf(h)
                            /\ AccountOf(h) \in Account /\ lease[h] \in Lease
      /\ \A c \in Channels : AccountAt(c)' = AccountAt(c) /\ AccountAt(c) \in Account /\ row[c] \in Row
  BY <1>1, AccountType DEF AccountOf, AccountAt, SeqOf
<1>4. pending[b].by \in Holders \cup {Nobody} /\ NoTx.by = Nobody
  BY <1>1 DEF TypeOK, NoTx
<1>5. ASSUME NEW k \in Holders, k = pending[b].by
      PROVE  /\ pc[k] = "poll" /\ k \notin landed /\ AccountOf(k) = b /\ SeqOf(k) = applied[b] + 1
  BY <1>5, NamesAreFresh DEF PendingIsFollowers
<1>6. OneSeed' /\ TokensAreUnique'
  BY <1>1 DEF OneSeed, TokensAreUnique
<1>7. PendingIsFollowers'
  <2> SUFFICES ASSUME NEW a \in Account, NEW k \in Holders, pending'[a].by = k
               PROVE  /\ pc[k] = "poll" /\ k \notin landed' /\ AccountOf(k) = a
                      /\ SeqOf(k) = applied'[a] + 1
    <3>1. \A a \in Account : pending'[a].by \in Holders \cup {Nobody}
      BY <1>1, <1>2, <1>4 DEF TypeOK
    <3> QED BY <3>1, <1>1 DEF PendingIsFollowers, AccountOf, SeqOf
  <2>1. a # b /\ pending[a].by = k
    BY <1>2, <1>4, NamesAreFresh
  <2>2. pc[k] = "poll" /\ k \notin landed /\ AccountOf(k) = a /\ SeqOf(k) = applied[a] + 1
    BY <2>1, NamesAreFresh DEF PendingIsFollowers
  <2>3. k # pending[b].by
    BY <2>1, <2>2, <1>5
  <2> QED BY <2>1, <2>2, <2>3, <1>1, <1>2
<1>8. HeldIsConsumed'
  <2> SUFFICES ASSUME NEW k \in Holders
               PROVE  /\ pc[k] # "idle" => lease[k].last <= applied'[AccountOf(k)]
                      /\ lease[k].back <= applied'[AccountOf(k)]
                      /\ k \in landed' => pc[k] = "poll" /\ SeqOf(k) <= applied'[AccountOf(k)]
    BY <1>1 DEF HeldIsConsumed, AccountOf, SeqOf
  <2>1. applied[AccountOf(k)] <= applied'[AccountOf(k)] /\ applied'[AccountOf(k)] \in Nat
        /\ applied[AccountOf(k)] \in Nat /\ lease[k].last \in Int /\ lease[k].back \in Int
        /\ SeqOf(k) \in Int
    BY <1>2, <1>3 DEF Lease, SeqOf
  <2>2. pc[k] # "idle" => lease[k].last <= applied[AccountOf(k)]
    BY DEF HeldIsConsumed
  <2>3. lease[k].back <= applied[AccountOf(k)]
    BY DEF HeldIsConsumed
  <2>4. k \in landed => pc[k] = "poll" /\ SeqOf(k) <= applied[AccountOf(k)]
    BY DEF HeldIsConsumed
  <2>5. k \in landed' /\ k \notin landed => pc[k] = "poll" /\ SeqOf(k) <= applied'[AccountOf(k)]
    BY <1>1, <1>2, <1>5
  <2> QED BY <2>1, <2>2, <2>3, <2>4, <2>5
<1>9. KnownIsConsumed'
  <2> SUFFICES ASSUME NEW c \in Channels PROVE row[c].seq <= applied'[AccountAt(c)]
    BY <1>1, <1>3 DEF KnownIsConsumed
  <2> QED BY <1>2, <1>3 DEF KnownIsConsumed, Row, NoSeq
<1>10. RowIsHeld'
  BY <1>1 DEF RowIsHeld, AccountOf
<1>11. PendingIsFollowed'
  BY <1>1, <1>2 DEF PendingIsFollowed
<1>12. b \notin doubt => \E k \in Holders : k = pending[b].by /\ pc[k] = "poll" /\ k \notin landed
                                             /\ AccountOf(k) = b /\ SeqOf(k) = applied[b] + 1
  BY <1>1, <1>4, <1>5 DEF PendingIsFollowed
<1>13. HeldIsUpToDate'
  <2> SUFFICES ASSUME NEW h \in Holders, AccountOf(h) \notin doubt
               PROVE  /\ pc[h] = "send" => lease[h].last = applied'[AccountOf(h)]
                      /\ h \in landed' => SeqOf(h) = applied'[AccountOf(h)]
                      /\ pc[h] = "release" /\ ~lease[h].resync =>
                           lease[h].back = applied'[AccountOf(h)]
    BY <1>1 DEF HeldIsUpToDate, AccountOf, SeqOf
  <2>1. CASE AccountOf(h) = b
    <3>1. PICK k \in Holders : /\ k = pending[b].by /\ pc[k] = "poll" /\ k \notin landed
                               /\ AccountOf(k) = b /\ SeqOf(k) = applied[b] + 1
      BY <2>1, <1>12
    <3>2. CASE h = k
      BY <3>1, <3>2, <1>2, <2>1
    <3>3. CASE h # k
      <4>1. pc[h] = "idle"
        BY <3>1, <3>3, <2>1, OneHolder
      <4>2. h \notin landed /\ h \notin landed'
        BY <4>1, <3>1, <3>3, <1>1 DEF HeldIsConsumed
      <4> QED BY <4>1, <4>2
    <3> QED BY <3>2, <3>3
  <2>2. CASE AccountOf(h) # b
    <3>1. applied'[AccountOf(h)] = applied[AccountOf(h)]
      BY <2>2, <1>2, <1>3
    <3>2. h \in landed' => h \in landed
      BY <2>2, <1>1, <1>5
    <3> QED BY <3>1, <3>2 DEF HeldIsUpToDate
  <2> QED BY <2>1, <2>2
<1>14. FreeChannelIsUpToDate'
  <2> SUFFICES ASSUME NEW c \in Channels, row[c].token = NoToken, ~row[c].resync,
                      AccountAt(c) \notin doubt
               PROVE  row[c].seq = applied'[AccountAt(c)]
    BY <1>1, <1>3 DEF FreeChannelIsUpToDate
  <2>1. AccountAt(c) # b
    <3> SUFFICES ASSUME AccountAt(c) = b PROVE FALSE
      OBVIOUS
    <3>1. PICK k \in Holders : pc[k] = "poll" /\ AccountOf(k) = b
      BY <1>12
    <3>2. lease[k].chan = c
      BY <3>1, OneAccount
    <3>3. row[c].token = lease[k].token
      BY <3>1, <3>2 DEF RowIsHeld
    <3>4. lease[k].token \in Tokens
      BY <3>1 DEF BaseInv, LeaseIsHeld
    <3> QED BY <3>3, <3>4, NamesAreFresh
  <2>2. applied'[AccountAt(c)] = applied[AccountAt(c)]
    BY <2>1, <1>2, <1>3
  <2> QED BY <2>2 DEF FreeChannelIsUpToDate
<1> QED BY <1>6, <1>7, <1>8, <1>9, <1>10, <1>11, <1>13, <1>14

LEMMA DropKeeps == ASSUME IInv, BaseInv', NEW b \in Account, Drop(b) PROVE IInv'
<1> USE DEF IInv, ConsumedInv
<1>1. /\ TypeOK /\ UNCHANGED <<row, pc, lease, applied, landed, doubt>>
      /\ pending' = [pending EXCEPT ![b] = NoTx]
  BY DEF BaseInv, Drop
<1>2. \A a \in Account : pending'[a] = IF a = b THEN NoTx ELSE pending[a]
  BY <1>1 DEF TypeOK
<1>3. OneSeed' /\ TokensAreUnique'
  BY <1>1 DEF OneSeed, TokensAreUnique
<1>4. HeldIsConsumed' /\ KnownIsConsumed' /\ RowIsHeld' /\ HeldIsUpToDate' /\ FreeChannelIsUpToDate'
  BY <1>1
  DEF HeldIsConsumed, KnownIsConsumed, RowIsHeld, HeldIsUpToDate, FreeChannelIsUpToDate, AccountOf,
      AccountAt, SeqOf
<1>5. PendingIsFollowers'
  <2>1. NoTx.by = Nobody
    BY DEF NoTx
  <2> QED BY <2>1, <1>1, <1>2 DEF PendingIsFollowers, AccountOf, SeqOf
<1>6. PendingIsFollowed'
  BY <1>1, <1>2 DEF PendingIsFollowed
<1> QED BY <1>3, <1>4, <1>5, <1>6

LEMMA InitIInv == Init => IInv
<1> SUFFICES ASSUME Init PROVE IInv
  OBVIOUS
<1>1. BaseInv /\ TypeOK
  BY InitBase DEF BaseInv
<1>2. ASSUME NEW c \in Channels
      PROVE  /\ row[c].seed = Seed /\ row[c].seq = NoSeq /\ row[c].resync = TRUE
             /\ AccountAt(c) \in Account /\ applied[AccountAt(c)] = 0
  <2> DEFINE e == [FreshRow(Seed) EXCEPT !.status = "absent"]
  <2>1. EmptyTable[c] = e
    BY DEF EmptyTable, Seed
  <2>2. /\ e.seed = Seed /\ e.seq = NoSeq /\ e.resync = TRUE /\ e.status = "absent"
        /\ FreshRow(Seed).seed = Seed /\ FreshRow(Seed).seq = NoSeq /\ FreshRow(Seed).resync = TRUE
    BY DEF FreshRow
  <2>3. row[c] \in {e, FreshRow(Seed)}
    BY <2>1, <2>2 DEF Init, Synced, Configured, Retired, Seed
  <2>4. AccountAt(c) \in Account
    BY <1>1, AccountType
  <2> QED BY <2>2, <2>3, <2>4 DEF Init
<1>3. ASSUME NEW h \in Holders
      PROVE  lease[h] = NoLease /\ pc[h] = "idle" /\ AccountOf(h) \in Account /\ applied[AccountOf(h)] = 0
  BY <1>1, AccountType DEF Init
<1>4. NoTx.by = Nobody
  BY DEF NoTx
<1>5. OneSeed /\ TokensAreUnique /\ RowIsHeld
  <2>1. OneSeed
    BY <1>2, <1>3, NoLeaseType DEF OneSeed
  <2> QED BY <2>1, <1>3 DEF TokensAreUnique, RowIsHeld
<1>6. PendingIsFollowers /\ PendingIsFollowed
  BY <1>4 DEF Init, PendingIsFollowers, PendingIsFollowed
<1>7. HeldIsConsumed /\ HeldIsUpToDate
  BY <1>3, NoLeaseType DEF Init, HeldIsConsumed, HeldIsUpToDate, NoSeq
<1>8. KnownIsConsumed /\ FreeChannelIsUpToDate
  <2>1. ASSUME NEW c \in Channels PROVE row[c].seq <= applied[AccountAt(c)]
    <3>1. row[c].seq = -1 /\ applied[AccountAt(c)] = 0
      BY <1>2 DEF NoSeq
    <3> QED BY <3>1
  <2>2. FreeChannelIsUpToDate
    BY <1>2 DEF FreeChannelIsUpToDate
  <2> QED BY <2>1, <2>2 DEF KnownIsConsumed
<1> QED BY <1>1, <1>5, <1>6, <1>7, <1>8 DEF IInv, ConsumedInv

LEMMA StepIInv == ASSUME SeedIsShared PROVE IInv /\ [Next]_vars => IInv'
<1> SUFFICES ASSUME IInv, [Next]_vars PROVE IInv'
  OBVIOUS
<1>1. BaseInv'
  BY StepBase DEF IInv, ConsumedInv
<1>2. ASSUME NEW h \in Holders, Transfer(h) \/ Crash(h) PROVE IInv'
  BY <1>1, <1>2, AcquireKeeps, LoadAccountKeeps, SendKeeps, PollLandedKeeps, PollUnconfirmedKeeps,
     ReleaseKeeps, CrashKeeps DEF Transfer
<1>3. ASSUME NEW a \in Account, Land(a) \/ Drop(a) PROVE IInv'
  BY <1>1, <1>3, LandKeeps, DropKeeps
<1>4. CASE UNCHANGED vars
  <2>1. RowFrame
    BY <1>4 DEF vars, RowFrame
  <2> QED BY <2>1, <1>1, RowFrameKeeps
<1> QED BY <1>1, <1>2, <1>3, <1>4, RowStepKeeps DEF Next

LEMMA Inductive == ASSUME SeedIsShared PROVE Spec => []IInv
<1>1. IInv /\ [Next]_vars => IInv'
  BY StepIInv
<1> QED BY <1>1, InitIInv, PTL DEF Spec

-----------------------------------------------------------------------------
(* Theorems.                                                               *)

\* With one CHANNEL_SEED the number in a row is one its account has consumed: no
\* release, late or repeated, writes a number the account has not reached.
THEOREM KnownNumbersAreConsumed == ASSUME SeedIsShared PROVE Spec => []KnownIsConsumed
<1>1. IInv => KnownIsConsumed
  BY DEF IInv, ConsumedInv
<1> QED BY <1>1, Inductive, PTL

\* With one CHANNEL_SEED a free channel remembers the number of its account, unless
\* some holder left it in doubt: each channel carries one transaction at a time.
THEOREM FreeChannelsAreUpToDate == ASSUME SeedIsShared PROVE Spec => []FreeChannelIsUpToDate
<1>1. IInv => FreeChannelIsUpToDate
  BY DEF IInv
<1> QED BY <1>1, Inductive, PTL

\* Two holders of one channel that is not in doubt are one holder.
ExclusiveChannel ==
  \A h, k \in Holders :
    pc[h] # "idle" /\ pc[k] # "idle" /\ AccountOf(h) = AccountOf(k) /\ AccountOf(h) \notin doubt => h = k

\* With one CHANNEL_SEED no two transfers build on one channel, unless one of them
\* has outlived its lease.
THEOREM ChannelsAreExclusive == ASSUME SeedIsShared PROVE Spec => []ExclusiveChannel
<1>1. IInv => ExclusiveChannel
  BY OneHolder DEF ExclusiveChannel
<1> QED BY <1>1, Inductive, PTL
=============================================================================
