----------------------------- MODULE ChannelPool -----------------------------
(***************************************************************************)
(* Channel accounts leased to transactions in flight: the lease table of   *)
(* internal/gasless/channels/pool.go with the one protocol its two users   *)
(* follow, transferViaChannel in forwarder.go and attempt in submitter.go: *)
(* lease a channel, reload its sequence number if told to, build on the    *)
(* next one, send, hold the channel until the outcome is known, and        *)
(* release it with what is known about the number.                         *)
(*                                                                         *)
(* The table outlives every process, so processes with different           *)
(* configurations can share it during a deployment.  A lease can lapse at  *)
(* any moment; its holder does not notice.                                 *)
(***************************************************************************)
EXTENDS Integers, FiniteSets

CONSTANTS
  Channels,   \* hd_index of the rows
  Holders,    \* goroutines that send through channels
  Seeds,      \* channel seeds
  Configs,    \* configurations: a seed and the indexes below the channel count
  ConfigOf,   \* the configuration of each holder's process
  FirstSync,  \* the configuration the table was first filled with
  Tokens,     \* lease tokens; random in the code, so never one in use
  MaxSent,    \* bound: transactions accepted on all channels
  MaxFaults   \* bound: failed calls, lapses, crashes and restarts

ASSUME ConfigsAreConfigs ==
  /\ Configs \subseteq [seed : Seeds, indexes : SUBSET Channels]
  /\ ConfigOf \in [Holders -> Configs]
  /\ FirstSync \in Configs
  /\ MaxSent \in Nat /\ MaxFaults \in Nat
  /\ Channels # {} /\ IsFiniteSet(Channels) /\ IsFiniteSet(Holders) /\ IsFiniteSet(Tokens)
  /\ Cardinality(Tokens) > Cardinality(Channels) + Cardinality(Holders) - 1

NoToken == "none"
Nobody == "nobody"

ASSUME NamesAreFresh == NoToken \notin Tokens /\ Nobody \notin Holders

\* NULL.
NoSeq == -1

Row == [seed : Seeds, status : {"absent", "active", "disabled", "retired"},
        token : Tokens \cup {NoToken}, expiry : {"null", "ahead", "past"},
        seq : Nat \cup {NoSeq}, resync : BOOLEAN]

\* A transaction in the network's queue for an account, and who follows it.
NoTx == [seq |-> 0, by |-> Nobody]

\* What a holder knows: its lease, and what it will release it with.
Lease == [chan : Channels, seed : Seeds, token : Tokens \cup {NoToken},
          last : Int, back : Int, resync : BOOLEAN]

NoLease ==
  [chan |-> CHOOSE c \in Channels : TRUE, seed |-> FirstSync.seed, token |-> NoToken,
   last |-> 0, back |-> NoSeq, resync |-> TRUE]

VARIABLES
  row,      \* the lease table
  pc,       \* where each holder is
  lease,    \* its lease
  applied,  \* sequence number of each channel account in the last ledger
  pending,  \* its transaction in the queue: the network takes one at a time
  landed,   \* holders whose transaction was applied
  doubt,    \* accounts whose holder left before the outcome, lapsed, or read late
  sent,     \* transactions the network accepted
  faults    \* failed calls, lapses, crashes and restarts so far

vars == <<row, pc, lease, applied, pending, landed, doubt, sent, faults>>

Account == Seeds \X Channels
AccountOf(h) == <<lease[h].seed, lease[h].chan>>
AccountAt(c) == <<row[c].seed, c>>

Fault == faults < MaxFaults /\ faults' = faults + 1

Goto(h, step) == pc' = [pc EXCEPT ![h] = step]

-----------------------------------------------------------------------------
(* The table.                                                              *)

FreshRow(seed) ==
  [seed |-> seed, status |-> "active", token |-> NoToken, expiry |-> "null",
   seq |-> NoSeq, resync |-> TRUE]

\* A row whose address changes loses its sequence number, not its lease.
Moved(r, seed) == [r EXCEPT !.seed = seed, !.status = "active", !.seq = NoSeq, !.resync = TRUE]

\* What Sync makes of the row of a configured index, and of one beyond the count.
Configured(r, seed) ==
  IF r.status = "absent" THEN FreshRow(seed)
  ELSE IF r.seed # seed THEN Moved(r, seed)
  ELSE IF r.status = "retired" THEN [r EXCEPT !.status = "active"] ELSE r

Retired(r) == IF r.status = "absent" THEN r ELSE [r EXCEPT !.status = "retired"]

Synced(table, g) ==
  [c \in Channels |-> IF c \in g.indexes THEN Configured(table[c], g.seed) ELSE Retired(table[c])]

EmptyTable == [c \in Channels |-> [FreshRow(FirstSync.seed) EXCEPT !.status = "absent"]]

Init ==
  /\ row = Synced(EmptyTable, FirstSync)
  /\ pc = [h \in Holders |-> "idle"]
  /\ lease = [h \in Holders |-> NoLease]
  /\ applied = [a \in Account |-> 0]
  /\ pending = [a \in Account |-> NoTx]
  /\ landed = {}
  /\ doubt = {}
  /\ sent = 0
  /\ faults = 0

\* A process starts.
Sync(g) ==
  /\ Fault
  /\ row' = Synced(row, g)
  /\ UNCHANGED <<pc, lease, applied, pending, landed, doubt, sent>>

\* A channel leaves the rotation for its balance, and returns.
RecordBalance(c) ==
  \/ /\ row[c].status = "active"
     /\ Fault
     /\ row' = [row EXCEPT ![c].status = "disabled"]
     /\ UNCHANGED <<pc, lease, applied, pending, landed, doubt, sent>>
  \/ /\ row[c].status = "disabled"
     /\ row' = [row EXCEPT ![c].status = "active"]
     /\ UNCHANGED <<pc, lease, applied, pending, landed, doubt, sent, faults>>

InUse(t) == (\E c \in Channels : row[c].token = t) \/ (\E h \in Holders : lease[h].token = t)

\* Mutant: a lease ends only when its holder releases it.
OnlyReleased(r) == r.token = NoToken

Leasable(r) == r.token = NoToken \/ r.expiry = "past"

\* A lease that was taken over makes the next holder reload the sequence number.
TakenOver(r) == r.resync \/ r.expiry # "null"

\* Every lapse is of a lease whose holder is dead, or of a slow holder's.
Lapse(c) ==
  /\ row[c].expiry = "ahead"
  /\ \/ (\A h \in Holders : lease[h].token # row[c].token) /\ UNCHANGED faults
     \/ Fault
  /\ row' = [row EXCEPT ![c].expiry = "past"]
  /\ UNCHANGED <<pc, lease, applied, pending, landed, doubt, sent>>

-----------------------------------------------------------------------------
(* A holder.                                                               *)

\* The key of a channel is known to the processes configured with its seed.
HasKey(h, c) == ConfigOf[h].seed = row[c].seed /\ c \in ConfigOf[h].indexes

\* Hand the channel back with the number b, if any, asking for a reload or not.
Back(h, b, resync) ==
  /\ Goto(h, "release")
  /\ lease' = [lease EXCEPT ![h].back = b, ![h].resync = resync]

\* The token of a new lease; which of the unused ones makes no difference.
newToken == CHOOSE t \in Tokens : ~InUse(t)

\* Acquire, with a reply or without.
Acquire(h, c) ==
  /\ pc[h] = "idle"
  /\ row[c].status = "active" /\ Leasable(row[c])
  /\ row' = [row EXCEPT ![c].token = newToken, ![c].expiry = "ahead",
                        ![c].resync = TakenOver(row[c])]
  /\ doubt' = doubt \cup (IF row[c].token = NoToken THEN {} ELSE {AccountAt(c)})
  /\ \/ Fault /\ UNCHANGED <<pc, lease>>
     \/ /\ lease' = [lease EXCEPT ![h] =
                       [chan |-> c, seed |-> row[c].seed, token |-> newToken,
                        last |-> row[c].seq, back |-> NoSeq, resync |-> TRUE]]
        /\ Goto(h, IF ~HasKey(h, c) THEN "release"
                   ELSE IF TakenOver(row[c]) \/ row[c].seq = NoSeq THEN "load" ELSE "send")
        /\ UNCHANGED faults
  /\ UNCHANGED <<applied, pending, landed, sent>>

\* Reload the account's number; Horizon may be a ledger behind.
LoadAccount(h) ==
  /\ pc[h] = "load"
  /\ \/ /\ lease' = [lease EXCEPT ![h].last = applied[AccountOf(h)]]
        /\ Goto(h, "send")
        /\ UNCHANGED <<doubt, faults>>
     \/ /\ applied[AccountOf(h)] > 0
        /\ Fault
        /\ lease' = [lease EXCEPT ![h].last = applied[AccountOf(h)] - 1]
        /\ doubt' = doubt \cup {AccountOf(h)}
        /\ Goto(h, "send")
     \/ Fault /\ Back(h, NoSeq, TRUE) /\ UNCHANGED doubt
  /\ UNCHANGED <<row, applied, pending, landed, sent>>

SeqOf(h) == lease[h].last + 1

\* The network takes the number after the last applied one, one at a time.
Due(h) == SeqOf(h) = applied[AccountOf(h)] + 1

Busy(h) == pending[AccountOf(h)] # NoTx

\* txBadSeq: the cached number is stale, and the next holder reloads it.
ReloadNext(h) == Back(h, NoSeq, TRUE)

\* PENDING: the channel is held while the transaction is.
SendAccepted(h) ==
  /\ pc[h] = "send"
  /\ Due(h) /\ ~Busy(h) /\ sent < MaxSent
  /\ pending' = [pending EXCEPT ![AccountOf(h)] = [seq |-> SeqOf(h), by |-> h]]
  /\ sent' = sent + 1
  /\ Goto(h, "poll")
  /\ UNCHANGED <<row, lease, applied, landed, doubt, faults>>

SendBadSeq(h) ==
  /\ pc[h] = "send"
  /\ ~Due(h)
  /\ ReloadNext(h)
  /\ UNCHANGED <<row, applied, pending, landed, doubt, sent, faults>>

\* The answer is lost: the transaction may be queued.
SendUnknown(h) ==
  /\ pc[h] = "send"
  /\ Fault
  /\ Back(h, NoSeq, TRUE)
  /\ \/ UNCHANGED <<pending, sent, doubt>>
     \/ /\ Due(h) /\ ~Busy(h) /\ sent < MaxSent
        /\ pending' = [pending EXCEPT ![AccountOf(h)] = [seq |-> SeqOf(h), by |-> Nobody]]
        /\ sent' = sent + 1
        /\ doubt' = doubt \cup {AccountOf(h)}
  /\ UNCHANGED <<row, applied, landed>>

\* Not sent, TRY_AGAIN_LATER to the end, or refused for another reason: the number
\* is unused.  A fee that was not enough says that it may be queued already.
SendRefused(h) ==
  /\ pc[h] = "send"
  /\ IF Busy(h) THEN UNCHANGED faults ELSE Fault
  /\ Back(h, lease[h].last, FALSE) \/ Back(h, NoSeq, TRUE)
  /\ UNCHANGED <<row, applied, pending, landed, doubt, sent>>

\* Mutant: a transaction that failed in a ledger is taken not to have used its
\* number.
UnusedWhenFailed(h) == lease[h].last

\* Mutant: one number too many is taken as consumed.
TwoOn(h) == lease[h].last + 2

\* Landed, as a success or as a failure: the number is consumed.
Consumed(h) == SeqOf(h)

PollLanded(h) ==
  /\ pc[h] = "poll"
  /\ h \in landed
  /\ landed' = landed \ {h}
  /\ Back(h, Consumed(h), FALSE)
  /\ UNCHANGED <<row, applied, pending, doubt, sent, faults>>

\* The holder stops following its transaction.
Leave(h) ==
  /\ pending' = [a \in Account |-> IF pending[a].by = h THEN [pending[a] EXCEPT !.by = Nobody]
                                   ELSE pending[a]]
  /\ doubt' = doubt \cup (IF pc[h] = "poll" THEN {AccountOf(h)} ELSE {})
  /\ landed' = landed \ {h}

\* The poll times out: early, or because the transaction is gone.
PollUnconfirmed(h) ==
  /\ pc[h] = "poll"
  /\ IF h \in landed \/ pending[AccountOf(h)].by = h THEN Fault ELSE UNCHANGED faults
  /\ Back(h, NoSeq, TRUE)
  /\ Leave(h)
  /\ UNCHANGED <<row, applied, sent>>

\* Mutant: the row is released by its id alone.
SameRow(h) == TRUE

\* lease_token = $2: a lease that lapsed and was taken is not touched.
SameToken(h) == row[lease[h].chan].token = lease[h].token

\* seq = COALESCE($3, seq), needs_resync = $4, and no lease.
Freed(r, l) ==
  [r EXCEPT !.token = NoToken, !.expiry = "null",
            !.seq = IF l.back = NoSeq THEN @ ELSE l.back, !.resync = l.resync]

\* Release, which is called once and may fail.
Release(h) ==
  LET l == lease[h] IN
  /\ pc[h] = "release"
  /\ \/ /\ UNCHANGED faults
        /\ row' = IF ~SameToken(h) THEN row
                  ELSE [row EXCEPT ![l.chan] = Freed(@, l)]
     \/ Fault /\ UNCHANGED row
  /\ Goto(h, "idle")
  /\ lease' = [lease EXCEPT ![h] = NoLease]
  /\ UNCHANGED <<applied, pending, landed, doubt, sent>>

\* The holder's process dies.
Crash(h) ==
  /\ pc[h] # "idle"
  /\ Fault
  /\ Goto(h, "idle")
  /\ lease' = [lease EXCEPT ![h] = NoLease]
  /\ Leave(h)
  /\ UNCHANGED <<row, applied, sent>>

-----------------------------------------------------------------------------
(* The network.                                                            *)

\* A ledger closes with the pending transaction.
Land(a) ==
  /\ pending[a] # NoTx
  /\ applied' = [applied EXCEPT ![a] = @ + 1]
  /\ landed' = landed \cup ({pending[a].by} \ {Nobody})
  /\ pending' = [pending EXCEPT ![a] = NoTx]
  /\ UNCHANGED <<row, pc, lease, doubt, sent, faults>>

\* It expires in the queue.
Drop(a) ==
  /\ pending[a] # NoTx
  /\ Fault
  /\ pending' = [pending EXCEPT ![a] = NoTx]
  /\ UNCHANGED <<row, pc, lease, applied, landed, doubt, sent>>

-----------------------------------------------------------------------------
(* Specification.                                                          *)

Transfer(h) ==
  \/ \E c \in Channels : Acquire(h, c)
  \/ LoadAccount(h) \/ SendAccepted(h) \/ SendBadSeq(h) \/ SendUnknown(h)
  \/ SendRefused(h) \/ PollLanded(h) \/ PollUnconfirmed(h) \/ Release(h)

Next ==
  \/ \E h \in Holders : Transfer(h) \/ Crash(h)
  \/ \E c \in Channels : Lapse(c) \/ RecordBalance(c)
  \/ \E g \in Configs : Sync(g)
  \/ \E a \in Account : Land(a) \/ Drop(a)

Spec == Init /\ [][Next]_vars

\* Holders keep trying, leases of the dead run out, ledgers close and an account
\* that is topped up is seen by the next balance check.
FairSpec ==
  /\ Spec
  /\ \A h \in Holders : WF_vars(Transfer(h))
  /\ \A c \in Channels : WF_vars(Lapse(c)) /\ WF_vars(RecordBalance(c))
  /\ \A a \in Account : WF_vars(Land(a))

-----------------------------------------------------------------------------
(* Properties.                                                             *)

\* Every variable has its type.
TypeOK ==
  /\ row \in [Channels -> Row]
  /\ \A c \in Channels : row[c].token = NoToken <=> row[c].expiry = "null"
  /\ pc \in [Holders -> {"idle", "load", "send", "poll", "release"}]
  /\ lease \in [Holders -> Lease]
  /\ applied \in [Account -> Nat]
  /\ pending \in [Account -> [seq : Nat, by : Holders \cup {Nobody}]]
  /\ landed \subseteq Holders
  /\ doubt \subseteq Account
  /\ sent \in 0 .. MaxSent
  /\ faults \in 0 .. MaxFaults

\* "Last sequence number this service knows the account consumed": the number in
\* a row is never ahead of the account the row names, whoever released it last
\* and whatever was lost.
KnownIsConsumed ==
  \A c \in Channels : row[c].seq <= applied[AccountAt(c)]

\* A lease that has not lapsed ends only by the holder it was given to: neither a
\* late release by an earlier holder, nor another acquirer, nor a start of another
\* process takes it.
LeaseIsKept ==
  [][\A c \in Channels :
       row[c].expiry = "ahead" /\ row'[c].token # row[c].token =>
         \E h \in Holders : lease[h].token = row[c].token /\ pc[h] = "release"]_vars

\* "Each channel carries at most one transaction at a time": what a free channel
\* remembers is the account's number, unless a holder of it left before it knew
\* the outcome, lost its lease, or read an old number.
FreeChannelIsUpToDate ==
  \A c \in Channels :
    row[c].token = NoToken /\ ~row[c].resync /\ AccountAt(c) \notin doubt =>
      row[c].seq = applied[AccountAt(c)]

\* No crash, lost reply or stale number takes a channel out of use for good: there
\* is always another transaction accepted.
ChannelsKeepServing == \A n \in 0 .. MaxSent - 1 : sent = n ~> sent > n
=============================================================================
