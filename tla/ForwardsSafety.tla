--------------------------- MODULE ForwardsSafety ---------------------------
(***************************************************************************)
(* With one retry worker, and a claim that answers in time, the invariant  *)
(* of ForwardsInvariant holds for any number of deposits, workers and      *)
(* transactions and any bounds, and with it every safety property of       *)
(* Forwards about a single deposit.                                        *)
(***************************************************************************)
EXTENDS ForwardsProofs

\* The steps of a process that holds a row: it writes that row or none, it
\* changes only the transfers of its own deposit, and it either keeps holding
\* the row or lets go of it.  What is left to show is about that one process and
\* that one deposit.
LEMMA HolderStep ==
  ASSUME IInv, SingleRetrier, TypeOK',
         NEW p \in Procs, Busy(p),
         NEW d, d = job[p].dep,
         NEW j, Become(p, j),
         NEW r \in Row, NEW eff \in BOOLEAN, Update(d, r, eff),
         UNCHANGED batch,
         \A t \in Tx : st[t] = "ok" => st'[t] = "ok" /\ own'[t] = own[t],
         \A t \in Tx : \A e \in Deposits \ {d} :
           own'[t] = e /\ st'[t] \in {"live", "ok"} => own[t] = e /\ st'[t] = st[t],
         \A e \in Deposits \ {d} : row[e].sub \in Tx =>
           st'[row[e].sub] # "new" /\ own'[row[e].sub] = own[row[e].sub],
         \A t \in Tx : NetworkOK(t)',
         CompletedIsCredited',
         RowOK(d)', OnRecord(d)', JobOK(p)', Knows(p)',
         \/ /\ j.dep = d /\ j.pc \in BusyPhases \ {"claimed"}
            /\ j.clock = job[p].clock
            /\ eff => r.status = row[d].status
         \/ j.dep = NoDeposit /\ j.pc \notin BusyPhases
         \/ j.dep = d /\ j.pc = "intent"
  PROVE  IInv'
<1>0. /\ d \in Deposits
      /\ job'[p] = j
      /\ \A q \in Procs \ {p} : job'[q] = job[q]
      /\ \A e \in Deposits \ {d} : row'[e] = row[e] /\ age'[e] = age[e]
      /\ row'[d].status = row[d].status \/ j.pc \notin BusyPhases
  <2>1. d \in Deposits
    <3>1. JobOK(p)
      BY DEF IInv
    <3>2. QED
      BY <3>1 DEF JobOK, Busy, BusyPhases, IInv, TypeOK, Job
  <2>2. job'[p] = j /\ \A q \in Procs \ {p} : job'[q] = job[q]
    BY DEF Become, IInv, TypeOK
  <2>3. \A e \in Deposits \ {d} : row'[e] = row[e] /\ age'[e] = age[e]
    BY <2>1 DEF Update, tables, IInv, TypeOK
  <2>4. row'[d].status = row[d].status \/ j.pc \notin BusyPhases
    <3>1. CASE eff
      <4>1. row'[d] = [r EXCEPT !.fresh = FALSE]
        BY <2>1, <3>1 DEF Update, IInv, TypeOK
      <4>2. row'[d].status = r.status
        BY <4>1 DEF Row
      <4>3. QED
        BY <3>1, <4>2 DEF BusyPhases
    <3>2. CASE ~eff
      BY <3>2 DEF Update, tables
    <3>3. QED
      BY <3>1, <3>2
  <2>5. QED
    BY <2>1, <2>2, <2>3, <2>4
<1>1. \A q \in Procs \ {p} : Busy(q) =>
        job[q].dep \in Deposits \ {d} /\ row'[job[q].dep] = row[job[q].dep]
  <2>1. HolderOK(p) /\ \A q \in Procs : JobOK(q)
    BY DEF IInv
  <2>2. QED
    BY <1>0, <2>1 DEF HolderOK, JobOK, Busy, BusyPhases, IInv, TypeOK, Job
<1>2. \A e \in Deposits : RowOK(e)' /\ OnRecord(e)'
  <2>1. SUFFICES ASSUME NEW e \in Deposits \ {d} PROVE RowOK(e)' /\ OnRecord(e)'
    OBVIOUS
  <2>2. RowOK(e) /\ OnRecord(e) /\ row'[e] = row[e]
    BY <1>0 DEF IInv
  <2>3. RowOK(e)'
    BY <2>2 DEF RowOK
  <2>4. OnRecord(e)'
    BY <2>2 DEF OnRecord, InPlay, NothingLive
  <2>5. QED
    BY <2>3, <2>4
<1>3. ASSUME NEW q \in Procs \ {p}
      PROVE  JobOK(q)' /\ Knows(q)'
  <2>1. JobOK(q) /\ Knows(q) /\ job'[q] = job[q]
    BY <1>0 DEF IInv
  <2>2. CASE Busy(q)
    <3>1. JobOK(q)'
      BY <1>1, <2>1, <2>2 DEF JobOK, Busy, BusyPhases
    <3>2. /\ NothingInPlay(job[q].dep) => NothingInPlay(job[q].dep)'
          /\ NothingLive(job[q].dep) => NothingLive(job[q].dep)'
      BY <1>1, <2>1, <2>2 DEF NothingInPlay, NothingLive, InPlay
    <3>3. Knows(q)'
      BY <1>1, <2>1, <2>2, <3>2 DEF Knows, Busy, BusyPhases
    <3>4. QED
      BY <3>1, <3>3
  <2>3. CASE ~Busy(q)
    <3>1. JobOK(q)'
      BY <2>1, <2>3 DEF JobOK, Busy, BusyPhases
    <3>2. Knows(q)'
      BY <2>1, <2>3 DEF Knows, Busy, BusyPhases, IInv, TypeOK, Job
    <3>3. QED
      BY <3>1, <3>2
  <2>4. QED
    BY <2>2, <2>3
<1>4. \A q \in Procs : HolderOK(q)'
  <2>1. ASSUME NEW q \in Procs \ {p}
        PROVE  HolderOK(q)'
    <3>1. HolderOK(q) /\ job'[q] = job[q]
      BY <1>0 DEF IInv
    <3>2. SUFFICES ASSUME Busy(q) PROVE HolderOK(q)'
      BY <3>1 DEF HolderOK, Busy
    <3>3. \A o \in Procs : Busy(o)' /\ job'[o].dep = job[q].dep => o = q
      <4>1. SUFFICES ASSUME NEW o \in Procs, Busy(o)', job'[o].dep = job[q].dep
                     PROVE  o = q
        OBVIOUS
      <4>2. o # p
        BY <1>0, <1>1, <3>2, <4>1 DEF BusyPhases, Busy
      <4>3. QED
        BY <1>0, <3>1, <3>2, <4>1, <4>2 DEF HolderOK, Busy
    <3>4. row'[job[q].dep] = row[job[q].dep] /\ age'[job[q].dep] = age[job[q].dep]
      BY <1>0, <1>1, <3>2
    <3>5. QED
      BY <3>1, <3>2, <3>3, <3>4 DEF HolderOK, Busy
  <2>2. HolderOK(p)'
    <3>1. SUFFICES ASSUME Busy(p)' PROVE HolderOK(p)'
      BY DEF HolderOK
    <3>2. /\ j.dep = d /\ j.pc # "claimed" /\ j.clock = job[p].clock
          /\ row'[d].status = row[d].status
      BY <1>0, <3>1 DEF Busy, BusyPhases
    <3>3. HolderOK(p)
      BY DEF IInv
    <3>4. ~row'[d].fresh
      BY <1>0, <3>3 DEF Update, HolderOK, tables, IInv, TypeOK, Row
    <3>5. age'[d] <= age[d]
      BY <1>0 DEF Update, tables, IInv, TypeOK
    <3>6. \A q \in Procs : Busy(q)' /\ job'[q].dep = d => q = p
      BY <1>0, <1>1 DEF Busy
    <3>7. age[d] \in Nat /\ age'[d] \in Nat /\ job[p].clock \in Nat
      BY <1>0 DEF IInv, TypeOK, Job
    <3>8. p \in Workers => age'[d] <= j.clock + MaxReply /\ j.clock < ForwardDeadline
      BY <3>2, <3>3, <3>5, <3>7, BoundsAreNaturals DEF HolderOK
    <3>9. QED
      BY <1>0, <3>2, <3>3, <3>4, <3>6, <3>8 DEF HolderOK
  <2>3. QED
    BY <2>1, <2>2
<1>5. \A s \in Retriers : \A e \in Deposits : BatchOK(s, e)'
  <2>1. SUFFICES ASSUME NEW s \in Retriers, NEW e \in Deposits
                 PROVE  BatchOK(s, e)'
    OBVIOUS
  <2>2. BatchOK(s, e) /\ BatchOK(s, d) /\ s \in Procs
    BY <1>0 DEF IInv, Procs
  <2>3. job'[s].dep = job[s].dep \/ (s = p /\ job'[s].dep \in {d, NoDeposit})
    BY <1>0, <2>2
  <2>4. e \in same'[s] => e \in same[s]
    BY DEF Update, tables, IInv, TypeOK
  <2>5. CASE e # d
    <3>1. row'[e] = row[e] /\ age'[e] = age[e]
      BY <1>0, <2>5
    <3>2. e # NoDeposit
      BY NullsAreNew
    <3>3. batch[s][e].status # "absent" => job'[s].dep # e
      BY <2>2, <2>3, <2>5, <3>2 DEF BatchOK
    <3>4. QED
      BY <2>2, <2>4, <3>1, <3>3 DEF BatchOK
  <2>6. CASE e = d /\ ~eff
    <3>1. UNCHANGED tables
      BY <2>6 DEF Update
    <3>2. batch[s][e].status # "absent" => job'[s].dep # e
      BY <2>2, <2>3, <2>6 DEF BatchOK
    <3>3. QED
      BY <2>2, <3>1, <3>2 DEF BatchOK, tables
  <2>7. CASE e = d /\ eff
    <3>1. e \notin same'[s]
      BY <2>7 DEF Update, IInv, TypeOK
    <3>2. batch[s][e].status # "absent" => job'[s].dep # e
      BY <2>2, <2>3, <2>7 DEF BatchOK
    <3>3. batch[s][e].status # "pending_retry"
      <4>1. CASE p \in Workers
        BY <2>2, <2>7, <4>1 DEF BatchOK, HolderOK, IInv
      <4>2. CASE p \in Retriers
        BY <2>2, <2>7, <4>2 DEF BatchOK, SingleRetrier
      <4>3. QED
        BY <4>1, <4>2 DEF Procs
    <3>4. QED
      BY <2>2, <3>1, <3>2, <3>3 DEF BatchOK
  <2>8. QED
    BY <2>5, <2>6, <2>7
<1>6. QED
  BY <1>2, <1>3, <1>4, <1>5 DEF IInv

\* What the invariant says of a process that holds a row, and of that row.
LEMMA HolderFacts ==
  ASSUME IInv, NEW p \in Procs, Busy(p), NEW d, d = job[p].dep
  PROVE  /\ d \in Deposits /\ job[p] \in Job /\ row[d] \in Row
         /\ row[d].status \in {"pending", "pending_retry"}
         /\ row[d].fwd = NoTx /\ ~row[d].fresh
         /\ JobOK(p) /\ Knows(p) /\ RowOK(d) /\ OnRecord(d)
         /\ \A t \in Tx : InPlay(d, t) => row[d].sub = t
<1>1. JobOK(p) /\ Knows(p) /\ HolderOK(p) /\ job[p] \in Job
  BY DEF IInv, TypeOK
<1>2. d \in Deposits
  BY <1>1 DEF JobOK, Busy, BusyPhases, Job
<1>3. row[d] \in Row /\ RowOK(d) /\ OnRecord(d)
  BY <1>2 DEF IInv, TypeOK
<1>4. row[d].status \in {"pending", "pending_retry"} /\ ~row[d].fresh
  BY <1>1 DEF HolderOK, Procs
<1>5. row[d].fwd = NoTx
  BY <1>3, <1>4 DEF RowOK
<1>6. \A t \in Tx : InPlay(d, t) => row[d].sub = t
  BY <1>3, <1>5, NullsAreNew DEF OnRecord
<1>7. QED
  BY <1>1, <1>2, <1>3, <1>4, <1>5, <1>6

\* The steps of a holder that only change what it does next.
LEMMA JobStep ==
  ASSUME IInv, SingleRetrier, TypeOK',
         NEW p \in Procs, Busy(p),
         NEW j, Become(p, j),
         UNCHANGED <<tables, intent, batch, network>>,
         j.dep = job[p].dep, j.pc \in BusyPhases \ {"claimed"}, j.clock = job[p].clock,
         JobOK(p)', Knows(p)'
  PROVE  IInv'
<1>0. PICK d : d = job[p].dep
  OBVIOUS
<1>1. d \in Deposits /\ row[d] \in Row /\ RowOK(d) /\ OnRecord(d)
  BY <1>0, HolderFacts
<1>2. Update(d, row[d], FALSE)
  BY DEF Update
<1>3. RowOK(d)' /\ OnRecord(d)'
  BY <1>1 DEF RowOK, OnRecord, InPlay, NothingLive, tables, network
<1>4. \A t \in Tx : NetworkOK(t)'
  BY DEF IInv, NetworkOK, network
<1>5. CompletedIsCredited'
  BY DEF IInv, CompletedIsCredited, network
<1>6. /\ \A t \in Tx : st[t] = "ok" => st'[t] = "ok" /\ own'[t] = own[t]
      /\ \A t \in Tx : \A e \in Deposits \ {d} :
           own'[t] = e /\ st'[t] \in {"live", "ok"} => own[t] = e /\ st'[t] = st[t]
      /\ \A e \in Deposits \ {d} : row[e].sub \in Tx =>
           st'[row[e].sub] # "new" /\ own'[row[e].sub] = own[row[e].sub]
  BY DEF IInv, RowOK, network
<1>7. UNCHANGED batch
  OBVIOUS
<1>8. QED
  BY <1>0, <1>1, <1>2, <1>3, <1>4, <1>5, <1>6, <1>7, HolderStep

\* How a caller goes on after a transfer.
LEMMA AfterTransferFacts ==
  ASSUME IInv, NEW p \in Procs, NEW out \in Outcomes, NEW j, j = AfterTransfer(p, out)
  PROVE  /\ j.dep = job[p].dep /\ j.sweep = job[p].sweep /\ j.seen = job[p].seen
         /\ j.clock = job[p].clock
         /\ \/ j.pc = "build" /\ ~j.sweep /\ out \in {"contention", "transient"}
            \/ j.pc = "write" /\ j.out = out /\ (out = "ok" => j.tx = job[p].tx)
<1>1. job[p] \in Job
  BY DEF IInv, TypeOK
<1>2. QED
  BY <1>1 DEF AfterTransfer, Job

\* How Retry goes on once no earlier transfer is in the way.
LEMMA ProceedFacts ==
  ASSUME NEW k \in Job, NEW j, j = Proceed(k)
  PROVE  /\ j.dep = k.dep /\ j.sweep = k.sweep /\ j.seen = k.seen /\ j.clock = k.clock
         /\ \/ j.pc = "build" /\ k.seen.sweep
            \/ j.pc = "lookup" /\ ~k.seen.sweep
            \/ j.pc = "write" /\ j.out = "ceiling"
BY DEF Proceed, Job

\* A job with some fields replaced keeps the others.
LEMMA FieldsKept ==
  ASSUME NEW k \in Job
  PROVE  /\ \A ph : LET j == [k EXCEPT !.pc = ph] IN
              /\ j.dep = k.dep /\ j.sweep = k.sweep /\ j.seen = k.seen /\ j.clock = k.clock
              /\ j.tx = k.tx /\ j.out = k.out /\ j.pc = ph
         /\ \A ph, o : LET j == [k EXCEPT !.pc = ph, !.out = o] IN
              /\ j.dep = k.dep /\ j.sweep = k.sweep /\ j.seen = k.seen /\ j.clock = k.clock
              /\ j.tx = k.tx /\ j.out = o /\ j.pc = ph
         /\ \A ph, o, t : LET j == [k EXCEPT !.pc = ph, !.out = o, !.tx = t] IN
              /\ j.dep = k.dep /\ j.sweep = k.sweep /\ j.seen = k.seen /\ j.clock = k.clock
              /\ j.tx = t /\ j.out = o /\ j.pc = ph
BY DEF Job

\* What a process that goes on after a transfer must know.
LEMMA AfterTransferOK ==
  ASSUME IInv, NEW p \in Procs, NEW d \in Deposits, d = job[p].dep,
         job[p].pc \in {"build", "record", "send", "poll", "forget"},
         NEW out \in {"ok", "unconfirmed", "contention", "transient", "permanent"},
         Become(p, AfterTransfer(p, out)),
         job[p].sweep => row'[d].sweep,
         out \in {"contention", "transient", "permanent"} => NothingInPlay(d)',
         out = "ok" => job[p].tx \in Tx /\ row'[d].sub = job[p].tx /\ st'[job[p].tx] = "ok"
  PROVE  JobOK(p)' /\ Knows(p)'
<1>1. PICK j : j = AfterTransfer(p, out)
  OBVIOUS
<1>2. job'[p] = j
  BY <1>1 DEF Become, IInv, TypeOK
<1>3. /\ j.dep = d /\ j.sweep = job[p].sweep /\ j.seen = job[p].seen
      /\ \/ j.pc = "build" /\ out \in {"contention", "transient"}
         \/ j.pc = "write" /\ j.out = out /\ (out = "ok" => j.tx = job[p].tx)
  BY <1>1, AfterTransferFacts DEF Outcomes
<1>4. JobOK(p)
  BY DEF IInv
<1>5. JobOK(p)'
  BY <1>2, <1>3, <1>4, NullsAreNew DEF JobOK
<1>6. Knows(p)'
  BY <1>2, <1>3 DEF Knows
<1>7. QED
  BY <1>5, <1>6

\* What a process about to clear its submission must know.
LEMMA ForgetOK ==
  ASSUME IInv, NEW p \in Procs, NEW d \in Deposits, d = job[p].dep,
         job[p].pc \in {"send", "poll"},
         NEW out \in {"fee", "contention", "transient", "permanent"},
         Become(p, [job[p] EXCEPT !.pc = "forget", !.out = out]),
         row'[d] = row[d], NothingInPlay(d)'
  PROVE  JobOK(p)' /\ Knows(p)'
<1>1. PICK j : j = [job[p] EXCEPT !.pc = "forget", !.out = out]
  OBVIOUS
<1>2. job'[p] = j
  BY <1>1 DEF Become, IInv, TypeOK
<1>3. /\ j.dep = d /\ j.sweep = job[p].sweep /\ j.seen = job[p].seen
      /\ j.pc = "forget" /\ j.out = out
  BY <1>1, FieldsKept DEF IInv, TypeOK
<1>4. JobOK(p)
  BY DEF IInv
<1>5. JobOK(p)'
  BY <1>2, <1>3, <1>4, NullsAreNew DEF JobOK, Busy, BusyPhases, Phases
<1>6. Knows(p)'
  BY <1>2, <1>3 DEF Knows
<1>7. QED
  BY <1>5, <1>6

-----------------------------------------------------------------------------
(* The steps of a process that holds a row.                                *)

LEMMA LookupStep ==
  ASSUME IInv, SingleRetrier, TypeOK', NEW p \in Procs, Lookup(p)
  PROVE  IInv'
<1>0. PICK d : d = job[p].dep
  OBVIOUS
<1>1. Busy(p)
  BY DEF Lookup, At, Busy, BusyPhases, Phases
<1>2. /\ d \in Deposits /\ job[p] \in Job /\ JobOK(p) /\ Knows(p)
  BY <1>0, <1>1, HolderFacts
<1>3. NothingInPlay(d) /\ ~job[p].sweep /\ (job[p].seen.sweep => d \notin Creditable)
  BY <1>0, <1>2 DEF JobOK, Knows, Lookup, At
<1>4. Routable(p, d) <=> d \in Creditable
  BY <1>2 DEF Routable, Creditable
<1>5. PICK j : /\ Become(p, j)
               /\ j.dep = d /\ j.clock = job[p].clock /\ ~j.sweep /\ j.seen = job[p].seen
               /\ \/ j.pc = "build" /\ d \in Creditable
                  \/ j.pc = "mark" /\ d \notin Creditable
                  \/ j.pc = "write" /\ j.out = "error"
  <2>1. \A ph : LET j == [job[p] EXCEPT !.pc = ph] IN
          /\ j.dep = d /\ j.clock = job[p].clock /\ j.sweep = job[p].sweep
          /\ j.seen = job[p].seen /\ j.pc = ph
    BY <1>0, <1>2 DEF Job
  <2>2. LET j == RetryOnError(p) IN
          /\ j.dep = d /\ j.clock = job[p].clock /\ j.sweep = job[p].sweep
          /\ j.seen = job[p].seen /\ j.pc = "write" /\ j.out = "error"
    BY <1>0, <1>2 DEF Job, RetryOnError
  <2>3. CASE Become(p, RetryOnError(p))
    BY <1>3, <2>2, <2>3
  <2>4. CASE Become(p, [job[p] EXCEPT !.pc = "build"]) /\ d \in Creditable
    BY <1>3, <2>1, <2>4
  <2>5. CASE Become(p, [job[p] EXCEPT !.pc = "mark"]) /\ d \notin Creditable
    BY <1>3, <2>1, <2>5
  <2>6. QED
    BY <1>0, <1>4, <2>3, <2>4, <2>5 DEF Lookup
<1>6. job'[p] = j
  BY <1>5 DEF Become, IInv, TypeOK
<1>7. UNCHANGED <<tables, intent, batch, network>>
  BY DEF Lookup
<1>8. JobOK(p)'
  BY <1>0, <1>2, <1>3, <1>5, <1>6, NullsAreNew DEF JobOK
<1>9. NothingInPlay(d)'
  BY <1>3, <1>7 DEF NothingInPlay, InPlay, network
<1>10. Knows(p)'
  BY <1>5, <1>6, <1>9 DEF Knows
<1>11. j.pc \in BusyPhases \ {"claimed"}
  BY <1>5 DEF BusyPhases, Phases
<1>12. QED
  BY <1>0, <1>1, <1>5, <1>7, <1>8, <1>10, <1>11, JobStep

LEMMA StartForwardStep ==
  ASSUME IInv, SingleRetrier, TypeOK', NEW w \in Workers, StartForward(w)
  PROVE  IInv'
<1>0. PICK d : d = job[w].dep
  OBVIOUS
<1>1. w \in Procs /\ Busy(w)
  BY DEF StartForward, Busy, BusyPhases, Phases, Procs
<1>2. d \in Deposits /\ job[w] \in Job /\ JobOK(w) /\ Knows(w)
  BY <1>0, <1>1, HolderFacts
<1>3. PICK j : j = [job[w] EXCEPT !.pc = "lookup"]
  OBVIOUS
<1>4. /\ j.dep = d /\ j.clock = job[w].clock /\ j.sweep = job[w].sweep
      /\ j.seen = job[w].seen /\ j.pc = "lookup" /\ job'[w] = j
  BY <1>0, <1>1, <1>2, <1>3, FieldsKept DEF StartForward, Become, IInv, TypeOK
<1>5. ~job[w].sweep
  BY <1>2 DEF JobOK, StartForward
<1>6. JobOK(w)'
  BY <1>0, <1>2, <1>4, <1>5, NullsAreNew DEF JobOK
<1>7. Knows(w)'
  BY <1>0, <1>2, <1>4 DEF Knows, StartForward, NothingInPlay, InPlay, network
<1>8. j.pc \in BusyPhases \ {"claimed"}
  BY <1>4 DEF BusyPhases, Phases
<1>9. QED
  BY <1>0, <1>1, <1>3, <1>4, <1>6, <1>7, <1>8, JobStep DEF StartForward

LEMMA BuildStep ==
  ASSUME IInv, SingleRetrier, TypeOK', NEW p \in Procs, Build(p)
  PROVE  IInv'
<1>0. PICK d : d = job[p].dep
  OBVIOUS
<1>1. Busy(p)
  BY DEF Build, At, Busy, BusyPhases, Phases
<1>2. d \in Deposits /\ job[p] \in Job /\ JobOK(p) /\ Knows(p)
  BY <1>0, <1>1, HolderFacts
<1>3. UNCHANGED <<tables, intent, batch, network>> /\ job[p].pc = "build"
  BY DEF Build, At
<1>4. NothingInPlay(d)' /\ (job[p].sweep => row'[d].sweep)
  BY <1>0, <1>1, <1>2, <1>3 DEF Knows, JobOK, NothingInPlay, InPlay, network, tables
<1>5. CASE Become(p, [job[p] EXCEPT !.pc = "record"])
  <2>1. PICK j : j = [job[p] EXCEPT !.pc = "record"]
    OBVIOUS
  <2>2. /\ j.dep = d /\ j.clock = job[p].clock /\ j.sweep = job[p].sweep
        /\ j.seen = job[p].seen /\ j.pc = "record" /\ job'[p] = j
    BY <1>0, <1>2, <1>5, <2>1, FieldsKept DEF Become, IInv, TypeOK
  <2>3. JobOK(p)'
    BY <1>0, <1>2, <1>3, <1>4, <2>2, NullsAreNew DEF JobOK
  <2>4. Knows(p)'
    BY <1>4, <2>2 DEF Knows
  <2>5. j.pc \in BusyPhases \ {"claimed"}
    BY <2>2 DEF BusyPhases, Phases
  <2>6. QED
    BY <1>0, <1>1, <1>3, <1>5, <2>1, <2>2, <2>3, <2>4, <2>5, JobStep
<1>6. ASSUME NEW out \in {"contention", "transient", "permanent"},
             Become(p, AfterTransfer(p, out))
      PROVE  IInv'
  <2>1. JobOK(p)' /\ Knows(p)'
    BY <1>0, <1>2, <1>3, <1>4, <1>6, AfterTransferOK
  <2>2. PICK j : j = AfterTransfer(p, out)
    OBVIOUS
  <2>3. j.dep = d /\ j.clock = job[p].clock /\ j.pc \in BusyPhases \ {"claimed"}
    BY <1>0, <2>2, AfterTransferFacts DEF BusyPhases, Phases, Outcomes
  <2>4. QED
    BY <1>0, <1>1, <1>3, <1>6, <2>1, <2>2, <2>3, JobStep
<1>7. QED
  BY <1>5, <1>6 DEF Build, SourceFails, SweepFails, PaymentFails

LEMMA SendTryAgainStep ==
  ASSUME IInv, SingleRetrier, TypeOK', NEW p \in Procs, SendTryAgain(p)
  PROVE  IInv'
<1>0. PICK d : d = job[p].dep
  OBVIOUS
<1>1. Busy(p)
  BY DEF SendTryAgain, At, Busy, BusyPhases, Phases
<1>2. d \in Deposits /\ job[p] \in Job /\ JobOK(p) /\ Knows(p)
  BY <1>0, <1>1, HolderFacts
<1>3. UNCHANGED <<tables, intent, batch, network>> /\ job[p].pc = "send"
  BY DEF SendTryAgain, At
<1>4. NothingInPlay(d)' /\ row' = row
  BY <1>0, <1>2, <1>3 DEF Knows, NothingInPlay, InPlay, network, tables
<1>5. CASE Become(p, [job[p] EXCEPT !.again = @ + 1])
  <2>1. PICK j : j = [job[p] EXCEPT !.again = @ + 1]
    OBVIOUS
  <2>2. /\ j.dep = d /\ j.clock = job[p].clock /\ j.sweep = job[p].sweep /\ j.tx = job[p].tx
        /\ j.seen = job[p].seen /\ j.pc = "send" /\ job'[p] = j
    BY <1>0, <1>2, <1>3, <1>5, <2>1 DEF Become, IInv, TypeOK, Job
  <2>3. JobOK(p)'
    BY <1>0, <1>2, <1>3, <1>4, <2>2 DEF JobOK, Busy
  <2>4. Knows(p)'
    BY <1>0, <1>2, <1>3, <1>4, <2>2 DEF Knows
  <2>5. j.pc \in BusyPhases \ {"claimed"}
    BY <2>2 DEF BusyPhases, Phases
  <2>6. QED
    BY <1>0, <1>1, <1>3, <1>5, <2>1, <2>2, <2>3, <2>4, <2>5, JobStep
<1>6. CASE Become(p, [job[p] EXCEPT !.pc = "forget", !.out = "transient"])
  <2>1. JobOK(p)' /\ Knows(p)'
    BY <1>0, <1>2, <1>3, <1>4, <1>6, ForgetOK
  <2>2. PICK j : j = [job[p] EXCEPT !.pc = "forget", !.out = "transient"]
    OBVIOUS
  <2>3. j.dep = d /\ j.clock = job[p].clock /\ j.pc \in BusyPhases \ {"claimed"}
    BY <1>0, <1>2, <2>2, FieldsKept DEF BusyPhases, Phases
  <2>4. QED
    BY <1>0, <1>1, <1>3, <1>6, <2>1, <2>2, <2>3, JobStep
<1>7. QED
  BY <1>5, <1>6 DEF SendTryAgain

LEMMA SendRejectedStep ==
  ASSUME IInv, SingleRetrier, TypeOK', NEW p \in Procs, SendRejected(p)
  PROVE  IInv'
<1>0. PICK d : d = job[p].dep
  OBVIOUS
<1>1. Busy(p)
  BY DEF SendRejected, At, Busy, BusyPhases, Phases
<1>2. d \in Deposits /\ job[p] \in Job /\ JobOK(p) /\ Knows(p)
  BY <1>0, <1>1, HolderFacts
<1>3. UNCHANGED <<tables, intent, batch, network>> /\ job[p].pc = "send"
  BY DEF SendRejected, At
<1>4. NothingInPlay(d)' /\ row' = row
  BY <1>0, <1>2, <1>3 DEF Knows, NothingInPlay, InPlay, network, tables
<1>5. PICK out \in {"fee", "contention", "transient", "permanent"} :
        Become(p, [job[p] EXCEPT !.pc = "forget", !.out = out])
  BY DEF SendRejected
<1>6. JobOK(p)' /\ Knows(p)'
  BY <1>0, <1>2, <1>3, <1>4, <1>5, ForgetOK
<1>7. PICK j : j = [job[p] EXCEPT !.pc = "forget", !.out = out]
  OBVIOUS
<1>8. j.dep = d /\ j.clock = job[p].clock /\ j.pc \in BusyPhases \ {"claimed"}
  BY <1>0, <1>2, <1>7, FieldsKept DEF BusyPhases, Phases
<1>9. QED
  BY <1>0, <1>1, <1>3, <1>5, <1>6, <1>7, <1>8, JobStep

\* What an answer of RPC says about a recorded transfer.
LEMMA LookupsFacts ==
  ASSUME IInv, NEW t \in Tx
  PROVE  /\ Lookups(t) = "ok" => st[t] = "ok"
         /\ Lookups(t) = "bad" => st[t] = "bad"
         /\ Lookups(t) = "expired" => st[t] = "gone"
         /\ Lookups(t) = "lost" => st[t] \in {"ok", "bad", "gone"}
<1>1. NetworkOK(t) /\ view[t] \in {"unseen", "shown", "closed", "pruned"}
  BY DEF IInv, TypeOK
<1>2. QED
  BY <1>1 DEF Lookups, NetworkOK

LEMMA PollResultStep ==
  ASSUME IInv, SingleRetrier, TypeOK', NEW p \in Procs, PollResult(p)
  PROVE  IInv'
<1>0. PICK d : d = job[p].dep
  OBVIOUS
<1>1. Busy(p)
  BY DEF PollResult, At, Busy, BusyPhases, Phases
<1>2. /\ d \in Deposits /\ job[p] \in Job /\ JobOK(p) /\ Knows(p)
      /\ \A t \in Tx : InPlay(d, t) => row[d].sub = t
  BY <1>0, <1>1, HolderFacts
<1>3. UNCHANGED <<tables, intent, batch, network>> /\ job[p].pc = "poll"
  BY DEF PollResult, At
<1>4. PICK t \in Tx : t = job[p].tx /\ row[d].sub = t
  BY <1>0, <1>2, <1>3 DEF Knows
<1>5. row' = row /\ st' = st /\ (job[p].sweep => row'[d].sweep)
  BY <1>0, <1>1, <1>2, <1>3 DEF JobOK, network, tables
<1>6. ASSUME NEW out \in {"ok", "unconfirmed"}, Become(p, AfterTransfer(p, out)),
             out = "ok" => st[t] = "ok"
      PROVE  IInv'
  <2>1. JobOK(p)' /\ Knows(p)'
    BY <1>0, <1>2, <1>3, <1>4, <1>5, <1>6, AfterTransferOK
  <2>2. PICK j : j = AfterTransfer(p, out)
    OBVIOUS
  <2>3. j.dep = d /\ j.clock = job[p].clock /\ j.pc \in BusyPhases \ {"claimed"}
    BY <1>0, <2>2, AfterTransferFacts DEF BusyPhases, Phases, Outcomes
  <2>4. QED
    BY <1>0, <1>1, <1>3, <1>6, <2>1, <2>2, <2>3, JobStep
<1>7. ASSUME NEW out \in {"contention", "transient", "permanent"}, st[t] = "bad",
             Become(p, [job[p] EXCEPT !.pc = "forget", !.out = out])
      PROVE  IInv'
  <2>0. NothingInPlay(d)'
    BY <1>2, <1>3, <1>4, <1>7 DEF NothingInPlay, InPlay, network
  <2>1. JobOK(p)' /\ Knows(p)'
    BY <1>0, <1>2, <1>3, <1>5, <1>7, <2>0, ForgetOK
  <2>2. PICK j : j = [job[p] EXCEPT !.pc = "forget", !.out = out]
    OBVIOUS
  <2>3. j.dep = d /\ j.clock = job[p].clock /\ j.pc \in BusyPhases \ {"claimed"}
    BY <1>0, <1>2, <2>2, FieldsKept DEF BusyPhases, Phases
  <2>4. QED
    BY <1>0, <1>1, <1>3, <1>7, <2>1, <2>2, <2>3, JobStep
<1>8. QED
  BY <1>4, <1>6, <1>7, LookupsFacts DEF PollResult

LEMMA ResolveWaitsStep ==
  ASSUME IInv, SingleRetrier, TypeOK', NEW r \in Retriers, ResolveWaits(r)
  PROVE  IInv'
<1>0. PICK d : d = job[r].dep
  OBVIOUS
<1>1. r \in Procs /\ Busy(r)
  BY DEF ResolveWaits, At, Busy, BusyPhases, Phases, Procs
<1>2. d \in Deposits /\ job[r] \in Job /\ JobOK(r) /\ Knows(r)
  BY <1>0, <1>1, HolderFacts
<1>3. UNCHANGED <<tables, intent, batch, network>>
  BY DEF ResolveWaits
<1>4. PICK j : j = [job[r] EXCEPT !.pc = "write", !.out = "unconfirmed"]
  OBVIOUS
<1>5. /\ j.dep = d /\ j.clock = job[r].clock /\ j.sweep = job[r].sweep
      /\ j.seen = job[r].seen /\ j.pc = "write" /\ j.out = "unconfirmed"
      /\ job'[r] = j /\ Become(r, j)
  BY <1>0, <1>1, <1>2, <1>4, FieldsKept DEF ResolveWaits, Become, IInv, TypeOK
<1>6. JobOK(r)'
  BY <1>0, <1>1, <1>2, <1>3, <1>5, NullsAreNew DEF JobOK, tables
<1>7. Knows(r)'
  BY <1>5 DEF Knows
<1>8. j.pc \in BusyPhases \ {"claimed"}
  BY <1>5 DEF BusyPhases, Phases
<1>9. QED
  BY <1>0, <1>1, <1>3, <1>5, <1>6, <1>7, <1>8, JobStep

LEMMA ResolveSubmittedStep ==
  ASSUME IInv, SingleRetrier, TypeOK', NEW r \in Retriers, ResolveSubmitted(r)
  PROVE  IInv'
<1>0. PICK d : d = job[r].dep
  OBVIOUS
<1>1. r \in Procs /\ Busy(r)
  BY DEF ResolveSubmitted, At, Busy, BusyPhases, Phases, Procs
<1>2. /\ d \in Deposits /\ job[r] \in Job /\ JobOK(r) /\ Knows(r) /\ RowOK(d)
      /\ \A t \in Tx : InPlay(d, t) => row[d].sub = t
  BY <1>0, <1>1, HolderFacts
<1>3. UNCHANGED <<tables, intent, batch, network>> /\ job[r].pc = "resolve"
  BY DEF ResolveSubmitted, At
<1>4. PICK t \in Tx : /\ t = job[r].seen.sub /\ row[d].sub = t
                      /\ job[r].sweep = row[d].sweep /\ job[r].seen.sweep = row[d].sweep
  BY <1>0, <1>2, <1>3 DEF Knows
<1>5. job[r].sweep <=> d \notin Creditable
  BY <1>2, <1>4 DEF RowOK
<1>6. row' = row /\ st' = st /\ own' = own
  BY <1>3 DEF network, tables
<1>7. /\ st[t] \in {"bad", "gone"} => NothingInPlay(d)'
      /\ st[t] \in {"ok", "bad", "gone"} => NothingLive(d)'
  BY <1>2, <1>4, <1>6 DEF NothingInPlay, NothingLive, InPlay
<1>8. ASSUME NEW out \in {"ok", "permanent", "lost"}, NEW j,
             j = [job[r] EXCEPT !.pc = "write", !.out = out,
                                !.tx = IF out = "ok" THEN t ELSE NoTx],
             Become(r, j),
             out = "ok" => st[t] = "ok",
             out = "permanent" => st[t] = "bad",
             out = "lost" => st[t] \in {"ok", "bad", "gone"}
      PROVE  IInv'
  <2>1. /\ j.dep = d /\ j.clock = job[r].clock /\ j.sweep = job[r].sweep
        /\ j.seen = job[r].seen /\ j.pc = "write" /\ j.out = out
        /\ (out = "ok" => j.tx = t)
        /\ job'[r] = j
    BY <1>0, <1>1, <1>2, <1>8, FieldsKept DEF Become, IInv, TypeOK
  <2>2. JobOK(r)'
    BY <1>0, <1>1, <1>2, <1>4, <1>5, <1>6, <2>1, NullsAreNew DEF JobOK
  <2>3. Knows(r)'
    BY <1>4, <1>6, <1>7, <1>8, <2>1 DEF Knows
  <2>4. j.pc \in BusyPhases \ {"claimed"}
    BY <2>1 DEF BusyPhases, Phases
  <2>5. QED
    BY <1>0, <1>1, <1>3, <1>8, <2>1, <2>2, <2>3, <2>4, JobStep
<1>9. ASSUME NEW j, j = [job[r] EXCEPT !.pc = "forget", !.out = "rebuild"],
             Become(r, j), st[t] \in {"bad", "gone"}
      PROVE  IInv'
  <2>1. /\ j.dep = d /\ j.clock = job[r].clock /\ j.sweep = job[r].sweep
        /\ j.seen = job[r].seen /\ j.pc = "forget" /\ j.out = "rebuild"
        /\ job'[r] = j
    BY <1>0, <1>1, <1>2, <1>9, FieldsKept DEF Become, IInv, TypeOK
  <2>2. JobOK(r)'
    BY <1>0, <1>1, <1>2, <1>4, <1>5, <1>6, <2>1, NullsAreNew DEF JobOK
  <2>3. Knows(r)'
    BY <1>4, <1>7, <1>9, <2>1 DEF Knows
  <2>4. j.pc \in BusyPhases \ {"claimed"}
    BY <2>1 DEF BusyPhases, Phases
  <2>5. QED
    BY <1>0, <1>1, <1>3, <1>9, <2>1, <2>2, <2>3, <2>4, JobStep
<1>10. CASE Lookups(t) = "ok"
  BY <1>4, <1>8, <1>10, LookupsFacts DEF ResolveSubmitted
<1>11. CASE Lookups(t) = "bad"
  BY <1>4, <1>8, <1>9, <1>11, LookupsFacts DEF ResolveSubmitted
<1>12. CASE Lookups(t) = "expired"
  BY <1>4, <1>9, <1>12, LookupsFacts DEF ResolveSubmitted
<1>13. CASE Lookups(t) = "lost"
  BY <1>4, <1>8, <1>13, LookupsFacts DEF ResolveSubmitted
<1>14. QED
  BY <1>4, <1>10, <1>11, <1>12, <1>13 DEF ResolveSubmitted

\* A holder that is sending may put its transaction on the network.
LEMMA SendStep ==
  ASSUME IInv, SingleRetrier, TypeOK', NEW p \in Procs, At(p, "send"),
         NEW j, Become(p, j),
         j.dep = job[p].dep, j.pc \in BusyPhases \ {"claimed"}, j.clock = job[p].clock,
         UNCHANGED <<tables, intent, batch, own, pays, view>>,
         \/ st' = st
         \/ st[job[p].tx] = "built" /\ st' = [st EXCEPT ![job[p].tx] = "live"],
         JobOK(p)', Knows(p)'
  PROVE  IInv'
<1>0. PICK d : d = job[p].dep
  OBVIOUS
<1>1. Busy(p)
  BY DEF At, Busy, BusyPhases, Phases
<1>2. /\ d \in Deposits /\ row[d] \in Row /\ Knows(p) /\ RowOK(d) /\ OnRecord(d)
      /\ row[d].status \in {"pending", "pending_retry"} /\ row[d].fwd = NoTx
  BY <1>0, <1>1, HolderFacts
<1>3. PICK t \in Tx : t = job[p].tx /\ row[d].sub = t
  BY <1>0, <1>2 DEF Knows, At
<1>4. own[t] = d
  BY <1>2, <1>3 DEF RowOK
<1>5. /\ \A u \in Tx \ {t} : st'[u] = st[u]
      /\ st'[t] = st[t] \/ (st[t] = "built" /\ st'[t] = "live")
      /\ row' = row /\ own' = own /\ pays' = pays /\ view' = view
  BY <1>3 DEF IInv, TypeOK, tables
<1>6. Update(d, row[d], FALSE)
  BY DEF Update
<1>7. RowOK(d)'
  BY <1>2, <1>3, <1>5 DEF RowOK
<1>8. OnRecord(d)'
  BY <1>2, <1>3, <1>5 DEF OnRecord, InPlay, NothingLive
<1>9. \A u \in Tx : NetworkOK(u)'
  <2>1. SUFFICES ASSUME NEW u \in Tx PROVE NetworkOK(u)'
    OBVIOUS
  <2>2. NetworkOK(u)
    BY DEF IInv
  <2>3. QED
    BY <1>5, <2>2 DEF NetworkOK
<1>10. CompletedIsCredited'
  BY <1>5 DEF IInv, CompletedIsCredited
<1>11. /\ \A u \in Tx : st[u] = "ok" => st'[u] = "ok" /\ own'[u] = own[u]
       /\ \A u \in Tx : \A e \in Deposits \ {d} :
            own'[u] = e /\ st'[u] \in {"live", "ok"} => own[u] = e /\ st'[u] = st[u]
       /\ \A e \in Deposits \ {d} : row[e].sub \in Tx =>
            st'[row[e].sub] # "new" /\ own'[row[e].sub] = own[row[e].sub]
  BY <1>4, <1>5 DEF IInv, RowOK
<1>12. UNCHANGED batch
  OBVIOUS
<1>13. QED
  BY <1>0, <1>1, <1>2, <1>6, <1>7, <1>8, <1>9, <1>10, <1>11, <1>12, HolderStep

LEMMA SendAcceptedStep ==
  ASSUME IInv, SingleRetrier, TypeOK', NEW p \in Procs, SendAccepted(p)
  PROVE  IInv'
<1>0. PICK d : d = job[p].dep
  OBVIOUS
<1>1. Busy(p) /\ At(p, "send")
  BY DEF SendAccepted, At, Busy, BusyPhases, Phases
<1>2. d \in Deposits /\ job[p] \in Job /\ JobOK(p) /\ Knows(p)
  BY <1>0, <1>1, HolderFacts
<1>3. /\ UNCHANGED <<tables, intent, batch, own, pays, view>>
      /\ \/ st' = st
         \/ st[job[p].tx] = "built" /\ st' = [st EXCEPT ![job[p].tx] = "live"]
  BY DEF SendAccepted, IInv, TypeOK
<1>4. PICK j : j = PollOnAccept(p)
  OBVIOUS
<1>5. /\ j.dep = d /\ j.clock = job[p].clock /\ j.sweep = job[p].sweep
      /\ j.seen = job[p].seen /\ j.pc = "poll" /\ j.tx = job[p].tx
      /\ job'[p] = j /\ Become(p, j)
  BY <1>0, <1>2, <1>4, FieldsKept DEF SendAccepted, PollOnAccept, Become, IInv, TypeOK
<1>6. JobOK(p)'
  BY <1>0, <1>1, <1>2, <1>3, <1>5, NullsAreNew DEF JobOK, tables, At
<1>7. Knows(p)'
  BY <1>0, <1>1, <1>2, <1>3, <1>5 DEF Knows, tables, At
<1>8. j.pc \in BusyPhases \ {"claimed"}
  BY <1>5 DEF BusyPhases, Phases
<1>9. QED
  BY <1>0, <1>1, <1>3, <1>5, <1>6, <1>7, <1>8, SendStep

LEMMA SendUnknownStep ==
  ASSUME IInv, SingleRetrier, TypeOK', NEW p \in Procs, SendUnknown(p)
  PROVE  IInv'
<1>0. PICK d : d = job[p].dep
  OBVIOUS
<1>1. Busy(p) /\ At(p, "send")
  BY DEF SendUnknown, At, Busy, BusyPhases, Phases
<1>2. d \in Deposits /\ job[p] \in Job /\ JobOK(p)
  BY <1>0, <1>1, HolderFacts
<1>3. /\ UNCHANGED <<tables, intent, batch, own, pays, view>>
      /\ \/ st' = st
         \/ st[job[p].tx] = "built" /\ st' = [st EXCEPT ![job[p].tx] = "live"]
  BY DEF SendUnknown
<1>4. PICK j : j = AfterTransfer(p, "unconfirmed")
  OBVIOUS
<1>5. Become(p, j)
  BY <1>4 DEF SendUnknown, KeepOnUnknown
<1>6. j.dep = d /\ j.clock = job[p].clock /\ j.pc \in BusyPhases \ {"claimed"}
  BY <1>0, <1>4, AfterTransferFacts DEF BusyPhases, Phases, Outcomes
<1>7. job[p].sweep => row'[d].sweep
  BY <1>0, <1>1, <1>2, <1>3 DEF JobOK, tables
<1>8. JobOK(p)' /\ Knows(p)'
  BY <1>0, <1>1, <1>2, <1>4, <1>5, <1>7, AfterTransferOK DEF At
<1>9. QED
  BY <1>0, <1>1, <1>3, <1>5, <1>6, <1>8, SendStep

\* A holder that writes its row while the network stays as it is.
LEMMA WriteStep ==
  ASSUME IInv, SingleRetrier, TypeOK', NEW p \in Procs, Busy(p),
         NEW d, d = job[p].dep,
         NEW j, Become(p, j),
         NEW r \in Row, NEW eff \in BOOLEAN, Update(d, r, eff),
         UNCHANGED <<intent, batch, network>>,
         RowOK(d)', OnRecord(d)', JobOK(p)', Knows(p)',
         \/ /\ j.dep = d /\ j.pc \in BusyPhases \ {"claimed"}
            /\ j.clock = job[p].clock
            /\ eff => r.status = row[d].status
         \/ j.dep = NoDeposit /\ j.pc \notin BusyPhases
         \/ j.dep = d /\ j.pc = "intent"
  PROVE  IInv'
<1>1. \A t \in Tx : NetworkOK(t)'
  BY DEF IInv, NetworkOK, network
<1>2. CompletedIsCredited'
  BY DEF IInv, CompletedIsCredited, network
<1>3. /\ \A t \in Tx : st[t] = "ok" => st'[t] = "ok" /\ own'[t] = own[t]
      /\ \A t \in Tx : \A e \in Deposits \ {d} :
           own'[t] = e /\ st'[t] \in {"live", "ok"} => own[t] = e /\ st'[t] = st[t]
      /\ \A e \in Deposits \ {d} : row[e].sub \in Tx =>
           st'[row[e].sub] # "new" /\ own'[row[e].sub] = own[row[e].sub]
  BY DEF IInv, RowOK, network
<1>4. UNCHANGED batch
  OBVIOUS
<1>5. QED
  BY <1>1, <1>2, <1>3, <1>4, HolderStep

\* The row after an UPDATE.
LEMMA UpdatedRow ==
  ASSUME IInv, NEW d \in Deposits, NEW r \in Row, NEW eff \in BOOLEAN, Update(d, r, eff)
  PROVE  /\ eff => row'[d] = [r EXCEPT !.fresh = FALSE]
         /\ eff => /\ row'[d].status = r.status /\ row'[d].sweep = r.sweep
                   /\ row'[d].retries = r.retries /\ row'[d].sub = r.sub
                   /\ row'[d].fwd = r.fwd /\ ~row'[d].fresh
         /\ ~eff => row'[d] = row[d]
<1>1. eff => row'[d] = [r EXCEPT !.fresh = FALSE]
  BY DEF Update, IInv, TypeOK
<1>2. ~eff => row'[d] = row[d]
  BY DEF Update, tables
<1>3. QED
  BY <1>1, <1>2 DEF Row

LEMMA MarkSweepStep ==
  ASSUME IInv, SingleRetrier, TypeOK', NEW p \in Procs, MarkSweep(p)
  PROVE  IInv'
<1>0. PICK d : d = job[p].dep
  OBVIOUS
<1>1. Busy(p) /\ job[p].pc = "mark"
  BY DEF MarkSweep, At, Busy, BusyPhases, Phases
<1>2. /\ d \in Deposits /\ job[p] \in Job /\ row[d] \in Row
      /\ row[d].status \in {"pending", "pending_retry"} /\ ~row[d].fresh
      /\ JobOK(p) /\ Knows(p) /\ RowOK(d) /\ OnRecord(d)
  BY <1>0, <1>1, HolderFacts
<1>3. PICK r : r = [row[d] EXCEPT !.sweep = TRUE]
  OBVIOUS
<1>4. /\ r \in Row /\ r.sweep /\ r.status = row[d].status /\ r.sub = row[d].sub
      /\ r.fwd = row[d].fwd
  BY <1>2, <1>3 DEF Row
<1>5. PICK ok, eff \in BOOLEAN :
        /\ Call(ok, eff)
        /\ Update(d, r, eff)
        /\ Become(p, IF ok THEN [job[p] EXCEPT !.pc = "build", !.sweep = TRUE]
                           ELSE [job[p] EXCEPT !.pc = "write", !.out = "error"])
  BY <1>0, <1>3 DEF MarkSweep
<1>6. PICK j : j = IF ok THEN [job[p] EXCEPT !.pc = "build", !.sweep = TRUE]
                         ELSE [job[p] EXCEPT !.pc = "write", !.out = "error"]
  OBVIOUS
<1>7. /\ j.dep = d /\ j.clock = job[p].clock /\ j.seen = job[p].seen
      /\ ok => j.pc = "build" /\ j.sweep
      /\ ~ok => j.pc = "write" /\ j.out = "error" /\ j.sweep = job[p].sweep
      /\ job'[p] = j /\ Become(p, j)
  BY <1>0, <1>2, <1>5, <1>6 DEF Become, IInv, TypeOK, Job
<1>8. ok => eff
  BY <1>5 DEF Call
<1>9. /\ row'[d].status = row[d].status /\ row'[d].sub = row[d].sub
      /\ row'[d].fwd = row[d].fwd /\ ~row'[d].fresh
      /\ row'[d].sweep <=> (eff \/ row[d].sweep)
  <2>1. CASE eff
    BY <1>2, <1>4, <1>5, <2>1, UpdatedRow
  <2>2. CASE ~eff
    BY <1>2, <1>5, <2>2 DEF Update, tables
  <2>3. QED
    BY <2>1, <2>2
<1>10. d \notin Creditable /\ NothingInPlay(d)
  BY <1>0, <1>1, <1>2 DEF JobOK, Knows
<1>11. UNCHANGED <<intent, batch, network>>
  BY DEF MarkSweep
<1>12. RowOK(d)'
  BY <1>2, <1>9, <1>10, <1>11 DEF RowOK, network
<1>13. OnRecord(d)' /\ NothingInPlay(d)'
  BY <1>2, <1>9, <1>10, <1>11 DEF OnRecord, NothingInPlay, InPlay, NothingLive, network
<1>14. JobOK(p)'
  BY <1>0, <1>1, <1>2, <1>7, <1>8, <1>9, <1>10, NullsAreNew DEF JobOK
<1>15. Knows(p)'
  BY <1>7, <1>13 DEF Knows
<1>16. j.pc \in BusyPhases \ {"claimed"}
  BY <1>7 DEF BusyPhases, Phases
<1>17. QED
  BY <1>0, <1>1, <1>4, <1>5, <1>7, <1>11, <1>12, <1>13, <1>14, <1>15, <1>16, WriteStep

LEMMA ForgetSubmissionStep ==
  ASSUME IInv, SingleRetrier, TypeOK', NEW p \in Procs, ForgetSubmission(p)
  PROVE  IInv'
<1>0. PICK d : d = job[p].dep
  OBVIOUS
<1>1. Busy(p) /\ job[p].pc = "forget"
  BY DEF ForgetSubmission, At, Busy, BusyPhases, Phases
<1>2. /\ d \in Deposits /\ job[p] \in Job /\ row[d] \in Row
      /\ row[d].status \in {"pending", "pending_retry"} /\ ~row[d].fresh
      /\ JobOK(p) /\ Knows(p) /\ RowOK(d) /\ OnRecord(d)
  BY <1>0, <1>1, HolderFacts
<1>3. PICK r : r = [row[d] EXCEPT !.sub = NoTx]
  OBVIOUS
<1>4. /\ r \in Row /\ r.sweep = row[d].sweep /\ r.status = row[d].status /\ r.sub = NoTx
      /\ r.fwd = row[d].fwd
  BY <1>2, <1>3 DEF Row
<1> DEFINE goesOn(ok) ==
      IF job[p].out = "rebuild"
      THEN IF ok THEN Proceed(job[p]) ELSE Idle
      ELSE IF job[p].out = "fee"
      THEN IF job[p].fee < MaxFeeRetries
           THEN [job[p] EXCEPT !.pc = "record", !.out = "none", !.tx = NoTx,
                               !.again = 0, !.fee = @ + 1]
           ELSE AfterTransfer(p, "transient")
      ELSE AfterTransfer(p, job[p].out)
<1>5. PICK ok, eff \in BOOLEAN :
        /\ Call(ok, eff)
        /\ Update(d, r, eff)
        /\ Become(p, goesOn(ok))
  BY <1>0, <1>3 DEF ForgetSubmission
<1>6. /\ row'[d].status = row[d].status /\ row'[d].sweep = row[d].sweep
      /\ row'[d].fwd = row[d].fwd /\ ~row'[d].fresh
      /\ row'[d].sub \in {row[d].sub, NoTx}
  <2>1. CASE eff
    BY <1>2, <1>4, <1>5, <2>1, UpdatedRow
  <2>2. CASE ~eff
    BY <1>2, <1>5, <2>2 DEF Update, tables
  <2>3. QED
    BY <2>1, <2>2
<1>7. UNCHANGED <<intent, batch, network>>
  BY DEF ForgetSubmission
<1>8. NothingInPlay(d)'
  BY <1>0, <1>1, <1>2, <1>7 DEF Knows, NothingInPlay, InPlay, network
<1>9. RowOK(d)'
  BY <1>2, <1>6, <1>7, NullsAreNew DEF RowOK, network
<1>10. OnRecord(d)'
  BY <1>2, <1>6, <1>8 DEF OnRecord, NothingInPlay
<1>11. job[p].sweep => row'[d].sweep
  BY <1>0, <1>1, <1>2, <1>6 DEF JobOK
<1>12. ASSUME NEW j, Become(p, j), j.dep = d, j.clock = job[p].clock,
              j.pc \in BusyPhases \ {"claimed"}, JobOK(p)', Knows(p)'
       PROVE  IInv'
  BY <1>0, <1>1, <1>4, <1>5, <1>7, <1>9, <1>10, <1>12, WriteStep
<1>13. ASSUME NEW out \in {"contention", "transient", "permanent"},
              Become(p, AfterTransfer(p, out))
       PROVE  IInv'
  <2>1. JobOK(p)' /\ Knows(p)'
    BY <1>0, <1>1, <1>2, <1>8, <1>11, <1>13, AfterTransferOK
  <2>2. PICK j : j = AfterTransfer(p, out)
    OBVIOUS
  <2>3. j.dep = d /\ j.clock = job[p].clock /\ j.pc \in BusyPhases \ {"claimed"}
    BY <1>0, <2>2, AfterTransferFacts DEF BusyPhases, Phases, Outcomes
  <2>4. QED
    BY <1>12, <1>13, <2>1, <2>2, <2>3
<1>14. CASE job[p].out = "rebuild" /\ ok
  <2>1. PICK j : j = Proceed(job[p])
    OBVIOUS
  <2>2. Become(p, j) /\ job'[p] = j
    BY <1>5, <1>14, <2>1 DEF Become, IInv, TypeOK
  <2>3. /\ j.dep = d /\ j.sweep = job[p].sweep /\ j.seen = job[p].seen
        /\ j.clock = job[p].clock
        /\ \/ j.pc = "build" /\ j.seen.sweep
           \/ j.pc = "lookup" /\ ~j.seen.sweep
           \/ j.pc = "write" /\ j.out = "ceiling"
    BY <1>0, <1>2, <2>1, ProceedFacts
  <2>4. j.sweep = j.seen.sweep
    BY <1>0, <1>1, <1>2, <1>14, <2>3 DEF Knows
  <2>5. JobOK(p)'
    BY <1>0, <1>1, <1>2, <1>11, <2>2, <2>3, <2>4, NullsAreNew DEF JobOK
  <2>6. Knows(p)'
    BY <1>8, <2>2, <2>3 DEF Knows
  <2>7. j.pc \in BusyPhases \ {"claimed"}
    BY <2>3 DEF BusyPhases, Phases
  <2>8. QED
    BY <1>12, <2>2, <2>3, <2>5, <2>6, <2>7
<1>15. CASE job[p].out = "rebuild" /\ ~ok
  <2>1. Become(p, Idle) /\ job'[p] = Idle
    BY <1>5, <1>15 DEF Become, IInv, TypeOK
  <2>2. JobOK(p)' /\ Knows(p)'
    BY <2>1, NullsAreNew DEF JobOK, Knows, Idle, NoRow, Busy, BusyPhases, Creditable
  <2>3. Idle.dep = NoDeposit /\ Idle.pc \notin BusyPhases
    BY DEF Idle, BusyPhases
  <2>4. QED
    BY <1>0, <1>1, <1>4, <1>5, <1>7, <1>9, <1>10, <2>1, <2>2, <2>3, WriteStep
<1>16. CASE job[p].out = "fee" /\ job[p].fee < MaxFeeRetries
  <2>1. PICK j : j = [job[p] EXCEPT !.pc = "record", !.out = "none", !.tx = NoTx,
                                    !.again = 0, !.fee = @ + 1]
    OBVIOUS
  <2>2. Become(p, j) /\ job'[p] = j
    BY <1>5, <1>16, <2>1 DEF Become, IInv, TypeOK
  <2>3. /\ j.dep = d /\ j.sweep = job[p].sweep /\ j.seen = job[p].seen
        /\ j.clock = job[p].clock /\ j.pc = "record"
    BY <1>0, <1>2, <2>1 DEF Job
  <2>4. JobOK(p)'
    BY <1>0, <1>1, <1>2, <1>11, <2>2, <2>3, NullsAreNew DEF JobOK
  <2>5. Knows(p)'
    BY <1>8, <2>2, <2>3 DEF Knows
  <2>6. j.pc \in BusyPhases \ {"claimed"}
    BY <2>3 DEF BusyPhases, Phases
  <2>7. QED
    BY <1>12, <2>2, <2>3, <2>4, <2>5, <2>6
<1>17. CASE job[p].out = "fee" /\ ~(job[p].fee < MaxFeeRetries)
  BY <1>5, <1>13, <1>17
<1>18. CASE job[p].out \notin {"rebuild", "fee"}
  <2>1. job[p].out \in {"contention", "transient", "permanent"}
    BY <1>1, <1>2, <1>18 DEF Knows
  <2>2. QED
    BY <1>5, <1>13, <1>18, <2>1
<1>19. QED
  BY <1>14, <1>15, <1>16, <1>17, <1>18

\* What WriteOutcome writes, by what it is called for.
LEMMA OutcomeFacts ==
  ASSUME NEW p \in Procs, job[p] \in Job, NEW r \in Row, NEW k, k = Outcome(p, r),
         job[p].out \in {"ok", "unconfirmed", "contention", "transient", "permanent",
                        "error", "ceiling", "lost"}
  PROVE  /\ k.sweep = r.sweep
         /\ job[p].out = "ok" =>
              /\ k.status = IF job[p].sweep THEN "swept" ELSE "done"
              /\ k.fwd = job[p].tx /\ k.sub = NoTx
         /\ job[p].out \in {"unconfirmed", "contention", "transient", "error"} =>
              k.status = "pending_retry" /\ k.fwd = r.fwd /\ k.sub = r.sub
         /\ job[p].out \in {"permanent", "ceiling", "lost"} =>
              k.status = "failed" /\ k.fwd = r.fwd /\ k.sub = r.sub
<1>1. CASE job[p].out = "ok"
  BY <1>1 DEF Outcome, Row
<1>2. CASE job[p].out \in {"unconfirmed", "contention"}
  BY <1>2 DEF Outcome, Row
<1>3. CASE job[p].out \in {"transient", "error"}
  BY <1>3 DEF Outcome, Row
<1>4. CASE job[p].out = "permanent" /\ p \in Workers /\ ~job[p].sweep
  BY <1>4 DEF Outcome, Row
<1>5. CASE /\ job[p].out \in {"permanent", "ceiling", "lost"}
           /\ ~(job[p].out = "permanent" /\ p \in Workers /\ ~job[p].sweep)
  <2>1. k = [r EXCEPT !.status = "failed"]
    BY <1>5 DEF Outcome
  <2>2. QED
    BY <1>5, <2>1 DEF Row
<1>6. QED
  BY <1>1, <1>2, <1>3, <1>4, <1>5

LEMMA WriteOutcomeStep ==
  ASSUME IInv, SingleRetrier, TypeOK', NEW p \in Procs, WriteOutcome(p)
  PROVE  IInv'
<1>0. PICK d : d = job[p].dep
  OBVIOUS
<1>1. Busy(p) /\ job[p].pc = "write"
  BY DEF WriteOutcome, At, Busy, BusyPhases, Phases
<1>2. /\ d \in Deposits /\ job[p] \in Job /\ row[d] \in Row
      /\ row[d].status \in {"pending", "pending_retry"} /\ ~row[d].fresh
      /\ row[d].fwd = NoTx
      /\ JobOK(p) /\ Knows(p) /\ RowOK(d) /\ OnRecord(d)
      /\ \A t \in Tx : InPlay(d, t) => row[d].sub = t
  BY <1>0, <1>1, HolderFacts
<1>3. /\ job[p].out \in {"ok", "unconfirmed", "contention", "transient", "permanent",
                         "error", "ceiling", "lost"}
      /\ job[p].out = "ok" =>
           /\ job[p].tx \in Tx /\ row[d].sub = job[p].tx
           /\ st[job[p].tx] = "ok" /\ own[job[p].tx] = d
           /\ job[p].sweep <=> d \notin Creditable
      /\ job[p].out \in {"permanent", "ceiling", "lost"} => NothingLive(d)
  BY <1>0, <1>1, <1>2 DEF Knows, JobOK, RowOK, NothingInPlay, NothingLive, InPlay
<1>4. PICK r : r = Outcome(p, row[d])
  OBVIOUS
<1>5. r \in Row
  BY <1>2, <1>4, OutcomeType DEF IInv, TypeOK
<1>6. /\ r.sweep = row[d].sweep
      /\ job[p].out = "ok" =>
           /\ r.status = IF job[p].sweep THEN "swept" ELSE "done"
           /\ r.fwd = job[p].tx /\ r.sub = NoTx
      /\ job[p].out \in {"unconfirmed", "contention", "transient", "error"} =>
           r.status = "pending_retry" /\ r.fwd = row[d].fwd /\ r.sub = row[d].sub
      /\ job[p].out \in {"permanent", "ceiling", "lost"} =>
           r.status = "failed" /\ r.fwd = row[d].fwd /\ r.sub = row[d].sub
  BY <1>2, <1>3, <1>4, OutcomeFacts
<1>7. PICK ok, eff \in BOOLEAN : Call(ok, eff) /\ Update(d, r, eff)
  BY <1>0, <1>4 DEF WriteOutcome
<1>8. UNCHANGED <<intent, batch, network>>
  BY DEF WriteOutcome
<1>9. PICK j : j = IF ClosesIntent(p) THEN [job[p] EXCEPT !.pc = "intent"] ELSE Idle
  OBVIOUS
<1>10. Become(p, j) /\ job'[p] = j
  BY <1>9 DEF WriteOutcome, Become, IInv, TypeOK
<1>11. \/ j = Idle
       \/ /\ j.dep = d /\ j.sweep = job[p].sweep /\ j.seen = job[p].seen /\ j.pc = "intent"
          /\ j.out = job[p].out /\ j.tx = job[p].tx /\ ~j.sweep
  BY <1>0, <1>2, <1>9, FieldsKept DEF ClosesIntent
<1>12. RowOK(d)'
  <2>1. CASE eff
    <3>1. /\ row'[d].status = r.status /\ row'[d].sweep = r.sweep
          /\ row'[d].sub = r.sub /\ row'[d].fwd = r.fwd /\ ~row'[d].fresh
      BY <1>2, <1>5, <1>7, <2>1, UpdatedRow
    <3>2. CASE job[p].out = "ok"
      <4>1. /\ row'[d].status \in {"done", "swept"} /\ row'[d].sub = NoTx
            /\ row'[d].fwd = job[p].tx
            /\ row'[d].status = "done" <=> d \in Creditable
        BY <1>3, <1>6, <3>1, <3>2
      <4>2. st' = st /\ own' = own
        BY <1>8 DEF network
      <4>3. row'[d].sweep => d \notin Creditable
        BY <1>2, <1>6, <3>1 DEF RowOK
      <4>4. QED
        BY <1>3, <3>1, <3>2, <4>1, <4>2, <4>3, NullsAreNew DEF RowOK
    <3>3. CASE job[p].out # "ok"
      BY <1>2, <1>3, <1>6, <1>8, <3>1, <3>3 DEF RowOK, network
    <3>4. QED
      BY <3>2, <3>3
  <2>2. CASE ~eff
    BY <1>2, <1>7, <1>8, <2>2 DEF Update, tables, RowOK, network
  <2>3. QED
    BY <2>1, <2>2
<1>13. OnRecord(d)'
  <2>1. CASE eff
    <3>1. row'[d].status = r.status /\ row'[d].sub = r.sub /\ row'[d].fwd = r.fwd
      BY <1>2, <1>5, <1>7, <2>1, UpdatedRow
    <3>2. \A t \in Tx : InPlay(d, t)' => t \in {row'[d].sub, row'[d].fwd}
      <4>1. row[d].sub \in {row'[d].sub, row'[d].fwd}
        BY <1>3, <1>6, <3>1
      <4>2. QED
        BY <1>2, <1>8, <4>1 DEF InPlay, network
    <3>3. row'[d].status = "failed" => NothingLive(d)'
      BY <1>3, <1>6, <1>8, <3>1 DEF NothingLive, network
    <3>4. QED
      BY <3>2, <3>3 DEF OnRecord
  <2>2. CASE ~eff
    BY <1>2, <1>7, <1>8, <2>2 DEF Update, tables, OnRecord, InPlay, NothingLive, network
  <2>3. QED
    BY <2>1, <2>2
<1>14. JobOK(p)'
  <2>1. CASE j = Idle
    BY <1>10, <2>1 DEF JobOK, Idle, NoRow, Busy, BusyPhases
  <2>2. CASE j # Idle
    BY <1>0, <1>1, <1>2, <1>3, <1>10, <1>11, <2>2, NullsAreNew DEF JobOK, Busy, BusyPhases
  <2>3. QED
    BY <2>1, <2>2
<1>15. Knows(p)'
  <2>1. CASE j = Idle
    BY <1>10, <2>1 DEF Knows, Idle
  <2>2. CASE j # Idle
    <3>1. /\ j.dep = d /\ j.pc = "intent" /\ ~j.sweep /\ j.sweep = job[p].sweep
          /\ j.out = job[p].out /\ j.tx = job[p].tx
      BY <1>11, <2>2
    <3>2. job[p].out = "ok" => d \in Creditable
      BY <1>3, <3>1
    <3>3. st' = st /\ own' = own
      BY <1>8 DEF network
    <3>4. QED
      BY <1>3, <1>10, <3>1, <3>2, <3>3 DEF Knows
  <2>3. QED
    BY <2>1, <2>2
<1>16. \/ j.dep = NoDeposit /\ j.pc \notin BusyPhases
       \/ j.dep = d /\ j.pc = "intent"
  BY <1>11 DEF Idle, BusyPhases
<1>17. QED
  BY <1>0, <1>1, <1>5, <1>7, <1>8, <1>10, <1>12, <1>13, <1>14, <1>15, <1>16, WriteStep

LEMMA RecordSubmissionStep ==
  ASSUME IInv, SingleRetrier, TypeOK', NEW p \in Procs, NEW t \in Tx, RecordSubmission(p, t)
  PROVE  IInv'
<1>0. PICK d : d = job[p].dep
  OBVIOUS
<1>1. Busy(p) /\ job[p].pc = "record"
  BY DEF RecordSubmission, At, Busy, BusyPhases, Phases
<1>2. /\ d \in Deposits /\ job[p] \in Job /\ row[d] \in Row
      /\ row[d].status \in {"pending", "pending_retry"} /\ ~row[d].fresh
      /\ row[d].fwd = NoTx
      /\ JobOK(p) /\ Knows(p) /\ RowOK(d) /\ OnRecord(d)
  BY <1>0, <1>1, HolderFacts
<1>3. PICK claimed \in BOOLEAN : claimed <=> HeldByOther(d, t)
  OBVIOUS
<1>4. PICK r : r = [row[d] EXCEPT !.sub = t]
  OBVIOUS
<1>5. /\ r \in Row /\ r.sweep = row[d].sweep /\ r.status = row[d].status /\ r.sub = t
      /\ r.fwd = row[d].fwd
  BY <1>2, <1>4 DEF Row
<1>6. PICK ok, eff \in BOOLEAN :
        /\ Call(ok, eff)
        /\ Update(d, r, eff /\ ~claimed)
        /\ Become(p, IF ~ok THEN AfterTransfer(p, "transient")
                     ELSE IF claimed THEN AfterTransfer(p, "contention")
                     ELSE [job[p] EXCEPT !.pc = "send", !.tx = t])
        /\ IF eff /\ Unused(d, t)
           THEN /\ st' = [st EXCEPT ![t] = "built"]
                /\ own' = [own EXCEPT ![t] = d]
                /\ pays' = [pays EXCEPT ![t] = Destination(p)]
                /\ view' = [view EXCEPT ![t] = "unseen"]
           ELSE UNCHANGED network
  BY <1>0, <1>3, <1>4 DEF RecordSubmission, SubmissionClaimed
<1>7. Unused(d, t) <=> ~claimed
  <2>1. Unused(d, t) \/ Twin(p, t)
    BY <1>0 DEF RecordSubmission
  <2>2. Twin(p, t) => claimed
    BY <1>0, <1>3 DEF Twin, HeldByOther
  <2>3. QED
    BY <1>3, <2>1, <2>2 DEF Unused
<1>8. PICK writes \in BOOLEAN : writes <=> (eff /\ ~claimed)
  OBVIOUS
<1>9. Update(d, r, writes)
  BY <1>6, <1>8 DEF Update
<1>10. /\ writes => /\ st[t] \notin {"live", "ok"} /\ ~HeldByOther(d, t)
                     /\ st'[t] = "built" /\ own'[t] = d /\ view'[t] = "unseen"
                     /\ pays'[t] = Destination(p)
       /\ ~writes => UNCHANGED network
       /\ \A u \in Tx \ {t} :
            st'[u] = st[u] /\ own'[u] = own[u] /\ pays'[u] = pays[u] /\ view'[u] = view[u]
  <2>1. CASE writes
    <3>1. eff /\ Unused(d, t)
      BY <1>7, <1>8, <2>1
    <3>2. QED
      BY <1>6, <2>1, <3>1 DEF Unused, IInv, TypeOK
  <2>2. CASE ~writes
    <3>1. ~(eff /\ Unused(d, t))
      BY <1>7, <1>8, <2>2
    <3>2. QED
      BY <1>6, <2>2, <3>1 DEF network
  <2>3. QED
    BY <2>1, <2>2
<1>11. /\ NothingInPlay(d) /\ (job[p].sweep <=> d \notin Creditable)
       /\ job[p].sweep => row[d].sweep
  BY <1>0, <1>1, <1>2 DEF Knows, JobOK
<1>12. /\ row'[d].status = row[d].status /\ row'[d].sweep = row[d].sweep
       /\ row'[d].fwd = NoTx /\ ~row'[d].fresh
       /\ writes => row'[d].sub = t
       /\ ~writes => row'[d].sub = row[d].sub
  <2>1. CASE writes
    BY <1>2, <1>5, <1>9, <2>1, UpdatedRow
  <2>2. CASE ~writes
    BY <1>2, <1>9, <2>2 DEF Update, tables
  <2>3. QED
    BY <2>1, <2>2
<1>13. NothingInPlay(d)'
  BY <1>10, <1>11 DEF NothingInPlay, InPlay, network
<1>14. RowOK(d)'
  <2>1. CASE writes
    BY <1>2, <1>10, <1>11, <1>12, <2>1 DEF RowOK
  <2>2. CASE ~writes
    BY <1>2, <1>10, <1>12, <2>2 DEF RowOK, network
  <2>3. QED
    BY <2>1, <2>2
<1>15. OnRecord(d)'
  BY <1>2, <1>12, <1>13 DEF OnRecord, NothingInPlay
<1>16. \A u \in Tx : NetworkOK(u)'
  <2>1. ASSUME NEW u \in Tx PROVE NetworkOK(u)'
    <3>1. NetworkOK(u)
      BY DEF IInv
    <3>2. CASE u = t /\ writes
      BY <1>2, <1>10, <1>11, <3>2 DEF NetworkOK, Destination
    <3>3. CASE u # t
      BY <1>10, <3>1, <3>3 DEF NetworkOK
    <3>4. CASE ~writes
      BY <1>10, <3>1, <3>4 DEF NetworkOK, network
    <3>5. QED
      BY <3>2, <3>3, <3>4
  <2>2. QED
    BY <2>1
<1>17. UNCHANGED <<intent, batch>>
  BY DEF RecordSubmission
<1>18. \A u \in Tx : st[u] = "ok" => st'[u] = "ok" /\ own'[u] = own[u] /\ pays'[u] = pays[u]
  BY <1>10 DEF network
<1>19. CompletedIsCredited'
  BY <1>17, <1>18 DEF IInv, CompletedIsCredited
<1>20. \A u \in Tx : \A e \in Deposits \ {d} :
         own'[u] = e /\ st'[u] \in {"live", "ok"} => own[u] = e /\ st'[u] = st[u]
  BY <1>10 DEF network
<1>21. \A e \in Deposits \ {d} : row[e].sub \in Tx =>
         st'[row[e].sub] # "new" /\ own'[row[e].sub] = own[row[e].sub]
  <2>1. SUFFICES ASSUME NEW e \in Deposits \ {d}, row[e].sub \in Tx
                 PROVE  st'[row[e].sub] # "new" /\ own'[row[e].sub] = own[row[e].sub]
    OBVIOUS
  <2>2. st[row[e].sub] # "new"
    BY <2>1 DEF IInv, RowOK
  <2>3. writes => row[e].sub # t
    BY <1>10 DEF HeldByOther
  <2>4. QED
    BY <1>10, <2>1, <2>2, <2>3 DEF network
<1>22. ASSUME NEW j, Become(p, j), j.dep = d, j.clock = job[p].clock,
              j.pc \in BusyPhases \ {"claimed"}, JobOK(p)', Knows(p)'
       PROVE  IInv'
  BY <1>0, <1>1, <1>5, <1>9, <1>14, <1>15, <1>16, <1>17, <1>18, <1>19, <1>20, <1>21, <1>22,
     HolderStep
<1>23. ASSUME NEW out \in {"contention", "transient"}, Become(p, AfterTransfer(p, out))
       PROVE  IInv'
  <2>1. JobOK(p)' /\ Knows(p)'
    BY <1>0, <1>1, <1>2, <1>11, <1>12, <1>13, <1>23, AfterTransferOK
  <2>2. PICK j : j = AfterTransfer(p, out)
    OBVIOUS
  <2>3. j.dep = d /\ j.clock = job[p].clock /\ j.pc \in BusyPhases \ {"claimed"}
    BY <1>0, <2>2, AfterTransferFacts DEF BusyPhases, Phases, Outcomes
  <2>4. QED
    BY <1>22, <1>23, <2>1, <2>2, <2>3
<1>24. CASE ok /\ ~claimed
  <2>1. PICK j : j = [job[p] EXCEPT !.pc = "send", !.tx = t]
    OBVIOUS
  <2>2. Become(p, j) /\ job'[p] = j /\ writes
    BY <1>6, <1>8, <1>24, <2>1 DEF Become, Call, IInv, TypeOK
  <2>3. /\ j.dep = d /\ j.sweep = job[p].sweep /\ j.seen = job[p].seen
        /\ j.clock = job[p].clock /\ j.pc = "send" /\ j.tx = t
    BY <1>0, <1>2, <2>1 DEF Job
  <2>4. JobOK(p)'
    BY <1>0, <1>1, <1>2, <1>11, <1>12, <2>2, <2>3, NullsAreNew DEF JobOK
  <2>5. Knows(p)'
    BY <1>12, <1>13, <2>2, <2>3 DEF Knows
  <2>6. j.pc \in BusyPhases \ {"claimed"}
    BY <2>3 DEF BusyPhases, Phases
  <2>7. QED
    BY <1>22, <2>2, <2>3, <2>4, <2>5, <2>6
<1>25. QED
  BY <1>6, <1>23, <1>24

LEMMA CloseIntentStep ==
  ASSUME IInv, TypeOK', NEW p \in Procs, CloseIntent(p)
  PROVE  IInv'
<1>0. PICK d : d = job[p].dep
  OBVIOUS
<1>1. /\ job'[p] = Idle /\ \A q \in Procs \ {p} : job'[q] = job[q]
      /\ UNCHANGED <<row, age, same, batch, st, own, pays, view>>
      /\ job[p].pc = "intent"
  BY DEF CloseIntent, Become, At, IInv, TypeOK, tables, network
<1>2. JobOK(p) /\ Knows(p) /\ job[p] \in Job
  BY DEF IInv, TypeOK
<1>3. d \in Deposits
  BY <1>0, <1>1, <1>2 DEF JobOK, Job
<1>4. \A t \in Tx : NetworkOK(t)'
  BY <1>1 DEF IInv, NetworkOK
<1>5. \A e \in Deposits : RowOK(e)' /\ OnRecord(e)'
  BY <1>1 DEF IInv, RowOK, OnRecord, InPlay, NothingLive
<1>6. ASSUME NEW q \in Procs
      PROVE  JobOK(q)' /\ Knows(q)' /\ HolderOK(q)'
  <2>1. CASE q = p
    BY <1>1, <2>1 DEF JobOK, Knows, HolderOK, Idle, NoRow, Busy, BusyPhases
  <2>2. CASE q # p
    <3>1. JobOK(q) /\ Knows(q) /\ HolderOK(q) /\ job'[q] = job[q]
      BY <1>1, <2>2 DEF IInv
    <3>2. JobOK(q)'
      BY <1>1, <3>1 DEF JobOK, Busy
    <3>3. Knows(q)'
      BY <1>1, <3>1 DEF Knows, NothingInPlay, NothingLive, InPlay
    <3>4. \A o \in Procs : Busy(o)' => Busy(o) /\ job'[o] = job[o]
      BY <1>1 DEF Busy, BusyPhases, Idle
    <3>5. HolderOK(q)'
      BY <1>1, <3>1, <3>4 DEF HolderOK, Busy
    <3>6. QED
      BY <3>2, <3>3, <3>5
  <2>3. QED
    BY <2>1, <2>2
<1>7. \A r \in Retriers : \A e \in Deposits : BatchOK(r, e)'
  <2>1. SUFFICES ASSUME NEW r \in Retriers, NEW e \in Deposits PROVE BatchOK(r, e)'
    OBVIOUS
  <2>2. BatchOK(r, e) /\ r \in Procs
    BY DEF IInv, Procs
  <2>3. job'[r].dep = job[r].dep \/ job'[r].dep # e
    BY <1>1, <2>2, NullsAreNew DEF Idle
  <2>4. QED
    BY <1>1, <2>2, <2>3 DEF BatchOK
<1>8. CompletedIsCredited'
  <2>1. SUFFICES ASSUME NEW m \in Memos, intent'[m] = "completed"
                 PROVE  \E t \in Tx : st[t] = "ok" /\ pays[t] = "credit"
                                     /\ own[t] \in Deposits /\ MemoOf[own[t]] = m
    BY <1>1 DEF CompletedIsCredited
  <2>2. CASE intent[m] = "completed"
    BY <2>2 DEF IInv, CompletedIsCredited
  <2>3. CASE intent[m] # "completed"
    <3>1. MemoOf[d] = m /\ job[p].out = "ok"
      BY <1>0, <2>1, <2>3 DEF CloseIntent, Closed, IInv, TypeOK
    <3>2. job[p].tx \in Tx /\ st[job[p].tx] = "ok" /\ own[job[p].tx] = d /\ d \in Creditable
      BY <1>0, <1>1, <1>2, <3>1 DEF Knows
    <3>3. pays[job[p].tx] = "credit"
      BY <3>2 DEF IInv, NetworkOK
    <3>4. QED
      BY <1>3, <3>1, <3>2, <3>3
  <2>4. QED
    BY <2>2, <2>3
<1>9. QED
  BY <1>4, <1>5, <1>6, <1>7, <1>8 DEF IInv

-----------------------------------------------------------------------------
(* Taking a row up.                                                        *)

\* An idle process takes a row that nobody holds.
LEMMA TakeStep ==
  ASSUME IInv, TypeOK', NEW p \in Procs, NEW d \in Deposits, NEW j,
         job[p].pc = "idle", Become(p, j), j.dep = d, j.pc \in BusyPhases,
         \A q \in Procs : Busy(q) => job[q].dep # d,
         \A e \in Deposits \ {d} : row'[e] = row[e] /\ age'[e] = age[e],
         UNCHANGED <<intent, network>>,
         RowOK(d)', OnRecord(d)', JobOK(p)', Knows(p)',
         ~row'[d].fresh,
         p \in Workers => row'[d].status = "pending" /\ age'[d] = 0 /\ j.clock = 0,
         p \in Retriers => row'[d].status \in {"pending", "pending_retry"},
         \A r \in Retriers : \A e \in Deposits : BatchOK(r, e)'
  PROVE  IInv'
<1>1. job'[p] = j /\ \A q \in Procs \ {p} : job'[q] = job[q]
  BY DEF Become, IInv, TypeOK
<1>2. st' = st /\ own' = own /\ pays' = pays /\ view' = view
  BY DEF network
<1>3. \A t \in Tx : NetworkOK(t)'
  BY <1>2 DEF IInv, NetworkOK
<1>4. \A e \in Deposits : RowOK(e)' /\ OnRecord(e)'
  BY <1>2 DEF IInv, RowOK, OnRecord, InPlay, NothingLive
<1>5. ASSUME NEW q \in Procs \ {p}
      PROVE  JobOK(q)' /\ Knows(q)' /\ HolderOK(q)'
  <2>1. JobOK(q) /\ Knows(q) /\ HolderOK(q) /\ job'[q] = job[q] /\ job[q] \in Job
    BY <1>1 DEF IInv, TypeOK
  <2>2. Busy(q) => /\ job[q].dep \in Deposits \ {d}
                   /\ row'[job[q].dep] = row[job[q].dep] /\ age'[job[q].dep] = age[job[q].dep]
    BY <2>1 DEF JobOK, Busy, BusyPhases, Job
  <2>3. JobOK(q)'
    BY <2>1, <2>2 DEF JobOK, Busy
  <2>4. Knows(q)'
    <3>1. CASE Busy(q)
      BY <1>2, <2>1, <2>2, <3>1 DEF Knows, NothingInPlay, NothingLive, InPlay
    <3>2. CASE ~Busy(q)
      BY <1>2, <2>1, <3>2 DEF Knows, Busy, BusyPhases, Phases
    <3>3. QED
      BY <3>1, <3>2
  <2>5. HolderOK(q)'
    <3>1. SUFFICES ASSUME Busy(q) PROVE HolderOK(q)'
      BY <2>1 DEF HolderOK, Busy
    <3>2. \A o \in Procs : Busy(o)' /\ job'[o].dep = job[q].dep => o = q
      BY <1>1, <2>1, <2>2, <3>1 DEF HolderOK, Busy
    <3>3. QED
      BY <2>1, <2>2, <3>1, <3>2 DEF HolderOK, Busy
  <2>6. QED
    BY <2>3, <2>4, <2>5
<1>6. HolderOK(p)'
  <2>1. \A q \in Procs : Busy(q)' /\ job'[q].dep = d => q = p
    BY <1>1 DEF Busy
  <2>2. p \in Workers => age'[d] <= j.clock + MaxReply /\ j.clock < ForwardDeadline
    BY BoundsAreNaturals
  <2>3. QED
    BY <1>1, <2>1, <2>2 DEF HolderOK
<1>7. CompletedIsCredited'
  BY <1>2 DEF IInv, CompletedIsCredited
<1>8. QED
  BY <1>3, <1>4, <1>5, <1>6, <1>7 DEF IInv

\* A process that is left without a deposit, with nothing else changing but the
\* age mark of a row nobody holds.
LEMMA LetGo ==
  ASSUME IInv, TypeOK', NEW p \in Procs, NEW d, NEW j, Become(p, j),
         j = Idle \/ (p \in Retriers /\ j = [Idle EXCEPT !.pc = "fetch"]),
         \/ UNCHANGED <<row, age>>
         \/ /\ d \in Deposits /\ row[d].status = "pending"
            /\ \A q \in Procs : Busy(q) => job[q].dep # d
            /\ row' = [row EXCEPT ![d] = [row[d] EXCEPT !.fresh = FALSE]]
            /\ age' = [age EXCEPT ![d] = 0],
         UNCHANGED network, CompletedIsCredited',
         \A r \in Retriers : \A e \in Deposits : BatchOK(r, e)'
  PROVE  IInv'
<1>1. job'[p] = j /\ \A q \in Procs \ {p} : job'[q] = job[q]
  BY DEF Become, IInv, TypeOK
<1>2. st' = st /\ own' = own /\ pays' = pays /\ view' = view
  BY DEF network
<1>3. \A t \in Tx : NetworkOK(t)'
  BY <1>2 DEF IInv, NetworkOK
<1>4. /\ \A e \in Deposits \ {d} : row'[e] = row[e] /\ age'[e] = age[e]
      /\ \/ row'[d] = row[d] /\ age'[d] = age[d]
         \/ /\ row'[d].status = row[d].status /\ row'[d].sub = row[d].sub
            /\ row'[d].fwd = row[d].fwd /\ row'[d].sweep = row[d].sweep /\ ~row'[d].fresh
            /\ row[d].status = "pending"
            /\ \A q \in Procs : Busy(q) => job[q].dep # d
  <2>1. CASE UNCHANGED <<row, age>>
    BY <2>1
  <2>2. CASE /\ d \in Deposits /\ row[d].status = "pending"
             /\ \A q \in Procs : Busy(q) => job[q].dep # d
             /\ row' = [row EXCEPT ![d] = [row[d] EXCEPT !.fresh = FALSE]]
             /\ age' = [age EXCEPT ![d] = 0]
    BY <2>2 DEF IInv, TypeOK, Row
  <2>3. QED
    BY <2>1, <2>2
<1>5. \A e \in Deposits : RowOK(e)' /\ OnRecord(e)'
  <2>1. ASSUME NEW e \in Deposits
        PROVE  RowOK(e)' /\ OnRecord(e)'
    <3>1. RowOK(e) /\ OnRecord(e)
      BY DEF IInv
    <3>2. CASE row'[e] = row[e]
      BY <1>2, <3>1, <3>2 DEF RowOK, OnRecord, InPlay, NothingLive
    <3>3. CASE row'[e] # row[e]
      <4>1. /\ row'[e].status = row[e].status /\ row'[e].sub = row[e].sub
            /\ row'[e].fwd = row[e].fwd /\ row'[e].sweep = row[e].sweep /\ ~row'[e].fresh
            /\ row[e].status = "pending"
        BY <1>4, <3>3
      <4>2. RowOK(e)'
        BY <1>2, <3>1, <4>1 DEF RowOK
      <4>3. OnRecord(e)'
        BY <1>2, <3>1, <4>1 DEF OnRecord, InPlay, NothingLive
      <4>4. QED
        BY <4>2, <4>3
    <3>4. QED
      BY <3>2, <3>3
  <2>2. QED
    BY <2>1
<1>6. ASSUME NEW q \in Procs
      PROVE  JobOK(q)' /\ Knows(q)' /\ HolderOK(q)'
  <2>1. CASE q = p
    BY <1>1, <2>1 DEF JobOK, Knows, HolderOK, Idle, NoRow, Busy, BusyPhases
  <2>2. CASE q # p
    <3>1. JobOK(q) /\ Knows(q) /\ HolderOK(q) /\ job'[q] = job[q] /\ job[q] \in Job
      BY <1>1, <2>2 DEF IInv, TypeOK
    <3>2. Busy(q) => /\ job[q].dep \in Deposits
                     /\ row'[job[q].dep] = row[job[q].dep] /\ age'[job[q].dep] = age[job[q].dep]
      BY <1>4, <3>1 DEF JobOK, Busy, BusyPhases, Job
    <3>3. JobOK(q)'
      BY <3>1, <3>2 DEF JobOK, Busy
    <3>4. Knows(q)'
      <4>1. CASE Busy(q)
        BY <1>2, <3>1, <3>2, <4>1 DEF Knows, NothingInPlay, NothingLive, InPlay
      <4>2. CASE ~Busy(q)
        BY <1>2, <3>1, <4>2 DEF Knows, Busy, BusyPhases, Phases
      <4>3. QED
        BY <4>1, <4>2
    <3>5. \A o \in Procs : Busy(o)' => Busy(o) /\ job'[o] = job[o]
      BY <1>1 DEF Busy, BusyPhases, Idle
    <3>6. HolderOK(q)'
      BY <3>1, <3>2, <3>5 DEF HolderOK, Busy
    <3>7. QED
      BY <3>3, <3>4, <3>6
  <2>3. QED
    BY <2>1, <2>2
<1>7. QED
  BY <1>3, <1>5, <1>6 DEF IInv

\* A fresh row has had no transfer and no holder.
LEMMA FreshRow ==
  ASSUME IInv, NEW d \in Deposits, Untouched(d)
  PROVE  /\ \A q \in Procs : Busy(q) => job[q].dep # d
         /\ NothingInPlay(d)
         /\ row[d].sub = NoTx /\ row[d].fwd = NoTx /\ ~row[d].sweep
<1>1. \A q \in Procs : Busy(q) => job[q].dep # d
  BY DEF IInv, HolderOK, Untouched
<1>2. row[d].sub = NoTx /\ row[d].fwd = NoTx /\ ~row[d].sweep
  BY DEF IInv, RowOK, Untouched
<1>3. NothingInPlay(d)
  BY <1>2, NullsAreNew DEF IInv, OnRecord, NothingInPlay
<1>4. QED
  BY <1>1, <1>2, <1>3

LEMMA ClaimNewForwardStep ==
  ASSUME IInv, TypeOK', NEW w \in Workers, NEW d \in Deposits, ClaimNewForward(w, d)
  PROVE  IInv'
<1>0. PICK ok \in BOOLEAN, eff \in BOOLEAN :
        /\ Update(d, row[d], eff /\ Untouched(d))
        /\ Become(w, IF ok /\ Untouched(d) THEN [Idle EXCEPT !.pc = "claimed", !.dep = d]
                                            ELSE Idle)
        /\ ok => eff
  BY DEF ClaimNewForward, Call
<1>1. /\ job[w].pc = "idle" /\ w \in Procs /\ w \notin Retriers
      /\ UNCHANGED <<intent, network>> /\ batch' = batch
      /\ row \in [Deposits -> Row] /\ age \in [Deposits -> Nat] /\ row[d] \in Row
      /\ \A r \in Retriers : job'[r] = job[r]
  BY <1>0, RolesAreDistinct DEF ClaimNewForward, Procs, IInv, TypeOK, Become
<1>2. \A r \in Retriers : \A e \in Deposits : BatchOK(r, e)'
  <2>1. ASSUME NEW r \in Retriers, NEW e \in Deposits
        PROVE  BatchOK(r, e)'
    <3>1. BatchOK(r, e) /\ job'[r] = job[r] /\ batch'[r] = batch[r]
      BY <1>1 DEF IInv
    <3>2. CASE eff /\ Untouched(d)
      <4>1. /\ same'[r] = same[r] \ {d}
            /\ e # d => row'[e] = row[e] /\ age'[e] = age[e]
        BY <1>0, <1>1, <3>2 DEF Update
      <4>2. CASE e = d
        BY <3>1, <3>2, <4>1, <4>2 DEF BatchOK, Untouched
      <4>3. CASE e # d
        BY <3>1, <4>1, <4>3 DEF BatchOK
      <4>4. QED
        BY <4>2, <4>3
    <3>3. CASE ~(eff /\ Untouched(d))
      BY <1>0, <3>1, <3>3 DEF Update, tables, BatchOK
    <3>4. QED
      BY <3>2, <3>3
  <2>2. QED
    BY <2>1
<1>3. CASE ok /\ Untouched(d)
  <2>1. PICK j : j = [Idle EXCEPT !.pc = "claimed", !.dep = d]
    OBVIOUS
  <2>2. /\ Become(w, j) /\ j.dep = d /\ j.pc = "claimed" /\ j.clock = 0 /\ ~j.sweep
        /\ ~j.seen.sweep
    BY <1>0, <1>3, <2>1 DEF Idle, NoRow
  <2>3. /\ row' = [row EXCEPT ![d] = [row[d] EXCEPT !.fresh = FALSE]]
        /\ age' = [age EXCEPT ![d] = 0]
    BY <1>0, <1>3 DEF Update
  <2>4. /\ row'[d].status = "pending" /\ ~row'[d].fresh
        /\ row'[d].sub = row[d].sub /\ row'[d].fwd = row[d].fwd
        /\ row'[d].sweep = row[d].sweep
        /\ age'[d] = 0
        /\ \A e \in Deposits \ {d} : row'[e] = row[e] /\ age'[e] = age[e]
    BY <1>1, <1>3, <2>3 DEF Untouched, Row
  <2>5. /\ \A q \in Procs : Busy(q) => job[q].dep # d
        /\ NothingInPlay(d)
        /\ row[d].sub = NoTx /\ row[d].fwd = NoTx /\ ~row[d].sweep
    BY <1>3, FreshRow
  <2>6. job'[w] = j /\ st' = st /\ own' = own
    BY <1>1, <2>2 DEF Become, IInv, TypeOK, network
  <2>7. RowOK(d)'
    BY <2>4, <2>5, NullsAreNew DEF RowOK
  <2>8. OnRecord(d)'
    BY <2>4, <2>5, <2>6 DEF OnRecord, NothingInPlay, InPlay
  <2>9. JobOK(w)'
    BY <2>2, <2>6, NullsAreNew DEF JobOK
  <2>10. Knows(w)'
    BY <2>2, <2>5, <2>6 DEF Knows, NothingInPlay, InPlay
  <2>11. j.pc \in BusyPhases
    BY <2>2 DEF BusyPhases, Phases
  <2>12. QED
    BY <1>1, <1>2, <2>2, <2>4, <2>5, <2>7, <2>8, <2>9, <2>10, <2>11, TakeStep
<1>4. CASE ~(ok /\ Untouched(d))
  <2>1. Become(w, Idle) /\ CompletedIsCredited'
    BY <1>0, <1>1, <1>4 DEF IInv, CompletedIsCredited, network
  <2>2. CASE eff /\ Untouched(d)
    <3>1. /\ row' = [row EXCEPT ![d] = [row[d] EXCEPT !.fresh = FALSE]]
          /\ age' = [age EXCEPT ![d] = 0]
      BY <1>0, <2>2 DEF Update
    <3>2. row[d].status = "pending" /\ \A q \in Procs : Busy(q) => job[q].dep # d
      BY <2>2, FreshRow DEF Untouched
    <3>3. QED
      BY <1>1, <1>2, <2>1, <3>1, <3>2, LetGo
  <2>3. CASE ~(eff /\ Untouched(d))
    <3>1. UNCHANGED <<row, age>>
      BY <1>0, <2>3 DEF Update, tables
    <3>2. QED
      BY <1>1, <1>2, <2>1, <3>1, LetGo
  <2>4. QED
    BY <2>2, <2>3
<1>5. QED
  BY <1>3, <1>4

\* Where Retry starts on a row that is still as it was fetched.
LEMMA BeginFacts ==
  ASSUME IInv, NEW r \in Retriers, NEW d \in Deposits, NEW j, j = Begin(r, d)
  PROVE  /\ j.dep = d /\ j.seen = batch[r][d] /\ j.sweep = batch[r][d].sweep /\ j.clock = 0
         /\ \/ j.pc = "resolve" /\ batch[r][d].sub # NoTx
            \/ /\ batch[r][d].sub = NoTx
               /\ \/ j.pc = "build" /\ batch[r][d].sweep
                  \/ j.pc = "lookup" /\ ~batch[r][d].sweep
                  \/ j.pc = "write" /\ j.out = "ceiling"
<1>1. PICK k : k = [Idle EXCEPT !.dep = d, !.seen = batch[r][d], !.sweep = batch[r][d].sweep]
  OBVIOUS
<1>2. batch[r][d] \in Row
  BY DEF IInv, TypeOK
<1>3. k \in Job
  BY <1>1, <1>2, ConstantRecords DEF Job, Row
<1>4. k.dep = d /\ k.seen = batch[r][d] /\ k.sweep = batch[r][d].sweep /\ k.clock = 0
  BY <1>1 DEF Idle
<1>5. CASE batch[r][d].sub # NoTx
  <2>1. j = [k EXCEPT !.pc = "resolve"]
    BY <1>1, <1>5 DEF Begin
  <2>2. QED
    BY <1>3, <1>4, <1>5, <2>1, FieldsKept
<1>6. CASE batch[r][d].sub = NoTx
  <2>1. j = Proceed(k)
    BY <1>1, <1>6 DEF Begin
  <2>2. QED
    BY <1>3, <1>4, <1>6, <2>1, ProceedFacts
<1>7. QED
  BY <1>5, <1>6

\* Taking such a row up, whether or not the claim touches it.
LEMMA BeginStep ==
  ASSUME IInv, TypeOK', NEW r \in Retriers, NEW d \in Deposits,
         job[r].pc = "idle", Become(r, Begin(r, d)),
         row[d] = batch[r][d], row[d].status \in {"pending", "pending_retry"},
         row'[d].status = row[d].status, row'[d].sub = row[d].sub, row'[d].fwd = row[d].fwd,
         row'[d].sweep = row[d].sweep, ~row'[d].fresh,
         \A q \in Procs : Busy(q) => job[q].dep # d,
         \A e \in Deposits \ {d} : row'[e] = row[e] /\ age'[e] = age[e],
         UNCHANGED <<intent, network>>,
         \A s \in Retriers : \A e \in Deposits : BatchOK(s, e)'
  PROVE  IInv'
<1>1. PICK j : j = Begin(r, d)
  OBVIOUS
<1>2. /\ j.dep = d /\ j.seen = row[d] /\ j.sweep = row[d].sweep /\ j.clock = 0
      /\ \/ j.pc = "resolve" /\ row[d].sub # NoTx
         \/ /\ row[d].sub = NoTx
            /\ \/ j.pc = "build" /\ row[d].sweep
               \/ j.pc = "lookup" /\ ~row[d].sweep
               \/ j.pc = "write" /\ j.out = "ceiling"
  BY <1>1, BeginFacts
<1>3. /\ r \in Procs /\ r \notin Workers /\ job'[r] = j /\ Become(r, j)
      /\ st' = st /\ own' = own
      /\ row[d] \in Row
  BY <1>1, RolesAreDistinct DEF Procs, IInv, TypeOK, Become, network
<1>4. RowOK(d) /\ OnRecord(d)
  BY DEF IInv
<1>5. RowOK(d)'
  BY <1>3, <1>4 DEF RowOK, NoRow
<1>6. OnRecord(d)'
  BY <1>3, <1>4 DEF OnRecord, InPlay, NothingLive
<1>7. row[d].sub = NoTx => NothingInPlay(d)
  BY <1>4, NullsAreNew DEF RowOK, OnRecord, NothingInPlay
<1>8. row[d].sweep => d \notin Creditable
  BY <1>4 DEF RowOK
<1>9. JobOK(r)'
  BY <1>2, <1>3, <1>8, NullsAreNew DEF JobOK
<1>10. Knows(r)'
  <2>1. row[d].sub = NoTx => NothingInPlay(d)'
    BY <1>3, <1>7 DEF NothingInPlay, InPlay
  <2>2. row[d].sub # NoTx => row[d].sub \in Tx
    BY <1>3 DEF Row
  <2>3. QED
    BY <1>2, <1>3, <2>1, <2>2 DEF Knows
<1>11. j.pc \in BusyPhases
  BY <1>2 DEF BusyPhases, Phases
<1>12. QED
  BY <1>2, <1>3, <1>5, <1>6, <1>9, <1>10, <1>11, TakeStep

\* A row waiting in the retry queue has no holder while the only retry worker is
\* idle, and one that has been pending past the cutoff has outlived its worker.
LEMMA NobodyHolds ==
  ASSUME IInv, SingleRetrier, ClaimAnswersInTime,
         NEW r \in Retriers, NEW d \in Deposits, job[r].pc = "idle",
         \/ row[d].status = "pending_retry"
         \/ row[d].status = "pending" /\ age[d] >= RetryCutoff
  PROVE  \A q \in Procs : Busy(q) => job[q].dep # d
<1>1. SUFFICES ASSUME NEW q \in Procs, Busy(q), job[q].dep = d PROVE FALSE
  OBVIOUS
<1>2. HolderOK(q)
  BY DEF IInv
<1>3. q # r
  BY <1>1 DEF Busy, BusyPhases
<1>4. q \in Workers
  BY <1>1, <1>3 DEF SingleRetrier, Procs
<1>5. /\ row[d].status = "pending"
      /\ age[d] <= job[q].clock + MaxReply
      /\ job[q].clock < ForwardDeadline
  BY <1>1, <1>2, <1>4 DEF HolderOK
<1>6. age[d] \in Nat /\ job[q].clock \in Nat
  BY DEF IInv, TypeOK, Job
<1>7. QED
  BY <1>5, <1>6, BoundsAreNaturals DEF ClaimAnswersInTime

\* The batch once the row of d has been taken from it.
LEMMA BatchTaken ==
  ASSUME IInv, SingleRetrier, NEW r \in Retriers, NEW d \in Deposits,
         job[r].pc = "idle",
         batch' = [batch EXCEPT ![r][d] = NoRow],
         job'[r].dep \in {d, NoDeposit},
         \A e \in Deposits \ {d} :
           /\ row'[e] = row[e] /\ age'[e] = age[e]
           /\ e \in same'[r] => e \in same[r]
  PROVE  \A s \in Retriers : \A e \in Deposits : BatchOK(s, e)'
<1>1. SUFFICES ASSUME NEW e \in Deposits PROVE BatchOK(r, e)'
  BY DEF SingleRetrier
<1>2. batch'[r][d] = NoRow /\ (e # d => batch'[r][e] = batch[r][e])
  BY DEF IInv, TypeOK
<1>3. CASE e = d
  BY <1>2, <1>3 DEF BatchOK, NoRow
<1>4. CASE e # d
  <2>1. BatchOK(r, e) /\ e # NoDeposit
    BY NullsAreNew DEF IInv
  <2>2. QED
    BY <1>2, <1>4, <2>1 DEF BatchOK
<1>5. QED
  BY <1>3, <1>4

LEMMA TakeRetryStep ==
  ASSUME IInv, SingleRetrier, ClaimAnswersInTime, TypeOK',
         NEW r \in Retriers, NEW d \in Deposits, TakeRetry(r, d)
  PROVE  IInv'
<1>1. /\ job[r].pc = "idle" /\ Become(r, Begin(r, d)) /\ batch[r][d].status = "pending_retry"
      /\ batch' = [batch EXCEPT ![r][d] = NoRow]
      /\ same' = [same EXCEPT ![r] = @ \ {d}]
      /\ row' = row /\ age' = age /\ UNCHANGED <<intent, network>>
  BY DEF TakeRetry
<1>2. row[d] = batch[r][d] /\ row[d].status = "pending_retry" /\ ~row[d].fresh
  BY <1>1 DEF IInv, BatchOK, RowOK
<1>3. \A q \in Procs : Busy(q) => job[q].dep # d
  BY <1>1, <1>2, NobodyHolds
<1>4. job'[r].dep = d
  <2>1. job'[r] = Begin(r, d)
    BY <1>1 DEF Become, IInv, TypeOK, Procs
  <2>2. QED
    BY <2>1, BeginFacts
<1>5. \A s \in Retriers : \A e \in Deposits : BatchOK(s, e)'
  <2>1. same'[r] = same[r] \ {d}
    BY <1>1 DEF IInv, TypeOK
  <2>2. QED
    BY <1>1, <1>4, <2>1, BatchTaken
<1>6. QED
  BY <1>1, <1>2, <1>3, <1>5, BeginStep

LEMMA ClaimPendingForwardStep ==
  ASSUME IInv, SingleRetrier, ClaimAnswersInTime, TypeOK',
         NEW r \in Retriers, NEW d \in Deposits, ClaimPendingForward(r, d)
  PROVE  IInv'
<1>1. PICK claims \in BOOLEAN : claims <=> row[d].status = "pending" /\ d \in same[r]
  OBVIOUS
<1>2. PICK ok \in BOOLEAN, eff \in BOOLEAN :
        /\ ok => eff
        /\ Become(r, IF ok /\ claims THEN Begin(r, d) ELSE Idle)
        /\ IF eff /\ claims
           THEN Update(d, row[d], TRUE)
           ELSE same' = [same EXCEPT ![r] = @ \ {d}] /\ UNCHANGED <<row, age>>
  BY <1>1 DEF ClaimPendingForward, Call
<1>3. /\ job[r].pc = "idle" /\ batch[r][d].status = "pending"
      /\ batch' = [batch EXCEPT ![r][d] = NoRow]
      /\ UNCHANGED <<intent, network>>
      /\ r \in Procs
      /\ row \in [Deposits -> Row] /\ age \in [Deposits -> Nat] /\ row[d] \in Row
      /\ same \in [Retriers -> SUBSET Deposits]
  BY DEF ClaimPendingForward, Procs, IInv, TypeOK
<1>4. claims => /\ row[d] = batch[r][d] /\ row[d].status = "pending"
                /\ \A q \in Procs : Busy(q) => job[q].dep # d
  <2>1. claims => row[d] = batch[r][d] /\ age[d] >= RetryCutoff /\ row[d].status = "pending"
    BY <1>1, <1>3 DEF IInv, BatchOK
  <2>2. QED
    BY <1>3, <2>1, NobodyHolds
<1>5. \A s \in Retriers : \A e \in Deposits : BatchOK(s, e)'
  <2>1. \A e \in Deposits \ {d} : /\ row'[e] = row[e] /\ age'[e] = age[e]
                                  /\ e \in same'[r] => e \in same[r]
    <3>1. CASE eff /\ claims
      BY <1>2, <1>3, <3>1 DEF Update
    <3>2. CASE ~(eff /\ claims)
      BY <1>2, <1>3, <3>2
    <3>3. QED
      BY <3>1, <3>2
  <2>2. job'[r].dep \in {d, NoDeposit}
    <3>1. job'[r] = IF ok /\ claims THEN Begin(r, d) ELSE Idle
      BY <1>2, <1>3 DEF Become, IInv, TypeOK
    <3>2. Begin(r, d).dep = d
      BY BeginFacts
    <3>3. QED
      BY <3>1, <3>2 DEF Idle
  <2>3. QED
    BY <1>3, <2>1, <2>2, BatchTaken
<1>6. eff /\ claims =>
        /\ row' = [row EXCEPT ![d] = [row[d] EXCEPT !.fresh = FALSE]]
        /\ age' = [age EXCEPT ![d] = 0]
  BY <1>2 DEF Update
<1>7. CASE ok /\ claims
  <2>1. /\ row'[d].status = row[d].status /\ row'[d].sub = row[d].sub
        /\ row'[d].fwd = row[d].fwd /\ row'[d].sweep = row[d].sweep /\ ~row'[d].fresh
        /\ \A e \in Deposits \ {d} : row'[e] = row[e] /\ age'[e] = age[e]
    BY <1>2, <1>3, <1>6, <1>7 DEF Row
  <2>2. Become(r, Begin(r, d))
    BY <1>2, <1>7
  <2>3. QED
    BY <1>3, <1>4, <1>5, <1>7, <2>1, <2>2, BeginStep
<1>8. CASE ~(ok /\ claims)
  <2>1. Become(r, Idle) /\ CompletedIsCredited'
    BY <1>2, <1>3, <1>8 DEF IInv, CompletedIsCredited, network
  <2>2. CASE eff /\ claims
    BY <1>3, <1>4, <1>5, <1>6, <2>1, <2>2, LetGo
  <2>3. CASE ~(eff /\ claims)
    <3>1. UNCHANGED <<row, age>>
      BY <1>2, <2>3
    <3>2. QED
      BY <1>3, <1>5, <2>1, <3>1, LetGo
  <2>4. QED
    BY <2>2, <2>3
<1>9. QED
  BY <1>7, <1>8

-----------------------------------------------------------------------------
(* The steps between rows.                                                 *)

LEMMA ExpireStaleIntentsStep ==
  ASSUME IInv, SingleRetrier, TypeOK', NEW r \in Retriers, ExpireStaleIntents(r)
  PROVE  IInv'
<1>1. /\ Become(r, [Idle EXCEPT !.pc = "fetch"]) /\ UNCHANGED <<row, age>> /\ UNCHANGED network
      /\ batch' = batch /\ same' = same /\ r \in Procs
      /\ batch[r] = [e \in Deposits |-> NoRow]
  BY DEF ExpireStaleIntents, tables, Procs
<1>2. CompletedIsCredited'
  <2>1. \A m \in Memos : intent'[m] = "completed" => intent[m] = "completed"
    BY DEF ExpireStaleIntents
  <2>2. QED
    BY <1>1, <2>1 DEF IInv, CompletedIsCredited, network
<1>3. \A s \in Retriers : \A e \in Deposits : BatchOK(s, e)'
  BY <1>1 DEF SingleRetrier, BatchOK, NoRow
<1>4. QED
  BY <1>1, <1>2, <1>3, LetGo

LEMMA GetPendingRetriesStep ==
  ASSUME IInv, SingleRetrier, TypeOK', NEW r \in Retriers, GetPendingRetries(r)
  PROVE  IInv'
<1>1. /\ Become(r, Idle) /\ UNCHANGED <<row, age>> /\ UNCHANGED network /\ intent' = intent
      /\ r \in Procs /\ job'[r] = Idle
  BY DEF GetPendingRetries, Procs, Become, IInv, TypeOK
<1>2. CompletedIsCredited'
  BY <1>1 DEF IInv, CompletedIsCredited, network
<1>3. \A s \in Retriers : \A e \in Deposits : BatchOK(s, e)'
  <2>1. SUFFICES ASSUME NEW e \in Deposits PROVE BatchOK(r, e)'
    BY DEF SingleRetrier
  <2>2. job'[r].dep # e
    BY <1>1, NullsAreNew DEF Idle
  <2>3. CASE batch' = batch /\ same' = same
    BY <1>1, <2>2, <2>3 DEF IInv, BatchOK
  <2>4. CASE /\ batch' = [batch EXCEPT ![r] = [f \in Deposits |->
                            IF RetryDue(f) THEN row[f] ELSE NoRow]]
             /\ same' = [same EXCEPT ![r] = {f \in Deposits : RetryDue(f)}]
    <3>1. batch'[r][e] = IF RetryDue(e) THEN row[e] ELSE NoRow
      BY <2>4 DEF IInv, TypeOK
    <3>2. e \in same'[r] => RetryDue(e)
      BY <2>4 DEF IInv, TypeOK
    <3>3. QED
      BY <1>1, <2>2, <3>1, <3>2 DEF BatchOK, RetryDue, NoRow
  <2>5. QED
    BY <2>3, <2>4 DEF GetPendingRetries
<1>4. QED
  BY <1>1, <1>2, <1>3, LetGo

LEMMA GiveUpStep ==
  ASSUME IInv, TypeOK', NEW w \in Workers, GiveUp(w)
  PROVE  IInv'
<1>1. /\ Become(w, Idle) /\ UNCHANGED <<row, age>> /\ UNCHANGED network /\ intent' = intent
      /\ batch' = batch /\ same' = same /\ w \in Procs
      /\ \A r \in Retriers : job'[r] = job[r]
  BY RolesAreDistinct DEF GiveUp, tables, Procs, Become, IInv, TypeOK
<1>2. CompletedIsCredited'
  BY <1>1 DEF IInv, CompletedIsCredited, network
<1>3. \A s \in Retriers : \A e \in Deposits : BatchOK(s, e)'
  BY <1>1 DEF IInv, BatchOK
<1>4. QED
  BY <1>1, <1>2, <1>3, LetGo

LEMMA InsertForwardStep ==
  ASSUME IInv, TypeOK', NEW d \in Deposits, InsertForward(d)
  PROVE  IInv'
<1>1. /\ row' = [row EXCEPT ![d] = NewRow] /\ row[d] = NoRow
      /\ age' = age /\ same' = same /\ intent' = intent /\ job' = job /\ batch' = batch
      /\ st' = st /\ own' = own /\ pays' = pays /\ view' = view
  BY DEF InsertForward, network
<1>2. /\ row'[d] = NewRow
      /\ \A e \in Deposits \ {d} : row'[e] = row[e]
  BY <1>1 DEF IInv, TypeOK
<1>3. row[d].status = "absent" /\ row[d].sub = NoTx /\ row[d].fwd = NoTx
  BY <1>1 DEF NoRow
<1>4. /\ NewRow.status = "pending" /\ NewRow.sub = NoTx /\ NewRow.fwd = NoTx
      /\ NewRow.sweep = FALSE
  BY DEF NewRow, NoRow
<1>5. RowOK(d)' /\ OnRecord(d)'
  <2>1. RowOK(d)'
    BY <1>2, <1>4, NullsAreNew DEF RowOK
  <2>2. OnRecord(d)'
    BY <1>1, <1>2, <1>3, <1>4 DEF IInv, OnRecord, InPlay
  <2>3. QED
    BY <2>1, <2>2
<1>6. \A e \in Deposits : RowOK(e)' /\ OnRecord(e)'
  BY <1>1, <1>2, <1>5 DEF IInv, RowOK, OnRecord, InPlay, NothingLive
<1>7. ASSUME NEW q \in Procs
      PROVE  JobOK(q)' /\ Knows(q)' /\ HolderOK(q)'
  <2>1. JobOK(q) /\ Knows(q) /\ HolderOK(q) /\ job'[q] = job[q] /\ job[q] \in Job
    BY <1>1 DEF IInv, TypeOK
  <2>2. Busy(q) => job[q].dep \in Deposits \ {d} /\ row'[job[q].dep] = row[job[q].dep]
    BY <1>2, <1>3, <2>1 DEF JobOK, HolderOK, Busy, BusyPhases, Job, Procs
  <2>3. JobOK(q)'
    BY <2>1, <2>2 DEF JobOK, Busy
  <2>4. Knows(q)'
    <3>1. CASE Busy(q)
      BY <1>1, <2>1, <2>2, <3>1 DEF Knows, NothingInPlay, NothingLive, InPlay
    <3>2. CASE ~Busy(q)
      BY <1>1, <2>1, <3>2 DEF Knows, Busy, BusyPhases, Phases
    <3>3. QED
      BY <3>1, <3>2
  <2>5. HolderOK(q)'
    BY <1>1, <2>1, <2>2 DEF HolderOK, Busy
  <2>6. QED
    BY <2>3, <2>4, <2>5
<1>8. ASSUME NEW r \in Retriers, NEW e \in Deposits
      PROVE  BatchOK(r, e)'
  <2>1. BatchOK(r, e) /\ BatchOK(r, d)
    BY DEF IInv
  <2>2. QED
    BY <1>1, <1>2, <1>3, <2>1 DEF BatchOK
<1>9. (\A t \in Tx : NetworkOK(t)') /\ CompletedIsCredited'
  BY <1>1 DEF IInv, NetworkOK, CompletedIsCredited
<1>10. QED
  BY <1>6, <1>7, <1>8, <1>9 DEF IInv

-----------------------------------------------------------------------------
(* The network, the clock and crashes.                                     *)

\* The network settles a transfer that was in play and never brings one back.
LEMMA NetworkStep ==
  ASSUME IInv, TypeOK',
         UNCHANGED <<row, age, same, intent, job, batch, own, pays>>,
         \A t \in Tx : /\ st[t] = "ok" => st'[t] = "ok"
                       /\ st'[t] \in {"live", "ok"} => st[t] \in {"live", "ok"}
                       /\ st'[t] = "live" => st[t] = "live"
                       /\ st'[t] = "new" <=> st[t] = "new",
         \A t \in Tx : NetworkOK(t)'
  PROVE  IInv'
<1>1. \A d \in Deposits : /\ NothingInPlay(d) => NothingInPlay(d)'
                          /\ NothingLive(d) => NothingLive(d)'
  BY DEF NothingInPlay, NothingLive, InPlay
<1>2. \A d \in Deposits : RowOK(d)'
  BY DEF IInv, RowOK
<1>3. \A d \in Deposits : OnRecord(d)'
  BY <1>1 DEF IInv, OnRecord, InPlay
<1>4. ASSUME NEW p \in Procs
      PROVE  JobOK(p)' /\ Knows(p)' /\ HolderOK(p)'
  <2>1. JobOK(p) /\ Knows(p) /\ HolderOK(p) /\ job[p] \in Job
    BY DEF IInv, TypeOK
  <2>2. JobOK(p)' /\ HolderOK(p)'
    BY <2>1 DEF JobOK, HolderOK, Busy
  <2>3. Knows(p)'
    <3>1. CASE job[p].dep \in Deposits
      BY <1>1, <2>1, <3>1 DEF Knows
    <3>2. CASE job[p].dep \notin Deposits
      <4>1. job[p].pc \in {"idle", "cancelled", "fetch"}
        BY <2>1, <3>2 DEF JobOK, Job
      <4>2. QED
        BY <4>1 DEF Knows
    <3>3. QED
      BY <3>1, <3>2
  <2>4. QED
    BY <2>2, <2>3
<1>5. \A r \in Retriers : \A d \in Deposits : BatchOK(r, d)'
  BY DEF IInv, BatchOK
<1>6. CompletedIsCredited'
  BY DEF IInv, CompletedIsCredited
<1>7. QED
  BY <1>2, <1>3, <1>4, <1>5, <1>6 DEF IInv

LEMMA LandOrExpireStep ==
  ASSUME IInv, TypeOK', NEW t \in Tx, Land(t) \/ Expire(t)
  PROVE  IInv'
<1>1. PICK s \in {"ok", "bad", "gone"} : st' = [st EXCEPT ![t] = s]
  BY DEF Land, Expire
<1>2. st[t] = "live" \/ (st[t] = "built" /\ s = "gone")
  <2>1. CASE Land(t)
    BY <2>1 DEF Land
  <2>2. CASE Expire(t)
    BY <1>1, <2>2 DEF Expire, IInv, TypeOK
  <2>3. QED
    BY <2>1, <2>2
<1>3. UNCHANGED <<row, age, same, intent, job, batch, own, pays>> /\ view' = view
  BY DEF Land, Expire, tables
<1>4. st'[t] = s /\ \A u \in Tx \ {t} : st'[u] = st[u]
  BY <1>1 DEF IInv, TypeOK
<1>5. \A u \in Tx : NetworkOK(u)'
  BY <1>2, <1>3, <1>4 DEF IInv, NetworkOK
<1>6. QED
  BY <1>2, <1>3, <1>4, <1>5, NetworkStep

LEMMA IngestOrPruneStep ==
  ASSUME IInv, TypeOK', NEW t \in Tx, Ingest(t) \/ Prune(t)
  PROVE  IInv'
<1>1. /\ UNCHANGED <<row, age, same, intent, job, batch, own, pays>> /\ st' = st
      /\ st[t] \in {"ok", "bad", "gone"}
  BY DEF Ingest, Prune, tables
<1>2. /\ \A u \in Tx \ {t} : view'[u] = view[u]
      /\ view'[t] \in {"shown", "closed", "pruned"}
      /\ view'[t] = "shown" => st[t] # "gone"
      /\ view'[t] = "closed" => st[t] = "gone"
  BY DEF Ingest, Prune, IInv, TypeOK
<1>3. \A u \in Tx : NetworkOK(u)'
  BY <1>1, <1>2 DEF IInv, NetworkOK
<1>4. QED
  BY <1>1, <1>3, NetworkStep

LEMMA TickStep ==
  ASSUME IInv, SingleRetrier, TypeOK', Tick
  PROVE  IInv'
<1>1. /\ row' = row /\ same' = same /\ intent' = intent /\ batch' = batch
      /\ st' = st /\ own' = own /\ pays' = pays /\ view' = view
      /\ job' = [p \in Procs |-> IF p \in Workers THEN Deadline(job[p]) ELSE job[p]]
      /\ age' = [d \in Deposits |->
               IF row[d].status = "pending" THEN Min2(age[d] + 1, RetryCutoff) ELSE age[d]]
  BY DEF Tick, network
<1>2. \A d \in Deposits : age[d] \in Nat /\ age'[d] \in Nat /\ age'[d] <= age[d] + 1
  <2>1. \A d \in Deposits : age[d] \in Nat
    BY DEF IInv, TypeOK
  <2>2. QED
    BY <1>1, <2>1, BoundsAreNaturals DEF Min2
<1>3. \A r \in Retriers : job'[r] = job[r]
  BY <1>1, RolesAreDistinct DEF Procs
<1>4. \A w \in Workers : job'[w] = Deadline(job[w])
  BY <1>1 DEF Procs
<1>5. ASSUME NEW w \in Workers
      PROVE  \/ job'[w] = job[w] /\ job[w].pc \in {"idle", "claimed", "cancelled"}
             \/ /\ job'[w] = [job[w] EXCEPT !.clock = @ + 1]
                /\ job[w].pc # "claimed" /\ job[w].clock + 1 < ForwardDeadline
             \/ job'[w] = [Idle EXCEPT !.pc = "cancelled"]
  BY <1>4 DEF Deadline
<1>6. ASSUME NEW p \in Procs
      PROVE  JobOK(p)' /\ Knows(p)' /\ HolderOK(p)'
  <2>1. JobOK(p) /\ Knows(p) /\ HolderOK(p) /\ job[p] \in Job
    BY DEF IInv, TypeOK
  <2>2. \A q \in Procs : Busy(q)' => Busy(q) /\ job'[q].dep = job[q].dep
    <3>1. ASSUME NEW q \in Procs, Busy(q)'
          PROVE  Busy(q) /\ job'[q].dep = job[q].dep
      <4>1. CASE q \in Retriers
        BY <1>3, <3>1, <4>1 DEF Busy
      <4>2. CASE q \in Workers
        <5>1. job[q] \in Job
          BY DEF IInv, TypeOK
        <5>2. QED
          BY <1>5, <3>1, <4>2, <5>1 DEF Busy, BusyPhases, Idle, Job
      <4>3. QED
        BY <4>1, <4>2 DEF Procs
    <3>2. QED
      BY <3>1
  <2>3. CASE job'[p] = [Idle EXCEPT !.pc = "cancelled"] /\ p \in Workers
    BY <2>3 DEF JobOK, Knows, HolderOK, Idle, NoRow, Busy, BusyPhases
  <2>4. CASE \/ job'[p] = job[p] /\ (p \in Workers => job[p].pc \in {"idle", "claimed", "cancelled"})
             \/ /\ job'[p] = [job[p] EXCEPT !.clock = @ + 1] /\ p \in Workers
                /\ job[p].pc # "claimed" /\ job[p].clock + 1 < ForwardDeadline
    <3>1. /\ job'[p].pc = job[p].pc /\ job'[p].dep = job[p].dep /\ job'[p].seen = job[p].seen
          /\ job'[p].sweep = job[p].sweep /\ job'[p].tx = job[p].tx /\ job'[p].out = job[p].out
      BY <2>1, <2>4 DEF Job
    <3>2. JobOK(p)'
      BY <1>1, <2>1, <3>1 DEF JobOK, Busy
    <3>3. Knows(p)'
      BY <1>1, <2>1, <3>1 DEF Knows, NothingInPlay, NothingLive, InPlay
    <3>4. HolderOK(p)'
      <4>1. SUFFICES ASSUME Busy(p) PROVE HolderOK(p)'
        BY <3>1 DEF HolderOK, Busy
      <4>2. job[p].dep \in Deposits
        BY <2>1, <4>1 DEF JobOK, Busy, BusyPhases, Job
      <4>3. p \in Workers =>
              /\ age'[job[p].dep] <= job'[p].clock + MaxReply
              /\ job'[p].clock < ForwardDeadline
              /\ job[p].pc = "claimed" => job'[p].clock = 0
        <5>1. CASE job[p].pc = "claimed" /\ p \in Workers
          <6>1. age[job[p].dep] < MaxReply /\ job'[p] = job[p] /\ job[p].clock = 0
            BY <2>1, <2>4, <4>1, <5>1 DEF Tick, HolderOK
          <6>2. QED
            BY <1>2, <4>2, <6>1, BoundsAreNaturals
        <5>2. CASE job[p].pc # "claimed" /\ p \in Workers
          <6>1. /\ job'[p].clock = job[p].clock + 1 /\ job[p].clock + 1 < ForwardDeadline
                /\ job[p].clock \in Nat
            BY <2>1, <2>4, <4>1, <5>2 DEF Busy, BusyPhases, Job
          <6>2. age[job[p].dep] <= job[p].clock + MaxReply
            BY <2>1, <4>1, <5>2 DEF HolderOK
          <6>3. QED
            BY <1>2, <4>2, <5>2, <6>1, <6>2, BoundsAreNaturals
        <5>3. QED
          BY <5>1, <5>2
      <4>4. \A q \in Procs : Busy(q)' /\ job'[q].dep = job[p].dep => q = p
        BY <2>1, <2>2, <4>1 DEF HolderOK
      <4>5. QED
        BY <1>1, <2>1, <3>1, <4>1, <4>3, <4>4 DEF HolderOK, Busy
    <3>5. QED
      BY <3>2, <3>3, <3>4
  <2>5. QED
    BY <1>3, <1>5, <2>3, <2>4, RolesAreDistinct DEF Procs
<1>7. ASSUME NEW r \in Retriers, NEW d \in Deposits
      PROVE  BatchOK(r, d)'
  <2>1. BatchOK(r, d)
    BY DEF IInv
  <2>2. age[d] >= RetryCutoff => age'[d] >= RetryCutoff
    BY <1>1, <1>2, BoundsAreNaturals DEF Min2
  <2>3. QED
    BY <1>1, <1>3, <2>1, <2>2 DEF BatchOK
<1>8. /\ \A t \in Tx : NetworkOK(t)'
      /\ \A d \in Deposits : RowOK(d)' /\ OnRecord(d)'
      /\ CompletedIsCredited'
  BY <1>1 DEF IInv, NetworkOK, RowOK, OnRecord, InPlay, NothingLive, CompletedIsCredited
<1>9. QED
  BY <1>6, <1>7, <1>8 DEF IInv

LEMMA CrashStep ==
  ASSUME IInv, TypeOK', Crash
  PROVE  IInv'
<1>1. /\ row' = row /\ age' = age /\ intent' = intent
      /\ st' = st /\ own' = own /\ pays' = pays /\ view' = view
      /\ job' = [p \in Procs |-> Idle]
      /\ batch' = [r \in Retriers |-> [d \in Deposits |-> NoRow]]
  BY DEF Crash, network
<1>2. \A p \in Procs : JobOK(p)' /\ Knows(p)' /\ HolderOK(p)'
  BY <1>1 DEF JobOK, Knows, HolderOK, Idle, NoRow, Busy, BusyPhases
<1>3. \A r \in Retriers : \A d \in Deposits : BatchOK(r, d)'
  BY <1>1 DEF BatchOK, NoRow
<1>4. /\ \A t \in Tx : NetworkOK(t)'
      /\ \A d \in Deposits : RowOK(d)' /\ OnRecord(d)'
      /\ CompletedIsCredited'
  BY <1>1 DEF IInv, NetworkOK, RowOK, OnRecord, InPlay, NothingLive, CompletedIsCredited
<1>5. QED
  BY <1>2, <1>3, <1>4 DEF IInv

-----------------------------------------------------------------------------
(* The theorems.                                                           *)

LEMMA InvariantInit ==
  ASSUME Init
  PROVE  IInv
<1>1. TypeOK
  BY ConstantRecords DEF Init, TypeOK
<1>2. \A t \in Tx : NetworkOK(t)
  BY DEF Init, NetworkOK
<1>3. NoRow.status = "absent" /\ NoRow.sub = NoTx /\ NoRow.fwd = NoTx
      /\ NoRow.sweep = FALSE /\ NoRow.fresh = FALSE
  BY DEF NoRow
<1>4. ASSUME NEW d \in Deposits
      PROVE  RowOK(d) /\ OnRecord(d)
  <2>1. row[d] = NoRow /\ \A t \in Tx : st[t] = "new"
    BY DEF Init
  <2>2. QED
    BY <1>3, <2>1, NullsAreNew DEF RowOK, OnRecord, InPlay
<1>5. ASSUME NEW p \in Procs
      PROVE  JobOK(p) /\ Knows(p) /\ HolderOK(p)
  <2>1. job[p] = Idle
    BY DEF Init
  <2>2. QED
    BY <2>1 DEF JobOK, Knows, HolderOK, Idle, NoRow, Busy, BusyPhases
<1>6. ASSUME NEW r \in Retriers, NEW d \in Deposits
      PROVE  BatchOK(r, d)
  <2>1. batch[r][d] = NoRow
    BY DEF Init
  <2>2. QED
    BY <1>3, <2>1 DEF BatchOK
<1>7. CompletedIsCredited
  BY DEF Init, CompletedIsCredited
<1>8. QED
  BY <1>1, <1>2, <1>4, <1>5, <1>6, <1>7 DEF IInv

LEMMA InvariantStep ==
  ASSUME IInv, SingleRetrier, ClaimAnswersInTime, Next
  PROVE  IInv'
<1>0. TypeOK'
  BY TypeStep DEF IInv
<1>1. ASSUME NEW p \in Procs, Pipeline(p)
      PROVE  IInv'
  <2>1. CASE Lookup(p)
    BY <1>0, <2>1, LookupStep
  <2>2. CASE MarkSweep(p)
    BY <1>0, <2>2, MarkSweepStep
  <2>3. CASE Build(p)
    BY <1>0, <2>3, BuildStep
  <2>4. CASE \E t \in Tx : RecordSubmission(p, t)
    BY <1>0, <2>4, RecordSubmissionStep
  <2>5. CASE SendAccepted(p)
    BY <1>0, <2>5, SendAcceptedStep
  <2>6. CASE SendUnknown(p)
    BY <1>0, <2>6, SendUnknownStep
  <2>7. CASE SendTryAgain(p)
    BY <1>0, <2>7, SendTryAgainStep
  <2>8. CASE SendRejected(p)
    BY <1>0, <2>8, SendRejectedStep
  <2>9. CASE PollResult(p)
    BY <1>0, <2>9, PollResultStep
  <2>10. CASE ForgetSubmission(p)
    BY <1>0, <2>10, ForgetSubmissionStep
  <2>11. CASE WriteOutcome(p)
    BY <1>0, <2>11, WriteOutcomeStep
  <2>12. CASE CloseIntent(p)
    BY <1>0, <2>12, CloseIntentStep
  <2>13. QED
    BY <1>1, <2>1, <2>2, <2>3, <2>4, <2>5, <2>6, <2>7, <2>8, <2>9, <2>10, <2>11, <2>12
    DEF Pipeline
<1>2. ASSUME NEW w \in Workers, Worker(w)
      PROVE  IInv'
  <2>1. CASE \E d \in Deposits : ClaimNewForward(w, d)
    BY <1>0, <2>1, ClaimNewForwardStep
  <2>2. CASE StartForward(w)
    BY <1>0, <2>2, StartForwardStep
  <2>3. CASE GiveUp(w)
    BY <1>0, <2>3, GiveUpStep
  <2>4. QED
    BY <1>2, <2>1, <2>2, <2>3 DEF Worker
<1>3. ASSUME NEW r \in Retriers, Retrier(r)
      PROVE  IInv'
  <2>1. CASE ExpireStaleIntents(r)
    BY <1>0, <2>1, ExpireStaleIntentsStep
  <2>2. CASE GetPendingRetries(r)
    BY <1>0, <2>2, GetPendingRetriesStep
  <2>3. CASE \E d \in Deposits : TakeRetry(r, d)
    BY <1>0, <2>3, TakeRetryStep
  <2>4. CASE \E d \in Deposits : ClaimPendingForward(r, d)
    BY <1>0, <2>4, ClaimPendingForwardStep
  <2>5. CASE ResolveWaits(r)
    BY <1>0, <2>5, ResolveWaitsStep
  <2>6. CASE ResolveSubmitted(r)
    BY <1>0, <2>6, ResolveSubmittedStep
  <2>7. QED
    BY <1>3, <2>1, <2>2, <2>3, <2>4, <2>5, <2>6 DEF Retrier
<1>4. ASSUME Environment
      PROVE  IInv'
  <2>1. CASE \E d \in Deposits : InsertForward(d)
    BY <1>0, <2>1, InsertForwardStep
  <2>2. CASE \E t \in Tx : Land(t) \/ Expire(t)
    BY <1>0, <2>2, LandOrExpireStep
  <2>3. CASE \E t \in Tx : Ingest(t) \/ Prune(t)
    BY <1>0, <2>3, IngestOrPruneStep
  <2>4. CASE Tick
    BY <1>0, <2>4, TickStep
  <2>5. CASE Crash
    BY <1>0, <2>5, CrashStep
  <2>6. QED
    BY <1>4, <2>1, <2>2, <2>3, <2>4, <2>5 DEF Environment
<1>5. QED
  BY <1>1, <1>2, <1>3, <1>4 DEF Next

\* The invariant holds of every behaviour with one retry worker whose claims
\* answer in time, for any sets of deposits, workers and transactions.
THEOREM InvariantHolds ==
  ASSUME SingleRetrier, ClaimAnswersInTime
  PROVE  Spec => []IInv
<1>1. Init => IInv
  BY InvariantInit
<1>2. IInv /\ [Next]_vars => IInv'
  <2> SUFFICES ASSUME IInv, [Next]_vars PROVE IInv'
    OBVIOUS
  <2>1. CASE Next
    BY <2>1, InvariantStep
  <2>2. CASE UNCHANGED vars
    <3>1. /\ row' = row /\ age' = age /\ same' = same /\ intent' = intent /\ queue' = queue
          /\ job' = job /\ batch' = batch
          /\ st' = st /\ own' = own /\ pays' = pays /\ view' = view /\ faults' = faults
      BY <2>2 DEF vars
    <3>2. TypeOK'
      BY <3>1 DEF IInv, TypeOK
    <3>3. \A t \in Tx : NetworkOK(t)'
      BY <3>1 DEF IInv, NetworkOK
    <3>4. QED
      BY <3>1, <3>2, <3>3, NetworkStep
  <2>3. QED
    BY <2>1, <2>2
<1>3. QED
  BY <1>1, <1>2, PTL DEF Spec

\* A deposit is paid out at most once, whatever fails on the way.
THEOREM PaidOnce ==
  ASSUME SingleRetrier, ClaimAnswersInTime
  PROVE  Spec => []PaidAtMostOnce
<1>1. IInv => PaidAtMostOnce
  <2> SUFFICES ASSUME IInv, NEW t \in Tx, NEW u \in Tx,
                      st[t] = "ok", st[u] = "ok", own[t] = own[u]
               PROVE  t = u
    BY DEF PaidAtMostOnce
  <2>1. PICK d \in Deposits : own[t] = d /\ own[u] = d
    BY DEF IInv, NetworkOK
  <2>2. t \in {row[d].sub, row[d].fwd} /\ u \in {row[d].sub, row[d].fwd}
    BY <2>1 DEF IInv, OnRecord, InPlay
  <2>3. row[d].sub = NoTx \/ row[d].fwd = NoTx
    BY DEF IInv, RowOK
  <2>4. QED
    BY <2>2, <2>3, NullsAreNew
<1>2. QED
  BY <1>1, InvariantHolds, PTL

\* A crash at any instant leaves a record of every transfer that can still land.
THEOREM OnRecordAlways ==
  ASSUME SingleRetrier, ClaimAnswersInTime
  PROVE  Spec => []TransfersAreOnRecord
<1>1. IInv => TransfersAreOnRecord
  BY DEF IInv, OnRecord, TransfersAreOnRecord
<1>2. QED
  BY <1>1, InvariantHolds, PTL

\* What the table says was paid out was, to whom the table says.
THEOREM BooksMatch ==
  ASSUME SingleRetrier, ClaimAnswersInTime
  PROVE  Spec => []BooksMatchTheLedger
<1>1. IInv => BooksMatchTheLedger
  <2> SUFFICES ASSUME IInv, NEW d \in Deposits, row[d].status \in {"done", "swept"}
               PROVE  /\ row[d].fwd \in Tx /\ st[row[d].fwd] = "ok" /\ own[row[d].fwd] = d
                      /\ pays[row[d].fwd] = IF row[d].status = "done" THEN "credit"
                                                                      ELSE "recovery"
    BY DEF BooksMatchTheLedger
  <2>1. /\ row[d].fwd \in Tx /\ st[row[d].fwd] = "ok" /\ own[row[d].fwd] = d
        /\ row[d].status = "done" <=> d \in Creditable
    BY DEF IInv, RowOK
  <2>2. pays[row[d].fwd] = "credit" <=> d \in Creditable
    BY <2>1 DEF IInv, NetworkOK
  <2>3. pays[row[d].fwd] \in {"credit", "recovery"}
    BY <2>1 DEF IInv, TypeOK
  <2>4. QED
    BY <2>1, <2>2, <2>3
<1>2. QED
  BY <1>1, InvariantHolds, PTL

\* Money goes to the intent's address or to recovery by what the deposit is,
\* never by which lookup failed on the way.
THEOREM DestinationIsRight ==
  ASSUME SingleRetrier, ClaimAnswersInTime
  PROVE  Spec => []RightDestination
<1>1. IInv => RightDestination
  <2> SUFFICES ASSUME IInv, NEW t \in Tx, NEW d \in Deposits, InPlay(d, t)
               PROVE  pays[t] = "credit" <=> d \in Creditable
    BY DEF RightDestination
  <2>1. own[t] = d /\ st[t] # "new" /\ NetworkOK(t)
    BY DEF InPlay, IInv
  <2>2. QED
    BY <2>1 DEF NetworkOK
<1>2. QED
  BY <1>1, InvariantHolds, PTL

\* A watcher worker and the retry worker never work the same deposit at once.
THEOREM HoldersAreAlone ==
  ASSUME SingleRetrier, ClaimAnswersInTime
  PROVE  Spec => []OneHolder
<1>1. IInv => OneHolder
  <2> SUFFICES ASSUME IInv, NEW d \in Deposits, NEW p \in Procs, NEW q \in Procs,
                      Holds(p, d), Holds(q, d)
               PROVE  p = q
    BY DEF OneHolder
  <2>1. ASSUME NEW o \in Procs, Holds(o, d)
        PROVE  Busy(o) /\ job[o].dep = d
    <3>1. JobOK(o) /\ job[o].pc \in Phases /\ d # NoDeposit
      BY NullsAreNew DEF IInv, TypeOK, Job
    <3>2. QED
      BY <2>1, <3>1 DEF Holds, JobOK, Busy, BusyPhases
  <2>2. HolderOK(p)
    BY DEF IInv
  <2>3. QED
    BY <2>1, <2>2 DEF HolderOK
<1>2. QED
  BY <1>1, InvariantHolds, PTL

\* A deposit closed as failed has nothing left on the network.
THEOREM FailedStaysOver ==
  ASSUME SingleRetrier, ClaimAnswersInTime
  PROVE  Spec => []FailedIsOver
<1>1. IInv => FailedIsOver
  BY DEF IInv, OnRecord, NothingLive, FailedIsOver
<1>2. QED
  BY <1>1, InvariantHolds, PTL

\* A completed intent was credited on-chain.
THEOREM CompletedWasCredited ==
  ASSUME SingleRetrier, ClaimAnswersInTime
  PROVE  Spec => []CompletedIsCredited
<1>1. IInv => CompletedIsCredited
  BY DEF IInv
<1>2. QED
  BY <1>1, InvariantHolds, PTL

\* A row is written by its holder, or as it is taken or inserted: never once it
\* is settled.
LEMMA SettledStep ==
  ASSUME IInv, Next, NEW d \in Deposits, row[d].status \in Settled
  PROVE  row'[d] = row[d]
<1>0. /\ \A p \in Procs : Busy(p) => job[p].dep # d
      /\ row \in [Deposits -> Row]
  BY DEF IInv, HolderOK, Procs, Settled, TypeOK
<1>1. ASSUME NEW p \in Procs, Pipeline(p)
      PROVE  row'[d] = row[d]
  <2>1. CASE /\ At(p, "mark") \/ At(p, "record") \/ At(p, "forget") \/ At(p, "write")
             /\ \E r : \E eff \in BOOLEAN : Update(job[p].dep, r, eff)
    <3>1. Busy(p)
      BY <2>1 DEF At, Busy, BusyPhases, Phases
    <3>2. QED
      BY <1>0, <2>1, <3>1 DEF Update, tables
  <2>2. CASE row' = row
    BY <2>2
  <2>3. CASE MarkSweep(p)
    BY <2>1, <2>3 DEF MarkSweep
  <2>4. CASE \E t \in Tx : RecordSubmission(p, t)
    <3>1. PICK t \in Tx : RecordSubmission(p, t)
      BY <2>4
    <3>2. PICK eff \in BOOLEAN :
            Update(job[p].dep, [row[job[p].dep] EXCEPT !.sub = t],
                   eff /\ ~SubmissionClaimed(job[p].dep, t))
      BY <3>1 DEF RecordSubmission
    <3>3. At(p, "record")
      BY <3>1 DEF RecordSubmission
    <3>4. QED
      BY <2>1, <3>2, <3>3
  <2>5. CASE ForgetSubmission(p)
    BY <2>1, <2>5 DEF ForgetSubmission
  <2>6. CASE WriteOutcome(p)
    BY <2>1, <2>6 DEF WriteOutcome
  <2>7. CASE \/ Lookup(p) \/ Build(p) \/ SendAccepted(p) \/ SendUnknown(p)
             \/ SendTryAgain(p) \/ SendRejected(p) \/ PollResult(p) \/ CloseIntent(p)
    BY <2>2, <2>7 DEF Lookup, Build, SendAccepted, SendUnknown, SendTryAgain, SendRejected,
                      PollResult, CloseIntent, tables
  <2>8. QED
    BY <1>1, <2>3, <2>4, <2>5, <2>6, <2>7 DEF Pipeline
<1>2. ASSUME NEW w \in Workers, Worker(w)
      PROVE  row'[d] = row[d]
  <2>1. CASE \E e \in Deposits : ClaimNewForward(w, e)
    <3>1. PICK e \in Deposits, eff \in BOOLEAN : Update(e, row[e], eff /\ Untouched(e))
      BY <2>1 DEF ClaimNewForward
    <3>2. QED
      BY <1>0, <3>1 DEF Update, tables, Untouched, Settled
  <2>2. CASE StartForward(w) \/ GiveUp(w)
    BY <2>2 DEF StartForward, GiveUp, tables
  <2>3. QED
    BY <1>2, <2>1, <2>2 DEF Worker
<1>3. ASSUME NEW r \in Retriers, Retrier(r)
      PROVE  row'[d] = row[d]
  <2>1. CASE \E e \in Deposits : ClaimPendingForward(r, e)
    <3>1. PICK e \in Deposits : ClaimPendingForward(r, e)
      BY <2>1
    <3>2. \/ row' = row
          \/ row[e].status = "pending" /\ Update(e, row[e], TRUE)
      BY <3>1 DEF ClaimPendingForward
    <3>3. QED
      BY <1>0, <3>2 DEF Update, Settled
  <2>2. CASE \/ ExpireStaleIntents(r) \/ GetPendingRetries(r) \/ ResolveWaits(r)
             \/ ResolveSubmitted(r) \/ \E e \in Deposits : TakeRetry(r, e)
    BY <2>2 DEF ExpireStaleIntents, GetPendingRetries, ResolveWaits, ResolveSubmitted,
                TakeRetry, tables
  <2>3. QED
    BY <1>3, <2>1, <2>2 DEF Retrier
<1>4. ASSUME Environment
      PROVE  row'[d] = row[d]
  <2>1. CASE \E e \in Deposits : InsertForward(e)
    BY <1>0, <2>1 DEF InsertForward, NoRow, Settled
  <2>2. CASE \/ \E t \in Tx : Land(t) \/ Expire(t) \/ Ingest(t) \/ Prune(t)
             \/ Tick \/ Crash
    BY <2>2 DEF Land, Expire, Ingest, Prune, Tick, Crash, tables
  <2>3. QED
    BY <1>4, <2>1, <2>2 DEF Environment
<1>5. QED
  BY <1>1, <1>2, <1>3, <1>4 DEF Next

\* A settled row is never written again.
THEOREM SettledForGood ==
  ASSUME SingleRetrier, ClaimAnswersInTime
  PROVE  Spec => SettledIsFinal
<1>1. IInv /\ [Next]_vars => [\A d \in Deposits : row[d].status \in Settled => row'[d] = row[d]]_vars
  BY SettledStep DEF vars
<1>2. QED
  BY <1>1, InvariantHolds, PTL DEF Spec, SettledIsFinal

\* Two rows never name the same transfer: a hash on record belongs to the deposit
\* it was recorded for, so no deposit can settle on another one's payment.
THEOREM TransfersAreDistinct ==
  ASSUME SingleRetrier, ClaimAnswersInTime
  PROVE  Spec => []OneTransferOneDeposit
<1>1. IInv => OneTransferOneDeposit
  <2> SUFFICES ASSUME IInv, NEW d \in Deposits, NEW e \in Deposits, d # e,
                      NEW t, t \in {row[d].sub, row[d].fwd}, t \in {row[e].sub, row[e].fwd},
                      t # NoTx
               PROVE  FALSE
    BY DEF OneTransferOneDeposit
  <2>1. ASSUME NEW f \in Deposits, t \in {row[f].sub, row[f].fwd}
        PROVE  own[t] = f
    <3>1. RowOK(f) /\ row[f].sub \in Tx \cup {NoTx} /\ row[f].fwd \in Tx \cup {NoTx}
      BY DEF IInv, TypeOK, Row
    <3>2. QED
      BY <2>1, <3>1 DEF RowOK
  <2>2. own[t] = d /\ own[t] = e
    BY <2>1
  <2>3. QED
    BY <2>2
<1>2. QED
  BY <1>1, InvariantHolds, PTL

-----------------------------------------------------------------------------
(* The implementation of DepositLedger.                                    *)

\* A step that changes no row's standing, and neither lands a transfer nor
\* rewrites one that landed, leaves the ledger as it is.
LEMMA LedgerKept ==
  ASSUME \A d \in Deposits : BookOf(row'[d].status) = BookOf(row[d].status),
         \A t \in Tx : st'[t] = "ok" <=> st[t] = "ok",
         \A t \in Tx : st[t] = "ok" => own'[t] = own[t] /\ pays'[t] = pays[t]
  PROVE  UNCHANGED Ledger!vars
<1>1. [d \in Deposits |-> BookOf(row'[d].status)] = [d \in Deposits |-> BookOf(row[d].status)]
  OBVIOUS
<1>2. ASSUME NEW d \in Deposits
      PROVE  {<<t, pays'[t]>> : t \in {u \in Tx : own'[u] = d /\ st'[u] = "ok"}}
               = {<<t, pays[t]>> : t \in {u \in Tx : own[u] = d /\ st[u] = "ok"}}
  <2>1. {u \in Tx : own'[u] = d /\ st'[u] = "ok"} = {u \in Tx : own[u] = d /\ st[u] = "ok"}
    OBVIOUS
  <2>2. \A t \in {u \in Tx : own[u] = d /\ st[u] = "ok"} : pays'[t] = pays[t]
    OBVIOUS
  <2>3. QED
    BY <2>1, <2>2
<1>3. [d \in Deposits |->
         {<<t, pays'[t]>> : t \in {u \in Tx : own'[u] = d /\ st'[u] = "ok"}}]
        = [d \in Deposits |->
             {<<t, pays[t]>> : t \in {u \in Tx : own[u] = d /\ st[u] = "ok"}}]
  BY <1>2
<1>4. QED
  BY <1>1, <1>3 DEF Ledger!vars

\* An UPDATE that leaves a row's status alone changes no row's status.
LEMMA StatusKept ==
  ASSUME IInv, NEW d \in Deposits, NEW r \in Row, NEW eff \in BOOLEAN, Update(d, r, eff),
         r.status = row[d].status
  PROVE  \A e \in Deposits : row'[e].status = row[e].status
<1>1. row \in [Deposits -> Row]
  BY DEF IInv, TypeOK
<1>2. CASE eff
  <2>1. row' = [row EXCEPT ![d] = [r EXCEPT !.fresh = FALSE]]
    BY <1>2 DEF Update
  <2>2. [r EXCEPT !.fresh = FALSE].status = r.status
    BY DEF Row
  <2>3. QED
    BY <1>1, <2>1, <2>2
<1>3. CASE ~eff
  BY <1>3 DEF Update, tables
<1>4. QED
  BY <1>2, <1>3

\* A landing that succeeds is the one payment of an open deposit.
LEMMA LandPays ==
  ASSUME IInv, NEW t \in Tx, Land(t)
  PROVE  Ledger!Next \/ UNCHANGED Ledger!vars
<1>0. st \in [Tx -> {"new", "built", "live", "ok", "bad", "gone"}] /\ st[t] = "live"
  BY DEF IInv, TypeOK, Land
<1>1. row' = row /\ own' = own /\ pays' = pays
  BY DEF Land, tables
<1>2. CASE st' = [st EXCEPT ![t] = "bad"]
  <2>1. /\ \A u \in Tx : st'[u] = "ok" <=> st[u] = "ok"
        /\ \A u \in Tx : st[u] = "ok" => own'[u] = own[u] /\ pays'[u] = pays[u]
        /\ \A d \in Deposits : BookOf(row'[d].status) = BookOf(row[d].status)
    BY <1>0, <1>1, <1>2
  <2>2. QED
    BY <2>1, LedgerKept
<1>3. CASE st' = [st EXCEPT ![t] = "ok"]
  <2>1. PICK d \in Deposits : d = own[t]
    BY <1>0 DEF IInv, NetworkOK
  <2>2. t \in {row[d].sub, row[d].fwd} /\ RowOK(d) /\ row[d] \in Row
    BY <1>0, <2>1 DEF IInv, OnRecord, InPlay, TypeOK
  <2>3. row[d].status \in {"pending", "pending_retry"} /\ row[d].fwd = NoTx /\ row[d].sub = t
    <3>1. row[d].status # "failed"
      BY <1>0, <2>1 DEF IInv, OnRecord, NothingLive
    <3>2. row[d].status # "absent"
      BY <2>2, NullsAreNew DEF RowOK, NoRow
    <3>3. row[d].status \notin {"done", "swept"}
      BY <1>0, <2>2, NullsAreNew DEF RowOK
    <3>4. row[d].fwd = NoTx
      BY <2>2, <3>3 DEF RowOK
    <3>5. QED
      BY <2>2, <3>1, <3>2, <3>3, <3>4, NullsAreNew DEF Row, Settled
  <2>4. BookOf(row[d].status) = "open"
    BY <2>3 DEF BookOf
  <2>5. {u \in Tx : own[u] = d /\ st[u] = "ok"} = {}
    <3>1. \A u \in Tx : InPlay(d, u) => u = t
      BY <2>3, NullsAreNew DEF IInv, OnRecord
    <3>2. QED
      BY <1>0, <3>1 DEF InPlay
  <2>6. {u \in Tx : own'[u] = d /\ st'[u] = "ok"} = {t}
    BY <1>0, <1>1, <1>3, <2>1, <2>5
  <2>7. pays[t] = IF d \in Creditable THEN "credit" ELSE "recovery"
    BY <1>0, <2>1 DEF IInv, NetworkOK, TypeOK
  <2>8. ASSUME NEW e \in Deposits \ {d}
        PROVE  {u \in Tx : own'[u] = e /\ st'[u] = "ok"}
                 = {u \in Tx : own[u] = e /\ st[u] = "ok"}
    BY <1>0, <1>1, <1>3, <2>1
  <2>9. Ledger!Pay(d, t)
    <3> DEFINE P  == [e \in Deposits |->
                        {<<u, pays[u]>> : u \in {v \in Tx : own[v] = e /\ st[v] = "ok"}}]
               P1 == [e \in Deposits |->
                        {<<u, pays'[u]>> : u \in {v \in Tx : own'[v] = e /\ st'[v] = "ok"}}]
    <3>1. P[d] = {}
      BY <2>5
    <3>2. P1[d] = {<<t, Ledger!Owed(d)>>}
      BY <1>1, <2>6, <2>7 DEF Ledger!Owed
    <3>3. \A e \in Deposits \ {d} : P1[e] = P[e]
      BY <1>1, <2>8
    <3>4. P1 = [P EXCEPT ![d] = {<<t, Ledger!Owed(d)>>}]
      BY <3>2, <3>3
    <3>5. QED
      BY <1>1, <2>4, <3>1, <3>4 DEF Ledger!Pay
  <2>10. QED
    BY <2>9 DEF Ledger!Next
<1>4. QED
  BY <1>2, <1>3 DEF Land

\* A write of an outcome closes the row of a paid deposit as paid, closes an open
\* row as failed, or leaves it open.
LEMMA WriteSettles ==
  ASSUME IInv, NEW p \in Procs, WriteOutcome(p)
  PROVE  Ledger!Next \/ UNCHANGED Ledger!vars
<1>0. PICK d : d = job[p].dep
  OBVIOUS
<1>1. Busy(p) /\ job[p].pc = "write"
  BY DEF WriteOutcome, At, Busy, BusyPhases, Phases
<1>2. /\ d \in Deposits /\ job[p] \in Job /\ row[d] \in Row
      /\ row[d].status \in {"pending", "pending_retry"}
      /\ JobOK(p) /\ Knows(p) /\ RowOK(d)
  BY <1>0, <1>1, HolderFacts
<1>3. /\ job[p].out \in {"ok", "unconfirmed", "contention", "transient", "permanent",
                         "error", "ceiling", "lost"}
      /\ job[p].out = "ok" =>
           /\ job[p].tx \in Tx /\ st[job[p].tx] = "ok" /\ own[job[p].tx] = d
           /\ job[p].sweep <=> d \notin Creditable
  BY <1>0, <1>1, <1>2 DEF Knows, JobOK, RowOK
<1>4. PICK r : r = Outcome(p, row[d])
  OBVIOUS
<1>5. r \in Row
  BY <1>2, <1>4, OutcomeType DEF IInv, TypeOK
<1>6. /\ job[p].out = "ok" => r.status = IF job[p].sweep THEN "swept" ELSE "done"
      /\ job[p].out \in {"unconfirmed", "contention", "transient", "error"} =>
           r.status = "pending_retry"
      /\ job[p].out \in {"permanent", "ceiling", "lost"} => r.status = "failed"
  BY <1>2, <1>3, <1>4, OutcomeFacts
<1>7. PICK eff \in BOOLEAN : Update(d, r, eff)
  BY <1>0, <1>4 DEF WriteOutcome
<1>8. st' = st /\ own' = own /\ pays' = pays
  BY DEF WriteOutcome, network
<1>9. BookOf(row[d].status) = "open"
  BY <1>2 DEF BookOf
<1>10. CASE eff
  <2>1. /\ row'[d].status = r.status
        /\ \A e \in Deposits \ {d} : row'[e] = row[e]
    <3>1. row' = [row EXCEPT ![d] = [r EXCEPT !.fresh = FALSE]]
      BY <1>7, <1>10 DEF Update
    <3>2. [r EXCEPT !.fresh = FALSE].status = r.status
      BY <1>5 DEF Row
    <3>3. QED
      BY <1>2, <3>1, <3>2 DEF IInv, TypeOK
  <2>2. PICK b : b = BookOf(r.status)
    OBVIOUS
  <2>3. [e \in Deposits |-> BookOf(row'[e].status)]
          = [[e \in Deposits |-> BookOf(row[e].status)] EXCEPT ![d] = b]
    BY <1>2, <2>1, <2>2
  <2>4. CASE job[p].out = "ok"
    <3>1. b = IF d \in Creditable THEN "credited" ELSE "returned"
      BY <1>3, <1>6, <2>2, <2>4 DEF BookOf
    <3>2. {<<t, pays[t]>> : t \in {u \in Tx : own[u] = d /\ st[u] = "ok"}} # {}
      BY <1>3, <2>4
    <3>3. Ledger!Settle(d)
      BY <1>2, <1>8, <1>9, <2>3, <3>1, <3>2 DEF Ledger!Settle
    <3>4. QED
      BY <1>2, <3>3 DEF Ledger!Next
  <2>5. CASE job[p].out \in {"permanent", "ceiling", "lost"}
    <3>1. b = "failed"
      BY <1>6, <2>2, <2>5 DEF BookOf
    <3>2. Ledger!Abandon(d)
      BY <1>2, <1>8, <1>9, <2>3, <3>1 DEF Ledger!Abandon
    <3>3. QED
      BY <1>2, <3>2 DEF Ledger!Next
  <2>6. CASE job[p].out \in {"unconfirmed", "contention", "transient", "error"}
    <3>1. BookOf(r.status) = "open"
      BY <1>6, <2>6 DEF BookOf
    <3>2. \A e \in Deposits : BookOf(row'[e].status) = BookOf(row[e].status)
      BY <1>9, <2>1, <3>1
    <3>3. QED
      BY <1>8, <3>2, LedgerKept
  <2>7. QED
    BY <1>3, <2>4, <2>5, <2>6
<1>11. CASE ~eff
  <2>1. row' = row
    BY <1>7, <1>11 DEF Update, tables
  <2>2. QED
    BY <1>8, <2>1, LedgerKept
<1>12. QED
  BY <1>10, <1>11

\* Recording a transfer reuses only a hash that never landed.
LEMMA RecordingKeepsLedger ==
  ASSUME IInv, NEW p \in Procs, NEW t \in Tx, RecordSubmission(p, t)
  PROVE  UNCHANGED Ledger!vars
<1>0. PICK d : d = job[p].dep
  OBVIOUS
<1>1. Busy(p)
  BY DEF RecordSubmission, At, Busy, BusyPhases, Phases
<1>2. d \in Deposits /\ row[d] \in Row
  BY <1>0, <1>1, HolderFacts
<1>3. PICK r : r = [row[d] EXCEPT !.sub = t]
  OBVIOUS
<1>4. r \in Row /\ r.status = row[d].status
  BY <1>2, <1>3 DEF Row
<1>5. PICK eff \in BOOLEAN :
        /\ Update(d, r, eff /\ ~SubmissionClaimed(d, t))
        /\ IF eff /\ Unused(d, t)
           THEN /\ st' = [st EXCEPT ![t] = "built"]
                /\ own' = [own EXCEPT ![t] = d]
                /\ pays' = [pays EXCEPT ![t] = Destination(p)]
                /\ view' = [view EXCEPT ![t] = "unseen"]
           ELSE UNCHANGED network
  BY <1>0, <1>3 DEF RecordSubmission
<1>6. PICK e \in BOOLEAN : e = (eff /\ ~SubmissionClaimed(d, t))
  BY Zenon
<1>7. \A f \in Deposits : row'[f].status = row[f].status
  BY <1>2, <1>4, <1>5, <1>6, StatusKept
<1>8. /\ \A u \in Tx : st'[u] = "ok" <=> st[u] = "ok"
      /\ \A u \in Tx : st[u] = "ok" => own'[u] = own[u] /\ pays'[u] = pays[u]
  <2>1. CASE eff /\ Unused(d, t)
    <3>1. st[t] # "ok"
      BY <2>1 DEF Unused
    <3>2. QED
      BY <1>5, <2>1, <3>1 DEF IInv, TypeOK
  <2>2. CASE ~(eff /\ Unused(d, t))
    BY <1>5, <2>2 DEF network
  <2>3. QED
    BY <2>1, <2>2
<1>9. QED
  BY <1>7, <1>8, LedgerKept

\* Every step of the forwarder, the store and the network is a step of the ledger
\* or leaves it as it is.
LEMMA LedgerStep ==
  ASSUME IInv, Next
  PROVE  Ledger!Next \/ UNCHANGED Ledger!vars
<1>0. /\ row \in [Deposits -> Row]
      /\ st \in [Tx -> {"new", "built", "live", "ok", "bad", "gone"}]
  BY DEF IInv, TypeOK
<1>1. CASE /\ \A d \in Deposits : row'[d].status = row[d].status
           /\ UNCHANGED network
  BY <1>1, LedgerKept DEF network
<1>2. CASE UNCHANGED <<row, network>>
  BY <1>1, <1>2
<1>3. CASE /\ UNCHANGED <<row, own, pays>>
           /\ \A t \in Tx : st'[t] = "ok" <=> st[t] = "ok"
  BY <1>3, LedgerKept
<1>4. ASSUME NEW p \in Procs, Pipeline(p)
      PROVE  Ledger!Next \/ UNCHANGED Ledger!vars
  <2>1. CASE MarkSweep(p) \/ ForgetSubmission(p)
    <3>1. PICK d : d = job[p].dep
      OBVIOUS
    <3>2. Busy(p)
      BY <2>1 DEF MarkSweep, ForgetSubmission, At, Busy, BusyPhases, Phases
    <3>3. d \in Deposits /\ row[d] \in Row
      BY <3>1, <3>2, HolderFacts
    <3>4. PICK r \in {[row[d] EXCEPT !.sweep = TRUE], [row[d] EXCEPT !.sub = NoTx]},
               eff \in BOOLEAN : Update(d, r, eff)
      BY <2>1, <3>1 DEF MarkSweep, ForgetSubmission
    <3>5. r \in Row /\ r.status = row[d].status
      BY <3>3, <3>4 DEF Row
    <3>6. UNCHANGED network
      BY <2>1 DEF MarkSweep, ForgetSubmission
    <3>7. QED
      BY <1>1, <3>3, <3>4, <3>5, <3>6, StatusKept
  <2>2. CASE \E t \in Tx : RecordSubmission(p, t)
    BY <2>2, RecordingKeepsLedger
  <2>3. CASE WriteOutcome(p)
    BY <2>3, WriteSettles
  <2>4. CASE SendAccepted(p) \/ SendUnknown(p)
    <3>1. UNCHANGED <<row, own, pays>>
      BY <2>4 DEF SendAccepted, SendUnknown, tables
    <3>2. PICK t : \/ st' = st
                   \/ st[t] = "built" /\ st' = [st EXCEPT ![t] = "live"]
      <4>1. CASE SendAccepted(p)
        <5>1. PICK t : t = job[p].tx
          OBVIOUS
        <5>2. st' = [st EXCEPT ![t] = IF @ = "built" THEN "live" ELSE @]
          BY <4>1, <5>1 DEF SendAccepted
        <5>3. CASE st[t] = "built"
          BY <5>2, <5>3
        <5>4. CASE st[t] # "built"
          BY <1>0, <5>2, <5>4
        <5>5. QED
          BY <5>3, <5>4
      <4>2. CASE SendUnknown(p)
        BY <4>2 DEF SendUnknown
      <4>3. QED
        BY <2>4, <4>1, <4>2
    <3>3. \A u \in Tx : st'[u] = "ok" <=> st[u] = "ok"
      BY <1>0, <3>2
    <3>4. QED
      BY <1>3, <3>1, <3>3
  <2>5. CASE \/ Lookup(p) \/ Build(p) \/ SendTryAgain(p) \/ SendRejected(p)
             \/ PollResult(p) \/ CloseIntent(p)
    BY <1>2, <2>5 DEF Lookup, Build, SendTryAgain, SendRejected, PollResult, CloseIntent, tables
  <2>6. QED
    BY <1>4, <2>1, <2>2, <2>3, <2>4, <2>5 DEF Pipeline
<1>5. ASSUME NEW w \in Workers, Worker(w)
      PROVE  Ledger!Next \/ UNCHANGED Ledger!vars
  <2>1. CASE \E d \in Deposits : ClaimNewForward(w, d)
    <3>1. PICK d \in Deposits, eff \in BOOLEAN : Update(d, row[d], eff /\ Untouched(d))
      BY <2>1 DEF ClaimNewForward
    <3>2. PICK e \in BOOLEAN : e = (eff /\ Untouched(d))
      BY Zenon
    <3>3. \A f \in Deposits : row'[f].status = row[f].status
      BY <1>0, <3>1, <3>2, StatusKept
    <3>4. UNCHANGED network
      BY <2>1 DEF ClaimNewForward
    <3>5. QED
      BY <1>1, <3>3, <3>4
  <2>2. CASE StartForward(w) \/ GiveUp(w)
    BY <1>2, <2>2 DEF StartForward, GiveUp, tables
  <2>3. QED
    BY <1>5, <2>1, <2>2 DEF Worker
<1>6. ASSUME NEW r \in Retriers, Retrier(r)
      PROVE  Ledger!Next \/ UNCHANGED Ledger!vars
  <2>1. CASE \E d \in Deposits : ClaimPendingForward(r, d)
    <3>1. PICK d \in Deposits : ClaimPendingForward(r, d)
      BY <2>1
    <3>2. row' = row \/ Update(d, row[d], TRUE)
      BY <3>1 DEF ClaimPendingForward
    <3>3. \A f \in Deposits : row'[f].status = row[f].status
      BY <1>0, <3>2, StatusKept
    <3>4. UNCHANGED network
      BY <3>1 DEF ClaimPendingForward
    <3>5. QED
      BY <1>1, <3>3, <3>4
  <2>2. CASE \/ ExpireStaleIntents(r) \/ GetPendingRetries(r) \/ ResolveWaits(r)
             \/ ResolveSubmitted(r) \/ \E d \in Deposits : TakeRetry(r, d)
    BY <1>2, <2>2 DEF ExpireStaleIntents, GetPendingRetries, ResolveWaits,
                      ResolveSubmitted, TakeRetry, tables
  <2>3. QED
    BY <1>6, <2>1, <2>2 DEF Retrier
<1>7. ASSUME Environment
      PROVE  Ledger!Next \/ UNCHANGED Ledger!vars
  <2>1. CASE \E d \in Deposits : InsertForward(d)
    <3>1. PICK d \in Deposits : InsertForward(d)
      BY <2>1
    <3>2. row[d] = NoRow /\ row' = [row EXCEPT ![d] = NewRow] /\ UNCHANGED network
      BY <3>1 DEF InsertForward
    <3>3. BookOf(row[d].status) = "unrecorded" /\ BookOf(row'[d].status) = "open"
      BY <1>0, <3>2 DEF NoRow, NewRow, BookOf
    <3>4. [e \in Deposits |-> BookOf(row'[e].status)]
            = [[e \in Deposits |-> BookOf(row[e].status)] EXCEPT ![d] = "open"]
      BY <1>0, <3>2, <3>3
    <3>5. Ledger!Record(d)
      BY <3>2, <3>3, <3>4 DEF Ledger!Record, network
    <3>6. QED
      BY <3>5 DEF Ledger!Next
  <2>2. CASE \E t \in Tx : Land(t)
    BY <2>2, LandPays
  <2>3. CASE \E t \in Tx : Expire(t)
    <3>1. PICK t \in Tx : Expire(t)
      BY <2>3
    <3>2. /\ st[t] # "ok" /\ st' = [st EXCEPT ![t] = "gone"]
          /\ UNCHANGED <<row, own, pays>>
      BY <3>1 DEF Expire, tables
    <3>3. \A u \in Tx : st'[u] = "ok" <=> st[u] = "ok"
      BY <1>0, <3>2
    <3>4. QED
      BY <1>3, <3>2, <3>3
  <2>4. CASE \E t \in Tx : Ingest(t) \/ Prune(t)
    BY <1>3, <2>4 DEF Ingest, Prune, tables
  <2>5. CASE Tick \/ Crash
    BY <1>2, <2>5 DEF Tick, Crash
  <2>6. QED
    BY <1>7, <2>1, <2>2, <2>3, <2>4, <2>5 DEF Environment
<1>8. QED
  BY <1>4, <1>5, <1>6, <1>7 DEF Next

\* The tables and the network together implement DepositLedger: a recorded
\* deposit is paid once, where it is owed, while its row is open, and its row is
\* closed as credited or returned only after that.
THEOREM LedgerIsImplemented ==
  ASSUME SingleRetrier, ClaimAnswersInTime
  PROVE  Spec => ImplementsLedger
<1>1. Init => Ledger!Init
  <2> SUFFICES ASSUME Init PROVE Ledger!Init
    OBVIOUS
  <2>1. [d \in Deposits |-> BookOf(row[d].status)] = [d \in Deposits |-> "unrecorded"]
    BY DEF Init, NoRow, BookOf
  <2>2. [d \in Deposits |->
           {<<t, pays[t]>> : t \in {u \in Tx : own[u] = d /\ st[u] = "ok"}}]
          = [d \in Deposits |-> {}]
    BY DEF Init
  <2>3. QED
    BY <2>1, <2>2 DEF Ledger!Init
<1>2. IInv /\ [Next]_vars => [Ledger!Next]_(Ledger!vars)
  <2> SUFFICES ASSUME IInv, [Next]_vars PROVE [Ledger!Next]_(Ledger!vars)
    OBVIOUS
  <2>1. CASE Next
    BY <2>1, LedgerStep
  <2>2. CASE UNCHANGED vars
    BY <2>2, LedgerKept DEF vars
  <2>3. QED
    BY <2>1, <2>2
<1>3. QED
  BY <1>1, <1>2, InvariantHolds, PTL DEF Spec, ImplementsLedger, Ledger!Spec
=============================================================================
