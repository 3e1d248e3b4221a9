---- MODULE RunCoordinatorProofs ----
(* Proofs about the runs of a session, for every set of runs, instances
   and calls, with or without overlapping instances, whatever crashes and
   whichever journal transactions fail.

   JournalSafe is about the session journal alone, for every set of runs,
   owners and calls, and for callers that act in any order.
   TerminalIsLast is not inductive: a fenced append is harmless only
   because the leased run is open, and that holds only because the lease
   is deleted in the transaction of the terminal.  TokensNeverGoBack needs
   that no event carries a token newer than the lease.  JournalInv adds
   both, and that the lease table has at most one row.

   But JournalSafe speaks of callers that respect JournalNext.  That
   the coordinators do is not visible from their guards: between the check
   of a start and its begin_run, or between the two transactions of a
   rejected input, other instances act.  ClaimInv records what each
   instance has claimed meanwhile (an identifier without events, the
   record of a rejected input, started runs to recover, the event of a
   shielded write) and that nobody else touches it.

   Next, LeasesHold is not inductive: what an instance that streams has
   to fear is itself, a thread or a cancel() of its earlier runs that
   still has credentials to present.  LeaseInv says that those are older
   than its lease, that a shielded write belongs to the task that waits
   for it, and for every lease of a serving instance who is going to give
   it back.

   Last, OneOpenRun needs, beyond that, what the instance that serves the
   session knows of the open runs: OpenInv. *)
EXTENDS RunCoordinator, TLAPS

OneRow == \A k, l \in lease : k = l

TokensBelowNext == \A n \in DOMAIN events : events[n].token < nextToken

JournalInv ==
    /\ JournalTypeOK
    /\ OneRow
    /\ LeaseIsCurrent
    /\ TokensBelowNext
    /\ TerminalIsLast
    /\ TokensNeverGoBack

EventRecord == [run : Runs, kind : Kinds, info : Infos, token : Nat]

\* What appending one event does to the table: the index of the new event, and
\* the events that stay where they are.
LEMMA AppendFacts ==
    ASSUME events \in Seq(EventRecord), NEW e \in EventRecord,
           events' = Append(events, e)
    PROVE  /\ events' \in Seq(EventRecord)
           /\ Len(events') = Len(events) + 1
           /\ Len(events) \in Nat
           /\ DOMAIN events = 1..Len(events)
           /\ DOMAIN events' = 1..(Len(events) + 1)
           /\ \A n \in 1..Len(events) : events'[n] = events[n]
           /\ events'[Len(events) + 1] = e OBVIOUS

\* Every row of the table is an event.
LEMMA RowIsEvent ==
    ASSUME events \in Seq(EventRecord)
    PROVE  /\ DOMAIN events = 1..Len(events)
           /\ \A n \in DOMAIN events : events[n] \in EventRecord
           /\ \A n \in DOMAIN events : events[n].token \in Nat
<1>1. DOMAIN events = 1..Len(events) /\ \A n \in DOMAIN events : events[n] \in EventRecord OBVIOUS
<1>2. \A e \in EventRecord : e.token \in Nat BY DEF EventRecord
<1> QED BY <1>1, <1>2

\* An event appended under the newest token to a run that is still open keeps
\* the order of tokens and puts nothing after a terminal.
LEMMA AppendKeepsOrder ==
    ASSUME JournalInv, NEW e \in EventRecord,
           events' = Append(events, e),
           ~HasTerminal(e.run),
           e.token = 0 \/ e.token \in {nextToken, nextToken - 1}
    PROVE  TerminalIsLast' /\ TokensNeverGoBack'
<1>1. events \in Seq(EventRecord) /\ nextToken \in Nat \ {0}
  BY DEF JournalInv, JournalTypeOK, EventRecord
<1>2. /\ Len(events) \in Nat
      /\ DOMAIN events = 1..Len(events)
      /\ DOMAIN events' = 1..(Len(events) + 1)
      /\ \A n \in 1..Len(events) : events'[n] = events[n]
      /\ events'[Len(events) + 1] = e BY <1>1, AppendFacts
<1>3. \A n \in 1..Len(events) : events[n].token \in Nat /\ events[n].token < nextToken
  BY <1>1, <1>2, RowIsEvent DEF JournalInv, TokensBelowNext
<1>4. TerminalIsLast'
 <2> SUFFICES ASSUME NEW m \in 1..(Len(events) + 1), NEW n \in 1..(Len(events) + 1),
                     m < n, events'[m].run = events'[n].run
              PROVE  events'[m].kind # "terminal" BY <1>2 DEF TerminalIsLast
 <2>1. m \in 1..Len(events) /\ events'[m] = events[m] BY <1>2
 <2>2. CASE n \in 1..Len(events) BY <1>2, <2>1, <2>2 DEF JournalInv, TerminalIsLast
 <2>3. CASE n = Len(events) + 1 BY <1>2, <2>1, <2>3 DEF HasTerminal, Of
 <2> QED BY <1>2, <2>2, <2>3
<1>5. TokensNeverGoBack'
 <2> SUFFICES ASSUME NEW m \in 1..(Len(events) + 1), NEW n \in 1..(Len(events) + 1),
                     m < n, events'[n].token # 0
              PROVE  events'[m].token <= events'[n].token BY <1>2 DEF TokensNeverGoBack
 <2>1. m \in 1..Len(events) /\ events'[m] = events[m] BY <1>2
 <2>2. CASE n \in 1..Len(events) BY <1>2, <2>1, <2>2 DEF JournalInv, TokensNeverGoBack
 <2>3. CASE n = Len(events) + 1 BY <1>1, <1>2, <1>3, <2>1, <2>3
 <2> QED BY <1>2, <2>2, <2>3
<1> QED BY <1>4, <1>5

\* A run without a terminal is still without one after an event of another
\* kind, or of another run, is appended.
LEMMA AppendKeepsOpen ==
    ASSUME JournalInv, NEW e \in EventRecord, NEW r \in Runs,
           events' = Append(events, e),
           ~HasTerminal(r),
           e.kind # "terminal" \/ e.run # r
    PROVE  ~HasTerminal(r)'
<1>1. events \in Seq(EventRecord) BY DEF JournalInv, JournalTypeOK, EventRecord
<1> QED BY <1>1, AppendFacts DEF HasTerminal, Of

\* First terminal wins: what the terminal transaction leaves behind.
LEMMA TerminalKeepsOrder ==
    ASSUME JournalInv, NEW r \in Runs, NEW s \in Statuses, NEW t \in Nat,
           events' = WithTerminal(r, s, t), nextToken' = nextToken,
           t = 0 \/ t = nextToken - 1
    PROVE  /\ events' \in Seq(EventRecord)
           /\ TokensBelowNext'
           /\ TerminalIsLast'
           /\ TokensNeverGoBack'
           /\ \A q \in Runs : q # r /\ ~HasTerminal(q) => ~HasTerminal(q)'
<1>1. events \in Seq(EventRecord) /\ nextToken \in Nat \ {0}
  BY DEF JournalInv, JournalTypeOK, EventRecord
<1>2. CASE HasTerminal(r)
 <2>1. events' = events BY <1>2 DEF WithTerminal
 <2> QED BY <1>1, <2>1 DEF JournalInv, TokensBelowNext, TerminalIsLast, TokensNeverGoBack,
                           HasTerminal, Of
<1>3. CASE ~HasTerminal(r)
 <2> DEFINE e == Event(r, "terminal", s, t)
 <2>1. /\ e \in EventRecord /\ e.run = r /\ e.token = t
       /\ events' = Append(events, e) BY <1>3 DEF Event, EventRecord, Kinds, Infos, WithTerminal
 <2> HIDE DEF e
 <2>2. TerminalIsLast' /\ TokensNeverGoBack' BY <1>3, <2>1, AppendKeepsOrder
 <2>3. events' \in Seq(EventRecord) /\ TokensBelowNext'
   BY <1>1, <2>1, AppendFacts DEF JournalInv, TokensBelowNext
 <2>4. \A q \in Runs : q # r /\ ~HasTerminal(q) => ~HasTerminal(q)' BY <2>1, AppendKeepsOpen
 <2> QED BY <2>2, <2>3, <2>4
<1> QED BY <1>2, <1>3

--------------------
\* The empty tables satisfy the inductive invariant.
LEMMA JournalInitInv == JournalInit => JournalInv
<1> SUFFICES ASSUME JournalInit PROVE JournalInv OBVIOUS
<1>1. events = <<>> /\ lease = {} /\ nextToken = 1 BY DEF JournalInit
<1>2. JournalTypeOK BY <1>1 DEF JournalTypeOK
<1> QED BY <1>1, <1>2 DEF JournalInv, OneRow, LeaseIsCurrent, TokensBelowNext, TerminalIsLast,
                          TokensNeverGoBack

\* Every transaction, whoever calls it, keeps the inductive invariant.
LEMMA JournalStepInv == JournalInv /\ [JournalNext]_journalVars => JournalInv'
<1> SUFFICES ASSUME JournalInv, [JournalNext]_journalVars PROVE JournalInv' OBVIOUS
<1>0. /\ events \in Seq(EventRecord)
      /\ lease \in SUBSET [run : Runs, owner : Owners, token : Nat]
      /\ nextToken \in Nat \ {0}
      /\ OneRow /\ LeaseIsCurrent /\ TokensBelowNext BY DEF JournalInv, JournalTypeOK, EventRecord
<1>1. ASSUME NEW r \in Runs, NEW o \in Owners, BeginRun(r, o)
      PROVE  JournalInv'
 <2> DEFINE e == Event(r, "started", "none", nextToken)
 <2>1. /\ e \in EventRecord /\ e.run = r /\ e.token = nextToken /\ e.kind = "started"
       /\ events' = Append(events, e) /\ nextToken' = nextToken + 1
       /\ lease' = {LeaseRow(r, o, nextToken)} /\ ~HasTerminal(r)
   BY <1>0, <1>1 DEF BeginRun, Event, EventRecord, Kinds, Infos
 <2> HIDE DEF e
 <2>2. TerminalIsLast' /\ TokensNeverGoBack' BY <1>0, <2>1, AppendKeepsOrder
 <2>3. JournalTypeOK' /\ TokensBelowNext'
  <3>1. events' \in Seq(EventRecord) BY <1>0, <2>1, AppendFacts
  <3>2. lease' \in SUBSET [run : Runs, owner : Owners, token : Nat] BY <1>0, <2>1 DEF LeaseRow
  <3>3. TokensBelowNext'
   <4> SUFFICES ASSUME NEW n \in 1..(Len(events) + 1)
                PROVE  events'[n].token < nextToken' BY <1>0, <2>1, AppendFacts DEF TokensBelowNext
   <4>1. CASE n \in 1..Len(events)
    <5>1. events[n].token < nextToken /\ events[n].token \in Nat /\ events'[n] = events[n]
      BY <1>0, <2>1, <4>1, AppendFacts, RowIsEvent DEF TokensBelowNext
    <5> QED BY <1>0, <2>1, <5>1
   <4>2. CASE n = Len(events) + 1
    <5>1. events'[n] = e BY <1>0, <2>1, <4>2, AppendFacts
    <5> QED BY <1>0, <2>1, <5>1
   <4> QED BY <1>0, <4>1, <4>2, AppendFacts
  <3> QED BY <1>0, <2>1, <3>1, <3>2, <3>3 DEF JournalTypeOK, EventRecord
 <2>4. ~HasTerminal(r)' BY <2>1, AppendKeepsOpen
 <2>5. OneRow' /\ LeaseIsCurrent' BY <1>0, <2>1, <2>4 DEF OneRow, LeaseIsCurrent, LeaseRow
 <2> QED BY <2>2, <2>3, <2>5 DEF JournalInv
<1>2. ASSUME NEW r \in Runs, NEW o \in Owners, ResumeRun(r, o)
      PROVE  JournalInv'
 <2>1. /\ events' = events /\ nextToken' = nextToken + 1
       /\ lease' = {LeaseRow(r, o, nextToken)} /\ ~HasTerminal(r) BY <1>2 DEF ResumeRun
 <2>2. JournalTypeOK' BY <1>0, <2>1 DEF JournalTypeOK, EventRecord, LeaseRow
 <2>3. TokensBelowNext' /\ TerminalIsLast' /\ TokensNeverGoBack'
  <3>1. \A n \in DOMAIN events : events[n].token \in Nat BY <1>0, RowIsEvent
  <3> QED BY <1>0, <2>1, <3>1 DEF JournalInv, TokensBelowNext, TerminalIsLast, TokensNeverGoBack
 <2>4. OneRow' /\ LeaseIsCurrent'
   BY <1>0, <2>1 DEF OneRow, LeaseIsCurrent, LeaseRow, HasTerminal, Of
 <2> QED BY <2>2, <2>3, <2>4 DEF JournalInv
<1>3. ASSUME NEW l \in lease, NEW c \in Contents, c.kind # "terminal",
             AppendFenced(l.run, l.owner, l.token, c)
      PROVE  JournalInv'
 <2> DEFINE e == Event(l.run, c.kind, c.info, l.token)
 <2>1. /\ e \in EventRecord /\ e.run = l.run /\ e.token = l.token /\ e.kind # "terminal"
       /\ events' = Append(events, e) /\ nextToken' = nextToken /\ lease' = lease
   BY <1>0, <1>3 DEF AppendFenced, Event, EventRecord, Contents, Kinds, Infos
 <2>2. ~HasTerminal(l.run) /\ l.token = nextToken - 1 /\ l.run \in Runs BY <1>0 DEF LeaseIsCurrent
 <2> HIDE DEF e
 <2>3. TerminalIsLast' /\ TokensNeverGoBack' BY <2>1, <2>2, AppendKeepsOrder
 <2>4. events' \in Seq(EventRecord) /\ TokensBelowNext'
   BY <1>0, <2>1, <2>2, AppendFacts DEF TokensBelowNext
 <2>5. OneRow' /\ LeaseIsCurrent' BY <1>0, <2>1, AppendKeepsOpen DEF OneRow, LeaseIsCurrent
 <2> QED BY <1>0, <2>1, <2>3, <2>4, <2>5 DEF JournalInv, JournalTypeOK, EventRecord
<1>4. ASSUME NEW l \in lease, NEW s \in Statuses,
             AppendTerminalAndRelease(l.run, l.owner, l.token, s)
      PROVE  JournalInv'
 <2>1. /\ events' = WithTerminal(l.run, s, l.token) /\ nextToken' = nextToken
       /\ lease' = {k \in lease : k.run # l.run} /\ l.token = nextToken - 1
       /\ l.run \in Runs /\ l.token \in Nat
   BY <1>0, <1>4 DEF AppendTerminalAndRelease, LeaseIsCurrent
 <2>2. /\ events' \in Seq(EventRecord) /\ TokensBelowNext'
       /\ TerminalIsLast' /\ TokensNeverGoBack' BY <2>1, TerminalKeepsOrder
 <2>3. lease' = {} BY <1>0, <2>1 DEF OneRow
 <2> QED BY <1>0, <2>1, <2>2, <2>3 DEF JournalInv, JournalTypeOK, EventRecord, OneRow, LeaseIsCurrent
<1>5. ASSUME NEW l \in lease, ReleaseRunLease(l.run, l.owner, l.token)
      PROVE  JournalInv'
 <2>1. events' = events /\ nextToken' = nextToken /\ lease' \subseteq lease
   BY <1>5 DEF ReleaseRunLease
 <2> QED BY <1>0, <2>1 DEF JournalInv, JournalTypeOK, OneRow, LeaseIsCurrent, HasTerminal, Of,
                           TokensBelowNext, TerminalIsLast, TokensNeverGoBack
<1>6. ASSUME NEW r \in Runs, RejectedInput(r), AppendUnfenced(r)
      PROVE  JournalInv'
 <2> DEFINE e == Event(r, "note", "none", 0)
 <2>1. /\ e \in EventRecord /\ e.run = r /\ e.token = 0 /\ e.kind = "note"
       /\ events' = Append(events, e) /\ nextToken' = nextToken /\ lease' = lease
   BY <1>6 DEF AppendUnfenced, Event, EventRecord, Kinds, Infos
 <2>2. ~HasTerminal(r) BY <1>6 DEF RejectedInput, HasTerminal, Of
 <2> HIDE DEF e
 <2>3. TerminalIsLast' /\ TokensNeverGoBack' BY <2>1, <2>2, AppendKeepsOrder
 <2>4. events' \in Seq(EventRecord) /\ TokensBelowNext'
   BY <1>0, <2>1, AppendFacts DEF TokensBelowNext
 <2>5. OneRow' /\ LeaseIsCurrent' BY <1>0, <2>1, AppendKeepsOpen DEF OneRow, LeaseIsCurrent
 <2> QED BY <1>0, <2>1, <2>3, <2>4, <2>5 DEF JournalInv, JournalTypeOK, EventRecord
<1>7. ASSUME NEW r \in Runs, NEW s \in Statuses,
             Unleased(r), events' = WithTerminal(r, s, 0), UNCHANGED <<lease, nextToken>>
      PROVE  JournalInv'
 <2>1. /\ events' \in Seq(EventRecord) /\ TokensBelowNext'
       /\ TerminalIsLast' /\ TokensNeverGoBack'
       /\ \A q \in Runs : q # r /\ ~HasTerminal(q) => ~HasTerminal(q)' BY <1>7, TerminalKeepsOrder
 <2>2. OneRow' /\ LeaseIsCurrent' BY <1>0, <1>7, <2>1 DEF OneRow, LeaseIsCurrent, Unleased
 <2> QED BY <1>0, <1>7, <2>1, <2>2 DEF JournalInv, JournalTypeOK, EventRecord
<1>8. ASSUME RecoverDeadLease
      PROVE  JournalInv'
 <2>1. PICK l \in lease :
          /\ events' = IF HasUnresolvedApproval(l.run) THEN events
                       ELSE WithTerminal(l.run, "interrupted", 0)
          /\ lease' = {} /\ nextToken' = nextToken BY <1>8 DEF RecoverDeadLease
 <2>2. l.run \in Runs /\ "interrupted" \in Statuses BY <1>0 DEF Statuses
 <2>3. /\ events' \in Seq(EventRecord) /\ TokensBelowNext'
       /\ TerminalIsLast' /\ TokensNeverGoBack'
  <3>1. CASE HasUnresolvedApproval(l.run)
    BY <1>0, <2>1, <3>1 DEF JournalInv, TokensBelowNext, TerminalIsLast, TokensNeverGoBack
  <3>2. CASE ~HasUnresolvedApproval(l.run)
   <4>1. events' = WithTerminal(l.run, "interrupted", 0) BY <2>1, <3>2
   <4> QED BY <2>1, <2>2, <4>1, TerminalKeepsOrder
  <3> QED BY <3>1, <3>2
 <2> QED BY <1>0, <2>1, <2>3 DEF JournalInv, JournalTypeOK, EventRecord, OneRow, LeaseIsCurrent
<1>9. CASE UNCHANGED journalVars
  BY <1>9 DEF journalVars, JournalInv, JournalTypeOK, OneRow, LeaseIsCurrent, HasTerminal, Of,
              TokensBelowNext, TerminalIsLast, TokensNeverGoBack
<1>10. CASE JournalNext
 <2>1. ASSUME NEW r \in Runs, RejectedInput(r), AppendTerminalOnce(r, "error") PROVE JournalInv'
  <3>1. "error" \in Statuses /\ Unleased(r) /\ events' = WithTerminal(r, "error", 0)
        /\ UNCHANGED <<lease, nextToken>> BY <2>1 DEF AppendTerminalOnce, Statuses
  <3> QED BY <3>1, <1>7
 <2>2. ASSUME NEW r \in Runs, CloseUnleased(r, "interrupted") PROVE JournalInv'
  <3>1. "interrupted" \in Statuses /\ Unleased(r) /\ events' = WithTerminal(r, "interrupted", 0)
        /\ UNCHANGED <<lease, nextToken>> BY <2>2 DEF CloseUnleased, Statuses
  <3> QED BY <3>1, <1>7
 <2> QED BY <1>10, <1>1, <1>2, <1>3, <1>4, <1>5, <1>6, <1>8, <2>1, <2>2 DEF JournalNext
<1> QED BY <1>9, <1>10

(* Whatever the order of the callers, and even if a recovery takes a live
   owner for dead: the tables keep their types, a closed run receives no
   event, an older token never writes after a newer one, and the lease
   belongs to an open run under the newest token. *)
THEOREM JournalSafe ==
    JournalSpec => [](JournalTypeOK /\ TerminalIsLast /\ TokensNeverGoBack /\ LeaseIsCurrent)
<1>1. JournalInit => JournalInv BY JournalInitInv
<1>2. JournalInv /\ [JournalNext]_journalVars => JournalInv' BY JournalStepInv
<1>3. JournalInv => JournalTypeOK /\ TerminalIsLast /\ TokensNeverGoBack /\ LeaseIsCurrent
  BY DEF JournalInv
<1> QED BY <1>1, <1>2, <1>3, PTL DEF JournalSpec

--------------------
(* The coordinators. *)

UpType      == [Owners -> {"off", "up", "closing", "dead"}]
HydType     == [Owners -> {"no", "list", "check", "close", "yes"}]
TodoType    == [Owners -> SUBSET Runs]
StartType   == [Owners -> Job(StartPCs)]
TaskType    == [Owners -> Job(TaskPCs)]
InnerRecord == [state : {"none", "pending", "stored", "raised"}, run : Runs \cup {NoRun},
                token : Nat, kind : Kinds, info : Infos]
InnerType   == [Owners -> InnerRecord]
OrphanRecord == [run : Runs \cup {NoRun}, token : Nat, status : Statuses]
OrphansType == [Owners -> SUBSET OrphanRecord]
SuspendType == [Owners -> BOOLEAN]
AuditType   == [Owners -> 0..1]
StopType    == [Owners -> Job(StopPCs)]
ShutType    == [Owners -> {"idle", "suspend", "cancel", "wait", "check", "done"}]
RejectType  == [Owners -> Runs \cup {NoRun}]

ProcTypeOK ==
    /\ up \in UpType /\ hyd \in HydType /\ todo \in TodoType /\ start \in StartType
    /\ task \in TaskType /\ inner \in InnerType /\ orphans \in OrphansType
    /\ suspend \in SuspendType /\ audit \in AuditType /\ stop \in StopType
    /\ shut \in ShutType /\ reject \in RejectType /\ faults \in Nat

\* TypeOK is the types of the journal and of the instances.
LEMMA TypeParts == TypeOK <=> JournalTypeOK /\ ProcTypeOK
  BY DEF TypeOK, ProcTypeOK, UpType, HydType, TodoType, StartType, TaskType, InnerType, InnerRecord,
         OrphansType, OrphanRecord, SuspendType, AuditType, StopType, ShutType, RejectType

\* Updates of one instance's entry.
LEMMA PutType ==
    ASSUME NEW S, NEW f \in [Owners -> S], NEW p \in Owners, NEW x \in S
    PROVE  [f EXCEPT ![p] = x] \in [Owners -> S] OBVIOUS

\* A coroutine moves to another control state, with or without a new token.
LEMMA JobMoves ==
    ASSUME NEW S, NEW f \in [Owners -> Job(S)], NEW p \in Owners, NEW pc \in S
    PROVE  /\ [f EXCEPT ![p].pc = pc] \in [Owners -> Job(S)]
           /\ \A t \in Nat : [f EXCEPT ![p].pc = pc, ![p].token = t] \in [Owners -> Job(S)]
  BY DEF Job

\* The job of one coroutine copied to another.
LEMMA JobCopies ==
    ASSUME NEW S, NEW T, NEW j \in Job(S), NEW pc \in T
    PROVE  [j EXCEPT !.pc = pc] \in Job(T) BY DEF Job

\* The entries of an instance that does nothing.
LEMMA EmptyRecords ==
    /\ NoJob \in Job(StartPCs) /\ NoJob \in Job(TaskPCs) /\ NoJob \in Job(StopPCs)
    /\ NoEvent \in InnerRecord
  BY DEF NoJob, NoEvent, Job, StartPCs, TaskPCs, StopPCs, InnerRecord, Kinds, Infos

\* Entries of one instance.
LEMMA EntryTypes ==
    ASSUME ProcTypeOK, NEW p \in Owners
    PROVE  /\ start[p] \in Job(StartPCs) /\ task[p] \in Job(TaskPCs) /\ stop[p] \in Job(StopPCs)
           /\ inner[p] \in InnerRecord /\ orphans[p] \in SUBSET OrphanRecord
           /\ todo[p] \in SUBSET Runs /\ audit[p] \in 0..1 /\ reject[p] \in Runs \cup {NoRun}
           /\ suspend[p] \in BOOLEAN
           /\ shut[p] \in {"idle", "suspend", "cancel", "wait", "check", "done"}
           /\ hyd[p] \in {"no", "list", "check", "close", "yes"}
  BY DEF ProcTypeOK, TodoType, StartType, TaskType, InnerType, OrphansType, SuspendType, AuditType,
         StopType, ShutType, RejectType, HydType

\* A failing transaction keeps the count a number.
LEMMA FaultType == faults \in Nat /\ (Fault \/ UNCHANGED faults) => faults' \in Nat
  BY DEF Fault

\* The end of a start keeps its type.
LEMMA IdleType ==
    ASSUME start \in StartType, NEW p \in Owners, Idle(p)
    PROVE  start' \in StartType BY PutType, EmptyRecords DEF StartType, Idle

\* A step of the _consume task keeps its type.
LEMMA StepType ==
    ASSUME task \in TaskType, NEW p \in Owners, NEW pc \in TaskPCs, Step(p, pc)
    PROVE  task' \in TaskType BY JobMoves DEF TaskType, Step

--------------------
(* The actions, one lemma for each group of the specification. *)

\* Boot, crash and shutdown keep the types.
LEMMA InstanceTypes ==
    ASSUME ProcTypeOK, NEW p \in Owners, Boot(p) \/ Crash(p) \/ ShutdownBegin(p)
    PROVE  ProcTypeOK'
<1>1. CASE Boot(p) \/ ShutdownBegin(p) BY <1>1 DEF ProcTypeOK, Boot, ShutdownBegin, UpType
<1>2. CASE Crash(p)
 <2>1. /\ up' \in UpType /\ hyd' \in HydType /\ todo' \in TodoType
       /\ orphans' \in OrphansType /\ suspend' \in SuspendType /\ audit' \in AuditType
       /\ shut' \in ShutType /\ reject' \in RejectType
   BY <1>2 DEF ProcTypeOK, Crash, UpType, HydType, TodoType, OrphansType, SuspendType, AuditType,
               ShutType, RejectType
 <2>2. start' \in StartType /\ task' \in TaskType /\ stop' \in StopType /\ inner' \in InnerType
   BY <1>2, PutType, EmptyRecords DEF ProcTypeOK, Crash, StartType, TaskType, StopType, InnerType
 <2> QED BY <1>2, <2>1, <2>2 DEF ProcTypeOK, Crash
<1> QED BY <1>1, <1>2

\* hydrate and recover_interrupted_runs keep the types.
LEMMA RecoveryTypes ==
    ASSUME ProcTypeOK, NEW p \in Owners, Recovery(p) \/ RecoveryFails(p)
    PROVE  ProcTypeOK'
<1>1. hyd' \in HydType
  BY DEF ProcTypeOK, Recovery, RecoverLease, ListUnfinished, RecoverCheck, RecoverClose,
         RecoveryFails, HydType
<1>2. todo' \in TodoType
 <2>0. todo \in [Owners -> SUBSET Runs] /\ todo[p] \in SUBSET Runs
   BY EntryTypes DEF ProcTypeOK, TodoType
 <2>1. CASE ListUnfinished(p) BY <2>0, <2>1, PutType DEF ListUnfinished, TodoType, UnfinishedRuns
 <2>2. CASE RecoverCheck(p) BY <2>0, <2>2, PutType DEF RecoverCheck, TodoType
 <2>3. CASE RecoverClose(p) BY <2>0, <2>3, PutType DEF RecoverClose, TodoType
 <2>4. CASE RecoverLease(p) \/ RecoveryFails(p)
   BY <2>0, <2>4 DEF RecoverLease, RecoveryFails, TodoType
 <2> QED BY <2>1, <2>2, <2>3, <2>4 DEF Recovery
<1>3. faults' \in Nat
  BY FaultType DEF ProcTypeOK, Recovery, RecoverLease, ListUnfinished, RecoverCheck, RecoverClose,
         RecoveryFails
<1> QED BY <1>1, <1>2, <1>3 DEF ProcTypeOK, Recovery, RecoverLease, ListUnfinished, RecoverCheck,
         RecoverClose, RecoveryFails

\* start_run and start_existing_run keep the types.
LEMMA StartTypes ==
    ASSUME ProcTypeOK, nextToken \in Nat, NEW p \in Owners, Starting(p)
    PROVE  ProcTypeOK'
<1>1. CASE Begin(p)
 <2>1. start' \in StartType
  <3>1. "begun" \in StartPCs /\ start \in [Owners -> Job(StartPCs)]
    BY DEF StartPCs, ProcTypeOK, StartType
  <3>2. [start EXCEPT ![p].pc = "begun", ![p].token = nextToken] \in StartType
    BY <3>1, JobMoves DEF StartType
  <3> QED BY <1>1, <3>2, IdleType DEF ProcTypeOK, Begin
 <2> QED BY <1>1, <2>1, FaultType DEF ProcTypeOK, Begin
<1>2. CASE Resume(p)
 <2>1. start' \in StartType
  <3>1. "resumed" \in StartPCs /\ start \in [Owners -> Job(StartPCs)]
    BY DEF StartPCs, ProcTypeOK, StartType
  <3>2. [start EXCEPT ![p].pc = "resumed", ![p].token = nextToken] \in StartType
    BY <3>1, JobMoves DEF StartType
  <3> QED BY <1>2, <3>2, IdleType DEF ProcTypeOK, Resume
 <2> QED BY <1>2, <2>1, FaultType DEF ProcTypeOK, Resume
<1>3. CASE StartOwn(p)
 <2>1. [pc |-> "new", run |-> start[p].run, token |-> start[p].token] \in Job(TaskPCs)
   BY EntryTypes DEF Job, TaskPCs
 <2>2. task' \in TaskType BY <1>3, <2>1, PutType DEF ProcTypeOK, StartOwn, TaskType
 <2>3. start' \in StartType BY <1>3, IdleType DEF ProcTypeOK, StartOwn
 <2> QED BY <1>3, <2>2, <2>3 DEF ProcTypeOK, StartOwn
<1>4. CASE StartAbort(p)
 <2>1. start' \in StartType BY <1>4, IdleType DEF ProcTypeOK, StartAbort
 <2> QED BY <1>4, <2>1, FaultType DEF ProcTypeOK, StartAbort, Raises
<1> QED BY <1>1, <1>2, <1>3, <1>4 DEF Starting

\* The _consume task, its shielded writes and late threads keep the types.
LEMMA ConsumeTypes ==
    ASSUME ProcTypeOK, NEW p \in Owners, Consuming(p)
    PROVE  ProcTypeOK'
<1>0. \A pc \in {"stream", "complete", "fail", "final", "raise"} : pc \in TaskPCs BY DEF TaskPCs
<1>1. CASE TaskBegin(p)
 <2>1. task' \in TaskType BY <1>0, <1>1, StepType DEF ProcTypeOK, TaskBegin
 <2> QED BY <1>1, <2>1 DEF ProcTypeOK, TaskBegin
<1>2. CASE InnerCommit(p)
 <2>1. \A st \in {"stored", "raised"} : [inner[p] EXCEPT !.state = st] \in InnerRecord
   BY EntryTypes DEF InnerRecord
 <2>2. inner' \in InnerType BY <1>2, <2>1, EmptyRecords DEF ProcTypeOK, InnerCommit, InnerType
 <2> QED BY <1>2, <2>2, FaultType DEF ProcTypeOK, InnerCommit, Raises, PersistEvent
<1>3. CASE PersistReturn(p)
 <2>1. task' \in TaskType BY <1>0, <1>3, StepType DEF ProcTypeOK, PersistReturn
 <2>2. inner' \in InnerType BY <1>3, PutType, EmptyRecords DEF ProcTypeOK, PersistReturn, InnerType
 <2> QED BY <1>3, <2>1, <2>2 DEF ProcTypeOK, PersistReturn
<1>4. CASE CompletePersist(p)
 <2>1. task' \in TaskType BY <1>0, <1>4, StepType DEF ProcTypeOK, CompletePersist
 <2> QED BY <1>4, <2>1, FaultType
            DEF ProcTypeOK, CompletePersist, PersistTerminal, TaskRaises, Raises
<1>5. CASE FailPersist(p)
 <2>1. task' \in TaskType BY <1>0, <1>5, StepType DEF ProcTypeOK, FailPersist
 <2> QED BY <1>5, <2>1, FaultType DEF ProcTypeOK, FailPersist, PersistTerminal, TaskRaises, Raises
<1>6. CASE CancelCleanup(p)
 <2>1. task' \in TaskType BY <1>0, <1>6, StepType DEF ProcTypeOK, CancelCleanup
 <2>2. audit' \in AuditType
  <3>1. audit[p] \in 0..1 /\ audit \in [Owners -> 0..1] BY EntryTypes DEF ProcTypeOK, AuditType
  <3>2. CASE audit[p] > 0
   <4>1. audit[p] - 1 \in 0..1 /\ 0 \in 0..1 BY <3>1, <3>2
   <4> QED BY <1>6, <3>1, <3>2, <4>1, PutType DEF CancelCleanup, AuditType
  <3>3. CASE ~(audit[p] > 0) BY <1>6, <3>1, <3>3 DEF CancelCleanup, AuditType
  <3> QED BY <3>2, <3>3
 <2> QED BY <1>6, <2>1, <2>2, FaultType
            DEF ProcTypeOK, CancelCleanup, PersistTerminal, PersistEvent, TaskRaises, Raises
<1>7. CASE SuspendCleanup(p)
 <2>1. task' \in TaskType BY <1>0, <1>7, StepType DEF ProcTypeOK, SuspendCleanup
 <2> QED BY <1>7, <2>1, FaultType DEF ProcTypeOK, SuspendCleanup, TaskRaises, Raises
<1>8. CASE Final(p)
 <2>1. task' \in TaskType BY <1>8, PutType, EmptyRecords DEF ProcTypeOK, Final, TaskType
 <2>2. suspend' \in SuspendType /\ audit' \in AuditType /\ shut' \in ShutType
   BY <1>8 DEF ProcTypeOK, Final, SuspendType, AuditType, ShutType
 <2>3. [stop[p] EXCEPT !.pc = "check"] \in Job(StopPCs) BY EntryTypes, JobCopies DEF StopPCs
 <2>4. stop' \in StopType BY <1>8, <2>3, EmptyRecords DEF ProcTypeOK, Final, StopType
 <2> QED BY <1>8, <2>1, <2>2, <2>4 DEF ProcTypeOK, Final
<1>9. CASE OrphanCommit(p)
 <2>1. orphans' \in OrphansType BY <1>9 DEF ProcTypeOK, OrphanCommit, OrphansType
 <2> QED BY <1>9, <2>1, FaultType DEF ProcTypeOK, OrphanCommit, Raises
<1> QED BY <1>1, <1>2, <1>3, <1>4, <1>5, <1>6, <1>7, <1>8, <1>9 DEF Consuming

\* What task.cancel() leaves behind.
LEMMA InterruptTypes ==
    ASSUME ProcTypeOK, NEW p \in Owners, Interrupt(p), suspend'[p] \in BOOLEAN
    PROVE  /\ task' \in TaskType /\ orphans' \in OrphansType /\ inner' \in InnerType
           /\ Await(p) \in {"check", "wait"}
<1>1. Interrupted(p) \in TaskPCs BY EntryTypes DEF Interrupted, TaskPCs, Job
<1>2. task' \in TaskType BY <1>1, StepType DEF ProcTypeOK, Interrupt
<1>3. Orphan(p) \in OrphanRecord BY EntryTypes DEF Orphan, OrphanRecord, Job, Statuses
<1>4. orphans' \in OrphansType BY <1>3 DEF ProcTypeOK, Interrupt, OrphansType
<1>5. inner' \in InnerType BY EmptyRecords DEF ProcTypeOK, Interrupt, InnerType
<1> QED BY <1>2, <1>4, <1>5 DEF Await

\* So does cancel() up to the point where it awaits the task.
LEMMA StopRunTypes ==
    ASSUME ProcTypeOK, NEW p \in Owners, NEW n \in 0..1, StopRun(p, n)
    PROVE  /\ task' \in TaskType /\ orphans' \in OrphansType /\ inner' \in InnerType
           /\ audit' \in AuditType /\ suspend' \in SuspendType /\ stop' \in StopType
<1>1. suspend' \in SuspendType /\ suspend'[p] \in BOOLEAN BY EntryTypes DEF ProcTypeOK, StopRun
<1>2. /\ task' \in TaskType /\ orphans' \in OrphansType /\ inner' \in InnerType
      /\ Await(p) \in {"check", "wait"} BY <1>1, InterruptTypes DEF StopRun
<1>3. audit' \in AuditType BY DEF ProcTypeOK, StopRun, AuditType
<1>4. [task[p] EXCEPT !.pc = Await(p)] \in Job(StopPCs) BY <1>2, EntryTypes, JobCopies DEF StopPCs
<1>5. stop' \in StopType BY <1>4, PutType DEF ProcTypeOK, StopRun, StopType
<1> QED BY <1>1, <1>2, <1>3, <1>5

\* And the end of cancel() and of suspend_for_restart().
LEMMA ForgetTypes ==
    ASSUME ProcTypeOK, NEW p \in Owners, NEW t, Forget(p, t)
    PROVE  task' \in TaskType /\ audit' \in AuditType /\ suspend' \in SuspendType
<1>1. task' \in TaskType BY EmptyRecords DEF ProcTypeOK, Forget, TaskType
<1>2. audit' \in AuditType BY DEF ProcTypeOK, Forget, AuditType
<1>3. suspend' \in SuspendType
 <2>1. (IF task[p].pc = "ended" /\ task[p].token = t THEN FALSE ELSE suspend[p]) \in BOOLEAN
   BY EntryTypes
 <2> QED BY <2>1, PutType DEF ProcTypeOK, Forget, SuspendType
<1> QED BY <1>1, <1>2, <1>3

\* cancel(), the stop endpoint and _shutdown_run keep the types.
LEMMA StopTypes ==
    ASSUME ProcTypeOK, NEW p \in Owners, Stopping(p) \/ StopRequest(p)
    PROVE  ProcTypeOK'
<1>1. CASE StopRequest(p)
 <2>1. /\ task' \in TaskType /\ orphans' \in OrphansType /\ inner' \in InnerType
       /\ audit' \in AuditType /\ suspend' \in SuspendType /\ stop' \in StopType
   BY <1>1, StopRunTypes DEF StopRequest
 <2> QED BY <1>1, <2>1 DEF ProcTypeOK, StopRequest
<1>2. CASE StopCheck(p)
 <2>1. stop' \in StopType
  <3>1. /\ \A pc \in {"persist", "clear"} : [stop EXCEPT ![p].pc = pc] \in StopType
        /\ [stop EXCEPT ![p] = NoJob] \in StopType
    BY PutType, JobMoves, EmptyRecords DEF ProcTypeOK, StopType, StopPCs
  <3> QED BY <1>2, <3>1 DEF StopCheck
 <2> QED BY <1>2, <2>1, FaultType DEF ProcTypeOK, StopCheck
<1>3. CASE StopPersist(p)
 <2>1. stop' \in StopType
  <3>1. /\ \A pc \in {"persist", "clear"} : [stop EXCEPT ![p].pc = pc] \in StopType
        /\ [stop EXCEPT ![p] = NoJob] \in StopType
    BY PutType, JobMoves, EmptyRecords DEF ProcTypeOK, StopType, StopPCs
  <3> QED BY <1>3, <3>1 DEF StopPersist
 <2> QED BY <1>3, <2>1, FaultType DEF ProcTypeOK, StopPersist, Raises
<1>4. CASE StopClear(p)
 <2>1. stop' \in StopType BY <1>4, PutType, EmptyRecords DEF ProcTypeOK, StopClear, StopType
 <2> QED BY <1>4, <2>1, ForgetTypes DEF ProcTypeOK, StopClear
<1>5. CASE ShutdownDecide(p)
 <2>1. shut' \in ShutType BY <1>5 DEF ProcTypeOK, ShutdownDecide, ShutType
 <2> QED BY <1>5, <2>1 DEF ProcTypeOK, ShutdownDecide
<1>6. CASE ShutdownSuspend(p)
 <2>1. suspend' \in SuspendType /\ suspend'[p] \in BOOLEAN
   BY <1>6 DEF ProcTypeOK, ShutdownSuspend, SuspendType
 <2>2. /\ task' \in TaskType /\ orphans' \in OrphansType /\ inner' \in InnerType
       /\ Await(p) \in {"check", "wait"} BY <1>6, <2>1, InterruptTypes DEF ShutdownSuspend
 <2>3. shut' \in ShutType BY <1>6, <2>2 DEF ProcTypeOK, ShutdownSuspend, ShutType
 <2> QED BY <1>6, <2>1, <2>2, <2>3 DEF ProcTypeOK, ShutdownSuspend
<1>7. CASE ShutdownCancel(p)
 <2>1. /\ task' \in TaskType /\ orphans' \in OrphansType /\ inner' \in InnerType
       /\ audit' \in AuditType /\ suspend' \in SuspendType /\ stop' \in StopType
   BY <1>7, StopRunTypes DEF ShutdownCancel
 <2>2. shut' \in ShutType BY <1>7 DEF ProcTypeOK, ShutdownCancel, ShutType
 <2> QED BY <1>7, <2>1, <2>2 DEF ProcTypeOK, ShutdownCancel
<1>8. CASE SuspendClear(p)
 <2>1. shut' \in ShutType BY <1>8 DEF ProcTypeOK, SuspendClear, ShutType
 <2> QED BY <1>8, <2>1, ForgetTypes DEF ProcTypeOK, SuspendClear
<1> QED BY <1>1, <1>2, <1>3, <1>4, <1>5, <1>6, <1>7, <1>8 DEF Stopping

\* Requests and the event stream keep the types.
LEMMA RequestTypes ==
    ASSUME ProcTypeOK, NEW p \in Owners, Requests(p)
    PROVE  ProcTypeOK'
<1>1. ASSUME NEW r \in Runs, StartCheck(p, r) \/ RespondCheck(p, r) PROVE ProcTypeOK'
 <2>1. \A pc \in {"begin", "resume"} : [pc |-> pc, run |-> r, token |-> 0] \in Job(StartPCs)
   BY DEF Job, StartPCs
 <2>2. start' \in StartType
   BY <1>1, <2>1, PutType DEF ProcTypeOK, StartCheck, RespondCheck, StartType
 <2> QED BY <1>1, <2>2 DEF ProcTypeOK, StartCheck, RespondCheck
<1>2. ASSUME NEW r \in Runs, RejectBegin(p, r) PROVE ProcTypeOK'
  BY <1>2 DEF ProcTypeOK, RejectBegin, RejectType
<1>3. CASE RejectEnd(p) BY <1>3 DEF ProcTypeOK, RejectEnd, RejectType
<1>4. ASSUME NEW c \in Contents, StreamYield(p, c) PROVE ProcTypeOK'
 <2>1. c.kind \in Kinds /\ c.info \in Infos BY DEF Contents, Kinds, Infos
 <2>2. [state |-> "pending", run |-> task[p].run, token |-> task[p].token,
        kind |-> c.kind, info |-> c.info] \in InnerRecord BY <2>1, EntryTypes DEF InnerRecord, Job
 <2>3. inner' \in InnerType BY <1>4, <2>2, PutType DEF ProcTypeOK, StreamYield, InnerType
 <2>4. task' \in TaskType BY <1>4, StepType DEF ProcTypeOK, StreamYield, TaskPCs
 <2> QED BY <1>4, <2>3, <2>4 DEF ProcTypeOK, StreamYield
<1>5. CASE StreamEnd(p)
 <2>1. task' \in TaskType BY <1>5, StepType DEF ProcTypeOK, StreamEnd, TaskPCs
 <2> QED BY <1>5, <2>1 DEF ProcTypeOK, StreamEnd
<1>6. CASE StopRequest(p) BY <1>6, StopTypes
<1>7. CASE ShutdownBegin(p) BY <1>7, InstanceTypes
<1> QED BY <1>1, <1>2, <1>3, <1>4, <1>5, <1>6, <1>7 DEF Requests

--------------------
(* What the instances have claimed in the journal. *)

\* The run of a start_run in progress has no event yet, and no other start_run
\* has drawn its identifier.
BeginIsFresh ==
    /\ \A p \in Owners : start[p].pc = "begin" => start[p].run \in Runs /\ ~HasHistory(start[p].run)
    /\ \A p, q \in Owners :
          start[p].pc = "begin" /\ start[q].pc = "begin" /\ p # q => start[p].run # start[q].run

\* The run of a start_existing_run in progress is not the record of a rejected input.
ResumeIsRun ==
    \A p \in Owners :
        start[p].pc = "resume" => start[p].run \in Runs /\ ~RejectedInput(start[p].run)

\* Only its own instance writes the record of a rejected input.
RejectIsOwn ==
    /\ \A p \in Owners : reject[p] # NoRun => HasHistory(reject[p]) /\ RejectedInput(reject[p])
    /\ \A p, q \in Owners : reject[p] = reject[q] /\ p # q => reject[p] = NoRun

LeaseIsRun == \A l \in lease : ~RejectedInput(l.run)

TodoIsStarted == \A p \in Owners : \A r \in todo[p] : HasStarted(r)

\* What a shielded _persist is about to write.
Yielded(e) == [kind |-> e.kind, info |-> e.info]

PendingIsContent ==
    \A p \in Owners : inner[p].state = "pending" => Yielded(inner[p]) \in Contents

ClaimInv ==
    /\ BeginIsFresh /\ ResumeIsRun /\ RejectIsOwn
    /\ LeaseIsRun /\ TodoIsStarted /\ PendingIsContent

CoordinatorInv == JournalInv /\ ProcTypeOK /\ ClaimInv

\* The events stay, and those that are added belong to run r.
Grows(r) ==
    /\ \A n \in DOMAIN events : n \in DOMAIN events' /\ events'[n] = events[n]
    /\ \A n \in DOMAIN events' : n \notin DOMAIN events => events'[n].run = r

\* What growth of the table keeps, for every run and for runs other than r.
LEMMA GrowthKeeps ==
    ASSUME NEW r, Grows(r)
    PROVE  /\ \A q : HasHistory(q) => HasHistory(q)'
           /\ \A q : HasStarted(q) => HasStarted(q)'
           /\ \A q : ~RejectedInput(q) => ~RejectedInput(q)'
           /\ \A q : q # r /\ ~HasHistory(q) => ~HasHistory(q)'
           /\ \A q : q # r /\ RejectedInput(q) => RejectedInput(q)'
  BY DEF Grows, HasHistory, HasStarted, Of, RejectedInput

\* Appending an event of a run is growth for that run.
LEMMA AppendGrows ==
    ASSUME events \in Seq(EventRecord), NEW e \in EventRecord, events' = Append(events, e)
    PROVE  Grows(e.run) BY AppendFacts DEF Grows

\* A table that stays as it is grows for any run.
LEMMA NoGrowth ==
    ASSUME UNCHANGED events, NEW r
    PROVE  Grows(r) BY DEF Grows

\* The terminal transaction is growth for its run.
LEMMA TerminalGrows ==
    ASSUME JournalInv, NEW r \in Runs, NEW s \in Statuses, NEW t \in Nat,
           events' = WithTerminal(r, s, t)
    PROVE  Grows(r)
<1>1. CASE HasTerminal(r) BY <1>1, NoGrowth DEF WithTerminal
<1>2. CASE ~HasTerminal(r)
 <2>1. /\ Event(r, "terminal", s, t) \in EventRecord /\ Event(r, "terminal", s, t).run = r
       /\ events' = Append(events, Event(r, "terminal", s, t))
   BY <1>2 DEF Event, EventRecord, Kinds, Infos, WithTerminal
 <2>2. events \in Seq(EventRecord) BY DEF JournalInv, JournalTypeOK, EventRecord
 <2> QED BY <2>1, <2>2, AppendGrows
<1> QED BY <1>1, <1>2

\* A step that makes no new claim.
NoNewClaim ==
    /\ \A p \in Owners : start'[p] = start[p] \/ start'[p].pc \notin {"begin", "resume"}
    /\ \A p \in Owners : reject'[p] \in {reject[p], NoRun}
    /\ \A p \in Owners : \A r \in todo'[p] : HasStarted(r)
    /\ \A p \in Owners : inner'[p].state = "pending" => Yielded(inner'[p]) \in Contents

\* Claims survive a step that writes to a run nobody else has claimed.
LEMMA ClaimsKept ==
    ASSUME CoordinatorInv, NoNewClaim, NEW r, Grows(r),
           \A p \in Owners : start'[p].pc = "begin" => start'[p].run # r,
           \A p \in Owners : reject'[p] # NoRun => reject'[p] # r,
           \A l \in lease' : l \in lease \/ ~RejectedInput(l.run)'
    PROVE  ClaimInv'
<1>0. ClaimInv BY DEF CoordinatorInv
<1>1. BeginIsFresh' BY <1>0, GrowthKeeps DEF ClaimInv, NoNewClaim, BeginIsFresh
<1>2. ResumeIsRun' BY <1>0, GrowthKeeps DEF ClaimInv, NoNewClaim, ResumeIsRun
<1>3. RejectIsOwn' BY <1>0, GrowthKeeps DEF ClaimInv, NoNewClaim, RejectIsOwn
<1>4. LeaseIsRun' BY <1>0, GrowthKeeps DEF ClaimInv, LeaseIsRun
<1>5. TodoIsStarted' BY <1>0, GrowthKeeps DEF ClaimInv, NoNewClaim, TodoIsStarted
<1>6. PendingIsContent' BY DEF NoNewClaim, PendingIsContent
<1> QED BY <1>1, <1>2, <1>3, <1>4, <1>5, <1>6 DEF ClaimInv

\* The journal step of a run that is no record of a rejected input.
RunStep ==
    /\ lease' \subseteq lease
    /\ \E r \in Runs : HasHistory(r) /\ ~RejectedInput(r) /\ Grows(r)

\* In particular a step of a run that has events already.
LEMMA RunStepKeepsClaims ==
    ASSUME CoordinatorInv, NoNewClaim, RunStep \/ (UNCHANGED events /\ lease' \subseteq lease)
    PROVE  ClaimInv'
<1>0. ClaimInv /\ NoRun \notin Runs BY CoordinatorAssumption DEF CoordinatorInv
<1>1. CASE RunStep
 <2>1. PICK r \in Runs : HasHistory(r) /\ ~RejectedInput(r) /\ Grows(r) BY <1>1 DEF RunStep
 <2>2. \A p \in Owners : start'[p].pc = "begin" => start'[p].run # r
   BY <1>0, <2>1 DEF ClaimInv, BeginIsFresh, NoNewClaim
 <2>3. \A p \in Owners : reject'[p] # NoRun => reject'[p] # r
   BY <1>0, <2>1 DEF ClaimInv, RejectIsOwn, NoNewClaim
 <2>4. \A l \in lease' : l \in lease BY <1>1 DEF RunStep
 <2> QED BY <2>1, <2>2, <2>3, <2>4, ClaimsKept
<1>2. CASE UNCHANGED events /\ lease' \subseteq lease
 <2>1. Grows(NoRun) BY <1>2, NoGrowth
 <2>2. \A p \in Owners : start'[p].pc = "begin" => start'[p].run # NoRun
   BY <1>0 DEF ClaimInv, BeginIsFresh, NoNewClaim
 <2> QED BY <1>2, <2>1, <2>2, ClaimsKept
<1> QED BY <1>1, <1>2

\* Whoever presents the lease takes a step the journal allows.
LEMMA FencedStep ==
    ASSUME CoordinatorInv, NEW r, NEW o, NEW t,
           \/ \E c \in Contents : c.kind # "terminal" /\ AppendFenced(r, o, t, c)
           \/ \E s \in Statuses : AppendTerminalAndRelease(r, o, t, s)
           \/ ReleaseRunLease(r, o, t)
    PROVE  JournalNext /\ RunStep
<1> DEFINE l == LeaseRow(r, o, t)
<1>1. l \in lease /\ l.run = r /\ l.owner = o /\ l.token = t
  BY DEF AppendFenced, AppendTerminalAndRelease, ReleaseRunLease, Fenced, LeaseRow
<1> HIDE DEF l
<1>2. r \in Runs /\ t \in Nat /\ events \in Seq(EventRecord) /\ JournalInv
  BY <1>1 DEF CoordinatorInv, JournalInv, JournalTypeOK, EventRecord
<1>3. JournalNext BY <1>1 DEF JournalNext
<1>4. HasHistory(r) /\ ~RejectedInput(r)
  BY <1>1 DEF CoordinatorInv, ClaimInv, LeaseIsRun, RejectedInput, HasHistory
<1>5. lease' \subseteq lease BY DEF AppendFenced, AppendTerminalAndRelease, ReleaseRunLease
<1>6. Grows(r)
 <2>1. ASSUME NEW c \in Contents, AppendFenced(r, o, t, c) PROVE Grows(r)
  <3>1. /\ Event(r, c.kind, c.info, t) \in EventRecord /\ Event(r, c.kind, c.info, t).run = r
        /\ events' = Append(events, Event(r, c.kind, c.info, t))
    BY <1>2, <2>1 DEF AppendFenced, Event, EventRecord, Contents, Kinds, Infos
  <3> QED BY <1>2, <3>1, AppendGrows
 <2>2. ASSUME NEW s \in Statuses, AppendTerminalAndRelease(r, o, t, s) PROVE Grows(r)
   BY <1>2, <2>2, TerminalGrows DEF AppendTerminalAndRelease
 <2>3. CASE ReleaseRunLease(r, o, t) BY <2>3, NoGrowth DEF ReleaseRunLease
 <2> QED BY <2>1, <2>2, <2>3
<1> QED BY <1>2, <1>3, <1>4, <1>5, <1>6 DEF RunStep

\* _persist of an event of the stream is such a step.
LEMMA PersistEventStep ==
    ASSUME CoordinatorInv, NEW r, NEW p, NEW t, NEW c \in Contents, PersistEvent(r, p, t, c)
    PROVE  JournalNext /\ RunStep
<1>1. c.kind = "terminal" => c.info \in Statuses BY DEF Contents
<1> QED BY <1>1, FencedStep DEF PersistEvent

\* A call that raises leaves the journal alone.
LEMMA RaisesStep ==
    ASSUME NEW r, NEW p, NEW t, Raises(r, p, t) \/ Fault
    PROVE  UNCHANGED journalVars BY DEF Raises, Fault

--------------------
(* Every step of an instance is a step of the journal, or none, and keeps
   the claims. *)

Sound == [JournalNext]_journalVars /\ ClaimInv'

\* A step without a new claim is sound if its journal step is.
LEMMA QuietStep ==
    ASSUME CoordinatorInv, NoNewClaim, UNCHANGED journalVars \/ (JournalNext /\ RunStep)
    PROVE  Sound BY RunStepKeepsClaims DEF Sound, journalVars

\* An action that touches none of the claims.
LEMMA SameClaims ==
    ASSUME CoordinatorInv, UNCHANGED <<start, reject, todo, inner>>
    PROVE  NoNewClaim BY DEF CoordinatorInv, ClaimInv, NoNewClaim, TodoIsStarted, PendingIsContent

\* Boot, crash and shutdown are sound.
LEMMA InstanceSound ==
    ASSUME CoordinatorInv, NEW p \in Owners, Boot(p) \/ Crash(p) \/ ShutdownBegin(p)
    PROVE  Sound
<1>1. UNCHANGED journalVars BY DEF Boot, Crash, ShutdownBegin
<1>2. CASE Boot(p) \/ ShutdownBegin(p) BY <1>1, <1>2, SameClaims, QuietStep DEF Boot, ShutdownBegin
<1>3. CASE Crash(p)
 <2>1. /\ start \in StartType /\ reject \in RejectType /\ todo \in TodoType /\ inner \in InnerType
   BY DEF CoordinatorInv, ProcTypeOK
 <2>2. /\ start' = [start EXCEPT ![p] = NoJob] /\ reject' = [reject EXCEPT ![p] = NoRun]
       /\ todo' = [todo EXCEPT ![p] = {}] /\ inner' = [inner EXCEPT ![p] = NoEvent]
   BY <1>3 DEF Crash
 <2>3. NoJob.pc \notin {"begin", "resume"} /\ NoEvent.state # "pending" BY DEF NoJob, NoEvent
 <2>4. NoNewClaim
   BY <2>1, <2>2, <2>3 DEF NoNewClaim, CoordinatorInv, ClaimInv, TodoIsStarted, PendingIsContent,
                           StartType, RejectType, TodoType, InnerType
 <2> QED BY <1>1, <2>4, QuietStep
<1> QED BY <1>2, <1>3

\* Taking the lease from a dead owner.
LEMMA RecoverDeadLeaseStep ==
    ASSUME CoordinatorInv, RecoverDeadLease
    PROVE  JournalNext /\ RunStep
<1>1. PICK l \in lease :
         /\ events' = IF HasUnresolvedApproval(l.run) THEN events
                      ELSE WithTerminal(l.run, "interrupted", 0)
         /\ lease' = {} BY DEF RecoverDeadLease
<1>2. JournalInv /\ l.run \in Runs /\ ~RejectedInput(l.run) /\ HasHistory(l.run)
  BY <1>1 DEF CoordinatorInv, ClaimInv, LeaseIsRun, JournalInv, JournalTypeOK,
              RejectedInput, HasHistory
<1>3. Grows(l.run) BY <1>1, <1>2, NoGrowth, TerminalGrows DEF Statuses
<1> QED BY <1>1, <1>2, <1>3 DEF JournalNext, RunStep

\* Recovery closes started runs only.
LEMMA CloseStep ==
    ASSUME CoordinatorInv, NEW r \in Runs, HasStarted(r), CloseUnleased(r, "interrupted")
    PROVE  JournalNext /\ RunStep
<1>1. Grows(r) BY TerminalGrows DEF CoordinatorInv, CloseUnleased, Statuses
<1>2. HasHistory(r) /\ ~RejectedInput(r) BY DEF HasStarted, HasHistory, Of, RejectedInput
<1> QED BY <1>1, <1>2 DEF JournalNext, RunStep, CloseUnleased

\* hydrate and recover_interrupted_runs are sound, also when they fail halfway.
LEMMA RecoverySound ==
    ASSUME CoordinatorInv, NEW p \in Owners, Recovery(p) \/ RecoveryFails(p)
    PROVE  Sound
<1>0. /\ todo \in [Owners -> SUBSET Runs] /\ \A q \in Owners : \A r \in todo[q] : HasStarted(r)
  BY DEF CoordinatorInv, ProcTypeOK, TodoType, ClaimInv, TodoIsStarted
<1>1. UNCHANGED <<start, reject, inner>>
  BY DEF Recovery, RecoverLease, ListUnfinished, RecoverCheck, RecoverClose, RecoveryFails
<1>2. \A q \in Owners : \A r \in todo'[q] : HasStarted(r)
  BY <1>0 DEF Recovery, RecoverLease, ListUnfinished, RecoverCheck, RecoverClose, RecoveryFails,
              UnfinishedRuns
<1>3. NoNewClaim BY <1>1, <1>2 DEF NoNewClaim, CoordinatorInv, ClaimInv, PendingIsContent
<1>4. CASE RecoverLease(p) BY <1>3, <1>4, RecoverDeadLeaseStep, QuietStep DEF RecoverLease
<1>5. CASE ListUnfinished(p) \/ RecoverCheck(p) \/ RecoveryFails(p)
  BY <1>3, <1>5, QuietStep DEF ListUnfinished, RecoverCheck, RecoveryFails, Fault
<1>6. CASE RecoverClose(p) BY <1>0, <1>3, <1>6, CloseStep, QuietStep DEF RecoverClose
<1> QED BY <1>4, <1>5, <1>6 DEF Recovery

\* Giving up, or finishing, a start makes no claim.
LEMMA IdleClaims ==
    ASSUME CoordinatorInv, NEW p \in Owners, Idle(p), UNCHANGED <<reject, todo, inner>>
    PROVE  NoNewClaim
<1>1. start' = [start EXCEPT ![p] = NoJob] /\ start \in [Owners -> Job(StartPCs)]
  BY DEF Idle, CoordinatorInv, ProcTypeOK, StartType
<1> QED BY <1>1 DEF NoNewClaim, NoJob, CoordinatorInv, ClaimInv, TodoIsStarted, PendingIsContent

\* _begin_run: the identifier is fresh, and stays out of every other claim.
LEMMA BeginSound ==
    ASSUME CoordinatorInv, NEW p \in Owners, Begin(p)
    PROVE  Sound
<1>run. PICK r : r = start[p].run OBVIOUS
<1>0. /\ start[p].pc = "begin" /\ r \in Runs /\ ~HasHistory(r)
      /\ BeginIsFresh /\ RejectIsOwn /\ JournalInv
      /\ start \in [Owners -> Job(StartPCs)] /\ UNCHANGED <<reject, todo, inner>>
  BY <1>run DEF Begin, CoordinatorInv, ClaimInv, BeginIsFresh, ProcTypeOK, StartType
<1>1. CASE UNCHANGED journalVars /\ Idle(p) BY <1>0, <1>1, IdleClaims, QuietStep
<1>2. CASE BeginRun(r, p) /\ start' = [start EXCEPT ![p].pc = "begun", ![p].token = nextToken]
 <2>1. JournalNext BY <1>0, <1>2 DEF JournalNext
 <2>2. start'[p].pc = "begun" /\ \A q \in Owners : q # p => start'[q] = start[q]
   BY <1>0, <1>2 DEF Job
 <2>3. NoNewClaim
   BY <1>0, <2>2 DEF NoNewClaim, CoordinatorInv, ClaimInv, TodoIsStarted, PendingIsContent
 <2> DEFINE e == Event(r, "started", "none", nextToken)
 <2>4. /\ e \in EventRecord /\ e.run = r /\ e.kind = "started"
       /\ events' = Append(events, e) /\ lease' = {LeaseRow(r, p, nextToken)}
   BY <1>0, <1>2 DEF BeginRun, Event, EventRecord, Kinds, Infos, JournalInv, JournalTypeOK
 <2> HIDE DEF e
 <2>5. events \in Seq(EventRecord) BY <1>0 DEF JournalInv, JournalTypeOK, EventRecord
 <2>6. Grows(r) BY <2>4, <2>5, AppendGrows
 <2>7. \A q \in Owners : start'[q].pc = "begin" => start'[q].run # r
   BY <1>run, <1>0, <2>2 DEF BeginIsFresh
 <2>8. \A q \in Owners : reject'[q] # NoRun => reject'[q] # r BY <1>0 DEF RejectIsOwn
 <2>9. ~RejectedInput(r)' BY <2>4, <2>5, AppendFacts DEF RejectedInput
 <2>10. \A l \in lease' : ~RejectedInput(l.run)' BY <2>4, <2>9 DEF LeaseRow
 <2> QED BY <2>1, <2>3, <2>6, <2>7, <2>8, <2>10, ClaimsKept DEF Sound
<1> QED BY <1>run, <1>1, <1>2 DEF Begin, Fault

\* start_existing_run: the lease goes to a run, not to a rejected input.
LEMMA ResumeSound ==
    ASSUME CoordinatorInv, NEW p \in Owners, Resume(p)
    PROVE  Sound
<1>run. PICK r : r = start[p].run OBVIOUS
<1>0. /\ r \in Runs /\ ~RejectedInput(r) /\ NoRun \notin Runs /\ BeginIsFresh
      /\ start \in [Owners -> Job(StartPCs)] /\ UNCHANGED <<reject, todo, inner>>
  BY <1>run, CoordinatorAssumption
     DEF Resume, CoordinatorInv, ClaimInv, ResumeIsRun, ProcTypeOK, StartType
<1>1. CASE UNCHANGED journalVars /\ Idle(p) BY <1>0, <1>1, IdleClaims, QuietStep
<1>2. CASE ResumeRun(r, p) /\ start' = [start EXCEPT ![p].pc = "resumed", ![p].token = nextToken]
 <2>1. JournalNext BY <1>0, <1>2 DEF JournalNext
 <2>2. start'[p].pc = "resumed" /\ \A q \in Owners : q # p => start'[q] = start[q]
   BY <1>0, <1>2 DEF Job
 <2>3. NoNewClaim
   BY <1>0, <2>2 DEF NoNewClaim, CoordinatorInv, ClaimInv, TodoIsStarted, PendingIsContent
 <2>4. Grows(NoRun) BY <1>2, NoGrowth DEF ResumeRun
 <2>5. \A q \in Owners : start'[q].pc = "begin" => start'[q].run # NoRun
   BY <1>0, <2>2 DEF BeginIsFresh
 <2>6. \A l \in lease' : ~RejectedInput(l.run)'
  <3>1. lease' = {LeaseRow(r, p, nextToken)} BY <1>2 DEF ResumeRun
  <3>2. ~RejectedInput(r)' BY <1>0, <1>2 DEF ResumeRun, RejectedInput
  <3> QED BY <3>1, <3>2 DEF LeaseRow
 <2> QED BY <2>1, <2>3, <2>4, <2>5, <2>6, ClaimsKept DEF Sound
<1> QED BY <1>run, <1>1, <1>2 DEF Resume, Fault

\* start_run and start_existing_run are sound, also when their caller is cancelled.
LEMMA StartingSound ==
    ASSUME CoordinatorInv, NEW p \in Owners, Starting(p)
    PROVE  Sound
<1>1. CASE StartOwn(p) BY <1>1, IdleClaims, QuietStep DEF StartOwn
<1>2. CASE StartAbort(p)
 <2>1. NoNewClaim BY <1>2, IdleClaims DEF StartAbort
 <2>2. UNCHANGED journalVars \/ (JournalNext /\ RunStep)
   BY <1>2, FencedStep, RaisesStep DEF StartAbort, Statuses
 <2> QED BY <2>1, <2>2, QuietStep
<1> QED BY <1>1, <1>2, BeginSound, ResumeSound DEF Starting

\* Settling, dropping or keeping the event of a shielded _persist.
LEMMA InnerClaims ==
    ASSUME CoordinatorInv, UNCHANGED <<start, reject, todo>>,
           \A q \in Owners : inner'[q] = inner[q] \/ inner'[q].state # "pending"
    PROVE  NoNewClaim BY DEF CoordinatorInv, ClaimInv, NoNewClaim, TodoIsStarted, PendingIsContent

\* The _consume task and whatever it leaves behind write under the lease or not at all.
LEMMA ConsumingSound ==
    ASSUME CoordinatorInv, NEW p \in Owners, Consuming(p)
    PROVE  Sound
<1>0. /\ inner \in [Owners -> InnerRecord] /\ NoEvent.state # "pending"
      /\ {"completed", "error", "cancelled"} \subseteq Statuses
      /\ [kind |-> "note", info |-> "none"] \in Contents
      /\ PendingIsContent /\ orphans[p] \subseteq OrphanRecord
  BY EntryTypes DEF CoordinatorInv, ProcTypeOK, InnerType, NoEvent, Statuses, Contents, ClaimInv
<1>1. CASE TaskBegin(p) \/ Final(p) BY <1>1, SameClaims, QuietStep DEF TaskBegin, Final
<1>2. CASE InnerCommit(p)
 <2>1. NoNewClaim
  <3>1. PICK st \in {"stored", "raised"} :
           inner' = [inner EXCEPT ![p] =
                       IF task[p].pc = "persist" THEN [inner[p] EXCEPT !.state = st] ELSE NoEvent]
    BY <1>2 DEF InnerCommit
  <3>2. inner'[p].state # "pending" /\ \A q \in Owners : q # p => inner'[q] = inner[q]
    BY <1>0, <3>1 DEF InnerRecord
  <3>3. UNCHANGED <<start, reject, todo>> BY <1>2 DEF InnerCommit
  <3> QED BY <3>2, <3>3, InnerClaims
 <2>2. Yielded(inner[p]) \in Contents BY <1>0, <1>2 DEF InnerCommit, PendingIsContent
 <2>3. UNCHANGED journalVars \/ (JournalNext /\ RunStep)
   BY <1>2, <2>2, PersistEventStep, RaisesStep DEF InnerCommit, Yielded
 <2> QED BY <2>1, <2>3, QuietStep
<1>3. CASE PersistReturn(p)
 <2>1. NoNewClaim BY <1>0, <1>3, InnerClaims DEF PersistReturn
 <2> QED BY <1>3, <2>1, QuietStep DEF PersistReturn
<1>4. CASE CompletePersist(p) \/ FailPersist(p) \/ SuspendCleanup(p)
 <2>1. NoNewClaim BY <1>4, SameClaims DEF CompletePersist, FailPersist, SuspendCleanup
 <2>2. UNCHANGED journalVars \/ (JournalNext /\ RunStep) BY <1>0, <1>4, FencedStep, RaisesStep
      DEF CompletePersist, FailPersist, SuspendCleanup, PersistTerminal, TaskRaises
 <2> QED BY <2>1, <2>2, QuietStep
<1>5. CASE CancelCleanup(p)
 <2>1. NoNewClaim BY <1>5, SameClaims DEF CancelCleanup
 <2>2. UNCHANGED journalVars \/ (JournalNext /\ RunStep)
   BY <1>0, <1>5, PersistEventStep, FencedStep, RaisesStep
      DEF CancelCleanup, PersistTerminal, TaskRaises
 <2> QED BY <2>1, <2>2, QuietStep
<1>6. CASE OrphanCommit(p)
 <2>1. NoNewClaim BY <1>6, SameClaims DEF OrphanCommit
 <2>2. \A o \in orphans[p] : o.status \in Statuses BY <1>0 DEF OrphanRecord
 <2>3. UNCHANGED journalVars \/ (JournalNext /\ RunStep)
   BY <1>6, <2>2, FencedStep, RaisesStep DEF OrphanCommit
 <2> QED BY <2>1, <2>3, QuietStep
<1> QED BY <1>1, <1>2, <1>3, <1>4, <1>5, <1>6 DEF Consuming

\* task.cancel() keeps or drops the shielded write, never makes one.
LEMMA InterruptClaims ==
    ASSUME CoordinatorInv, NEW p \in Owners, Interrupt(p), UNCHANGED <<start, reject, todo>>
    PROVE  NoNewClaim
<1>1. /\ inner \in [Owners -> InnerRecord] /\ NoEvent.state # "pending"
      /\ inner' = [inner EXCEPT ![p] = IF inner[p].state = "pending" THEN inner[p] ELSE NoEvent]
  BY DEF CoordinatorInv, ProcTypeOK, InnerType, NoEvent, Interrupt
<1> QED BY <1>1, InnerClaims

\* cancel(), the stop endpoint and _shutdown_run are sound.
LEMMA StoppingSound ==
    ASSUME CoordinatorInv, NEW p \in Owners, Stopping(p) \/ StopRequest(p)
    PROVE  Sound
<1>1. CASE StopRequest(p) \/ ShutdownSuspend(p) \/ ShutdownCancel(p)
 <2>1. NoNewClaim BY <1>1, InterruptClaims DEF StopRequest, ShutdownSuspend, ShutdownCancel, StopRun
 <2> QED BY <1>1, <2>1, QuietStep DEF StopRequest, ShutdownSuspend, ShutdownCancel
<1>2. CASE StopCheck(p) \/ StopClear(p) \/ ShutdownDecide(p) \/ SuspendClear(p)
  BY <1>2, SameClaims, QuietStep DEF StopCheck, StopClear, ShutdownDecide, SuspendClear, Fault
<1>3. CASE StopPersist(p)
 <2>1. NoNewClaim BY <1>3, SameClaims DEF StopPersist
 <2>2. UNCHANGED journalVars \/ (JournalNext /\ RunStep)
   BY <1>3, FencedStep, RaisesStep DEF StopPersist, Statuses
 <2> QED BY <2>1, <2>2, QuietStep
<1> QED BY <1>1, <1>2, <1>3 DEF Stopping

--------------------
(* The requests that make a claim. *)

\* start_run draws a fresh identifier.
LEMMA StartCheckSound ==
    ASSUME CoordinatorInv, NEW p \in Owners, NEW r \in Runs, StartCheck(p, r)
    PROVE  Sound
<1>1. /\ start' = [start EXCEPT ![p] = [pc |-> "begin", run |-> r, token |-> 0]]
      /\ start \in [Owners -> Job(StartPCs)] /\ UNCHANGED <<journalVars, reject, todo, inner>>
      /\ ~HasHistory(r) /\ \A q \in Owners : start[q].run # r
  BY DEF StartCheck, CoordinatorInv, ProcTypeOK, StartType, Fresh, Reserved
<1>2. /\ start'[p].pc = "begin" /\ start'[p].run = r
      /\ \A q \in Owners : q # p => start'[q] = start[q] BY <1>1
<1>3. BeginIsFresh'
  BY <1>1, <1>2 DEF CoordinatorInv, ClaimInv, BeginIsFresh, journalVars, HasHistory
<1>4. ResumeIsRun' /\ LeaseIsRun'
  BY <1>1, <1>2 DEF CoordinatorInv, ClaimInv, ResumeIsRun, LeaseIsRun, journalVars, RejectedInput
<1>5. RejectIsOwn' /\ TodoIsStarted' /\ PendingIsContent'
  BY <1>1 DEF CoordinatorInv, ClaimInv, RejectIsOwn, TodoIsStarted, PendingIsContent, journalVars,
              HasHistory, HasStarted, Of, RejectedInput
<1> QED BY <1>1, <1>3, <1>4, <1>5 DEF Sound, ClaimInv

\* An approval belongs to a run, not to a rejected input.
LEMMA RespondCheckSound ==
    ASSUME CoordinatorInv, NEW p \in Owners, NEW r \in Runs, RespondCheck(p, r)
    PROVE  Sound
<1>1. /\ start' = [start EXCEPT ![p] = [pc |-> "resume", run |-> r, token |-> 0]]
      /\ start \in [Owners -> Job(StartPCs)] /\ UNCHANGED <<journalVars, reject, todo, inner>>
      /\ RecoverableApproval(r) BY DEF RespondCheck, CoordinatorInv, ProcTypeOK, StartType
<1>2. /\ start'[p].pc = "resume" /\ start'[p].run = r
      /\ \A q \in Owners : q # p => start'[q] = start[q] BY <1>1
<1>3. ~RejectedInput(r) BY <1>1 DEF RecoverableApproval, Of, RejectedInput
<1>4. BeginIsFresh'
  BY <1>1, <1>2 DEF CoordinatorInv, ClaimInv, BeginIsFresh, journalVars, HasHistory
<1>5. ResumeIsRun' /\ LeaseIsRun' BY <1>1, <1>2, <1>3
     DEF CoordinatorInv, ClaimInv, ResumeIsRun, LeaseIsRun, journalVars, RejectedInput
<1>6. RejectIsOwn' /\ TodoIsStarted' /\ PendingIsContent'
  BY <1>1 DEF CoordinatorInv, ClaimInv, RejectIsOwn, TodoIsStarted, PendingIsContent, journalVars,
              HasHistory, HasStarted, Of, RejectedInput
<1> QED BY <1>1, <1>4, <1>5, <1>6 DEF Sound, ClaimInv

\* The first note of a rejected input goes to a fresh identifier.
LEMMA RejectBeginSound ==
    ASSUME CoordinatorInv, NEW p \in Owners, NEW r \in Runs, RejectBegin(p, r)
    PROVE  Sound
<1> DEFINE e == Event(r, "note", "none", 0)
<1>0. ClaimInv /\ events \in Seq(EventRecord)
  BY DEF CoordinatorInv, JournalInv, JournalTypeOK, EventRecord
<1>1. /\ e \in EventRecord /\ e.run = r /\ e.kind = "note" /\ e.token = 0
      /\ events' = Append(events, e) /\ UNCHANGED <<lease, start, todo, inner>>
      /\ AppendUnfenced(r) /\ ~HasHistory(r) /\ \A q \in Owners : start[q].run # r
      /\ reject \in [Owners -> Runs \cup {NoRun}] /\ reject' = [reject EXCEPT ![p] = r]
  BY DEF RejectBegin, AppendUnfenced, Event, EventRecord, Kinds, Infos, Fresh, Reserved,
         CoordinatorInv, ProcTypeOK, RejectType
<1> HIDE DEF e
<1>2. Grows(r) BY <1>0, <1>1, AppendGrows
<1>3. HasHistory(r)' /\ RejectedInput(r)' /\ RejectedInput(r)
  BY <1>0, <1>1, AppendFacts DEF HasHistory, RejectedInput
<1>4. BeginIsFresh' BY <1>0, <1>1, <1>2, GrowthKeeps DEF ClaimInv, BeginIsFresh
<1>5. ResumeIsRun' /\ LeaseIsRun'
  BY <1>0, <1>1, <1>2, GrowthKeeps DEF ClaimInv, ResumeIsRun, LeaseIsRun
<1>6. RejectIsOwn'
 <2>1. \A q \in Owners : reject[q] # r \/ reject[q] = NoRun BY <1>0, <1>1 DEF ClaimInv, RejectIsOwn
 <2>2. reject'[p] = r /\ \A q \in Owners : q # p => reject'[q] = reject[q] BY <1>1
 <2>3. r # NoRun BY CoordinatorAssumption
 <2> QED BY <1>0, <1>2, <1>3, <2>1, <2>2, <2>3, GrowthKeeps DEF ClaimInv, RejectIsOwn
<1>7. TodoIsStarted' /\ PendingIsContent'
  BY <1>0, <1>1, <1>2, GrowthKeeps DEF ClaimInv, TodoIsStarted, PendingIsContent
<1>8. JournalNext BY <1>1, <1>3 DEF JournalNext
<1> QED BY <1>4, <1>5, <1>6, <1>7, <1>8 DEF Sound, ClaimInv

\* Its terminal goes to the record of that input.
LEMMA RejectEndSound ==
    ASSUME CoordinatorInv, NEW p \in Owners, RejectEnd(p)
    PROVE  Sound
<1>1. PICK r : r = reject[p] OBVIOUS
<1>2. /\ r \in Runs /\ HasHistory(r) /\ RejectedInput(r) /\ AppendTerminalOnce(r, "error")
      /\ reject \in [Owners -> Runs \cup {NoRun}] /\ reject' = [reject EXCEPT ![p] = NoRun]
      /\ UNCHANGED <<lease, start, todo, inner>> /\ ClaimInv /\ JournalInv
  BY <1>1 DEF RejectEnd, AppendTerminalOnce, CoordinatorInv, ClaimInv, RejectIsOwn,
              ProcTypeOK, RejectType
<1>3. JournalNext BY <1>2 DEF JournalNext
<1>4. Grows(r) BY <1>2, TerminalGrows DEF AppendTerminalOnce, Statuses
<1>5. reject'[p] = NoRun /\ \A q \in Owners : q # p => reject'[q] = reject[q] BY <1>2
<1>6. NoNewClaim BY <1>2, <1>5 DEF NoNewClaim, ClaimInv, TodoIsStarted, PendingIsContent
<1>7. \A q \in Owners : start'[q].pc = "begin" => start'[q].run # r
  BY <1>2 DEF ClaimInv, BeginIsFresh
<1>8. \A q \in Owners : reject'[q] # NoRun => reject'[q] # r
  BY <1>1, <1>2, <1>5 DEF ClaimInv, RejectIsOwn
<1> QED BY <1>2, <1>3, <1>4, <1>6, <1>7, <1>8, ClaimsKept DEF Sound

\* Requests and the event stream are sound.
LEMMA RequestsSound ==
    ASSUME CoordinatorInv, NEW p \in Owners, Requests(p)
    PROVE  Sound
<1>1. ASSUME NEW c \in Contents, StreamYield(p, c) PROVE Sound
 <2>1. Yielded(c) \in Contents BY DEF Yielded, Contents
 <2>2. /\ inner \in [Owners -> InnerRecord] /\ UNCHANGED <<start, reject, todo>>
       /\ inner' = [inner EXCEPT ![p] = [state |-> "pending", run |-> task[p].run,
                       token |-> task[p].token, kind |-> c.kind, info |-> c.info]]
   BY <1>1 DEF StreamYield, CoordinatorInv, ProcTypeOK, InnerType
 <2>3. /\ Yielded(inner'[p]) = Yielded(c)
       /\ \A q \in Owners : q # p => inner'[q] = inner[q] BY <2>2 DEF Yielded
 <2>4. NoNewClaim
   BY <2>1, <2>2, <2>3 DEF CoordinatorInv, ClaimInv, NoNewClaim, TodoIsStarted, PendingIsContent
 <2> QED BY <1>1, <2>4, QuietStep DEF StreamYield
<1>2. CASE StreamEnd(p) BY <1>2, SameClaims, QuietStep DEF StreamEnd
<1> QED BY <1>1, <1>2, StartCheckSound, RespondCheckSound, RejectBeginSound, RejectEndSound,
           StoppingSound, InstanceSound DEF Requests

--------------------
\* The inductive invariant holds when nothing has been recorded.
LEMMA CoordinatorInitInv == Init => CoordinatorInv /\ JournalInit
<1> SUFFICES ASSUME Init PROVE CoordinatorInv /\ JournalInit OBVIOUS
<1>1. JournalInit /\ JournalInv BY JournalInitInv DEF Init
<1>2. ProcTypeOK
 <2>1. start \in StartType /\ task \in TaskType /\ stop \in StopType /\ inner \in InnerType
   BY EmptyRecords DEF Init, StartType, TaskType, StopType, InnerType
 <2> QED BY <2>1 DEF Init, ProcTypeOK, UpType, HydType, TodoType, OrphansType, SuspendType,
                     AuditType, ShutType, RejectType
<1>3. ClaimInv
  BY <1>1 DEF Init, JournalInit, ClaimInv, BeginIsFresh, ResumeIsRun, RejectIsOwn, LeaseIsRun,
              TodoIsStarted, PendingIsContent, NoJob, NoEvent
<1> QED BY <1>1, <1>2, <1>3 DEF CoordinatorInv

\* The inductive invariant is kept, and every step is a step of the journal or none.
LEMMA CoordinatorStepInv ==
    CoordinatorInv /\ [Next]_vars => CoordinatorInv' /\ [JournalNext]_journalVars
<1> SUFFICES ASSUME CoordinatorInv, [Next]_vars
             PROVE  CoordinatorInv' /\ [JournalNext]_journalVars OBVIOUS
<1>1. Sound /\ ProcTypeOK'
 <2>1. CASE UNCHANGED vars
  <3>1. UNCHANGED journalVars /\ NoNewClaim BY <2>1, SameClaims DEF vars, procVars
  <3> QED BY <2>1, <3>1, QuietStep DEF CoordinatorInv, ProcTypeOK, vars, procVars
 <2>2. CASE Next
  <3>1. PICK p \in Owners :
           \/ Boot(p) \/ Crash(p) \/ RecoveryFails(p)
           \/ Recovery(p) \/ Starting(p) \/ Consuming(p) \/ Stopping(p) \/ Requests(p)
    BY <2>2 DEF Next
  <3>2. ProcTypeOK /\ nextToken \in Nat BY DEF CoordinatorInv, JournalInv, JournalTypeOK
  <3>3. Sound BY <3>1, InstanceSound, RecoverySound, StartingSound, ConsumingSound, StoppingSound,
       RequestsSound
  <3>4. ProcTypeOK'
    BY <3>1, <3>2, InstanceTypes, RecoveryTypes, StartTypes, ConsumeTypes, StopTypes, RequestTypes
  <3> QED BY <3>3, <3>4
 <2> QED BY <2>1, <2>2
<1>2. JournalInv' BY <1>1, JournalStepInv DEF Sound, CoordinatorInv
<1> QED BY <1>1, <1>2 DEF Sound, CoordinatorInv

(* The variables of the instances and of the journal keep their types in
   every behaviour of the coordinators. *)
THEOREM CoordinatorTypes == Spec => []TypeOK
<1>1. CoordinatorInv => TypeOK BY TypeParts DEF CoordinatorInv, JournalInv
<1> QED BY <1>1, CoordinatorInitInv, CoordinatorStepInv, PTL DEF Spec

(* The coordinators use the journal as JournalSpec allows: whatever the
   interleaving, the crashes and the failed transactions, begin_run gets a
   run without events, a terminal without credentials goes only to the
   record of a rejected input or to a started run nobody leases, and
   everything else is written by the holder of the lease. *)
THEOREM CoordinatorImplementsJournal == Spec => JournalSpec
<1> QED BY CoordinatorInitInv, CoordinatorStepInv, PTL DEF Spec, JournalSpec

(* A closed run receives no event, an older token never writes after a
   newer one and the lease belongs to an open run under the newest token,
   for any number of overlapping instances (run_coordinator.py over
   session_event_journal.py). *)
THEOREM CoordinatorSafe == Spec => [](TerminalIsLast /\ TokensNeverGoBack /\ LeaseIsCurrent)
<1>1. CoordinatorInv => TerminalIsLast /\ TokensNeverGoBack /\ LeaseIsCurrent
  BY DEF CoordinatorInv, JournalInv
<1> QED BY <1>1, CoordinatorInitInv, CoordinatorStepInv, PTL DEF Spec

--------------------

\* The row of a job, were the lease that job's.
RowOf(j, p) == LeaseRow(j.run, p, j.token)

\* A started run is not yet owned by its task, or a task consumes its stream:
\* the instance believes that it holds the lease.
StartHolds(p) == start[p].pc \in {"begun", "resumed"}
Stored(p)     == inner[p].state = "stored" /\ inner[p].kind = "terminal"
TaskHolds(p)  == \/ task[p].pc \in {"new", "stream", "complete"}
                 \/ task[p].pc = "persist" /\ inner[p].state # "raised" /\ ~Stored(p)

\* Credentials a thread or a cancel() may still present.
Stale(p, t) ==
    \/ \E o \in orphans[p] : o.token = t
    \/ inner[p].state = "pending" /\ task[p].pc # "persist" /\ inner[p].token = t
    \/ stop[p].pc # "idle" /\ stop[p].token = t

\* No token has been handed out yet that is not below the next one.
Bounded(p) ==
    /\ start[p].token < nextToken /\ task[p].token < nextToken /\ stop[p].token < nextToken
    /\ inner[p].token < nextToken
    /\ \A o \in orphans[p] : o.token < nextToken

\* One run at a time, and only in an instance that is alive.
Placed(p) ==
    /\ start[p].pc = "idle" \/ task[p].pc = "idle"
    /\ start[p].pc # "idle" \/ task[p].pc # "idle" \/ stop[p].pc # "idle" => Alive(p)
    /\ shut[p] # "idle" => up[p] = "closing"
    /\ up[p] = "off" => \A l \in lease : l.owner # p

Holding(p) ==
    /\ StartHolds(p) => lease = {RowOf(start[p], p)} /\ ~Stale(p, start[p].token)
    /\ TaskHolds(p)  => lease = {RowOf(task[p], p)} /\ ~Stale(p, task[p].token)

\* The shielded write a task waits for is its own.
Persisting(p) ==
    task[p].pc = "persist" =>
        /\ inner[p].run = task[p].run /\ inner[p].token = task[p].token
        /\ Stored(p) => RowOf(task[p], p) \notin lease

\* cancel() waits for the task it has interrupted.
Waiting(p) ==
    up[p] = "up" /\ stop[p].pc = "wait" =>
        /\ task[p].pc \notin {"idle", "ended"}
        /\ stop[p].run = task[p].run /\ stop[p].token = task[p].token

\* Somebody is going to give the lease of a serving instance back.
Worked(p) ==
    faults = 0 /\ up[p] = "up" => \A l \in lease : l.owner = p =>
        \/ StartHolds(p) /\ l = RowOf(start[p], p)
        \/ /\ task[p].pc \in {"new", "stream", "persist", "complete", "fail", "cancel", "suspend"}
           /\ l = RowOf(task[p], p)
        \/ /\ stop[p].pc \in {"check", "persist"} \/ (stop[p].pc = "wait" /\ task[p].pc = "final")
           /\ l = RowOf(stop[p], p)

LeaseInvOf(p) ==
    Bounded(p) /\ Placed(p) /\ Holding(p) /\ Persisting(p) /\ Waiting(p) /\ Worked(p)
LeaseInv == \A p \in Owners : LeaseInvOf(p)

--------------------
(* Steps of one instance, seen by the others. *)

\* What an instance may do to the lease: nothing, release its own or a dead
\* owner's, or take it when it is free.
LeaseStep(p) ==
    \/ UNCHANGED <<lease, nextToken>>
    \/ lease' = {} /\ UNCHANGED nextToken /\ \A l \in lease : l.owner = p \/ ~Alive(l.owner)
    \/ /\ lease = {} /\ nextToken' = nextToken + 1
       /\ \E r : lease' = {LeaseRow(r, p, nextToken)}

\* Nothing of instance q moves.
Same(q) ==
    /\ up'[q] = up[q] /\ start'[q] = start[q] /\ task'[q] = task[q] /\ inner'[q] = inner[q]
    /\ orphans'[q] = orphans[q] /\ stop'[q] = stop[q] /\ shut'[q] = shut[q]

Local(p) ==
    /\ LeaseStep(p)
    /\ faults' = 0 => faults = 0
    /\ \A q \in Owners : q # p => Same(q)

\* The numbers the tokens are compared with.
LEMMA TokenTypes ==
    ASSUME CoordinatorInv, NEW p \in Owners
    PROVE  /\ nextToken \in Nat \ {0} /\ start[p].token \in Nat /\ task[p].token \in Nat
           /\ stop[p].token \in Nat /\ inner[p].token \in Nat
           /\ \A o \in orphans[p] : o.token \in Nat
<1>1. JournalTypeOK /\ ProcTypeOK BY DEF CoordinatorInv, JournalInv
<1> QED BY <1>1, EntryTypes DEF JournalTypeOK, Job, InnerRecord, OrphanRecord

\* An instance that does nothing keeps what it holds.
LEMMA OthersKeep ==
    ASSUME CoordinatorInv, LeaseInv, NEW p \in Owners, LeaseStep(p), faults' = 0 => faults = 0,
           NEW q \in Owners, q # p, Same(q)
    PROVE  LeaseInvOf(q)'
<1>1. /\ Bounded(q) /\ Placed(q) /\ Holding(q) /\ Persisting(q) /\ Waiting(q) /\ Worked(q)
      /\ Alive(q)' = Alive(q) /\ StartHolds(q)' = StartHolds(q) /\ TaskHolds(q)' = TaskHolds(q)
      /\ Stored(q)' = Stored(q) /\ RowOf(task[q], q)' = RowOf(task[q], q)
      /\ RowOf(start[q], q)' = RowOf(start[q], q) /\ RowOf(stop[q], q)' = RowOf(stop[q], q)
  BY DEF LeaseInv, LeaseInvOf, Same, Alive, StartHolds, TaskHolds, Stored, RowOf, LeaseRow
<1>2. ASSUME NEW t PROVE Stale(q, t)' <=> Stale(q, t) BY DEF Same, Stale
<1>3. Bounded(q)'
 <2>1. nextToken' \in {nextToken, nextToken + 1} BY DEF LeaseStep
 <2> QED BY <1>1, <2>1, TokenTypes DEF Bounded, Same
<1>4. \A l \in lease' : l.owner = q => l \in lease BY DEF LeaseStep, LeaseRow
<1>5. Placed(q)' BY <1>1, <1>4 DEF Placed, Same
<1>6. ASSUME StartHolds(q) \/ TaskHolds(q) PROVE UNCHANGED lease
 <2>1. Alive(q) /\ \E l \in lease : l.owner = q
   BY <1>1, <1>6 DEF Placed, Holding, StartHolds, TaskHolds, RowOf, LeaseRow
 <2>2. lease # {} /\ ~ \A l \in lease : l.owner = p \/ ~Alive(l.owner) BY <2>1 DEF Alive
 <2> QED BY <2>2 DEF LeaseStep
<1>7. Holding(q)' BY <1>1, <1>2, <1>6 DEF Holding, Same
<1>8. RowOf(task[q], q).owner = q BY DEF RowOf, LeaseRow
<1>9. Persisting(q)' BY <1>1, <1>4, <1>8 DEF Persisting, Same
<1>10. Waiting(q)' BY <1>1 DEF Waiting, Same
<1>11. Worked(q)' BY <1>1, <1>4 DEF Worked, Same
<1> QED BY <1>3, <1>5, <1>7, <1>9, <1>10, <1>11 DEF LeaseInvOf

\* So it is enough to look at the instance that moves.
LEMMA LocalSteps ==
    ASSUME CoordinatorInv, LeaseInv, NEW p \in Owners, Local(p), LeaseInvOf(p)'
    PROVE  LeaseInv'
<1>1. ASSUME NEW q \in Owners PROVE LeaseInvOf(q)' BY OthersKeep DEF Local
<1> QED BY <1>1 DEF LeaseInv

\* Where a step takes the task of its instance.
LEMMA StepMoves ==
    ASSUME ProcTypeOK, NEW p \in Owners, NEW pc, Step(p, pc)
    PROVE  /\ task'[p].pc = pc /\ task'[p].run = task[p].run /\ task'[p].token = task[p].token
           /\ \A q \in Owners : q # p => task'[q] = task[q]
<1>1. task \in [Owners -> Job(TaskPCs)] /\ task[p] \in Job(TaskPCs) BY DEF ProcTypeOK, TaskType
<1> QED BY <1>1 DEF Step, Job

\* A transaction that presents credentials: the row is the only one.
LEMMA FencedLease ==
    ASSUME CoordinatorInv, NEW r, NEW p, NEW t, Fenced(r, p, t)
    PROVE  lease = {LeaseRow(r, p, t)} /\ LeaseRow(r, p, t).owner = p
  BY DEF CoordinatorInv, JournalInv, OneRow, Fenced, LeaseRow

\* A terminal or a release deletes it.
LEMMA ReleasedLease ==
    ASSUME CoordinatorInv, NEW r, NEW p, NEW t,
           (\E s \in Statuses : AppendTerminalAndRelease(r, p, t, s)) \/ ReleaseRunLease(r, p, t)
    PROVE  Fenced(r, p, t) /\ lease' = {} /\ UNCHANGED nextToken /\ LeaseStep(p)
<1>1. Fenced(r, p, t) /\ lease' = {l \in lease : l.run # r} /\ UNCHANGED nextToken
  BY DEF AppendTerminalAndRelease, ReleaseRunLease
<1>2. lease' = {} BY <1>1, FencedLease DEF LeaseRow
<1> QED BY <1>1, <1>2, FencedLease DEF LeaseStep

\* A call that raises, with no transaction having failed, has presented
\* credentials that are not valid.
LEMMA RaisedLease ==
    ASSUME NEW r, NEW p, NEW t, Raises(r, p, t), faults \in Nat
    PROVE  /\ UNCHANGED <<lease, nextToken>> /\ LeaseStep(p)
           /\ faults' = 0 => faults = 0 /\ LeaseRow(r, p, t) \notin lease
  BY DEF Raises, Fault, Fenced, journalVars, LeaseStep

--------------------
(* The actions, one lemma for each group of the specification. *)

\* A new instance has no lease, and nothing remains of one that ends.
LEMMA InstanceLeases ==
    ASSUME CoordinatorInv, LeaseInv, NEW p \in Owners, Boot(p) \/ Crash(p) \/ ShutdownBegin(p)
    PROVE  LeaseInv'
<1>1. ProcTypeOK /\ LeaseInvOf(p) BY DEF CoordinatorInv, LeaseInv
<1>2. CASE Boot(p) \/ ShutdownBegin(p)
 <2>1. /\ UNCHANGED <<lease, nextToken, faults, start, task, inner, orphans, stop, shut>>
       /\ up'[p] \in {"up", "closing"} /\ (up'[p] = "up" => up[p] = "off")
       /\ \A q \in Owners : q # p => up'[q] = up[q]
   BY <1>1, <1>2 DEF Boot, ShutdownBegin, journalVars, ProcTypeOK, UpType
 <2>2. Local(p) BY <2>1 DEF Local, LeaseStep, Same
 <2>3. Bounded(p)' /\ Holding(p)' /\ Persisting(p)'
   BY <1>1, <2>1 DEF LeaseInvOf, Bounded, Holding, StartHolds, TaskHolds, Stored, Stale, RowOf,
                     Persisting
 <2>4. Placed(p)' /\ Waiting(p)' /\ Worked(p)'
   BY <1>1, <1>2, <2>1 DEF LeaseInvOf, Placed, Alive, Waiting, Worked, Boot, ShutdownBegin, Serving
 <2> QED BY <2>2, <2>3, <2>4, LocalSteps DEF LeaseInvOf
<1>3. CASE Crash(p)
 <2>1. /\ UNCHANGED <<lease, nextToken, faults>>
       /\ up'[p] = "dead" /\ start'[p] = NoJob /\ task'[p] = NoJob /\ stop'[p] = NoJob
       /\ inner'[p] = NoEvent /\ orphans'[p] = {} /\ shut'[p] = "idle"
   BY <1>1, <1>3 DEF Crash, journalVars, ProcTypeOK, UpType, StartType, TaskType, StopType,
                     InnerType, OrphansType, ShutType
 <2>2. \A q \in Owners : q # p => Same(q)
   BY <1>1, <1>3 DEF Crash, Same, ProcTypeOK, UpType, StartType, TaskType, StopType, InnerType,
                     OrphansType, ShutType
 <2>3. Local(p) BY <2>1, <2>2 DEF Local, LeaseStep
 <2>4. LeaseInvOf(p)'
   BY <2>1, TokenTypes DEF LeaseInvOf, Bounded, Placed, Holding, StartHolds, TaskHolds, Persisting,
                           Waiting, Worked, NoJob, NoEvent
 <2> QED BY <2>3, <2>4, LocalSteps
<1> QED BY <1>2, <1>3

\* Recovery takes the lease of a dead owner only.
LEMMA RecoveryLeases ==
    ASSUME CoordinatorInv, LeaseInv, NEW p \in Owners, Recovery(p) \/ RecoveryFails(p)
    PROVE  LeaseInv'
<1>1. ProcTypeOK /\ LeaseInvOf(p) BY DEF CoordinatorInv, LeaseInv
<1>2. /\ UNCHANGED <<up, start, task, inner, orphans, stop, shut>>
      /\ faults' = 0 => faults = 0
  BY <1>1 DEF Recovery, RecoveryFails, RecoverLease, ListUnfinished, RecoverCheck, RecoverClose, Fault,
              ProcTypeOK
<1>3. /\ nextToken' = nextToken
      /\ \/ UNCHANGED lease
         \/ lease' = {} /\ \A l \in lease : ~Alive(l.owner)
 <2>1. CASE RecoverLease(p)
  <3>1. CASE \E l \in lease : ~Alive(l.owner)
    BY <2>1, <3>1 DEF RecoverLease, RecoverDeadLease, CoordinatorInv, JournalInv, OneRow
  <3>2. CASE ~ \E l \in lease : ~Alive(l.owner) BY <2>1, <3>2 DEF RecoverLease, journalVars
  <3> QED BY <3>1, <3>2
 <2>2. CASE ListUnfinished(p) \/ RecoverCheck(p) \/ RecoverClose(p) \/ RecoveryFails(p)
   BY <2>2 DEF ListUnfinished, RecoverCheck, RecoverClose, CloseUnleased, RecoveryFails, Fault,
               journalVars
 <2> QED BY <2>1, <2>2 DEF Recovery
<1>4. Local(p) BY <1>2, <1>3 DEF Local, LeaseStep, Same
<1>5. Bounded(p)' /\ Placed(p)' /\ Persisting(p)' /\ Waiting(p)' /\ Worked(p)'
  BY <1>1, <1>2, <1>3 DEF LeaseInvOf, Bounded, Placed, Alive, Persisting, Stored, RowOf, Waiting,
                          Worked, StartHolds
<1>6. Holding(p)'
 <2>1. ASSUME StartHolds(p) \/ TaskHolds(p) PROVE UNCHANGED lease
  <3>0. Placed(p) /\ Holding(p) BY <1>1 DEF LeaseInvOf
  <3>1. Alive(p) /\ (lease = {RowOf(start[p], p)} \/ lease = {RowOf(task[p], p)})
    BY <2>1, <3>0 DEF Placed, Holding, StartHolds, TaskHolds
  <3>2. \E l \in lease : l.owner = p
   <4>1. RowOf(start[p], p).owner = p /\ RowOf(task[p], p).owner = p BY DEF RowOf, LeaseRow
   <4> QED BY <3>1, <4>1
  <3>3. ~ \A l \in lease : ~Alive(l.owner) BY <3>1, <3>2 DEF Alive
  <3> QED BY <1>3, <3>3
 <2> QED BY <1>1, <1>2, <2>1 DEF LeaseInvOf, Holding, StartHolds, TaskHolds, Stored, Stale, RowOf
<1> QED BY <1>4, <1>5, <1>6, LocalSteps DEF LeaseInvOf

\* A fresh lease is newer than anything the instance may still present.
LEMMA FreshLease ==
    ASSUME CoordinatorInv, LeaseInv, NEW p \in Owners,
           start'[p].pc \in {"begun", "resumed"}, start'[p].token = nextToken,
           lease = {}, lease' = {LeaseRow(start'[p].run, p, nextToken)}, nextToken' = nextToken + 1,
           start[p].pc \in {"begin", "resume"},
           UNCHANGED <<up, task, inner, orphans, stop, shut>>
    PROVE  LeaseInvOf(p)' /\ LeaseStep(p)
<1>1. LeaseInvOf(p) BY DEF LeaseInv
<1>2. task[p].pc = "idle" BY <1>1 DEF LeaseInvOf, Placed
<1>3. Bounded(p)' /\ Placed(p)' BY <1>1, TokenTypes DEF LeaseInvOf, Bounded, Placed, Alive
<1>4. Holding(p)'
 <2>1. ~Stale(p, start[p].token)' BY <1>1, TokenTypes DEF LeaseInvOf, Bounded, Stale
 <2>2. RowOf(start[p], p)' = LeaseRow(start'[p].run, p, nextToken) BY DEF RowOf
 <2> QED BY <1>2, <2>1, <2>2 DEF Holding, TaskHolds
<1>5. Persisting(p)' /\ Waiting(p)' /\ Worked(p)'
  BY <1>1, <1>2 DEF LeaseInvOf, Persisting, Waiting, Worked, StartHolds, RowOf
<1> QED BY <1>3, <1>4, <1>5 DEF LeaseInvOf, LeaseStep

\* A start that ends without a task has nothing to hold.
LEMMA IdleLease ==
    ASSUME CoordinatorInv, LeaseInv, NEW p \in Owners, Idle(p),
           UNCHANGED <<up, task, inner, orphans, stop, shut>>,
           start[p].pc \notin {"idle"},
           UNCHANGED <<lease, nextToken>> \/ (lease' = {} /\ UNCHANGED nextToken),
           faults' = 0 => faults = 0 /\ (StartHolds(p) => RowOf(start[p], p) \notin lease')
    PROVE  LeaseInvOf(p)' /\ \A q \in Owners : q # p => Same(q)
<1>1. ProcTypeOK /\ LeaseInvOf(p) BY DEF CoordinatorInv, LeaseInv
<1>2. start'[p] = NoJob /\ \A q \in Owners : q # p => start'[q] = start[q]
  BY <1>1 DEF Idle, ProcTypeOK, StartType
<1>3. task[p].pc = "idle" BY <1>1 DEF LeaseInvOf, Placed
<1>4. Bounded(p)' /\ Placed(p)' /\ Holding(p)' /\ Persisting(p)' /\ Waiting(p)'
  BY <1>1, <1>2, <1>3, TokenTypes DEF LeaseInvOf, Bounded, Placed, Alive, Holding, StartHolds, TaskHolds,
                                     Persisting, Waiting, NoJob
<1>5. Worked(p)' BY <1>1, <1>2, <1>3 DEF LeaseInvOf, Worked, RowOf, StartHolds
<1> QED BY <1>2, <1>4, <1>5 DEF LeaseInvOf, Same

\* A start takes the lease, hands it to the task it creates or gives it back.
LEMMA StartingLeases ==
    ASSUME CoordinatorInv, LeaseInv, NEW p \in Owners, Starting(p)
    PROVE  LeaseInv'
<1>1. ProcTypeOK /\ LeaseInvOf(p) /\ faults \in Nat BY DEF CoordinatorInv, LeaseInv, ProcTypeOK
<1>2. CASE Begin(p) \/ Resume(p)
 <2>1. start[p].pc \in {"begin", "resume"} /\ UNCHANGED <<up, task, inner, orphans, stop, shut>>
   BY <1>2 DEF Begin, Resume
 <2>2. CASE Idle(p) /\ UNCHANGED <<lease, nextToken>> /\ (faults' = 0 => faults = 0)
   BY <2>1, <2>2, IdleLease, LocalSteps DEF Local, LeaseStep, StartHolds
 <2>3. ASSUME NEW pc \in {"begun", "resumed"},
              BeginRun(start[p].run, p) \/ ResumeRun(start[p].run, p),
              start' = [start EXCEPT ![p].pc = pc, ![p].token = nextToken],
              UNCHANGED faults
       PROVE  LeaseInv'
  <3>1. /\ lease = {} /\ nextToken' = nextToken + 1
        /\ lease' = {LeaseRow(start[p].run, p, nextToken)} BY <2>3 DEF BeginRun, ResumeRun
  <3>2. /\ start'[p].pc = pc /\ start'[p].run = start[p].run /\ start'[p].token = nextToken
        /\ \A q \in Owners : q # p => start'[q] = start[q]
    BY <1>1, <2>3 DEF ProcTypeOK, StartType, Job
  <3>3. \A q \in Owners : q # p => Same(q) BY <2>1, <3>2 DEF Same
  <3>4. LeaseInvOf(p)' /\ LeaseStep(p) BY <2>1, <2>3, <3>1, <3>2, FreshLease
  <3> QED BY <2>3, <3>3, <3>4, LocalSteps DEF Local
 <2>4. CASE Begin(p) BY <1>1, <2>2, <2>3, <2>4 DEF Begin, Fault, journalVars
 <2>5. CASE Resume(p) BY <1>1, <2>2, <2>3, <2>5 DEF Resume, Fault, journalVars
 <2> QED BY <1>2, <2>4, <2>5
<1>3. CASE StartOwn(p)
 <2>1. /\ start[p].pc \in {"begun", "resumed"} /\ start'[p] = NoJob
       /\ task'[p] = [pc |-> "new", run |-> start[p].run, token |-> start[p].token]
       /\ UNCHANGED <<lease, nextToken, up, inner, orphans, stop, shut, faults>>
   BY <1>1, <1>3 DEF StartOwn, Idle, ProcTypeOK, StartType, TaskType, journalVars
 <2>2. \A q \in Owners : q # p => Same(q)
   BY <1>1, <1>3, <2>1 DEF StartOwn, Idle, ProcTypeOK, StartType, TaskType, Same
 <2>3. Local(p) BY <2>1, <2>2 DEF Local, LeaseStep
 <2>4. task[p].pc = "idle" /\ (stop[p].pc # "wait" \/ up[p] # "up")
   BY <1>1, <2>1 DEF LeaseInvOf, Placed, Waiting
 <2>5. Bounded(p)' /\ Placed(p)' /\ Persisting(p)' /\ Waiting(p)'
   BY <1>1, <2>1, <2>4, TokenTypes DEF LeaseInvOf, Bounded, Placed, Alive, Persisting, Waiting, NoJob
 <2>6. Holding(p)'
   BY <1>1, <2>1 DEF LeaseInvOf, Placed, Holding, StartHolds, TaskHolds, Stale, RowOf, NoJob
 <2>7. Worked(p)' BY <1>1, <2>1 DEF LeaseInvOf, Placed, Worked, StartHolds, RowOf, NoJob
 <2> QED BY <2>3, <2>5, <2>6, <2>7, LocalSteps DEF LeaseInvOf
<1>4. CASE StartAbort(p)
 <2>1. start[p].pc \in {"begun", "resumed"} /\ Idle(p) /\ UNCHANGED <<up, task, inner, orphans, stop, shut>>
   BY <1>4 DEF StartAbort
 <2>2. /\ LeaseStep(p) /\ (UNCHANGED <<lease, nextToken>> \/ (lease' = {} /\ UNCHANGED nextToken))
       /\ faults' = 0 => faults = 0 /\ RowOf(start[p], p) \notin lease'
  <3>1. CASE Raises(start[p].run, p, start[p].token) BY <1>1, <3>1, RaisedLease DEF RowOf
  <3>2. CASE ~Raises(start[p].run, p, start[p].token)
    BY <1>4, <3>2, ReleasedLease DEF StartAbort, Statuses
  <3> QED BY <3>1, <3>2
 <2> QED BY <2>1, <2>2, IdleLease, LocalSteps DEF Local
<1> QED BY <1>2, <1>3, <1>4 DEF Starting

\* A transaction that changes nothing in the instances and leaves the lease alone.
LEMMA QuietLease ==
    ASSUME CoordinatorInv, LeaseInv, NEW p \in Owners,
           UNCHANGED <<lease, nextToken, up, start, task, inner, orphans, stop, shut>>,
           faults' = 0 => faults = 0
    PROVE  LeaseInv'
<1>1. LeaseInvOf(p) BY DEF LeaseInv
<1>2. Local(p) BY DEF Local, LeaseStep, Same
<1>3. LeaseInvOf(p)'
  BY <1>1 DEF LeaseInvOf, Bounded, Placed, Alive, Holding, StartHolds, TaskHolds, Stored, Stale, RowOf,
              Persisting, Waiting, Worked
<1> QED BY <1>2, <1>3, LocalSteps

\* A task gives the lease back, or has been told that it has none.
LEMMA TaskGivesUp ==
    ASSUME CoordinatorInv, LeaseInv, NEW p \in Owners,
           task[p].pc \in {"complete", "fail", "cancel", "suspend"},
           NEW pc \in {"fail", "final", "raise"}, Step(p, pc),
           UNCHANGED <<up, start, inner, orphans, stop, shut>>, LeaseStep(p),
           UNCHANGED <<lease, nextToken>> \/ (lease' = {} /\ UNCHANGED nextToken),
           faults' = 0 => faults = 0 /\ RowOf(task[p], p) \notin lease'
    PROVE  LeaseInv'
<1>1. ProcTypeOK /\ LeaseInvOf(p) BY DEF CoordinatorInv, LeaseInv
<1>2. /\ task'[p].pc = pc /\ task'[p].run = task[p].run /\ task'[p].token = task[p].token
      /\ \A q \in Owners : q # p => task'[q] = task[q] BY <1>1, StepMoves
<1>3. start[p].pc = "idle" BY <1>1 DEF LeaseInvOf, Placed
<1>4. Local(p) BY <1>2 DEF Local, Same
<1>5. Bounded(p)' /\ Placed(p)' /\ Persisting(p)' /\ Waiting(p)'
  BY <1>1, <1>2 DEF LeaseInvOf, Bounded, Placed, Alive, Persisting, Waiting
<1>6. Holding(p)' BY <1>2, <1>3 DEF Holding, StartHolds, TaskHolds
<1>7. Worked(p)' BY <1>1, <1>2, <1>3 DEF LeaseInvOf, Worked, StartHolds, RowOf
<1> QED BY <1>4, <1>5, <1>6, <1>7, LocalSteps DEF LeaseInvOf

\* Nobody who holds the lease loses it to stale credentials.
LEMMA StaleIsNotHeld ==
    ASSUME CoordinatorInv, LeaseInv, NEW p \in Owners, NEW r, NEW t, Fenced(r, p, t), Stale(p, t)
    PROVE  ~StartHolds(p) /\ ~TaskHolds(p)
<1>1. lease = {LeaseRow(r, p, t)} BY FencedLease
<1>2. Holding(p) BY DEF LeaseInv, LeaseInvOf
<1>3. ASSUME NEW j, lease = {RowOf(j, p)} PROVE j.token = t
 <2>1. LeaseRow(r, p, t).token = t /\ RowOf(j, p).token = j.token BY DEF RowOf, LeaseRow
 <2>2. LeaseRow(r, p, t) = RowOf(j, p) BY <1>1, <1>3
 <2> QED BY <2>1, <2>2
<1>4. ASSUME StartHolds(p) PROVE FALSE BY <1>2, <1>3, <1>4 DEF Holding
<1>5. ASSUME TaskHolds(p) PROVE FALSE BY <1>2, <1>3, <1>5 DEF Holding
<1> QED BY <1>4, <1>5

\* The shielded write commits or fails.
LEMMA InnerLeases ==
    ASSUME CoordinatorInv, LeaseInv, NEW p \in Owners, InnerCommit(p)
    PROVE  LeaseInv'
<1>1. ProcTypeOK /\ LeaseInvOf(p) /\ faults \in Nat /\ inner[p] \in InnerRecord
  BY EntryTypes DEF CoordinatorInv, LeaseInv, ProcTypeOK
<1>2. /\ inner[p].state = "pending" /\ UNCHANGED <<up, start, task, orphans, stop, shut>>
      /\ \A q \in Owners : q # p => inner'[q] = inner[q]
      /\ task[p].pc # "persist" => inner'[p] = NoEvent
      /\ task[p].pc = "persist" => /\ inner'[p].run = inner[p].run /\ inner'[p].token = inner[p].token
                                   /\ inner'[p].kind = inner[p].kind
                                   /\ inner'[p].state \in {"stored", "raised"}
  BY <1>1 DEF InnerCommit, ProcTypeOK, InnerType, InnerRecord
<1>3. LeaseStep(p) /\ (faults' = 0 => faults = 0)
      /\ \/ UNCHANGED <<lease, nextToken>> /\ (Stored(p)' => inner[p].kind # "terminal" \/ task[p].pc # "persist")
         \/ /\ lease' = {} /\ UNCHANGED nextToken /\ Fenced(inner[p].run, p, inner[p].token)
            /\ task[p].pc = "persist" => Stored(p)'
 <2>1. CASE Raises(inner[p].run, p, inner[p].token) /\ ~Stored(p)' BY <1>1, <2>1, RaisedLease
 <2>2. CASE inner[p].kind # "terminal" /\ AppendFenced(inner[p].run, p, inner[p].token, Yielded(inner[p]))
            /\ UNCHANGED faults BY <2>2 DEF AppendFenced, LeaseStep
 <2>3. CASE /\ inner[p].kind = "terminal" /\ UNCHANGED faults /\ inner[p].info \in Statuses
            /\ AppendTerminalAndRelease(inner[p].run, p, inner[p].token, inner[p].info)
            /\ task[p].pc = "persist" => Stored(p)' BY <2>3, ReleasedLease
 <2>4. inner[p].kind = "terminal" => inner[p].info \in Statuses
   BY <1>2 DEF CoordinatorInv, ClaimInv, PendingIsContent, Yielded, Contents
 <2> QED BY <1>1, <1>2, <2>1, <2>2, <2>3, <2>4
         DEF InnerCommit, PersistEvent, Stored, ProcTypeOK, InnerType, InnerRecord, NoEvent, Yielded
<1>4. Local(p) BY <1>2, <1>3 DEF Local, Same
<1>5. Bounded(p)' /\ Placed(p)' /\ Waiting(p)' /\ Worked(p)'
  BY <1>1, <1>2, <1>3, TokenTypes DEF LeaseInvOf, Bounded, Placed, Alive, Waiting, Worked, StartHolds,
                                     RowOf, NoEvent
<1>6. Persisting(p)' BY <1>1, <1>2, <1>3 DEF LeaseInvOf, Persisting, Stored, RowOf
<1>7. Holding(p)'
 <2>1. CASE UNCHANGED lease
   BY <1>1, <1>2, <2>1 DEF LeaseInvOf, Holding, StartHolds, TaskHolds, Stale, RowOf, NoEvent, Stored
 <2>2. CASE Fenced(inner[p].run, p, inner[p].token) /\ task[p].pc # "persist"
  <3>1. Stale(p, inner[p].token) BY <1>2, <2>2 DEF Stale
  <3>2. ~StartHolds(p) /\ ~TaskHolds(p) BY <2>2, <3>1, StaleIsNotHeld
  <3> QED BY <1>2, <2>2, <3>2 DEF Holding, StartHolds, TaskHolds
 <2>3. CASE task[p].pc = "persist" /\ Stored(p)'
  <3>1. start[p].pc = "idle" BY <1>1, <2>3 DEF LeaseInvOf, Placed
  <3> QED BY <1>2, <2>3, <3>1 DEF Holding, StartHolds, TaskHolds
 <2> QED BY <1>3, <2>1, <2>2, <2>3
<1> QED BY <1>4, <1>5, <1>6, <1>7, LocalSteps DEF LeaseInvOf

\* A thread of a cancelled task commits or fails.
LEMMA OrphanLeases ==
    ASSUME CoordinatorInv, LeaseInv, NEW p \in Owners, OrphanCommit(p)
    PROVE  LeaseInv'
<1>1. ProcTypeOK /\ LeaseInvOf(p) /\ faults \in Nat BY DEF CoordinatorInv, LeaseInv, ProcTypeOK
<1>2. PICK o \in orphans[p] :
        /\ \/ AppendTerminalAndRelease(o.run, p, o.token, o.status) /\ UNCHANGED faults
           \/ Raises(o.run, p, o.token)
        /\ orphans' = [orphans EXCEPT ![p] = @ \ {o}]
        /\ UNCHANGED <<up, start, task, inner, stop, shut>> BY DEF OrphanCommit
<1>3. o.status \in Statuses /\ Stale(p, o.token) BY <1>1, EntryTypes DEF OrphanRecord, Stale
<1>4. orphans'[p] \subseteq orphans[p] /\ \A q \in Owners : q # p => orphans'[q] = orphans[q]
  BY <1>1, <1>2 DEF ProcTypeOK, OrphansType
<1>5. LeaseStep(p) /\ (faults' = 0 => faults = 0)
      /\ \/ UNCHANGED <<lease, nextToken>>
         \/ lease' = {} /\ UNCHANGED nextToken /\ Fenced(o.run, p, o.token)
  BY <1>1, <1>2, <1>3, RaisedLease, ReleasedLease
<1>6. Local(p) BY <1>2, <1>4, <1>5 DEF Local, Same
<1>7. Bounded(p)' /\ Placed(p)' /\ Persisting(p)' /\ Waiting(p)' /\ Worked(p)'
  BY <1>1, <1>2, <1>4, <1>5 DEF LeaseInvOf, Bounded, Placed, Alive, Persisting, Stored, RowOf, Waiting,
                               Worked, StartHolds
<1>8. Holding(p)'
 <2>1. CASE UNCHANGED lease
   BY <1>1, <1>2, <1>4, <2>1 DEF LeaseInvOf, Holding, StartHolds, TaskHolds, Stale, RowOf, Stored
 <2>2. CASE Fenced(o.run, p, o.token)
  <3>1. ~StartHolds(p) /\ ~TaskHolds(p) BY <1>3, <2>2, StaleIsNotHeld
  <3> QED BY <1>2, <3>1 DEF Holding, StartHolds, TaskHolds, Stored
 <2> QED BY <1>5, <2>1, <2>2
<1> QED BY <1>6, <1>7, <1>8, LocalSteps DEF LeaseInvOf

\* The task gives its run up in its finally block, and cancel() goes on.
LEMMA FinalLeases ==
    ASSUME CoordinatorInv, LeaseInv, NEW p \in Owners, Final(p)
    PROVE  LeaseInv'
<1>1. ProcTypeOK /\ LeaseInvOf(p) BY DEF CoordinatorInv, LeaseInv
<1>2. /\ task[p].pc \in {"final", "raise"} /\ task'[p] = NoJob
      /\ \A q \in Owners : q # p => task'[q] = task[q]
      /\ UNCHANGED <<lease, nextToken, up, start, inner, orphans, faults>>
  BY <1>1 DEF Final, ProcTypeOK, TaskType, journalVars
<1>3. /\ stop[p].pc # "wait" => stop'[p] = stop[p]
      /\ stop[p].pc = "wait" /\ task[p].pc = "raise" => stop'[p] = NoJob
      /\ stop[p].pc = "wait" /\ task[p].pc = "final" =>
            stop'[p].pc = "check" /\ stop'[p].run = stop[p].run /\ stop'[p].token = stop[p].token
      /\ \A q \in Owners : q # p => stop'[q] = stop[q]
  BY <1>1, <1>2, EntryTypes DEF Final, ProcTypeOK, StopType, Job
<1>4. /\ shut[p] = "idle" => shut'[p] = "idle"
      /\ \A q \in Owners : q # p => shut'[q] = shut[q] BY <1>1 DEF Final, ProcTypeOK, ShutType
<1>5. Local(p) BY <1>2, <1>3, <1>4 DEF Local, LeaseStep, Same
<1>6. start[p].pc = "idle" BY <1>1, <1>2 DEF LeaseInvOf, Placed
<1>7. Bounded(p)' /\ Placed(p)' /\ Holding(p)' /\ Persisting(p)' /\ Waiting(p)'
  BY <1>1, <1>2, <1>3, <1>4, <1>6, TokenTypes DEF LeaseInvOf, Bounded, Placed, Alive, Holding, StartHolds,
                                          TaskHolds, Persisting, Waiting, NoJob
<1>8. Worked(p)' BY <1>1, <1>2, <1>3, <1>6 DEF LeaseInvOf, Worked, StartHolds, RowOf
<1> QED BY <1>5, <1>7, <1>8, LocalSteps DEF LeaseInvOf

\* The task moves between the events of its stream.
LEMMA StreamLeases ==
    ASSUME CoordinatorInv, LeaseInv, NEW p \in Owners,
           \/ TaskBegin(p) \/ PersistReturn(p) \/ StreamEnd(p)
           \/ \E c \in Contents : StreamYield(p, c)
    PROVE  LeaseInv'
<1>1. ProcTypeOK /\ LeaseInvOf(p) BY DEF CoordinatorInv, LeaseInv
<1>2. /\ UNCHANGED <<lease, nextToken, up, start, orphans, stop, shut, faults>>
      /\ task[p].pc \in {"new", "stream", "persist"}
  BY DEF TaskBegin, PersistReturn, StreamEnd, StreamYield, journalVars
<1>3. start[p].pc = "idle" BY <1>1, <1>2 DEF LeaseInvOf, Placed
<1>4. ASSUME NEW pc, Step(p, pc)
      PROVE  /\ task'[p].pc = pc /\ task'[p].run = task[p].run /\ task'[p].token = task[p].token
             /\ \A q \in Owners : q # p => task'[q] = task[q] BY <1>1, <1>4, StepMoves
<1>5. CASE TaskBegin(p) \/ StreamEnd(p)
 <2>1. /\ task'[p].pc \in {"stream", "complete", "fail"} /\ UNCHANGED inner
       /\ task'[p].run = task[p].run /\ task'[p].token = task[p].token
       /\ \A q \in Owners : q # p => task'[q] = task[q]
       /\ task[p].pc \in {"new", "stream"} BY <1>4, <1>5 DEF TaskBegin, StreamEnd
 <2>2. Local(p) BY <1>2, <2>1 DEF Local, LeaseStep, Same
 <2>3. Bounded(p)' /\ Placed(p)' /\ Persisting(p)' /\ Waiting(p)'
   BY <1>1, <1>2, <2>1 DEF LeaseInvOf, Bounded, Placed, Alive, Persisting, Waiting
 <2>4. Holding(p)'
   BY <1>1, <1>2, <1>3, <2>1 DEF LeaseInvOf, Holding, StartHolds, TaskHolds, Stale, RowOf
 <2>5. Worked(p)' BY <1>1, <1>2, <1>3, <2>1 DEF LeaseInvOf, Worked, StartHolds, RowOf
 <2> QED BY <2>2, <2>3, <2>4, <2>5, LocalSteps DEF LeaseInvOf
<1>6. CASE PersistReturn(p)
 <2>1. /\ task[p].pc = "persist" /\ inner[p].state \in {"stored", "raised"}
       /\ task'[p].run = task[p].run /\ task'[p].token = task[p].token
       /\ inner[p].state = "raised" => task'[p].pc = "fail"
       /\ inner[p].state = "stored" => task'[p].pc = IF Stored(p) THEN "final" ELSE "stream"
       /\ \A q \in Owners : q # p => task'[q] = task[q] BY <1>4, <1>6 DEF PersistReturn, Stored
 <2>2. inner'[p] = NoEvent /\ \A q \in Owners : q # p => inner'[q] = inner[q]
   BY <1>1, <1>6 DEF PersistReturn, ProcTypeOK, InnerType
 <2>3. Local(p) BY <1>2, <2>1, <2>2 DEF Local, LeaseStep, Same
 <2>4. Bounded(p)' /\ Placed(p)' /\ Persisting(p)' /\ Waiting(p)'
   BY <1>1, <1>2, <2>1, <2>2, TokenTypes DEF LeaseInvOf, Bounded, Placed, Alive, Persisting, Waiting,
                                            NoEvent
 <2>5. Holding(p)'
   BY <1>1, <1>2, <1>3, <2>1, <2>2 DEF LeaseInvOf, Holding, StartHolds, TaskHolds, Stale, RowOf, NoEvent
 <2>6. Worked(p)' BY <1>1, <1>2, <1>3, <2>1 DEF LeaseInvOf, Worked, StartHolds, RowOf, Persisting
 <2> QED BY <2>3, <2>4, <2>5, <2>6, LocalSteps DEF LeaseInvOf
<1>7. CASE \E c \in Contents : StreamYield(p, c)
 <2>1. /\ task[p].pc = "stream" /\ task'[p].pc = "persist"
       /\ task'[p].run = task[p].run /\ task'[p].token = task[p].token
       /\ \A q \in Owners : q # p => task'[q] = task[q] BY <1>4, <1>7 DEF StreamYield
 <2>2. /\ inner'[p].state = "pending" /\ inner'[p].run = task[p].run /\ inner'[p].token = task[p].token
       /\ \A q \in Owners : q # p => inner'[q] = inner[q]
   BY <1>1, <1>7 DEF StreamYield, ProcTypeOK, InnerType
 <2>3. Local(p) BY <1>2, <2>1, <2>2 DEF Local, LeaseStep, Same
 <2>4. Bounded(p)' /\ Placed(p)' /\ Persisting(p)' /\ Waiting(p)'
   BY <1>1, <1>2, <2>1, <2>2 DEF LeaseInvOf, Bounded, Placed, Alive, Persisting, Waiting, Stored
 <2>5. Holding(p)'
   BY <1>1, <1>2, <1>3, <2>1, <2>2 DEF LeaseInvOf, Holding, StartHolds, TaskHolds, Stale, RowOf, Stored
 <2>6. Worked(p)' BY <1>1, <1>2, <1>3, <2>1 DEF LeaseInvOf, Worked, StartHolds, RowOf
 <2> QED BY <2>3, <2>4, <2>5, <2>6, LocalSteps DEF LeaseInvOf
<1> QED BY <1>5, <1>6, <1>7

\* What the event loop does by itself.
LEMMA ConsumingLeases ==
    ASSUME CoordinatorInv, LeaseInv, NEW p \in Owners, Consuming(p)
    PROVE  LeaseInv'
<1>1. faults \in Nat BY DEF CoordinatorInv, ProcTypeOK
<1>2. ASSUME NEW s \in Statuses, PersistTerminal(p, s)
      PROVE  LeaseStep(p) /\ lease' = {} /\ UNCHANGED <<nextToken, faults>>
  BY <1>2, ReleasedLease DEF PersistTerminal
<1>3. ASSUME TaskRaises(p)
      PROVE  /\ LeaseStep(p) /\ UNCHANGED <<lease, nextToken>>
             /\ faults' = 0 => faults = 0 /\ RowOf(task[p], p) \notin lease'
  BY <1>1, <1>3, RaisedLease DEF TaskRaises, RowOf
<1>4. ASSUME task[p].pc \in {"complete", "fail", "cancel", "suspend"},
             NEW pc \in {"fail", "final", "raise"}, Step(p, pc),
             UNCHANGED <<up, start, inner, orphans, stop, shut>>,
             \/ \E s \in Statuses : PersistTerminal(p, s)
             \/ ReleaseRunLease(task[p].run, p, task[p].token) /\ UNCHANGED faults
             \/ TaskRaises(p)
      PROVE  LeaseInv'
 <2>1. /\ LeaseStep(p) /\ (UNCHANGED <<lease, nextToken>> \/ (lease' = {} /\ UNCHANGED nextToken))
       /\ faults' = 0 => faults = 0 /\ RowOf(task[p], p) \notin lease'
   BY <1>2, <1>3, <1>4, ReleasedLease
 <2> QED BY <1>4, <2>1, TaskGivesUp
<1>5. CASE CompletePersist(p) BY <1>4, <1>5 DEF CompletePersist, Statuses
<1>6. CASE FailPersist(p) BY <1>4, <1>6 DEF FailPersist, Statuses
<1>7. CASE CancelCleanup(p)
 <2>1. CASE audit[p] > 0
  <3>1. UNCHANGED <<up, start, task, inner, orphans, stop, shut>> BY <1>7, <2>1 DEF CancelCleanup
  <3>2. UNCHANGED <<lease, nextToken>> /\ (faults' = 0 => faults = 0)
    BY <1>3, <1>7, <2>1 DEF CancelCleanup, PersistEvent, AppendFenced
  <3> QED BY <3>1, <3>2, QuietLease
 <2>2. CASE ~(audit[p] > 0) BY <1>4, <1>7, <2>2 DEF CancelCleanup, Statuses
 <2> QED BY <2>1, <2>2
<1>8. CASE SuspendCleanup(p) BY <1>4, <1>8 DEF SuspendCleanup
<1> QED BY <1>5, <1>6, <1>7, <1>8, InnerLeases, OrphanLeases, FinalLeases, StreamLeases DEF Consuming

--------------------
\* Cancelling the task: from there on it does not believe in its lease.
LEMMA InterruptMoves ==
    ASSUME CoordinatorInv, NEW p \in Owners, Active(p), Interrupt(p)
    PROVE  /\ task'[p].run = task[p].run /\ task'[p].token = task[p].token
           /\ task'[p].pc = Interrupted(p)
           /\ task[p].pc \in {"new", "final", "raise", "ended"} => task'[p].pc = "ended"
           /\ task[p].pc \in {"stream", "persist", "complete"} => task'[p].pc \in {"cancel", "suspend"}
           /\ task[p].pc = "fail" => task'[p].pc = "final"
           /\ task[p].pc \in {"cancel", "suspend"} => task'[p].pc = task[p].pc
           /\ inner'[p] \in {inner[p], NoEvent}
           /\ \A o \in orphans'[p] : o \in orphans[p] \/ o.token = task[p].token
           /\ \A q \in Owners : q # p => /\ task'[q] = task[q] /\ inner'[q] = inner[q]
                                         /\ orphans'[q] = orphans[q]
<1>1. ProcTypeOK /\ task[p] \in Job(TaskPCs) /\ task[p].pc # "idle"
  BY EntryTypes DEF CoordinatorInv, Active
<1>2. Step(p, Interrupted(p)) BY DEF Interrupt
<1>3. /\ task'[p].run = task[p].run /\ task'[p].token = task[p].token
      /\ task'[p].pc = Interrupted(p) /\ \A q \in Owners : q # p => task'[q] = task[q]
  BY <1>1, <1>2 DEF Step, ProcTypeOK, TaskType, Job
<1>4. /\ task[p].pc \in {"new", "final", "raise", "ended"} => Interrupted(p) = "ended"
      /\ task[p].pc \in {"stream", "persist", "complete"} => Interrupted(p) \in {"cancel", "suspend"}
      /\ task[p].pc = "fail" => Interrupted(p) = "final"
      /\ task[p].pc \in {"cancel", "suspend"} => Interrupted(p) = task[p].pc BY DEF Interrupted
<1>5. inner'[p] \in {inner[p], NoEvent} /\ \A q \in Owners : q # p => inner'[q] = inner[q]
  BY <1>1 DEF Interrupt, ProcTypeOK, InnerType
<1>6. /\ \A o \in orphans'[p] : o \in orphans[p] \/ o.token = task[p].token
      /\ \A q \in Owners : q # p => orphans'[q] = orphans[q]
  BY <1>1 DEF Interrupt, Orphan, ProcTypeOK, OrphansType
<1> QED BY <1>1, <1>3, <1>4, <1>5, <1>6

\* Whoever stops a serving instance's task sees to its lease afterwards.
LEMMA InterruptLeases ==
    ASSUME CoordinatorInv, LeaseInv, NEW p \in Owners, Active(p), Interrupt(p),
           UNCHANGED <<lease, nextToken, up, start, faults>>,
           \A q \in Owners : q # p => stop'[q] = stop[q] /\ shut'[q] = shut[q],
           shut'[p] # "idle" => up[p] = "closing",
           \/ UNCHANGED stop /\ up[p] # "up"
           \/ /\ up[p] = "up" => stop[p].pc \in {"idle", "wait"}
              /\ stop'[p].run = task[p].run /\ stop'[p].token = task[p].token
              /\ stop'[p].pc = IF Interrupted(p) = "ended" THEN "check" ELSE "wait"
    PROVE  LeaseInv'
<1>1. LeaseInvOf(p) BY DEF LeaseInv
<1>2. /\ task'[p].run = task[p].run /\ task'[p].token = task[p].token
      /\ task'[p].pc = Interrupted(p)
      /\ task[p].pc \in {"new", "final", "raise", "ended"} => task'[p].pc = "ended"
      /\ task[p].pc \in {"stream", "persist", "complete"} => task'[p].pc \in {"cancel", "suspend"}
      /\ task[p].pc = "fail" => task'[p].pc = "final"
      /\ task[p].pc \in {"cancel", "suspend"} => task'[p].pc = task[p].pc BY InterruptMoves
<1>3. /\ inner'[p] \in {inner[p], NoEvent}
      /\ \A o \in orphans'[p] : o \in orphans[p] \/ o.token = task[p].token
      /\ \A q \in Owners : q # p => /\ task'[q] = task[q] /\ inner'[q] = inner[q]
                                    /\ orphans'[q] = orphans[q] BY InterruptMoves
<1>4. Local(p) BY <1>3 DEF Local, LeaseStep, Same
<1>5. /\ task[p].pc \in {"new", "stream", "persist", "complete", "fail", "cancel", "suspend", "final",
                         "raise", "ended"}
      /\ start[p].pc = "idle" /\ Alive(p)
  BY <1>1, EntryTypes DEF LeaseInvOf, Placed, Active, CoordinatorInv, Job, TaskPCs
<1>6. task'[p].pc \in {"ended", "cancel", "suspend", "final"} BY <1>2, <1>5
<1>7. Bounded(p)' BY <1>1, <1>2, <1>3, TokenTypes DEF LeaseInvOf, Bounded, NoEvent
<1>8. Placed(p)' /\ Holding(p)' /\ Persisting(p)'
  BY <1>1, <1>5, <1>6 DEF LeaseInvOf, Placed, Alive, Holding, StartHolds, TaskHolds, Persisting
<1>9. Waiting(p)' BY <1>2, <1>6 DEF Waiting
<1>10. Worked(p)'
 <2> SUFFICES ASSUME faults' = 0, up'[p] = "up", NEW l \in lease', l.owner = p
              PROVE  \/ task'[p].pc \in {"cancel", "suspend"} /\ l = RowOf(task[p], p)'
                     \/ /\ stop'[p].pc = "check" \/ (stop'[p].pc = "wait" /\ task'[p].pc = "final")
                        /\ l = RowOf(stop[p], p)' BY DEF Worked
 <2>1. \/ /\ task[p].pc \in {"new", "stream", "persist", "complete", "fail", "cancel", "suspend"}
          /\ l = RowOf(task[p], p)
       \/ stop[p].pc = "wait" /\ task[p].pc = "final" /\ l = RowOf(stop[p], p)
   BY <1>1, <1>5 DEF LeaseInvOf, Worked, StartHolds
 <2>2. l = RowOf(task[p], p) BY <1>1, <2>1 DEF LeaseInvOf, Waiting, RowOf
 <2>3. RowOf(task[p], p)' = RowOf(task[p], p) /\ RowOf(stop[p], p)' = RowOf(task[p], p)
   BY <1>2 DEF RowOf
 <2> QED BY <1>2, <2>1, <2>2, <2>3
<1> QED BY <1>4, <1>7, <1>8, <1>9, <1>10, LocalSteps DEF LeaseInvOf

\* The entry of cancel() after StopRun.
LEMMA StopRunMoves ==
    ASSUME CoordinatorInv, NEW p \in Owners, NEW n, StopRun(p, n)
    PROVE  /\ Active(p) /\ Interrupt(p)
           /\ stop'[p].run = task[p].run /\ stop'[p].token = task[p].token
           /\ stop'[p].pc = IF Interrupted(p) = "ended" THEN "check" ELSE "wait"
           /\ \A q \in Owners : q # p => stop'[q] = stop[q]
<1>1. ProcTypeOK /\ task[p] \in Job(TaskPCs) BY EntryTypes DEF CoordinatorInv
<1>2. Active(p) /\ Interrupt(p) /\ stop' = [stop EXCEPT ![p] = [task[p] EXCEPT !.pc = Await(p)]]
  BY DEF StopRun
<1>3. /\ stop'[p] = [task[p] EXCEPT !.pc = Await(p)]
      /\ \A q \in Owners : q # p => stop'[q] = stop[q] BY <1>1, <1>2 DEF ProcTypeOK, StopType
<1> QED BY <1>1, <1>2, <1>3 DEF Await, Job

\* cancel() closes the run if its task has left it open, and forgets the task.
LEMMA StopLeases ==
    ASSUME CoordinatorInv, LeaseInv, NEW p \in Owners,
           StopCheck(p) \/ StopPersist(p) \/ StopClear(p) \/ SuspendClear(p)
    PROVE  LeaseInv'
<1>1. ProcTypeOK /\ LeaseInvOf(p) /\ faults \in Nat BY DEF CoordinatorInv, LeaseInv, ProcTypeOK
<1>2. CASE StopCheck(p)
 <2>1. /\ stop[p].pc = "check" /\ UNCHANGED <<lease, nextToken, up, start, task, inner, orphans, shut>>
       /\ faults' = 0 => faults = 0
       /\ \/ /\ stop'[p].run = stop[p].run /\ stop'[p].token = stop[p].token
             /\ stop'[p].pc = IF \E l \in lease : l.run = stop[p].run THEN "persist" ELSE "clear"
          \/ faults' # 0 /\ stop'[p] = NoJob
       /\ \A q \in Owners : q # p => stop'[q] = stop[q]
   BY <1>1, <1>2 DEF StopCheck, Fault, journalVars, ProcTypeOK, StopType, Job
 <2>2. Local(p) BY <2>1 DEF Local, LeaseStep, Same
 <2>3. Bounded(p)' /\ Placed(p)' /\ Persisting(p)' /\ Waiting(p)'
   BY <1>1, <2>1, TokenTypes DEF LeaseInvOf, Bounded, Placed, Alive, Persisting, Stored, RowOf, Waiting,
                                NoJob
 <2>4. Holding(p)'
   BY <1>1, <2>1 DEF LeaseInvOf, Holding, StartHolds, TaskHolds, Stored, Stale, RowOf, NoJob
 <2>5. Worked(p)' BY <1>1, <2>1 DEF LeaseInvOf, Worked, StartHolds, RowOf, LeaseRow
 <2> QED BY <2>2, <2>3, <2>4, <2>5, LocalSteps DEF LeaseInvOf
<1>3. CASE StopPersist(p)
 <2>1. /\ stop[p].pc = "persist" /\ UNCHANGED <<up, start, task, inner, orphans, shut>>
       /\ stop'[p].pc \in {"clear", "idle"} /\ stop'[p].token \in {stop[p].token, 0}
       /\ \A q \in Owners : q # p => stop'[q] = stop[q]
   BY <1>1, <1>3 DEF StopPersist, ProcTypeOK, StopType, Job, NoJob
 <2>2. /\ LeaseStep(p) /\ (faults' = 0 => faults = 0)
       /\ \/ UNCHANGED <<lease, nextToken>> /\ stop'[p].pc = "idle"
             /\ (faults' = 0 => RowOf(stop[p], p) \notin lease)
          \/ lease' = {} /\ UNCHANGED nextToken /\ Fenced(stop[p].run, p, stop[p].token)
  <3>1. CASE Raises(stop[p].run, p, stop[p].token) /\ stop' = [stop EXCEPT ![p] = NoJob]
    BY <1>1, <3>1, RaisedLease DEF RowOf, ProcTypeOK, StopType, NoJob
  <3>2. CASE AppendTerminalAndRelease(stop[p].run, p, stop[p].token, "cancelled") /\ UNCHANGED faults
    BY <3>2, ReleasedLease DEF Statuses
  <3> QED BY <1>3, <3>1, <3>2 DEF StopPersist
 <2>3. Local(p) BY <2>1, <2>2 DEF Local, Same
 <2>4. Bounded(p)' /\ Placed(p)' /\ Persisting(p)' /\ Waiting(p)'
   BY <1>1, <2>1, <2>2, TokenTypes DEF LeaseInvOf, Bounded, Placed, Alive, Persisting, Stored, RowOf,
                                      Waiting
 <2>5. Holding(p)'
  <3>1. CASE UNCHANGED lease /\ stop'[p].pc = "idle"
    BY <1>1, <2>1, <3>1 DEF LeaseInvOf, Holding, StartHolds, TaskHolds, Stored, Stale, RowOf
  <3>2. CASE Fenced(stop[p].run, p, stop[p].token)
   <4>1. Stale(p, stop[p].token) BY <2>1 DEF Stale
   <4>2. ~StartHolds(p) /\ ~TaskHolds(p) BY <3>2, <4>1, StaleIsNotHeld
   <4> QED BY <2>1, <4>2 DEF Holding, StartHolds, TaskHolds, Stored
  <3> QED BY <2>2, <3>1, <3>2
 <2>6. Worked(p)' BY <1>1, <2>1, <2>2 DEF LeaseInvOf, Worked, StartHolds, RowOf
 <2> QED BY <2>3, <2>4, <2>5, <2>6, LocalSteps DEF LeaseInvOf
<1>4. CASE StopClear(p) \/ SuspendClear(p)
 <2>1. /\ UNCHANGED <<lease, nextToken, up, start, inner, orphans, faults>>
       /\ task'[p] = task[p] \/ (task[p].pc = "ended" /\ task'[p] = NoJob)
       /\ \A q \in Owners : q # p => task'[q] = task[q]
   BY <1>1, <1>4 DEF StopClear, SuspendClear, Forget, ProcTypeOK, TaskType, journalVars
 <2>2. /\ stop'[p] = stop[p] \/ (stop[p].pc = "clear" /\ stop'[p] = NoJob)
       /\ shut'[p] = shut[p] \/ shut[p] = "check"
       /\ \A q \in Owners : q # p => stop'[q] = stop[q] /\ shut'[q] = shut[q]
   BY <1>1, <1>4 DEF StopClear, SuspendClear, ProcTypeOK, StopType, ShutType
 <2>3. Local(p) BY <2>1, <2>2 DEF Local, LeaseStep, Same
 <2>4. Bounded(p)' /\ Placed(p)' /\ Persisting(p)' /\ Waiting(p)'
   BY <1>1, <2>1, <2>2, TokenTypes DEF LeaseInvOf, Bounded, Placed, Alive, Persisting, Stored, RowOf,
                                      Waiting, NoJob
 <2>5. Holding(p)'
   BY <1>1, <2>1, <2>2 DEF LeaseInvOf, Holding, StartHolds, TaskHolds, Stored, Stale, RowOf, NoJob
 <2>6. Worked(p)' BY <1>1, <2>1, <2>2 DEF LeaseInvOf, Worked, StartHolds, RowOf
 <2> QED BY <2>3, <2>4, <2>5, <2>6, LocalSteps DEF LeaseInvOf
<1> QED BY <1>2, <1>3, <1>4

\* Stopping a run and shutting an instance down.
LEMMA StoppingLeases ==
    ASSUME CoordinatorInv, LeaseInv, NEW p \in Owners, Stopping(p)
    PROVE  LeaseInv'
<1>1. ProcTypeOK /\ LeaseInvOf(p) BY DEF CoordinatorInv, LeaseInv
<1>2. CASE ShutdownDecide(p)
 <2>1. /\ UNCHANGED <<lease, nextToken, up, start, task, inner, orphans, stop, faults>>
       /\ up[p] = "closing" /\ \A q \in Owners : q # p => shut'[q] = shut[q]
   BY <1>1, <1>2 DEF ShutdownDecide, journalVars, ProcTypeOK, ShutType
 <2>2. Local(p) BY <2>1 DEF Local, LeaseStep, Same
 <2>3. LeaseInvOf(p)'
   BY <1>1, <2>1 DEF LeaseInvOf, Bounded, Placed, Alive, Holding, StartHolds, TaskHolds, Stored, Stale,
                     RowOf, Persisting, Waiting, Worked
 <2> QED BY <2>2, <2>3, LocalSteps
<1>3. CASE ShutdownSuspend(p)
 <2>1. /\ Active(p) /\ Interrupt(p) /\ UNCHANGED <<lease, nextToken, up, start, stop, faults>>
       /\ \A q \in Owners : q # p => shut'[q] = shut[q]
   BY <1>1, <1>3 DEF ShutdownSuspend, journalVars, ProcTypeOK, ShutType
 <2>2. up[p] = "closing" BY <1>1, <1>3 DEF ShutdownSuspend, LeaseInvOf, Placed
 <2> QED BY <2>1, <2>2, InterruptLeases
<1>4. CASE ShutdownCancel(p)
 <2>1. /\ StopRun(p, 0) /\ UNCHANGED <<lease, nextToken, up, start, faults>>
       /\ \A q \in Owners : q # p => shut'[q] = shut[q]
   BY <1>1, <1>4 DEF ShutdownCancel, journalVars, ProcTypeOK, ShutType
 <2>2. up[p] = "closing" BY <1>1, <1>4 DEF ShutdownCancel, LeaseInvOf, Placed
 <2> QED BY <2>1, <2>2, StopRunMoves, InterruptLeases
<1> QED BY <1>2, <1>3, <1>4, StopLeases DEF Stopping

\* What users, the stream and the server's signal ask of an instance.
LEMMA RequestLeases ==
    ASSUME CoordinatorInv, LeaseInv, NEW p \in Owners, Requests(p)
    PROVE  LeaseInv'
<1>1. ProcTypeOK /\ LeaseInvOf(p) BY DEF CoordinatorInv, LeaseInv
<1>2. ASSUME NEW r \in Runs, StartCheck(p, r) \/ RespondCheck(p, r)
      PROVE  LeaseInv'
 <2>1. /\ UNCHANGED <<lease, nextToken, up, task, inner, orphans, stop, shut, faults>>
       /\ start[p].pc = "idle" /\ task[p].pc = "idle" /\ up[p] = "up"
       /\ start'[p].pc \in {"begin", "resume"} /\ start'[p].token = 0
       /\ \A q \in Owners : q # p => start'[q] = start[q]
   BY <1>1, <1>2 DEF StartCheck, RespondCheck, Serving, Active, journalVars, ProcTypeOK, StartType
 <2>2. Local(p) BY <2>1 DEF Local, LeaseStep, Same
 <2>3. LeaseInvOf(p)'
   BY <1>1, <2>1, TokenTypes DEF LeaseInvOf, Bounded, Placed, Alive, Holding, StartHolds, TaskHolds,
                                Persisting, Waiting, Worked, RowOf
 <2> QED BY <2>2, <2>3, LocalSteps
<1>3. CASE (\E r \in Runs : RejectBegin(p, r)) \/ RejectEnd(p)
  BY <1>3, QuietLease DEF RejectBegin, RejectEnd, AppendUnfenced, AppendTerminalOnce
<1>4. CASE StopRequest(p)
 <2>1. PICK n \in 0..1 : StopRun(p, n) BY <1>4 DEF StopRequest
 <2>2. /\ UNCHANGED <<lease, nextToken, up, start, shut, faults>>
       /\ up[p] = "up" /\ stop[p].pc \in {"idle", "wait"}
   BY <1>4 DEF StopRequest, Serving, journalVars
 <2>3. shut[p] = "idle" BY <1>1, <2>2 DEF LeaseInvOf, Placed
 <2> QED BY <2>1, <2>2, <2>3, StopRunMoves, InterruptLeases
<1> QED BY <1>2, <1>3, <1>4, StreamLeases, InstanceLeases DEF Requests

--------------------
\* Nobody holds a lease at first.
LEMMA LeaseInitInv == Init => LeaseInv
  BY DEF Init, JournalInit, LeaseInv, LeaseInvOf, Bounded, Placed, Holding, StartHolds, TaskHolds,
         Persisting, Waiting, Worked, NoJob, NoEvent

\* The inductive invariant is kept by every step.
LEMMA LeaseStepInv == CoordinatorInv /\ LeaseInv /\ [Next]_vars => LeaseInv'
<1> SUFFICES ASSUME CoordinatorInv, LeaseInv, [Next]_vars PROVE LeaseInv' OBVIOUS
<1>1. CASE UNCHANGED vars
 <2>1. UNCHANGED <<lease, nextToken, up, start, task, inner, orphans, stop, shut, faults>>
   BY <1>1 DEF vars, procVars, journalVars
 <2>2. ASSUME NEW p \in Owners PROVE LeaseInvOf(p)'
  <3>1. LeaseInv' BY <2>1, QuietLease
  <3> QED BY <3>1 DEF LeaseInv
 <2> QED BY <2>2 DEF LeaseInv
<1>2. CASE Next
  BY <1>2, InstanceLeases, RecoveryLeases, StartingLeases, ConsumingLeases, StoppingLeases, RequestLeases
     DEF Next
<1> QED BY <1>1, <1>2

\* What the invariant says of an instance that streams and of one that is idle.
LEMMA LeaseInvHolds == CoordinatorInv /\ LeaseInv => LeasesHold
<1> SUFFICES ASSUME CoordinatorInv, LeaseInv PROVE LeasesHold OBVIOUS
<1>1. LiveRunHoldsLease BY DEF LeaseInv, LeaseInvOf, Holding, TaskHolds, RowOf, LiveRunHoldsLease
<1>2. NoLeakedLease BY DEF LeaseInv, LeaseInvOf, Worked, StartHolds, NoLeakedLease, Quiescent
<1> QED BY <1>1, <1>2 DEF LeasesHold

(* The lease follows the work: an instance that consumes the stream of a
   run holds the session's lease under that run's token, and a serving
   instance with nothing in progress holds none unless a transaction has
   failed, whatever overlapping instances, late threads, cancel() and
   crashes do (run_coordinator.py over session_event_journal.py). *)
THEOREM LeaseFollowsWork == Spec => []LeasesHold
<1> QED BY CoordinatorInitInv, CoordinatorStepInv, LeaseInitInv, LeaseStepInv, LeaseInvHolds, PTL
        DEF Spec

--------------------
(* One open run.  With one instance at a time, a run that is open but not
   leased is one that waits for an approval, as soon as the instance has
   hydrated: recovery closes the others, and between the check of a start
   and its begin_run only the instance's own work can touch the journal. *)
Open(r)   == HasStarted(r) /\ ~HasTerminal(r)
Leased(r) == \E l \in lease : l.run = r
Kept(r)   == RecoverableApproval(r) \/ HasTerminal(r)

Alone == \A p, q \in Owners : Alive(p) /\ Alive(q) => p = q

\* Nothing is left of an instance that is gone, and a serving one suspends no
\* task and leaves no shielded write behind.
Resident(p) ==
    /\ ~Alive(p) => /\ orphans[p] = {} /\ inner[p].state # "pending" /\ ~suspend[p]
                    /\ hyd[p] = "no" /\ reject[p] = NoRun
    /\ start[p].pc # "idle" => Serving(p)
    /\ suspend[p] \/ task[p].pc = "suspend" => up[p] # "up"
    /\ up[p] = "up" /\ inner[p].state = "pending" => task[p].pc \in {"persist", "cancel"}

AllListed(p) == \A r \in Runs : Open(r) => r \in todo[p] \/ RecoverableApproval(r)
AllKept      == \A r \in Runs : Open(r) => Leased(r) \/ RecoverableApproval(r)
AllLeased    == \A r \in Runs : Open(r) => Leased(r)

\* What the instance that serves the session knows of the open runs.
Recorded(p) == up[p] = "up" =>
    /\ hyd[p] # "yes" => \A l \in lease : l.owner # p
    /\ hyd[p] \notin {"no", "yes"} => lease = {}
    /\ hyd[p] \in {"check", "close"} => AllListed(p)
    /\ hyd[p] = "yes" => AllKept
    /\ start[p].pc = "begin" => AllLeased
    /\ start[p].pc \in {"resume", "resumed"} => Kept(start[p].run)

OpenInv == Alone /\ OneOpenRun /\ \A p \in Owners : Resident(p) /\ Recorded(p)

--------------------
(* What the journal steps of the instance do to the open runs. *)

\* Growth for one run leaves the others as they are.
LEMMA GrowthElsewhere ==
    ASSUME NEW r, Grows(r), NEW q, q # r
    PROVE  /\ Open(q)' = Open(q) /\ Kept(q)' = Kept(q)
           /\ RecoverableApproval(q)' = RecoverableApproval(q)
<1>1. ASSUME NEW k
      PROVE  /\ Of(q, k)' = Of(q, k)
             /\ \A n \in Of(q, k) : events'[n] = events[n] BY DEF Grows, Of
<1>2. HasStarted(q)' = HasStarted(q) /\ HasTerminal(q)' = HasTerminal(q)
  BY <1>1 DEF HasStarted, HasTerminal
<1>3. RecoverableApproval(q)' = RecoverableApproval(q) BY <1>1, <1>2 DEF RecoverableApproval
<1> QED BY <1>2, <1>3 DEF Open, Kept

\* A table that stays as it is.
LEMMA SameRuns ==
    ASSUME UNCHANGED events, NEW q
    PROVE  /\ Open(q)' = Open(q) /\ Kept(q)' = Kept(q)
           /\ RecoverableApproval(q)' = RecoverableApproval(q)
  BY DEF Open, Kept, RecoverableApproval, HasStarted, HasTerminal, Of

\* Events added under the lease, a terminal that gives the lease back, and the
\* record of a rejected input.
Writing == \E r \in Runs : Leased(r) /\ Grows(r) /\ (Open(r)' => Open(r)) /\ UNCHANGED lease
Closing == \E r \in Runs : Leased(r) /\ Grows(r) /\ HasTerminal(r)' /\ lease' = {}
Noting  == \E r \in Runs : ~Kept(r) /\ Grows(r) /\ ~HasStarted(r)' /\ UNCHANGED lease
Work    == UNCHANGED <<events, lease>> \/ Writing \/ Closing \/ Noting

\* They open no run, and a run that was leased or waits for an approval still is
\* or is closed.
LEMMA WorkKeeps ==
    ASSUME OneRow, Work
    PROVE  /\ OneOpenRun => OneOpenRun'
           /\ AllKept => AllKept'
           /\ AllLeased => AllLeased'
           /\ \A l \in lease' : l \in lease
           /\ \A p : lease = {} /\ todo'[p] = todo[p] /\ AllListed(p) => AllListed(p)'
<1>0. OneOpenRun <=> \A q, r \in Runs : Open(q) /\ Open(r) => q = r BY DEF OneOpenRun, Open
<1>00. OneOpenRun' <=> \A q, r \in Runs : Open(q)' /\ Open(r)' => q = r BY DEF OneOpenRun, Open
<1>1. CASE UNCHANGED <<events, lease>>
 <2>1. \A q : Leased(q)' = Leased(q) BY <1>1 DEF Leased
 <2> QED BY <1>0, <1>00, <1>1, <2>1, SameRuns DEF AllKept, AllLeased, AllListed
<1>2. CASE Writing
 <2>1. PICK r \in Runs : Leased(r) /\ Grows(r) /\ (Open(r)' => Open(r)) /\ UNCHANGED lease
   BY <1>2 DEF Writing
 <2>2. \A q : Leased(q)' = Leased(q) BY <2>1 DEF Leased
 <2>3. lease # {} BY <2>1 DEF Leased
 <2> QED BY <1>0, <1>00, <2>1, <2>2, <2>3, GrowthElsewhere DEF AllKept, AllLeased
<1>3. CASE Closing
 <2>1. PICK r \in Runs : Leased(r) /\ Grows(r) /\ HasTerminal(r)' /\ lease' = {} BY <1>3 DEF Closing
 <2>2. \A q : Leased(q) => q = r BY <2>1 DEF Leased, OneRow
 <2>3. ~Open(r)' BY <2>1 DEF Open
 <2>4. lease # {} BY <2>1 DEF Leased
 <2> QED BY <1>0, <1>00, <2>1, <2>2, <2>3, <2>4, GrowthElsewhere DEF AllKept, AllLeased
<1>4. CASE Noting
 <2>1. PICK r \in Runs : ~Kept(r) /\ Grows(r) /\ ~HasStarted(r)' /\ UNCHANGED lease
   BY <1>4 DEF Noting
 <2>2. \A q : Leased(q)' = Leased(q) BY <2>1 DEF Leased
 <2>3. ~Open(r)' BY <2>1 DEF Open
 <2> QED BY <1>0, <1>00, <2>1, <2>2, <2>3, GrowthElsewhere DEF AllKept, AllLeased, AllListed
<1> QED BY <1>1, <1>2, <1>3, <1>4 DEF Work

\* Only an event that is no terminal can answer an approval.
LEMMA KeptStays ==
    ASSUME UNCHANGED events \/ Closing \/ Noting, NEW q, Kept(q)
    PROVE  Kept(q)'
<1>1. CASE UNCHANGED events BY <1>1, SameRuns
<1>2. CASE Closing BY <1>2, GrowthElsewhere DEF Closing, Kept
<1>3. CASE Noting BY <1>3, GrowthElsewhere DEF Noting
<1> QED BY <1>1, <1>2, <1>3

\* An event under the lease.
LEMMA AppendIsWriting ==
    ASSUME CoordinatorInv, NEW r, NEW o, NEW t, NEW c \in Contents, c.kind # "terminal",
           AppendFenced(r, o, t, c)
    PROVE  Writing
<1>1. r \in Runs /\ t \in Nat /\ events \in Seq(EventRecord) /\ Leased(r)
  BY DEF CoordinatorInv, JournalInv, JournalTypeOK, EventRecord, AppendFenced, Fenced, LeaseRow, Leased
<1> DEFINE e == Event(r, c.kind, c.info, t)
<1>2. /\ e \in EventRecord /\ e.run = r /\ e.kind = c.kind
      /\ c.kind # "started" /\ events' = Append(events, e) /\ UNCHANGED lease
  BY <1>1 DEF AppendFenced, Event, EventRecord, Contents, Kinds, Infos
<1> HIDE DEF e
<1>3. Grows(r) BY <1>1, <1>2, AppendGrows
<1>4. Open(r)' => Open(r) BY <1>1, <1>2, AppendFacts DEF Open, HasStarted, HasTerminal, Of
<1> QED BY <1>1, <1>2, <1>3, <1>4 DEF Writing

\* The terminal transaction closes the run.
LEMMA TerminalCloses ==
    ASSUME JournalInv, NEW r \in Runs, NEW s \in Statuses, NEW t \in Nat,
           events' = WithTerminal(r, s, t)
    PROVE  HasTerminal(r)' /\ Grows(r)
<1>1. Grows(r) BY TerminalGrows
<1>2. CASE HasTerminal(r) BY <1>1, <1>2 DEF WithTerminal, HasTerminal, Of
<1>3. CASE ~HasTerminal(r)
 <2> DEFINE e == Event(r, "terminal", s, t)
 <2>1. /\ e \in EventRecord /\ e.run = r /\ e.kind = "terminal"
       /\ events' = Append(events, e) /\ events \in Seq(EventRecord)
   BY <1>3 DEF Event, EventRecord, Kinds, Infos, WithTerminal, JournalInv, JournalTypeOK
 <2> HIDE DEF e
 <2>2. Len(events) + 1 \in DOMAIN events' /\ events'[Len(events) + 1] = e BY <2>1, AppendFacts
 <2> QED BY <1>1, <2>1, <2>2 DEF HasTerminal, Of
<1> QED BY <1>1, <1>2, <1>3

\* A terminal under the lease.
LEMMA ReleaseIsClosing ==
    ASSUME CoordinatorInv, NEW r, NEW o, NEW t, NEW s \in Statuses,
           AppendTerminalAndRelease(r, o, t, s)
    PROVE  Closing
<1>1. r \in Runs /\ t \in Nat /\ Leased(r) /\ JournalInv
  BY DEF CoordinatorInv, JournalInv, JournalTypeOK, AppendTerminalAndRelease, Fenced, LeaseRow, Leased
<1>2. HasTerminal(r)' /\ Grows(r) BY <1>1, TerminalCloses DEF AppendTerminalAndRelease
<1>3. lease' = {} BY ReleasedLease
<1> QED BY <1>1, <1>2, <1>3 DEF Closing

\* A note of the record of a rejected input, and its terminal.
LEMMA RejectIsNoting ==
    ASSUME CoordinatorInv, NEW r \in Runs, RejectedInput(r), Unleased(r), UNCHANGED lease,
           \/ events' = Append(events, Event(r, "note", "none", 0))
           \/ events' = WithTerminal(r, "error", 0)
    PROVE  Noting
<1>1. /\ ~HasTerminal(r) /\ ~HasStarted(r) /\ ~Kept(r) /\ events \in Seq(EventRecord)
      /\ Event(r, "note", "none", 0) \in EventRecord /\ Event(r, "terminal", "error", 0) \in EventRecord
      /\ Event(r, "note", "none", 0).run = r /\ Event(r, "terminal", "error", 0).run = r
      /\ Event(r, "note", "none", 0).kind # "started"
      /\ Event(r, "terminal", "error", 0).kind # "started"
  BY DEF RejectedInput, HasTerminal, HasStarted, Kept, RecoverableApproval, Of, Event, EventRecord,
         Kinds, Infos, Statuses, CoordinatorInv, JournalInv, JournalTypeOK
<1>2. PICK e \in EventRecord : e.run = r /\ e.kind # "started" /\ events' = Append(events, e)
  BY <1>1 DEF WithTerminal
<1>3. Grows(r) /\ ~HasStarted(r)' BY <1>1, <1>2, AppendGrows, AppendFacts DEF HasStarted, Of
<1> QED BY <1>1, <1>3 DEF Noting

--------------------
(* The actions, one lemma for each group of the specification. *)

\* Nothing of instance q moves.
Alike(q) == Same(q) /\ hyd'[q] = hyd[q] /\ reject'[q] = reject[q] /\ suspend'[q] = suspend[q]

\* With one instance it is enough to look at that instance.
LEMMA AloneSteps ==
    ASSUME OpenInv, NEW p \in Owners, Alive(p), \A q \in Owners : q # p => Alike(q),
           OneOpenRun', Resident(p)', Recorded(p)'
    PROVE  OpenInv'
<1>1. ASSUME NEW q \in Owners, q # p PROVE ~Alive(q) /\ ~Alive(q)' /\ up'[q] # "up"
  BY <1>1 DEF OpenInv, Alone, Alike, Same, Alive
<1>2. Alone' BY <1>1 DEF Alone
<1>3. ASSUME NEW q \in Owners, q # p PROVE Resident(q)' /\ Recorded(q)'
 <2>1. Resident(q) /\ Alike(q) BY <1>3 DEF OpenInv
 <2>2. Resident(q)' BY <1>1, <1>3, <2>1 DEF Resident, Alike, Same, Serving
 <2> QED BY <1>1, <1>3, <2>2 DEF Recorded
<1> QED BY <1>2, <1>3 DEF OpenInv

\* Work of an instance that starts nothing new.
LEMMA WorkSteps ==
    ASSUME CoordinatorInv, OpenInv, NEW p \in Owners, Alive(p), Work,
           \A q \in Owners : q # p => Alike(q),
           up'[p] = "up" => /\ up[p] = "up" /\ hyd'[p] = hyd[p] /\ todo'[p] = todo[p]
                            /\ \/ start'[p].pc \notin {"begin", "resume", "resumed"}
                               \/ start'[p] = start[p] /\ (UNCHANGED events \/ Closing \/ Noting),
           Resident(p)'
    PROVE  OpenInv'
<1>1. OneRow /\ OneOpenRun /\ Recorded(p) BY DEF CoordinatorInv, JournalInv, OpenInv
<1>2. OneOpenRun' BY <1>1, WorkKeeps
<1>3. Recorded(p)'
 <2> SUFFICES ASSUME up'[p] = "up"
              PROVE  /\ hyd'[p] # "yes" => \A l \in lease' : l.owner # p
                     /\ hyd'[p] \notin {"no", "yes"} => lease' = {}
                     /\ hyd'[p] \in {"check", "close"} => AllListed(p)'
                     /\ hyd'[p] = "yes" => AllKept'
                     /\ start'[p].pc = "begin" => AllLeased'
                     /\ start'[p].pc \in {"resume", "resumed"} => Kept(start[p].run)'
   BY DEF Recorded
 <2>1. /\ hyd[p] # "yes" => \A l \in lease : l.owner # p
       /\ hyd[p] \notin {"no", "yes"} => lease = {}
       /\ hyd[p] \in {"check", "close"} => AllListed(p)
       /\ hyd[p] = "yes" => AllKept
       /\ start[p].pc = "begin" => AllLeased
       /\ start[p].pc \in {"resume", "resumed"} => Kept(start[p].run) BY <1>1 DEF Recorded
 <2>2. /\ \A l \in lease' : l \in lease
       /\ AllKept => AllKept'
       /\ AllLeased => AllLeased'
       /\ lease = {} /\ todo'[p] = todo[p] /\ AllListed(p) => AllListed(p)' BY <1>1, WorkKeeps
 <2>3. ASSUME start'[p].pc \in {"resume", "resumed"} PROVE Kept(start[p].run)'
  <3>1. start'[p] = start[p] /\ (UNCHANGED events \/ Closing \/ Noting) BY <2>3
  <3>2. PICK r : r = start[p].run OBVIOUS
  <3>3. Kept(r) BY <2>1, <2>3, <3>1, <3>2
  <3>4. Kept(r)' BY <3>1, <3>3, KeptStays
  <3>5. start'[p].run = r BY <3>1, <3>2
  <3> QED BY <3>4, <3>5
 <2>4. start'[p].pc = "begin" => start[p].pc = "begin" OBVIOUS
 <2> QED BY <2>1, <2>2, <2>3, <2>4
<1> QED BY <1>2, <1>3, AloneSteps

\* Boot, crash and shutdown.
LEMMA InstanceOpens ==
    ASSUME ~Overlap, CoordinatorInv, LeaseInv, OpenInv, NEW p \in Owners,
           Boot(p) \/ Crash(p) \/ ShutdownBegin(p)
    PROVE  OpenInv'
<1>1. ProcTypeOK /\ Placed(p) /\ Resident(p) /\ OneOpenRun
  BY DEF CoordinatorInv, LeaseInv, LeaseInvOf, OpenInv
<1>2. CASE Boot(p)
 <2>1. /\ up[p] = "off" /\ up'[p] = "up" /\ \A q \in Owners : q # p => up'[q] = up[q]
       /\ UNCHANGED <<events, lease, hyd, start, task, inner, orphans, suspend, stop, shut, reject>>
       /\ \A q \in Owners : ~Alive(q) BY <1>1, <1>2 DEF Boot, journalVars, ProcTypeOK, UpType
 <2>2. Alone' BY <2>1 DEF Alone, Alive
 <2>3. OneOpenRun' BY <1>1, <2>1, SameRuns DEF OneOpenRun, Open
 <2>4. Resident(p)' /\ Recorded(p)' BY <1>1, <2>1 DEF Resident, Recorded, Placed, Alive
 <2>5. ASSUME NEW q \in Owners, q # p PROVE Resident(q)' /\ Recorded(q)'
  <3>1. Resident(q) /\ ~Alive(q) /\ up'[q] = up[q] BY <2>1, <2>5 DEF OpenInv
  <3> QED BY <2>1, <3>1 DEF Resident, Recorded, Alive, Serving
 <2> QED BY <2>2, <2>3, <2>4, <2>5 DEF OpenInv
<1>3. CASE Crash(p)
 <2>1. /\ Alive(p) /\ UNCHANGED <<events, lease>> /\ up'[p] = "dead"
       /\ hyd'[p] = "no" /\ start'[p] = NoJob /\ task'[p] = NoJob /\ inner'[p] = NoEvent
       /\ orphans'[p] = {} /\ suspend'[p] = FALSE /\ reject'[p] = NoRun
   BY <1>1, <1>3 DEF Crash, journalVars, ProcTypeOK, UpType, HydType, StartType, TaskType, InnerType,
                     OrphansType, SuspendType, RejectType
 <2>2. \A q \in Owners : q # p => Alike(q)
   BY <1>1, <1>3 DEF Crash, Alike, Same, ProcTypeOK, UpType, HydType, StartType, TaskType, InnerType,
                     OrphansType, SuspendType, RejectType, StopType, ShutType
 <2>3. Resident(p)' BY <2>1 DEF Resident, NoJob, NoEvent
 <2> QED BY <2>1, <2>2, <2>3, WorkSteps DEF Work
<1>4. CASE ShutdownBegin(p)
 <2>1. /\ Alive(p) /\ up'[p] = "closing" /\ start[p].pc = "idle"
       /\ UNCHANGED <<events, lease, hyd, start, task, inner, orphans, suspend, stop, shut, reject>>
       /\ \A q \in Owners : q # p => up'[q] = up[q]
   BY <1>1, <1>4 DEF ShutdownBegin, Serving, Alive, journalVars, ProcTypeOK, UpType
 <2>2. Resident(p)' /\ \A q \in Owners : q # p => Alike(q)
   BY <1>1, <2>1 DEF Resident, Alike, Same, Alive
 <2> QED BY <2>1, <2>2, WorkSteps DEF Work
<1> QED BY <1>2, <1>3, <1>4

\* Recovery closes every open run that waits for nothing.
LEMMA RecoveryOpens ==
    ASSUME CoordinatorInv, LeaseInv, OpenInv, NEW p \in Owners, Recovery(p) \/ RecoveryFails(p)
    PROVE  OpenInv'
<1>1. ProcTypeOK /\ Resident(p) /\ Recorded(p) /\ OneOpenRun /\ JournalInv
  BY DEF CoordinatorInv, OpenInv
<1>2. Alive(p) /\ hyd[p] # "yes" /\ start[p].pc = "idle"
  BY <1>1 DEF Recovery, RecoverLease, ListUnfinished, RecoverCheck, RecoverClose, RecoveryFails, Resident,
              Serving, Alive
<1>3. UNCHANGED <<up, start, task, inner, orphans, suspend, stop, shut, reject>>
  BY DEF Recovery, RecoverLease, ListUnfinished, RecoverCheck, RecoverClose, RecoveryFails
<1>4. /\ \A q \in Owners : q # p => hyd'[q] = hyd[q]
      /\ hyd'[p] \in {"no", "list", "check", "close", "yes"}
  BY <1>1 DEF Recovery, RecoverLease, ListUnfinished, RecoverCheck, RecoverClose, RecoveryFails,
              ProcTypeOK, HydType
<1>5. Resident(p)' /\ \A q \in Owners : q # p => Alike(q)
  BY <1>1, <1>2, <1>3, <1>4 DEF Resident, Alike, Same, Alive
<1>6. SUFFICES OneOpenRun' /\ (up[p] = "up" =>
                   /\ \A l \in lease' : l.owner # p
                   /\ hyd'[p] \notin {"no", "yes"} => lease' = {}
                   /\ hyd'[p] \in {"check", "close"} => AllListed(p)'
                   /\ hyd'[p] = "yes" => AllKept')
 <2>1. ASSUME up[p] = "up" => /\ \A l \in lease' : l.owner # p
                              /\ hyd'[p] \notin {"no", "yes"} => lease' = {}
                              /\ hyd'[p] \in {"check", "close"} => AllListed(p)'
                              /\ hyd'[p] = "yes" => AllKept'
       PROVE  Recorded(p)' BY <1>2, <1>3, <2>1 DEF Recorded
 <2> QED BY <1>2, <1>5, <2>1, AloneSteps
<1>7. up[p] = "up" => /\ \A l \in lease : l.owner # p
                      /\ hyd[p] # "no" => lease = {}
                      /\ hyd[p] \in {"check", "close"} => AllListed(p) BY <1>1, <1>2 DEF Recorded
<1>8. OneOpenRun <=> \A q, r \in Runs : Open(q) /\ Open(r) => q = r BY DEF OneOpenRun, Open
<1>9. OneOpenRun' <=> \A q, r \in Runs : Open(q)' /\ Open(r)' => q = r BY DEF OneOpenRun, Open
<1>10. UNCHANGED events => OneOpenRun' BY <1>1, <1>8, <1>9, SameRuns
\* A terminal of recovery opens nothing.
<1>11. ASSUME NEW r \in Runs, events' = WithTerminal(r, "interrupted", 0)
       PROVE  OneOpenRun' /\ ~Open(r)' /\ Grows(r)
 <2>1. HasTerminal(r)' /\ Grows(r) BY <1>1, <1>11, TerminalCloses DEF Statuses
 <2>2. ~Open(r)' BY <2>1 DEF Open
 <2> QED BY <1>1, <1>8, <1>9, <2>1, <2>2, GrowthElsewhere
<1>12. CASE RecoverLease(p)
 <2>1. hyd'[p] = "list" /\ hyd[p] = "no" /\ up[p] = "up"
   BY <1>1, <1>12 DEF RecoverLease, ProcTypeOK, HydType
 <2>2. CASE \E l \in lease : ~Alive(l.owner)
  <3>1. RecoverDeadLease BY <1>12, <2>2 DEF RecoverLease
  <3>2. PICK l \in lease : /\ lease' = {}
                           /\ \/ UNCHANGED events
                              \/ events' = WithTerminal(l.run, "interrupted", 0)
    BY <3>1 DEF RecoverDeadLease
  <3>3. l.run \in Runs BY <1>1 DEF JournalInv, JournalTypeOK
  <3> QED BY <1>10, <1>11, <2>1, <3>2, <3>3
 <2>3. CASE ~ \E l \in lease : ~Alive(l.owner)
  <3>1. UNCHANGED <<events, lease>> BY <1>12, <2>3 DEF RecoverLease, journalVars
  <3>2. ASSUME NEW l \in lease PROVE FALSE
   <4>1. l.owner \in Owners /\ Alive(l.owner) BY <1>1, <2>3 DEF JournalInv, JournalTypeOK
   <4>2. l.owner = p BY <1>2, <4>1 DEF OpenInv, Alone
   <4> QED BY <1>7, <2>1, <4>2
  <3>3. lease' = {} BY <3>1, <3>2
  <3> QED BY <1>10, <2>1, <3>1, <3>3
 <2> QED BY <2>2, <2>3
<1>13. CASE ListUnfinished(p)
 <2>1. /\ hyd[p] = "list" /\ hyd'[p] = "check" /\ UNCHANGED <<events, lease>>
       /\ todo'[p] = UnfinishedRuns
   BY <1>1, <1>13 DEF ListUnfinished, journalVars, ProcTypeOK, HydType, TodoType
 <2>2. ASSUME lease = {} PROVE AllListed(p)'
  <3>1. \A r \in Runs : Open(r) => r \in UnfinishedRuns BY <2>2 DEF Open, UnfinishedRuns
  <3> QED BY <2>1, <3>1, SameRuns DEF AllListed
 <2> QED BY <1>7, <1>10, <2>1, <2>2
<1>14. CASE RecoverCheck(p)
 <2>1. /\ hyd[p] = "check" /\ UNCHANGED <<events, lease>>
       /\ \/ todo[p] = {} /\ hyd'[p] = "yes"
          \/ /\ hyd'[p] \in {"check", "close"}
             /\ \A r \in todo[p] : r \in todo'[p] \/ RecoverableApproval(r)
   BY <1>1, <1>14 DEF RecoverCheck, journalVars, ProcTypeOK, HydType, TodoType
 <2>2. ASSUME AllListed(p) PROVE /\ hyd'[p] \in {"check", "close"} => AllListed(p)'
                                 /\ hyd'[p] = "yes" => AllKept'
   BY <2>1, <2>2, SameRuns DEF AllListed, AllKept
 <2> QED BY <1>7, <1>10, <2>1, <2>2
<1>15. CASE RecoverClose(p)
 <2>1. hyd[p] = "close" /\ UNCHANGED lease BY <1>15 DEF RecoverClose, CloseUnleased, journalVars
 <2>2. \/ hyd'[p] = "no" /\ UNCHANGED events
       \/ \E r \in todo[p] : /\ events' = WithTerminal(r, "interrupted", 0)
                             /\ todo'[p] = todo[p] \ {r} /\ hyd'[p] = "check"
   BY <1>1, <1>15 DEF RecoverClose, CloseUnleased, journalVars, ProcTypeOK, HydType, TodoType
 <2>3. CASE hyd'[p] = "no" /\ UNCHANGED events BY <1>7, <1>10, <2>1, <2>3
 <2>4. ASSUME NEW r \in todo[p], events' = WithTerminal(r, "interrupted", 0),
              todo'[p] = todo[p] \ {r}, hyd'[p] = "check"
       PROVE  OneOpenRun' /\ (AllListed(p) => AllListed(p)')
  <3>1. r \in Runs BY <1>1, EntryTypes
  <3>2. OneOpenRun' /\ ~Open(r)' /\ Grows(r) BY <1>11, <2>4, <3>1
  <3> QED BY <2>4, <3>2, GrowthElsewhere DEF AllListed
 <2> QED BY <1>7, <2>1, <2>2, <2>3, <2>4
<1>16. CASE RecoveryFails(p)
 <2>1. up[p] = "up" /\ hyd'[p] = "no" /\ UNCHANGED <<events, lease>>
   BY <1>1, <1>16 DEF RecoveryFails, Fault, journalVars, ProcTypeOK, HydType
 <2> QED BY <1>7, <1>10, <2>1
<1> QED BY <1>12, <1>13, <1>14, <1>15, <1>16 DEF Recovery

\* A start that ends, or is handed to its task, or fails.
LEMMA IdleOpens ==
    ASSUME CoordinatorInv, LeaseInv, OpenInv, NEW p \in Owners, Idle(p), Serving(p), Work,
           UNCHANGED <<up, hyd, todo, inner, orphans, suspend, stop, shut, reject>>,
           start[p].pc # "idle", task'[p].pc \in {"idle", "new"},
           \A q \in Owners : q # p => task'[q] = task[q]
    PROVE  OpenInv'
<1>1. ProcTypeOK /\ Resident(p) /\ Placed(p) /\ Alive(p)
  BY DEF CoordinatorInv, OpenInv, LeaseInv, LeaseInvOf, Serving, Alive
<1>2. start'[p].pc = "idle" /\ \A q \in Owners : q # p => start'[q] = start[q]
  BY <1>1 DEF Idle, ProcTypeOK, StartType, NoJob
<1>3. Resident(p)' /\ \A q \in Owners : q # p => Alike(q)
  BY <1>1, <1>2 DEF Resident, Placed, Alike, Same, Serving, Alive
<1> QED BY <1>1, <1>2, <1>3, WorkSteps DEF Serving

\* begin_run finds no open run, and a resumed run waits until its task answers.
LEMMA StartingOpens ==
    ASSUME CoordinatorInv, LeaseInv, OpenInv, NEW p \in Owners, Starting(p)
    PROVE  OpenInv'
<1>1. /\ ProcTypeOK /\ Resident(p) /\ Recorded(p) /\ Placed(p) /\ OneOpenRun /\ JournalInv /\ OneRow
      /\ start \in [Owners -> Job(StartPCs)] /\ start[p] \in Job(StartPCs)
  BY DEF CoordinatorInv, OpenInv, LeaseInv, LeaseInvOf, JournalInv, ProcTypeOK, StartType
<1>2. start[p].pc # "idle" BY DEF Starting, Begin, Resume, StartOwn, StartAbort
<1>3. Serving(p) /\ Alive(p) /\ task[p].pc = "idle"
  BY <1>1, <1>2 DEF Resident, Placed, Serving, Alive
<1>4. /\ AllKept
      /\ start[p].pc = "begin" => AllLeased
      /\ start[p].pc \in {"resume", "resumed"} => Kept(start[p].run)
  BY <1>1, <1>3 DEF Recorded, Serving
<1>5. ASSUME Idle(p), UNCHANGED <<up, hyd, todo, task, inner, orphans, suspend, stop, shut, reject>>,
             Work
      PROVE  OpenInv' BY <1>2, <1>3, <1>5, IdleOpens
<1>6. ASSUME Fault \/ Raises(start[p].run, p, start[p].token)
      PROVE  UNCHANGED <<events, lease>> BY <1>6 DEF Fault, Raises, journalVars
\* The lease has been taken.
<1>7. ASSUME NEW pc \in {"begun", "resumed"},
             start' = [start EXCEPT ![p].pc = pc, ![p].token = nextToken],
             UNCHANGED <<up, hyd, todo, task, inner, orphans, suspend, stop, shut, reject>>,
             OneOpenRun', AllKept', pc = "resumed" => Kept(start[p].run)'
      PROVE  OpenInv'
 <2>1. /\ start'[p].pc = pc /\ start'[p].run = start[p].run
       /\ \A q \in Owners : q # p => start'[q] = start[q] BY <1>1, <1>7 DEF Job
 <2>2. \A q \in Owners : q # p => Alike(q) BY <1>7, <2>1 DEF Alike, Same
 <2>3. Resident(p)' /\ Serving(p)' BY <1>1, <1>3, <1>7 DEF Resident, Serving, Alive
 <2>4. Recorded(p)'
  <3>1. hyd'[p] = "yes" BY <2>3 DEF Serving
  <3> QED BY <1>7, <2>1, <3>1 DEF Recorded
 <2> QED BY <1>3, <1>7, <2>2, <2>3, <2>4, AloneSteps
<1>8. CASE Begin(p)
 <2>1. CASE Idle(p) /\ UNCHANGED <<events, lease>> BY <1>5, <1>8, <2>1 DEF Begin, Work
 <2>2. CASE /\ BeginRun(start[p].run, p)
            /\ start' = [start EXCEPT ![p].pc = "begun", ![p].token = nextToken]
  <3> DEFINE r == start[p].run
             e == Event(r, "started", "none", nextToken)
  <3>1. r \in Runs /\ lease = {} /\ lease' = {LeaseRow(r, p, nextToken)}
        /\ events' = Append(events, e) /\ events \in Seq(EventRecord) /\ start[p].pc = "begin"
        /\ e \in EventRecord /\ e.run = r
    BY <1>1, <1>8, <2>2 DEF Begin, BeginRun, CoordinatorInv, ClaimInv, BeginIsFresh, JournalInv,
          JournalTypeOK, EventRecord, Event, Kinds, Infos
  <3>2. PICK s \in Runs : s = start[p].run BY <3>1
  <3>3. Grows(s) /\ Leased(s)' BY <3>1, <3>2, AppendGrows DEF LeaseRow, Leased
  <3>4. ASSUME NEW q \in Runs PROVE ~Open(q) BY <1>4, <3>1 DEF AllLeased, Leased
  <3>5. ASSUME NEW q \in Runs, Open(q)' PROVE q = s BY <3>3, <3>4, <3>5, GrowthElsewhere
  <3>6. OneOpenRun' /\ AllKept' BY <3>3, <3>5 DEF OneOpenRun, Open, AllKept
  <3> QED BY <1>7, <1>8, <2>2, <3>6 DEF Begin
 <2> QED BY <1>6, <1>8, <2>1, <2>2 DEF Begin, journalVars
<1>9. CASE Resume(p)
 <2>1. CASE Idle(p) /\ UNCHANGED <<events, lease>> BY <1>5, <1>9, <2>1 DEF Resume, Work
 <2>2. CASE /\ ResumeRun(start[p].run, p)
            /\ start' = [start EXCEPT ![p].pc = "resumed", ![p].token = nextToken]
  <3>1. lease = {} /\ UNCHANGED events /\ Kept(start[p].run)
    BY <1>4, <1>9, <2>2 DEF Resume, ResumeRun
  <3>2. PICK s : s = start[p].run OBVIOUS
  <3>3. Kept(s)' BY <3>1, <3>2, SameRuns
  <3>4. Kept(start[p].run)'
   <4>1. start'[p].run = s BY <1>1, <2>2, <3>2 DEF Job
   <4> QED BY <3>3, <4>1
  <3>5. OneOpenRun' /\ AllKept'
   <4>1. \A q \in Runs : Open(q) => RecoverableApproval(q) BY <1>4, <3>1 DEF AllKept, Leased
   <4>2. \A q \in Runs : Open(q)' => Open(q) /\ RecoverableApproval(q)' BY <3>1, <4>1, SameRuns
   <4> QED BY <1>1, <4>2 DEF OneOpenRun, Open, AllKept
  <3> QED BY <1>7, <1>9, <2>2, <3>4, <3>5 DEF Resume
 <2> QED BY <1>6, <1>9, <2>1, <2>2 DEF Resume, journalVars
<1>10. CASE StartOwn(p)
 <2>1. task'[p].pc = "new" /\ \A q \in Owners : q # p => task'[q] = task[q]
   BY <1>1, <1>10 DEF StartOwn, ProcTypeOK, TaskType
 <2>2. Work BY <1>10 DEF StartOwn, Work, journalVars
 <2> QED BY <1>2, <1>3, <1>10, <2>1, <2>2, IdleOpens DEF StartOwn
<1>11. CASE StartAbort(p)
 <2>1. CASE Raises(start[p].run, p, start[p].token) BY <1>5, <1>6, <1>11, <2>1 DEF StartAbort, Work
 <2>2. CASE AppendTerminalAndRelease(start[p].run, p, start[p].token, "cancelled")
  <3>1. Closing BY <2>2, ReleaseIsClosing DEF Statuses
  <3> QED BY <1>5, <1>11, <3>1 DEF StartAbort, Work
 <2>3. CASE start[p].pc = "resumed" /\ ReleaseRunLease(start[p].run, p, start[p].token)
  <3>1. /\ UNCHANGED events /\ lease' = {} /\ Fenced(start[p].run, p, start[p].token)
        /\ Kept(start[p].run) BY <1>4, <2>3, ReleasedLease DEF ReleaseRunLease
  <3>2. \A q : Leased(q) => q = start[p].run
   <4>1. lease = {LeaseRow(start[p].run, p, start[p].token)} BY <3>1, FencedLease
   <4> QED BY <4>1 DEF Leased, LeaseRow
  <3>3. \A q \in Runs : Open(q) => RecoverableApproval(q)
    BY <1>4, <3>1, <3>2 DEF AllKept, Kept, Open
  <3>4. OneOpenRun' /\ AllKept'
   <4>1. \A q \in Runs : Open(q)' => Open(q) /\ RecoverableApproval(q)' BY <3>1, <3>3, SameRuns
   <4> QED BY <1>1, <4>1 DEF OneOpenRun, Open, AllKept
  <3>5. /\ UNCHANGED <<up, hyd, task, inner, orphans, suspend, stop, shut, reject>>
        /\ start'[p].pc = "idle" /\ \A q \in Owners : q # p => start'[q] = start[q]
    BY <1>1, <1>11 DEF StartAbort, Idle, NoJob
  <3>6. Resident(p)' /\ \A q \in Owners : q # p => Alike(q)
    BY <1>1, <1>3, <3>5 DEF Resident, Alike, Same, Alive
  <3>7. hyd'[p] = "yes" BY <1>3, <3>5 DEF Serving
  <3>8. Recorded(p)' BY <3>4, <3>5, <3>7 DEF Recorded
  <3> QED BY <1>3, <3>4, <3>6, <3>8, AloneSteps
 <2> QED BY <1>11, <2>1, <2>2, <2>3 DEF StartAbort
<1> QED BY <1>8, <1>9, <1>10, <1>11 DEF Starting

\* A step of the task, or of what it has left behind, while no start is in progress
\* or by transactions that add no answer.
LEMMA TaskOpens ==
    ASSUME CoordinatorInv, LeaseInv, OpenInv, NEW p \in Owners, Alive(p), Work,
           UNCHANGED <<up, hyd, todo, start, reject>>,
           \/ task[p].pc # "idle"
           \/ UNCHANGED events \/ Closing \/ Noting,
           \A q \in Owners : q # p => Alike(q),
           suspend'[p] \in {suspend[p], FALSE} \/ up[p] # "up",
           up[p] = "up" => /\ task'[p].pc # "suspend"
                           /\ inner'[p].state = "pending" => task'[p].pc \in {"persist", "cancel"}
    PROVE  OpenInv'
<1>1. Resident(p) /\ Placed(p) BY DEF OpenInv, LeaseInv, LeaseInvOf
<1>2. Resident(p)' BY <1>1 DEF Resident, Alive, Serving
<1>3. task[p].pc # "idle" => start[p].pc = "idle" BY <1>1 DEF Placed
<1> QED BY <1>2, <1>3, WorkSteps

\* The shielded write and the late threads.
LEMMA LateOpens ==
    ASSUME CoordinatorInv, LeaseInv, OpenInv, NEW p \in Owners, InnerCommit(p) \/ OrphanCommit(p)
    PROVE  OpenInv'
<1>1. /\ ProcTypeOK /\ Resident(p) /\ Placed(p) /\ inner[p] \in InnerRecord
      /\ orphans[p] \subseteq OrphanRecord
  BY EntryTypes DEF CoordinatorInv, OpenInv, LeaseInv, LeaseInvOf
<1>2. CASE InnerCommit(p)
 <2>1. inner[p].state = "pending" /\ Alive(p) /\ Yielded(inner[p]) \in Contents
   BY <1>1, <1>2 DEF InnerCommit, Resident, CoordinatorInv, ClaimInv, PendingIsContent
 <2>2. /\ UNCHANGED <<up, hyd, todo, start, task, orphans, suspend, stop, shut, reject>>
       /\ inner'[p].state # "pending" /\ \A q \in Owners : q # p => inner'[q] = inner[q]
   BY <1>1, <1>2 DEF InnerCommit, ProcTypeOK, InnerType, InnerRecord, NoEvent
 <2>3. Work /\ (Writing => task[p].pc # "idle" \/ up[p] # "up")
  <3>1. CASE Raises(inner[p].run, p, inner[p].token)
    BY <1>1, <2>1, <3>1 DEF Raises, Fault, journalVars, Work, Resident
  <3>2. CASE inner[p].kind # "terminal" /\ AppendFenced(inner[p].run, p, inner[p].token, Yielded(inner[p]))
    BY <1>1, <2>1, <3>2, AppendIsWriting DEF Yielded, Work, Resident
  <3>3. CASE /\ inner[p].kind = "terminal"
             /\ AppendTerminalAndRelease(inner[p].run, p, inner[p].token, inner[p].info)
   <4>1. inner[p].info \in Statuses BY <2>1, <3>3 DEF Yielded, Contents
   <4> QED BY <1>1, <2>1, <3>3, <4>1, ReleaseIsClosing DEF Work, Resident
  <3> QED BY <1>2, <3>1, <3>2, <3>3 DEF InnerCommit, PersistEvent, Yielded
 <2>4. \A q \in Owners : q # p => Alike(q) BY <2>2 DEF Alike, Same
 <2>5. Resident(p)' BY <1>1, <2>1, <2>2 DEF Resident, Alive, Serving
 <2>6. up[p] = "up" => start[p].pc = "idle" \/ ~Writing BY <1>1, <2>3 DEF Placed
 <2>7. UNCHANGED events \/ Writing \/ Closing \/ Noting BY <2>3 DEF Work
 <2> QED BY <2>1, <2>2, <2>3, <2>4, <2>5, <2>6, <2>7, WorkSteps
<1>3. CASE OrphanCommit(p)
 <2>1. PICK o \in orphans[p] :
          /\ \/ AppendTerminalAndRelease(o.run, p, o.token, o.status)
             \/ Raises(o.run, p, o.token)
          /\ UNCHANGED <<up, hyd, todo, start, task, inner, suspend, stop, shut, reject>>
          /\ \A q \in Owners : q # p => orphans'[q] = orphans[q]
   BY <1>1, <1>3 DEF OrphanCommit, ProcTypeOK, OrphansType
 <2>2. Alive(p) BY <1>1, <2>1 DEF Resident
 <2>3. UNCHANGED <<events, lease>> \/ Closing
  <3>1. CASE Raises(o.run, p, o.token) BY <3>1 DEF Raises, Fault, journalVars
  <3>2. CASE AppendTerminalAndRelease(o.run, p, o.token, o.status)
   <4>1. o.status \in Statuses BY <1>1 DEF OrphanRecord
   <4> QED BY <3>2, <4>1, ReleaseIsClosing
  <3> QED BY <2>1, <3>1, <3>2
 <2>4. \A q \in Owners : q # p => Alike(q) BY <2>1 DEF Alike, Same
 <2>5. Resident(p)' BY <1>1, <2>1, <2>2 DEF Resident, Alive, Serving
 <2> QED BY <2>1, <2>2, <2>3, <2>4, <2>5, WorkSteps DEF Work
<1> QED BY <1>2, <1>3

\* The _consume task writes under the lease, and gives it back with the terminal.
LEMMA ConsumingOpens ==
    ASSUME CoordinatorInv, LeaseInv, OpenInv, NEW p \in Owners, Consuming(p)
    PROVE  OpenInv'
<1>1. /\ ProcTypeOK /\ Resident(p) /\ Placed(p) /\ task[p] \in Job(TaskPCs)
      /\ inner \in [Owners -> InnerRecord] /\ suspend \in [Owners -> BOOLEAN]
  BY EntryTypes DEF CoordinatorInv, OpenInv, LeaseInv, LeaseInvOf, ProcTypeOK, InnerType, SuspendType
<1>2. CASE InnerCommit(p) \/ OrphanCommit(p) BY <1>2, LateOpens
<1>3. ASSUME task[p].pc # "idle" PROVE Alive(p) BY <1>1, <1>3 DEF Placed
<1>4. ASSUME TaskRaises(p) PROVE Work BY <1>4 DEF TaskRaises, Raises, Fault, journalVars, Work
<1>5. ASSUME NEW s \in Statuses, PersistTerminal(p, s) PROVE Work
  BY <1>5, ReleaseIsClosing DEF PersistTerminal, Work
<1>6. {"completed", "error", "cancelled"} \subseteq Statuses BY DEF Statuses
\* Steps of the control state alone.
<1>7. ASSUME NEW pc, Step(p, pc), pc # "suspend", Work, task[p].pc # "idle",
             UNCHANGED <<up, hyd, todo, start, orphans, suspend, stop, shut, reject>>,
             \/ inner' = inner /\ (task[p].pc \in {"persist", "cancel"} => inner[p].state # "pending")
             \/ inner' = [inner EXCEPT ![p] = NoEvent]
      PROVE  OpenInv'
 <2>1. task'[p].pc = pc /\ \A q \in Owners : q # p => task'[q] = task[q] BY <1>1, <1>7, StepMoves
 <2>2. /\ \A q \in Owners : q # p => inner'[q] = inner[q]
       /\ up[p] = "up" => inner'[p].state # "pending" BY <1>1, <1>7 DEF NoEvent, Resident
 <2>3. \A q \in Owners : q # p => Alike(q) BY <1>7, <2>1, <2>2 DEF Alike, Same
 <2> QED BY <1>3, <1>7, <2>1, <2>2, <2>3, TaskOpens
<1>8. CASE TaskBegin(p) BY <1>7, <1>8 DEF TaskBegin, Work, journalVars
<1>9. CASE PersistReturn(p) BY <1>7, <1>9 DEF PersistReturn, Work, journalVars
<1>10. CASE CompletePersist(p) BY <1>4, <1>5, <1>6, <1>7, <1>10 DEF CompletePersist
<1>11. CASE FailPersist(p) BY <1>4, <1>5, <1>6, <1>7, <1>11 DEF FailPersist
<1>12. CASE CancelCleanup(p)
 <2>1. CASE audit[p] > 0
  <3>1. /\ task[p].pc = "cancel" /\ inner[p].state # "pending"
        /\ UNCHANGED <<up, hyd, todo, start, task, inner, orphans, suspend, stop, shut, reject>>
    BY <1>12, <2>1 DEF CancelCleanup
  <3>2. Work
   <4> DEFINE c == [kind |-> "note", info |-> "none"]
   <4>1. c \in Contents /\ c.kind # "terminal" BY DEF Contents
   <4>2. ASSUME PersistEvent(task[p].run, p, task[p].token, c) PROVE Work
    <5>1. AppendFenced(task[p].run, p, task[p].token, c) BY <4>2 DEF PersistEvent
    <5> QED BY <4>1, <5>1, AppendIsWriting DEF Work
   <4> QED BY <1>4, <1>12, <2>1, <4>2 DEF CancelCleanup
  <3>3. \A q \in Owners : q # p => Alike(q) BY <3>1 DEF Alike, Same
  <3> QED BY <1>3, <3>1, <3>2, <3>3, TaskOpens
 <2>2. CASE ~(audit[p] > 0) BY <1>4, <1>5, <1>6, <1>7, <1>12, <2>2 DEF CancelCleanup
 <2> QED BY <2>1, <2>2
<1>13. CASE SuspendCleanup(p)
 <2>1. /\ task[p].pc = "suspend" /\ up[p] = "closing" /\ Alive(p) /\ start[p].pc = "idle"
       /\ UNCHANGED <<events, up, hyd, todo, start, inner, orphans, suspend, stop, shut, reject>>
   BY <1>1, <1>3, <1>13 DEF SuspendCleanup, ReleaseRunLease, TaskRaises, Raises, Fault, journalVars,
                            Resident, Placed, Alive
 <2>2. \A q \in Owners : q # p => Alike(q)
  <3>1. \E pc : Step(p, pc) BY <1>13 DEF SuspendCleanup
  <3>2. \A q \in Owners : q # p => task'[q] = task[q] BY <1>1, <3>1, StepMoves
  <3> QED BY <2>1, <3>2 DEF Alike, Same
 <2>3. OneOpenRun' BY <2>1, SameRuns DEF OpenInv, OneOpenRun, Open
 <2>4. Resident(p)' /\ Recorded(p)' BY <1>1, <2>1 DEF Resident, Recorded, Alive, Serving
 <2> QED BY <2>1, <2>2, <2>3, <2>4, AloneSteps
<1>14. CASE Final(p)
 <2>1. /\ task[p].pc \in {"final", "raise"} /\ task'[p] = NoJob /\ suspend'[p] = FALSE
       /\ UNCHANGED <<events, lease, up, hyd, todo, start, inner, orphans, reject>>
   BY <1>1, <1>14 DEF Final, journalVars, ProcTypeOK, TaskType
 <2>2. \A q \in Owners : q # p => Alike(q)
   BY <1>1, <1>14 DEF Final, Alike, Same, ProcTypeOK, TaskType, StopType, ShutType
 <2>3. up[p] = "up" => inner'[p].state # "pending" BY <1>1, <2>1 DEF Resident
 <2>4. Alive(p) /\ Work /\ task'[p].pc = "idle" BY <1>3, <2>1 DEF NoJob, Work
 <2> QED BY <2>1, <2>2, <2>3, <2>4, TaskOpens
<1> QED BY <1>2, <1>8, <1>9, <1>10, <1>11, <1>12, <1>13, <1>14 DEF Consuming

\* An interrupted task is cleaning up, or has ended.
LEMMA InterruptOpens ==
    ASSUME CoordinatorInv, LeaseInv, OpenInv, NEW p \in Owners, Active(p), Interrupt(p),
           UNCHANGED <<events, lease, up, hyd, todo, start, reject>>,
           suspend'[p] = suspend[p] \/ up[p] # "up",
           \A q \in Owners : q # p => /\ stop'[q] = stop[q] /\ shut'[q] = shut[q]
                                      /\ suspend'[q] = suspend[q]
    PROVE  OpenInv'
<1>1. /\ ProcTypeOK /\ Resident(p) /\ Placed(p) /\ task[p] \in Job(TaskPCs)
      /\ inner \in [Owners -> InnerRecord] /\ task[p].pc # "idle" /\ Alive(p)
  BY EntryTypes DEF CoordinatorInv, OpenInv, LeaseInv, LeaseInvOf, ProcTypeOK, InnerType, Active, Placed
<1>2. task'[p].pc = Interrupted(p) BY <1>1, InterruptMoves
<1>3. \A q \in Owners : q # p => Alike(q) BY InterruptMoves DEF Alike, Same
<1>4. ASSUME up[p] = "up" PROVE ~suspend'[p] /\ task[p].pc # "suspend" BY <1>1, <1>4 DEF Resident
<1>5. ASSUME up[p] = "up" PROVE task'[p].pc # "suspend" BY <1>2, <1>4, <1>5 DEF Interrupted
<1>6. ASSUME up[p] = "up", inner'[p].state = "pending" PROVE task'[p].pc = "cancel"
 <2>1. inner[p].state = "pending" BY <1>1, <1>6 DEF Interrupt, NoEvent
 <2>2. task[p].pc \in {"persist", "cancel"} BY <1>1, <1>6, <2>1 DEF Resident
 <2> QED BY <1>2, <1>4, <1>6, <2>2 DEF Interrupted
<1> QED BY <1>1, <1>3, <1>4, <1>5, <1>6, TaskOpens DEF Work

\* cancel() and shutdown.
LEMMA StoppingOpens ==
    ASSUME CoordinatorInv, LeaseInv, OpenInv, NEW p \in Owners, Stopping(p)
    PROVE  OpenInv'
<1>1. ProcTypeOK /\ Resident(p) /\ Placed(p) BY DEF CoordinatorInv, OpenInv, LeaseInv, LeaseInvOf
<1>2. CASE StopCheck(p) \/ StopPersist(p) \/ ShutdownDecide(p)
 <2>1. /\ UNCHANGED <<up, hyd, todo, start, task, inner, orphans, suspend, reject>>
       /\ stop[p].pc # "idle" \/ up[p] = "closing"
       /\ \A q \in Owners : q # p => stop'[q] = stop[q] /\ shut'[q] = shut[q]
   BY <1>1, <1>2 DEF StopCheck, StopPersist, ShutdownDecide, ProcTypeOK, StopType, ShutType
 <2>2. Alive(p) BY <1>1, <2>1 DEF Placed, Alive
 <2>3. UNCHANGED <<events, lease>> \/ Closing
  <3>1. ASSUME AppendTerminalAndRelease(stop[p].run, p, stop[p].token, "cancelled") PROVE Closing
    BY <3>1, ReleaseIsClosing DEF Statuses
  <3> QED BY <1>2, <3>1 DEF StopCheck, StopPersist, ShutdownDecide, Raises, Fault, journalVars
 <2>4. Resident(p)' /\ \A q \in Owners : q # p => Alike(q)
   BY <1>1, <2>1, <2>2 DEF Resident, Alike, Same, Alive, Serving
 <2> QED BY <2>1, <2>2, <2>3, <2>4, WorkSteps DEF Work
<1>3. CASE StopClear(p) \/ SuspendClear(p)
 <2>1. /\ UNCHANGED <<events, lease, up, hyd, todo, start, inner, orphans, reject>>
       /\ stop[p].pc # "idle" \/ shut[p] # "idle"
       /\ \E t : Forget(p, t)
       /\ \A q \in Owners : q # p => stop'[q] = stop[q] /\ shut'[q] = shut[q]
   BY <1>1, <1>3 DEF StopClear, SuspendClear, journalVars, ProcTypeOK, StopType, ShutType
 <2>2. Alive(p) BY <1>1, <2>1 DEF Placed, Alive
 <2>3. /\ \/ task'[p] = task[p] /\ suspend'[p] = suspend[p]
          \/ task[p].pc = "ended" /\ task'[p] = NoJob /\ suspend'[p] = FALSE
       /\ \A q \in Owners : q # p => task'[q] = task[q] /\ suspend'[q] = suspend[q]
   BY <1>1, <2>1 DEF Forget, ProcTypeOK, TaskType, SuspendType
 <2>4. Resident(p)' /\ \A q \in Owners : q # p => Alike(q)
   BY <1>1, <2>1, <2>2, <2>3 DEF Resident, Alike, Same, Alive, Serving, NoJob
 <2> QED BY <2>1, <2>2, <2>4, WorkSteps DEF Work
<1>4. CASE ShutdownSuspend(p) \/ ShutdownCancel(p)
 <2>1. up[p] = "closing" BY <1>1, <1>4 DEF ShutdownSuspend, ShutdownCancel, Placed
 <2>2. /\ Active(p) /\ Interrupt(p) /\ UNCHANGED <<events, lease, up, hyd, todo, start, reject>>
       /\ \A q \in Owners : q # p => /\ stop'[q] = stop[q] /\ shut'[q] = shut[q]
                                     /\ suspend'[q] = suspend[q]
   BY <1>1, <1>4 DEF ShutdownSuspend, ShutdownCancel, StopRun, journalVars, ProcTypeOK, StopType, ShutType,
                     SuspendType
 <2> QED BY <2>1, <2>2, InterruptOpens
<1> QED BY <1>2, <1>3, <1>4 DEF Stopping

\* What users, the stream and the server's signal ask of an instance.
LEMMA RequestOpens ==
    ASSUME CoordinatorInv, LeaseInv, OpenInv, NEW p \in Owners, Requests(p), ~ShutdownBegin(p)
    PROVE  OpenInv'
<1>1. /\ ProcTypeOK /\ Resident(p) /\ Recorded(p) /\ Placed(p) /\ OneOpenRun /\ CoordinatorInv
      /\ inner \in [Owners -> InnerRecord]
  BY DEF CoordinatorInv, OpenInv, LeaseInv, LeaseInvOf, ProcTypeOK, InnerType
<1>2. ASSUME NEW r \in Runs, StartCheck(p, r) \/ RespondCheck(p, r) PROVE OpenInv'
 <2>1. /\ Serving(p) /\ Alive(p)
       /\ UNCHANGED <<events, lease, up, hyd, todo, task, inner, orphans, suspend, stop, shut, reject>>
       /\ start'[p].run = r /\ start'[p].pc \in {"begin", "resume"}
       /\ start'[p].pc = "begin" => ~AnyRecoverableApproval
       /\ start'[p].pc = "resume" => RecoverableApproval(r)
       /\ \A q \in Owners : q # p => start'[q] = start[q]
   BY <1>1, <1>2 DEF StartCheck, RespondCheck, Serving, Alive, journalVars, ProcTypeOK, StartType
 <2>2. AllKept BY <1>1, <2>1 DEF Recorded, Serving
 <2>3. OneOpenRun' /\ AllKept' /\ (start'[p].pc = "begin" => AllLeased')
  <3>1. \A q : Leased(q)' = Leased(q) BY <2>1 DEF Leased
  <3> QED BY <1>1, <2>1, <2>2, <3>1, SameRuns
          DEF OneOpenRun, Open, AllKept, AllLeased, AnyRecoverableApproval
 <2>4. start'[p].pc = "resume" => Kept(start[p].run)'
  <3>1. RecoverableApproval(r) => Kept(r)' BY <2>1, SameRuns DEF Kept
  <3> QED BY <2>1, <3>1
 <2>5. Resident(p)' /\ hyd'[p] = "yes" /\ \A q \in Owners : q # p => Alike(q)
   BY <1>1, <2>1 DEF Resident, Serving, Alive, Alike, Same
 <2>6. Recorded(p)' BY <2>1, <2>3, <2>4, <2>5 DEF Recorded
 <2> QED BY <2>1, <2>3, <2>5, <2>6, AloneSteps
<1>3. CASE (\E r \in Runs : RejectBegin(p, r)) \/ RejectEnd(p)
 <2>1. /\ UNCHANGED <<up, hyd, todo, start, task, inner, orphans, suspend, stop, shut>>
       /\ \A q \in Owners : q # p => reject'[q] = reject[q]
       /\ Serving(p) \/ reject[p] # NoRun
   BY <1>1, <1>3 DEF RejectBegin, RejectEnd, ProcTypeOK, RejectType
 <2>2. Alive(p) BY <1>1, <2>1 DEF Resident, Serving, Alive
 <2>3. Noting
  <3>1. ASSUME NEW r \in Runs, RejectBegin(p, r) PROVE Noting
   <4>1. /\ RejectedInput(r) /\ Unleased(r) /\ UNCHANGED lease
         /\ events' = Append(events, Event(r, "note", "none", 0))
     BY <3>1 DEF RejectBegin, Fresh, HasHistory, RejectedInput, AppendUnfenced
   <4> QED BY <4>1, RejectIsNoting
  <3>2. ASSUME RejectEnd(p) PROVE Noting
   <4>1. PICK r \in Runs : r = reject[p] BY <1>1, <3>2, EntryTypes DEF RejectEnd
   <4>2. /\ RejectedInput(r) /\ Unleased(r) /\ UNCHANGED lease
         /\ events' = WithTerminal(r, "error", 0)
     BY <1>1, <3>2, <4>1 DEF RejectEnd, AppendTerminalOnce, CoordinatorInv, ClaimInv, RejectIsOwn
   <4> QED BY <4>2, RejectIsNoting
  <3> QED BY <1>3, <3>1, <3>2
 <2>4. Resident(p)' /\ \A q \in Owners : q # p => Alike(q)
   BY <1>1, <2>1, <2>2 DEF Resident, Alike, Same, Alive, Serving
 <2> QED BY <2>1, <2>2, <2>3, <2>4, WorkSteps DEF Work
<1>4. CASE (\E c \in Contents : StreamYield(p, c)) \/ StreamEnd(p)
 <2>1. PICK pc : Step(p, pc) /\ pc \in {"persist", "complete", "fail"}
   BY <1>4 DEF StreamYield, StreamEnd
 <2>2. task'[p].pc = pc /\ \A q \in Owners : q # p => task'[q] = task[q] BY <1>1, <2>1, StepMoves
 <2>3. /\ UNCHANGED <<events, lease, up, hyd, todo, start, orphans, suspend, stop, shut, reject>>
       /\ task[p].pc = "stream"
       /\ \A q \in Owners : q # p => inner'[q] = inner[q]
       /\ inner' = inner \/ Step(p, "persist") BY <1>1, <1>4 DEF StreamYield, StreamEnd, journalVars
 <2>4. inner' = inner \/ task'[p].pc = "persist" BY <1>1, <2>3, StepMoves
 <2>5. up[p] = "up" /\ inner[p].state = "pending" => task[p].pc \in {"persist", "cancel"}
   BY <1>1 DEF Resident
 <2>6. Alive(p) /\ \A q \in Owners : q # p => Alike(q) BY <1>1, <2>2, <2>3 DEF Placed, Alike, Same
 <2> QED BY <2>1, <2>2, <2>3, <2>4, <2>5, <2>6, TaskOpens DEF Work
<1>5. CASE StopRequest(p)
 <2>1. /\ Active(p) /\ Interrupt(p) /\ UNCHANGED <<events, lease, up, hyd, todo, start, reject, shut, suspend>>
       /\ \A q \in Owners : q # p => stop'[q] = stop[q]
   BY <1>1, <1>5 DEF StopRequest, StopRun, journalVars, ProcTypeOK, StopType
 <2> QED BY <2>1, InterruptOpens
<1> QED BY <1>2, <1>3, <1>4, <1>5 DEF Requests

--------------------
\* Nothing has started.
LEMMA OpenInitInv == Init => OpenInv
<1> SUFFICES ASSUME Init PROVE OpenInv OBVIOUS
<1>1. \A r : ~Open(r) BY DEF Init, JournalInit, Open, HasStarted, Of
<1> QED BY <1>1 DEF Init, JournalInit, OpenInv, Alone, Alive, OneOpenRun, Open, Resident, Recorded, NoJob,
                    NoEvent

\* The inductive invariant is kept by every step.
LEMMA OpenStepInv == ~Overlap /\ CoordinatorInv /\ LeaseInv /\ OpenInv /\ [Next]_vars => OpenInv'
<1> SUFFICES ASSUME ~Overlap, CoordinatorInv, LeaseInv, OpenInv, [Next]_vars PROVE OpenInv' OBVIOUS
<1>1. CASE UNCHANGED vars
 <2>1. /\ UNCHANGED <<events, lease, up, hyd, todo, start, task, inner, orphans, suspend, reject>>
   BY <1>1 DEF vars, procVars, journalVars
 <2>2. Alone' /\ OneOpenRun' BY <2>1, SameRuns DEF OpenInv, Alone, Alive, OneOpenRun, Open
 <2>3. ASSUME NEW p \in Owners PROVE Resident(p)' /\ Recorded(p)'
  <3>1. Resident(p) /\ Recorded(p) BY DEF OpenInv
  <3>2. \A q : Leased(q)' = Leased(q) BY <2>1 DEF Leased
  <3>3. AllListed(p)' = AllListed(p) /\ AllKept' = AllKept /\ AllLeased' = AllLeased
    BY <2>1, <3>2, SameRuns DEF AllListed, AllKept, AllLeased
  <3>4. Kept(start[p].run) => Kept(start[p].run)'
   <4>1. PICK r : r = start[p].run OBVIOUS
   <4>2. Kept(r) => Kept(r)' BY <2>1, SameRuns
   <4>3. start'[p].run = r BY <2>1, <4>1
   <4> QED BY <4>1, <4>2, <4>3
  <3>5. Resident(p)' BY <2>1, <3>1 DEF Resident, Alive, Serving
  <3> QED BY <2>1, <3>1, <3>3, <3>4, <3>5 DEF Recorded
 <2> QED BY <2>2, <2>3 DEF OpenInv
<1>2. CASE Next
 <2>1. PICK p \in Owners : \/ Boot(p) \/ Crash(p) \/ ShutdownBegin(p)
                           \/ RecoveryFails(p) \/ Recovery(p)
                           \/ Starting(p) \/ Consuming(p) \/ Stopping(p)
                           \/ Requests(p) /\ ~ShutdownBegin(p) BY <1>2 DEF Next
 <2> QED BY <2>1, InstanceOpens, RecoveryOpens, StartingOpens, ConsumingOpens, StoppingOpens, RequestOpens
<1> QED BY <1>1, <1>2

(* A session has one open run at a time, for any number of instances that
   follow one another, whatever crashes and whichever transactions fail:
   start_run and _begin_run are two transactions, and recovery,
   approvals, late threads and cancel() act in between
   (run_coordinator.py, coding_runs.py).  Instances that serve the session
   at the same time are excluded: one may suspend its run for an approval
   between the check and the begin_run of the other. *)
THEOREM OneRunAtATime ==
    ASSUME ~Overlap
    PROVE  Spec => []OneOpenRun
<1>1. CoordinatorInv /\ LeaseInv /\ OpenInv /\ [Next]_vars => OpenInv' BY OpenStepInv
<1>2. OpenInv => OneOpenRun BY DEF OpenInv
<1> QED BY <1>1, <1>2, CoordinatorInitInv, CoordinatorStepInv, LeaseInitInv, LeaseStepInv, OpenInitInv, PTL
        DEF Spec
====
