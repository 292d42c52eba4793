-------------------------- MODULE NotifyCache_proofs ------------------------
(***************************************************************************)
(* The copy of the notification channels, for any number of channels,      *)
(* calls and refreshes and any times: how old it can be, and that it is    *)
(* the table's as long as no write and no refresh overlap.                 *)
(***************************************************************************)
EXTENDS NotifyCache, TLAPS

Rows == {Unborn, Deleted} \cup {Live(r) : r \in Row}

Copy == [rows : SUBSET Entry, left : 0 .. TTL, age : 0 .. TTL + MaxQuery, overlapped : BOOLEAN]

Statement == [op : {"insert", "update", "delete"}, channel : Channel, row : Row]

Asking == [pc : {"idle", "asking", "answered"}, rows : SUBSET Entry, age : 0 .. MaxQuery,
           overlapped : BOOLEAN]

\* A copy has used up as much of its time as it has aged since it was stored.
AgeInv == Fresh => copy.age + copy.left <= TTL + MaxQuery

\* The steps, with what a call is about.
LEMMA Steps ==
  ASSUME NotifyAssumption, [Next]_vars
  PROVE  \/ UNCHANGED vars
         \/ \E a \in Caller, c \in Channel, op \in {"insert", "update", "delete"}, r \in Row :
              Begin(a, c, op, r)
         \/ \E a \in Caller : Write(a) \/ WriteFails(a)
         \/ NotifyHits
         \/ \E p \in Ping : NotifyMisses(p) \/ Answered(p) \/ QueryFails(p) \/ Stored(p)
         \/ Tick
<1> USE NotifyAssumption
<1>a. \A given \in AtMostOne(BOOLEAN) : Enabled(given) \in BOOLEAN
  BY DEF Enabled
<1>b. \A given \in AtMostOne(SUBSET Event) : UNION given \in SUBSET Event
  BY DEF AtMostOne
<1>1. ASSUME NEW a \in Caller, NEW c \in Channel, Post(a, c)
      PROVE  \E r \in Row : Begin(a, c, "insert", r)
  <2>1. PICK en \in AtMostOne(BOOLEAN), ev \in AtMostOne(SUBSET Event) :
          Create(a, c, Enabled(en), ev)
    BY <1>1 DEF Post
  <2> DEFINE r == [enabled |-> Enabled(en),
                   events |-> IF ev = {} THEN DefaultEvents ELSE UNION ev]
  <2>2. r \in Row
    BY <1>a, <1>b DEF Row
  <2> QED
    BY <2>1, <2>2 DEF Create
<1>2. ASSUME NEW a \in Caller, NEW c \in Channel, Patch(a, c)
      PROVE  \E r \in Row : Begin(a, c, "update", r)
  <2>1. PICK en \in AtMostOne(BOOLEAN), ev \in AtMostOne(SUBSET Event) :
          Update(a, c, Enabled(en), ev)
    BY <1>2 DEF Patch
  <2> DEFINE r == [enabled |-> Enabled(en), events |-> UNION ev]
  <2>2. r \in Row
    BY <1>a, <1>b DEF Row
  <2> QED
    BY <2>1, <2>2 DEF Update
<1>3. ASSUME NEW a \in Caller, NEW c \in Channel, Remove(a, c)
      PROVE  \E r \in Row : Begin(a, c, "delete", r)
  BY <1>3 DEF Remove, Delete, Row
<1> QED
  BY <1>1, <1>2, <1>3 DEF Next

\* What the query answers is a set of entries.
LEMMA ListEnabledType == table \in [Channel -> Rows] => ListEnabled \in SUBSET Entry
<1> SUFFICES ASSUME table \in [Channel -> Rows], NEW x \in ListEnabled PROVE x \in Entry
  OBVIOUS
<1>1. PICK c \in Channel : x \in {[channel |-> c, events |-> r.events] :
                                     r \in {y \in table[c].row : y.enabled}}
  BY DEF ListEnabled
<1>2. table[c].row \subseteq Row
  BY DEF Rows, Unborn, Deleted, Live
<1> QED
  BY <1>1, <1>2 DEF Row, Entry

LEMMA TypeInit == Init => TypeOK
<1> SUFFICES ASSUME Init PROVE TypeOK
  OBVIOUS
<1>1. table \in [Channel -> Rows] /\ call \in [Caller -> {NoCall} \cup Statement]
  BY DEF Init, Rows
<1>2. NoCopy \in Copy /\ Quiet \in Asking
  BY NotifyAssumption DEF NoCopy, Quiet, Copy, Asking
<1> QED
  BY <1>1, <1>2 DEF Init, TypeOK, Rows, Copy, Statement, Asking

LEMMA TypeStep ==
  ASSUME TypeOK, AgeInv, [Next]_vars
  PROVE  TypeOK' /\ AgeInv'
<1> USE NotifyAssumption
<1>a. /\ table \in [Channel -> Rows] /\ copy \in Copy
      /\ call \in [Caller -> {NoCall} \cup Statement] /\ ping \in [Ping -> Asking]
  BY DEF TypeOK, Rows, Copy, Statement, Asking
<1>b. ASSUME table' \in [Channel -> Rows], copy' \in Copy, ping' \in [Ping -> Asking],
             call' \in [Caller -> {NoCall} \cup Statement]
      PROVE  TypeOK'
  BY <1>b DEF TypeOK, Rows, Copy, Statement, Asking
<1>c. NoCopy \in Copy /\ Quiet \in Asking /\ NoCopy.left = 0
  BY DEF NoCopy, Quiet, Copy, Asking
<1>d. copy' = copy => AgeInv'
  BY DEF AgeInv, Fresh
<1>e. copy' = NoCopy => AgeInv'
  BY <1>c DEF AgeInv, Fresh
<1>1. CASE UNCHANGED vars \/ NotifyHits
  BY <1>1, <1>a, <1>b, <1>d DEF vars, NotifyHits, HitLeaves
<1>2. ASSUME NEW a \in Caller, NEW c \in Channel, NEW op \in {"insert", "update", "delete"},
             NEW r \in Row, Begin(a, c, op, r)
      PROVE  TypeOK' /\ AgeInv'
  <2>1. [op |-> op, channel |-> c, row |-> r] \in Statement
    BY DEF Statement
  <2>2. call' \in [Caller -> {NoCall} \cup Statement]
    BY <1>2, <1>a, <2>1 DEF Begin
  <2>3. ping' \in [Ping -> Asking]
    BY <1>2, <1>a DEF Begin, Asking
  <2> QED
    BY <1>2, <1>a, <1>b, <1>c, <1>e, <2>2, <2>3 DEF Begin, invalidate
<1>3. ASSUME NEW a \in Caller, Write(a)
      PROVE  TypeOK' /\ AgeInv'
  <2>1. call[a] \in Statement
    BY <1>3, <1>a DEF Write
  <2>2. Live(call[a].row) \in Rows /\ Deleted \in Rows
    BY <2>1 DEF Statement, Rows
  <2>3. table' \in [Channel -> Rows]
    BY <1>3, <1>a, <2>1, <2>2 DEF Write, Insert, UpdateRow, DeleteRow, Statement
  <2> QED
    BY <1>3, <1>a, <1>b, <1>d, <2>3 DEF Write
<1>4. ASSUME NEW a \in Caller, WriteFails(a)
      PROVE  TypeOK' /\ AgeInv'
  BY <1>4, <1>a, <1>b, <1>d DEF WriteFails
<1>5. ASSUME NEW p \in Ping, NotifyMisses(p) \/ QueryFails(p)
      PROVE  TypeOK' /\ AgeInv'
  <2> DEFINE busy == \E a \in Caller : call[a] # NoCall
  <2>0. busy \in BOOLEAN
    OBVIOUS
  <2> HIDE DEF busy
  <2>1. [Quiet EXCEPT !.pc = "asking", !.overlapped = busy] \in Asking
    BY <2>0, <1>c DEF Asking
  <2> USE DEF busy
  <2>2. ping' \in [Ping -> Asking]
    BY <1>5, <1>a, <1>c, <2>1 DEF NotifyMisses, QueryFails
  <2> QED
    BY <1>5, <1>a, <1>b, <1>d, <2>2 DEF NotifyMisses, QueryFails
<1>6. ASSUME NEW p \in Ping, Answered(p)
      PROVE  TypeOK' /\ AgeInv'
  <2>1. ListEnabled \in SUBSET Entry
    BY <1>a, ListEnabledType
  <2> DEFINE answer == [ping[p] EXCEPT !.pc = "answered", !.rows = ListEnabled, !.age = 0]
  <2>2. answer \in Asking
    <3> DEFINE rows == ListEnabled
    <3> HIDE DEF rows
    <3>1. ping[p] \in Asking /\ rows \in SUBSET Entry /\ 0 \in 0 .. MaxQuery
      BY <1>a, <2>1 DEF rows
    <3>2. [ping[p] EXCEPT !.pc = "answered", !.rows = rows, !.age = 0] \in Asking
      BY <3>1 DEF Asking
    <3> QED
      BY <3>2 DEF rows
  <2>3. ping' = [ping EXCEPT ![p] = answer]
    BY <1>6, <1>a DEF Answered
  <2> HIDE DEF answer
  <2>4. ping' \in [Ping -> Asking]
    BY <1>a, <2>2, <2>3
  <2> QED
    BY <1>6, <1>a, <1>b, <1>d, <2>4 DEF Answered
<1>7. ASSUME NEW p \in Ping, Stored(p)
      PROVE  TypeOK' /\ AgeInv'
  <2>1. ping[p] \in Asking
    BY <1>a
  <2>2. copy' \in Copy /\ copy'.left = TTL /\ copy'.age <= MaxQuery /\ copy'.age \in Nat
    BY <1>7, <2>1 DEF Stored, Asking, Copy
  <2>3. ping' \in [Ping -> Asking]
    BY <1>7, <1>a, <1>c DEF Stored
  <2>4. AgeInv'
    BY <2>2 DEF AgeInv
  <2> QED
    BY <1>7, <1>a, <1>b, <2>2, <2>3, <2>4 DEF Stored
<1>8. CASE Tick
  <2>1. ping' \in [Ping -> Asking]
    <3> DEFINE older(p) == IF ping[p].pc = "answered" THEN ping[p].age + 1 ELSE 0
    <3>1. \A p \in Ping : older(p) \in 0 .. MaxQuery
      BY <1>8, <1>a DEF Tick, Asking
    <3>2. ping' = [p \in Ping |-> [ping[p] EXCEPT !.age = older(p)]]
      BY <1>8 DEF Tick
    <3> HIDE DEF older
    <3>3. \A p \in Ping : [ping[p] EXCEPT !.age = older(p)] \in Asking
      BY <1>a, <3>1 DEF Asking
    <3> QED
      BY <3>2, <3>3
  <2>2. CASE copy.left <= 1
    BY <1>8, <1>a, <1>b, <1>c, <1>e, <2>1, <2>2 DEF Tick, Aged
  <2>3. CASE ~(copy.left <= 1)
    <3>1. /\ copy.left \in 2 .. TTL /\ copy.age \in Nat /\ copy.age + copy.left <= TTL + MaxQuery
          /\ copy' = [copy EXCEPT !.left = @ - 1, !.age = @ + 1]
      BY <1>8, <1>a, <2>3 DEF Tick, Aged, Copy, AgeInv, Fresh
    <3>2. copy' \in Copy /\ copy'.left = copy.left - 1 /\ copy'.age = copy.age + 1
      <4> DEFINE left == copy.left - 1
                 age == copy.age + 1
      <4>1. left \in 0 .. TTL /\ age \in 0 .. TTL + MaxQuery
        BY <3>1
      <4>2. copy' = [copy EXCEPT !.left = left, !.age = age]
        BY <3>1
      <4> HIDE DEF left, age
      <4>3. copy' \in Copy /\ copy'.left = left /\ copy'.age = age
        BY <4>1, <4>2, <1>a DEF Copy
      <4> QED
        BY <4>3 DEF left, age
    <3>3. AgeInv'
      BY <3>1, <3>2 DEF AgeInv
    <3> QED
      BY <1>8, <1>a, <1>b, <2>1, <3>2, <3>3 DEF Tick
  <2> QED
    BY <2>2, <2>3
<1> QED
  BY <1>1, <1>2, <1>3, <1>4, <1>5, <1>6, <1>7, <1>8, Steps

LEMMA AgeInit == Init => AgeInv
BY DEF Init, AgeInv, Fresh, NoCopy

\* Channels, copies, statements and refreshes stay in their types.
THEOREM TypeCorrect == Spec => []TypeOK
<1>1. Init => TypeOK /\ AgeInv
  BY TypeInit, AgeInit
<1>2. TypeOK /\ AgeInv /\ [Next]_vars => TypeOK' /\ AgeInv'
  BY TypeStep
<1> QED
  BY <1>1, <1>2, PTL DEF Spec

\* The rows an event is sent to were read less than the TTL and the longest query ago, however
\* often the copy is used and refreshes follow one another (enabled).
THEOREM RecentCorrect == Spec => []InUseIsRecent
<1>1. Init => TypeOK /\ AgeInv
  BY TypeInit, AgeInit
<1>2. TypeOK /\ AgeInv /\ [Next]_vars => TypeOK' /\ AgeInv'
  BY TypeStep
<1>3. TypeOK /\ AgeInv => InUseIsRecent
  BY NotifyAssumption DEF TypeOK, AgeInv, InUseIsRecent, Fresh
<1> QED
  BY <1>1, <1>2, <1>3, PTL DEF Spec

-----------------------------------------------------------------------------
(* The copy and the table.                                                 *)

NoWrite == \A a \in Caller : call[a] = NoCall

\* What was read without a write beside it is what the table holds, and no write has begun since.
SeenInv ==
  /\ Fresh /\ ~copy.overlapped => NoWrite /\ copy.rows = ListEnabled
  /\ \A p \in Ping : ping[p].pc # "idle" /\ ~ping[p].overlapped =>
       NoWrite /\ (ping[p].pc = "answered" => ping[p].rows = ListEnabled)

LEMMA SeenInit == Init => SeenInv
BY DEF Init, SeenInv, Fresh, NoCopy, Quiet

LEMMA SeenStep ==
  ASSUME TypeOK, SeenInv, [Next]_vars
  PROVE  SeenInv'
<1>a. copy \in Copy /\ ping \in [Ping -> Asking]
  BY DEF TypeOK, Copy, Asking
<1>b. table' = table => ListEnabled' = ListEnabled
  BY DEF ListEnabled
<1>1. CASE UNCHANGED vars \/ NotifyHits
  BY <1>1, <1>b DEF vars, NotifyHits, HitLeaves, SeenInv, Fresh, NoWrite
<1>2. ASSUME NEW a \in Caller, NEW c \in Channel, NEW op \in {"insert", "update", "delete"},
             NEW r \in Row, Begin(a, c, op, r)
      PROVE  SeenInv'
  <2>1. copy'.left = 0
    BY <1>2 DEF Begin, invalidate, NoCopy
  <2>2. \A p \in Ping : ping'[p].pc # "idle" => ping'[p].overlapped
    BY <1>2, <1>a DEF Begin, Asking
  <2> QED
    BY <2>1, <2>2 DEF SeenInv, Fresh
<1>3. ASSUME NEW a \in Caller, Write(a) \/ WriteFails(a)
      PROVE  SeenInv'
  <2>1. ~NoWrite /\ copy' = copy /\ ping' = ping
    BY <1>3 DEF Write, WriteFails, NoWrite
  <2> QED
    BY <2>1 DEF SeenInv, Fresh
<1>4. ASSUME NEW p \in Ping, ~Fresh', \A q \in Ping \ {p} : ping'[q] = ping[q],
             UNCHANGED <<table, call>>,
             ping'[p].pc # "idle" /\ ~ping'[p].overlapped =>
               NoWrite /\ (ping'[p].pc = "answered" => ping'[p].rows = ListEnabled)
      PROVE  SeenInv'
  BY <1>4, <1>b DEF SeenInv, NoWrite
<1>5. ASSUME NEW p \in Ping, NotifyMisses(p)
      PROVE  SeenInv'
  <2>1. ping'[p].pc = "asking" /\ (~ping'[p].overlapped => NoWrite)
    BY <1>5, <1>a DEF NotifyMisses, Quiet, NoWrite
  <2>2. ~Fresh' /\ \A q \in Ping \ {p} : ping'[q] = ping[q]
    BY <1>5, <1>a DEF NotifyMisses, Fresh
  <2> QED
    BY <1>4, <1>5, <2>1, <2>2 DEF NotifyMisses
<1>6. ASSUME NEW p \in Ping, Answered(p) \/ QueryFails(p)
      PROVE  SeenInv'
  <2>1. /\ \A q \in Ping \ {p} : ping'[q] = ping[q]
        /\ UNCHANGED <<table, copy, call>>
    BY <1>6, <1>a DEF Answered, QueryFails
  <2>2. ping'[p].pc # "idle" /\ ~ping'[p].overlapped =>
          NoWrite /\ (ping'[p].pc = "answered" => ping'[p].rows = ListEnabled)
    <3>1. CASE Answered(p)
      BY <3>1, <1>a DEF Answered, SeenInv, Asking
    <3>2. CASE QueryFails(p)
      BY <3>2, <1>a DEF QueryFails, Quiet
    <3> QED
      BY <1>6, <3>1, <3>2
  <2> QED
    BY <1>b, <2>1, <2>2 DEF SeenInv, NoWrite, Fresh
<1>7. ASSUME NEW p \in Ping, Stored(p)
      PROVE  SeenInv'
  <2>1. /\ copy'.rows = ping[p].rows /\ copy'.overlapped = ping[p].overlapped
        /\ ping[p].pc = "answered" /\ UNCHANGED <<table, call>>
    BY <1>7 DEF Stored
  <2>2. ping'[p].pc = "idle" /\ \A q \in Ping \ {p} : ping'[q] = ping[q]
    BY <1>7, <1>a DEF Stored, Quiet
  <2> QED
    BY <1>b, <2>1, <2>2 DEF SeenInv, NoWrite
<1>8. CASE Tick
  <2>1. \A p \in Ping : /\ ping'[p].pc = ping[p].pc /\ ping'[p].rows = ping[p].rows
                        /\ ping'[p].overlapped = ping[p].overlapped
    BY <1>8, <1>a DEF Tick, Asking
  <2>2. Fresh' => Fresh /\ copy'.rows = copy.rows /\ copy'.overlapped = copy.overlapped
    <3>1. CASE copy.left <= 1
      BY <1>8, <3>1 DEF Tick, Aged, NoCopy, Fresh
    <3>2. CASE ~(copy.left <= 1)
      <4>1. Fresh
        BY <1>a, <3>2 DEF Fresh, Copy
      <4>2. copy' = [copy EXCEPT !.left = @ - 1, !.age = @ + 1]
        BY <1>8, <3>2 DEF Tick, Aged
      <4>3. copy'.rows = copy.rows /\ copy'.overlapped = copy.overlapped
        BY <4>2, <1>a DEF Copy
      <4> QED
        BY <4>1, <4>3
    <3> QED
      BY <3>1, <3>2
  <2>3. UNCHANGED <<table, call>>
    BY <1>8 DEF Tick
  <2> QED
    BY <1>b, <2>1, <2>2, <2>3 DEF SeenInv, NoWrite
<1> QED
  BY <1>1, <1>2, <1>3, <1>5, <1>6, <1>7, <1>8, Steps, NotifyAssumption

\* A copy that differs from the table was read by a refresh that overlapped with a write: any
\* other write is seen by the next event (invalidate, enabled).
THEOREM SeenCorrect == Spec => []StaleMeansOverlap
<1>1. Init => TypeOK /\ AgeInv /\ SeenInv
  BY TypeInit, AgeInit, SeenInit
<1>2. TypeOK /\ AgeInv /\ SeenInv /\ [Next]_vars => TypeOK' /\ AgeInv' /\ SeenInv'
  BY TypeStep, SeenStep
<1>3. SeenInv => StaleMeansOverlap
  BY DEF SeenInv, StaleMeansOverlap
<1> QED
  BY <1>1, <1>2, <1>3, PTL DEF Spec
=============================================================================
