----------------------------- MODULE NotifyCache ----------------------------
(***************************************************************************)
(* The notification channels (internal/notify/notify.go): the calls of the *)
(* API that change the table, the service's short-lived copy of the        *)
(* enabled rows, and the goroutines, one per terminal update of a task,    *)
(* that read the copy, or the table when the copy has expired, and send.   *)
(*                                                                         *)
(* A write empties the copy first and then changes the table; a refresh    *)
(* reads the table without the lock and stores what it read afterwards. So *)
(* a refresh can bring back what a write has just replaced. Time is        *)
(* counted in ticks, and every copy carries its age; the database is taken *)
(* to answer a query within MaxQuery ticks. Requests the service rejects   *)
(* change nothing, and neither does a test message; both are left out.     *)
(***************************************************************************)
EXTENDS Integers, FiniteSets

CONSTANTS
  Channel,        \* the ids of channels
  Event,          \* the kinds of event
  DefaultEvents,  \* what a channel created without a list subscribes to
  Caller,         \* API calls that can be under way at once: a bound
  Ping,           \* Notify goroutines that can be under way at once: a bound
  TTL,            \* ticks the copy may be used
  MaxQuery        \* ticks a query of the table may take: a bound

ASSUME NotifyAssumption ==
  /\ DefaultEvents \subseteq Event
  /\ TTL \in Nat \ {0} /\ MaxQuery \in Nat

VARIABLES
  table,  \* notification_channels: each row, from before its INSERT until after its DELETE
  copy,   \* Service.cached and cacheUntil: the rows, the ticks left, the age of the rows,
          \* and (history) whether a write overlapped the refresh that stored them
  call,   \* the write each API call has still to make
  ping    \* each Notify: idle, asking the database, or holding its answer

vars == <<table, copy, call, ping>>

Row == [enabled : BOOLEAN, events : SUBSET Event]

\* What there is of a row: nothing yet, the row, nothing any more (ids are not reused).
Unborn == [life |-> "unborn", row |-> {}]
Live(r) == [life |-> "live", row |-> {r}]
Deleted == [life |-> "deleted", row |-> {}]

\* The rows for whom ListEnabled asks: who is to hear of what.
Entry == [channel : Channel, events : SUBSET Event]

ListEnabled ==
  UNION {{[channel |-> c, events |-> r.events] : r \in {x \in table[c].row : x.enabled}} : c \in Channel}

NoCopy == [rows |-> {}, left |-> 0, age |-> 0, overlapped |-> FALSE]

NoCall == [op |-> "none"]

Quiet == [pc |-> "idle", rows |-> {}, age |-> 0, overlapped |-> FALSE]

Init ==
  /\ table = [c \in Channel |-> Unborn]
  /\ copy = NoCopy
  /\ call = [a \in Caller |-> NoCall]
  /\ ping = [p \in Ping |-> Quiet]

-----------------------------------------------------------------------------
(* Writes.                                                                 *)

\* Mutant: the copy keeps its rows.
InvalidateNothing == UNCHANGED copy

invalidate == copy' = NoCopy

\* The copy is dropped and the statement is still to come; it overlaps with the refreshes
\* under way.
Begin(a, c, op, r) ==
  /\ call[a] = NoCall
  /\ invalidate
  /\ call' = [call EXCEPT ![a] = [op |-> op, channel |-> c, row |-> r]]
  /\ ping' = [p \in Ping |-> [ping[p] EXCEPT !.overlapped = ping[p].pc # "idle"]]
  /\ UNCHANGED table

\* The service: a channel created with no list of events gets the default ones, one
\* updated with no list has none from then on.
Create(a, c, enabled, given) ==
  /\ table[c] = Unborn
  /\ \A b \in Caller : call[b] # NoCall => call[b].channel # c
  /\ Begin(a, c, "insert", [enabled |-> enabled,
                           events |-> IF given = {} THEN DefaultEvents ELSE UNION given])

Update(a, c, enabled, given) ==
  /\ table[c] # Unborn
  /\ Begin(a, c, "update", [enabled |-> enabled, events |-> UNION given])

Delete(a, c) ==
  /\ table[c] # Unborn
  /\ Begin(a, c, "delete", [enabled |-> FALSE, events |-> {}])

\* The handlers: what a request gives of a field is a set of at most one value; "enabled" is
\* true unless the request says otherwise, in a PATCH as in a POST.
AtMostOne(S) == {{}} \cup {{x} : x \in S}

Enabled(given) == given # {FALSE}

Post(a, c) ==
  \E en \in AtMostOne(BOOLEAN), ev \in AtMostOne(SUBSET Event) : Create(a, c, Enabled(en), ev)

Patch(a, c) ==
  \E en \in AtMostOne(BOOLEAN), ev \in AtMostOne(SUBSET Event) : Update(a, c, Enabled(en), ev)

Remove(a, c) == Delete(a, c)

\* The row after a statement: an UPDATE or a DELETE finds the row, or does nothing.
Insert(r) == Live(r)
UpdateRow(old, r) == IF old.life = "live" THEN Live(r) ELSE old
DeleteRow(old) == IF old.life = "live" THEN Deleted ELSE old

Write(a) ==
  /\ call[a] # NoCall
  /\ LET w == call[a]
     IN table' = [table EXCEPT ![w.channel] =
          CASE w.op = "insert" -> Insert(w.row)
            [] w.op = "update" -> UpdateRow(@, w.row)
            [] w.op = "delete" -> DeleteRow(@)]
  /\ call' = [call EXCEPT ![a] = NoCall]
  /\ UNCHANGED <<copy, ping>>

WriteFails(a) ==
  /\ call[a] # NoCall
  /\ call' = [call EXCEPT ![a] = NoCall]
  /\ UNCHANGED <<table, copy, ping>>

-----------------------------------------------------------------------------
(* Notify. The goroutines are told apart only while they refresh the copy. *)

Fresh == copy.left > 0

\* Mutant: a hit keeps the copy for another while.
HitProlongs == copy' = [copy EXCEPT !.left = TTL]

HitLeaves == UNCHANGED copy

\* Fresh: the rows of the copy are sent to.
NotifyHits ==
  /\ Fresh
  /\ HitLeaves
  /\ UNCHANGED <<table, call, ping>>

\* Expired or dropped: ask the table.
NotifyMisses(p) ==
  /\ ping[p].pc = "idle"
  /\ ~Fresh
  /\ ping' = [ping EXCEPT ![p] = [Quiet EXCEPT !.pc = "asking",
                                  !.overlapped = \E a \in Caller : call[a] # NoCall]]
  /\ UNCHANGED <<table, copy, call>>

Answered(p) ==
  /\ ping[p].pc = "asking"
  /\ ping' = [ping EXCEPT ![p].pc = "answered", ![p].rows = ListEnabled, ![p].age = 0]
  /\ UNCHANGED <<table, copy, call>>

\* The event is logged as lost.
QueryFails(p) ==
  /\ ping[p].pc = "asking"
  /\ ping' = [ping EXCEPT ![p] = Quiet]
  /\ UNCHANGED <<table, copy, call>>

\* The answer is stored, whatever was stored or dropped meanwhile, and sent to.
Stored(p) ==
  /\ ping[p].pc = "answered"
  /\ copy' = [rows |-> ping[p].rows, left |-> TTL, age |-> ping[p].age,
              overlapped |-> ping[p].overlapped]
  /\ ping' = [ping EXCEPT ![p] = Quiet]
  /\ UNCHANGED <<table, call>>

-----------------------------------------------------------------------------
\* Mutant: the time of expiry is not compared with the clock.
NeverExpires == IF copy.left = 0 THEN NoCopy ELSE [copy EXCEPT !.age = @ + 1]

Aged == IF copy.left <= 1 THEN NoCopy ELSE [copy EXCEPT !.left = @ - 1, !.age = @ + 1]

\* A tick of the clock: no answer is under way for longer than MaxQuery.
Tick ==
  /\ \A p \in Ping : ping[p].pc = "answered" => ping[p].age < MaxQuery
  /\ copy' = Aged
  /\ ping' = [p \in Ping |-> [ping[p] EXCEPT !.age = IF ping[p].pc = "answered" THEN @ + 1 ELSE 0]]
  /\ UNCHANGED <<table, call>>

Next ==
  \/ \E a \in Caller : \/ \E c \in Channel : Post(a, c) \/ Patch(a, c) \/ Remove(a, c)
                       \/ Write(a) \/ WriteFails(a)
  \/ NotifyHits
  \/ \E p \in Ping : NotifyMisses(p) \/ Answered(p) \/ QueryFails(p) \/ Stored(p)
  \/ Tick

Spec == Init /\ [][Next]_vars

-----------------------------------------------------------------------------
TypeOK ==
  /\ table \in [Channel -> {Unborn, Deleted} \cup {Live(r) : r \in Row}]
  /\ copy \in [rows : SUBSET Entry, left : 0 .. TTL, age : 0 .. TTL + MaxQuery,
              overlapped : BOOLEAN]
  /\ call \in [Caller -> {NoCall} \cup [op : {"insert", "update", "delete"},
                                       channel : Channel, row : Row]]
  /\ ping \in [Ping -> [pc : {"idle", "asking", "answered"}, rows : SUBSET Entry,
                       age : 0 .. MaxQuery, overlapped : BOOLEAN]]

\* The rows an event is sent to were read from the table less than TTL and the longest
\* query ago, however often the copy is used and however refreshes and writes follow one
\* another (enabled: "refreshing it every 5 seconds").
InUseIsRecent == Fresh => copy.age < TTL + MaxQuery

\* A copy that differs from the table was read by a refresh that overlapped with a write:
\* a write that no refresh overlaps is seen by the next event (invalidate).
StaleMeansOverlap ==
  Fresh /\ copy.rows # ListEnabled => copy.overlapped
=============================================================================
