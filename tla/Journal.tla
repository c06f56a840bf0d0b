------------------------------- MODULE Journal -------------------------------
(***************************************************************************)
(* The event journal: the events table, the hash chain over it, and the    *)
(* rows whose changes it records, here the active flag of an artifact.     *)
(*                                                                         *)
(* Connections of this release chain every event they append, and chain on *)
(* opening whatever an older release left unchained.  Processes of the     *)
(* older release append events only; they write while no connection of     *)
(* this one is open, as the service's documentation demands of them.  A    *)
(* transaction is one step: one that fails or is cut short leaves nothing. *)
(*                                                                         *)
(* A hash is what it binds: the sequence numbers and contents of all events *)
(* up to its own, so that hashes are equal only when those are.            *)
(***************************************************************************)
EXTENDS Naturals, Sequences

CONSTANTS
  Connections,          \* connections of this release
  OldConnections,       \* connections of the older one
  Times,                \* times that callers supply
  MaxEvents             \* bound on the length of the journal

ASSUME BoundAssumption == MaxEvents \in Nat

VARIABLES
  events,               \* events, in sequence order
  chain,                \* event_chain: a partial function on sequence numbers
  open,                 \* the connections that are open
  active                \* artifact_names.active

vars == <<events, chain, open, active>>

\* An event's identifier is derived from its content.
Event == [at : Times, active : BOOLEAN]

EventHash(n, e, previous) == Append(previous, <<n, e>>)

Genesis == <<>>

\* The hash of the event with number n, recomputed from the first.
Expected(n) == [i \in 1..n |-> <<i, events[i]>>]

Init ==
  /\ events = <<>>
  /\ chain = <<>>
  /\ open = {}
  /\ active = TRUE

Journalled(e) == \E n \in DOMAIN events : events[n] = e

\* Mutant: INSERT OR REPLACE where the code has INSERT OR IGNORE.
EventsAfterReplacing(e) == Append(SelectSeq(events, LAMBDA x : x # e), e)

\* INSERT OR IGNORE: an event recorded before is not recorded again.
EventsAfter(e) == IF Journalled(e) THEN events ELSE Append(events, e)

\* Mutant: the new row is chained to the first one.
LastHashOldest == IF DOMAIN chain = {} THEN Genesis ELSE chain[1].hash

\* The hash of the chained event with the highest number.
LastHash ==
  IF DOMAIN chain = {} THEN Genesis
  ELSE LET last == CHOOSE n \in DOMAIN chain : \A m \in DOMAIN chain : m <= n
       IN  chain[last].hash

\* Mutant: a chained row is added for an ignored event too.
ChainAfterIgnored(e) ==
  LET n == Len(events) + 1 IN
  [i \in DOMAIN chain \cup {n} |->
     IF i = n
     THEN [event |-> e, previous |-> LastHash, hash |-> EventHash(n, e, LastHash)]
     ELSE chain[i]]

ChainAfter(e) ==
  LET n == Len(events) + 1 IN
  IF Journalled(e) THEN chain
  ELSE [i \in DOMAIN chain \cup {n} |->
          IF i = n
          THEN [event |-> e, previous |-> LastHash, hash |-> EventHash(n, e, LastHash)]
          ELSE chain[i]]

\* The row backfilling expects for event n.
Row(n) == [event |-> events[n], previous |-> Expected(n - 1), hash |-> Expected(n)]

\* Opening is refused when a chained row is not the one expected.
ChainAgrees == \A n \in DOMAIN chain : chain[n] = Row(n)

\* Mutant: backfilling checks the chained rows and adds none.
BackfilledChainedOnly == [n \in DOMAIN chain |-> Row(n)]

Backfilled == [n \in 1..Len(events) |-> Row(n)]

-----------------------------------------------------------------------------

Room(e) == Journalled(e) \/ Len(events) < MaxEvents

Connect(c) ==
  /\ c \notin open
  /\ ChainAgrees
  /\ chain' = Backfilled
  /\ open' = open \cup {c}
  /\ UNCHANGED <<events, active>>

Close(c) ==
  /\ c \in open
  /\ open' = open \ {c}
  /\ UNCHANGED <<events, chain, active>>

SetArtifactActive(c, e) ==
  /\ c \in open
  /\ Room(e)
  /\ active' = e.active
  /\ events' = EventsAfter(e)
  /\ chain' = ChainAfter(e)
  /\ UNCHANGED open

\* The same call of the older release.
SetArtifactActiveUnchained(c, e) ==
  /\ open = {}
  /\ Room(e)
  /\ active' = e.active
  /\ events' = EventsAfter(e)
  /\ UNCHANGED <<chain, open>>

Next ==
  \/ \E c \in Connections : Connect(c) \/ Close(c)
  \/ \E c \in Connections, e \in Event : SetArtifactActive(c, e)
  \/ \E c \in OldConnections, e \in Event : SetArtifactActiveUnchained(c, e)

Spec == Init /\ [][Next]_vars

-----------------------------------------------------------------------------
(* Properties *)

\* The journal, its chain and the open connections have the shape of the schema.
TypeOK ==
  /\ events \in Seq(Event)
  /\ DOMAIN chain \subseteq 1..Len(events)
  /\ open \subseteq Connections
  /\ active \in BOOLEAN

\* Whenever a connection is open the tables are as verify_event_chain wants them:
\* every event is chained, to the one before it, also when older and newer
\* releases have written by turns and several connections are open.  This is about
\* the tables: verify_event_chain reads the chained rows and counts the events in
\* two statements (authority_registry.py:85, :102), and beside an append of another
\* connection in between it may report a length mismatch that the tables never had.
ChainVerifies ==
  open # {} =>
    /\ DOMAIN chain = 1..Len(events)
    /\ \A n \in DOMAIN chain :
         /\ chain[n].previous = IF n = 1 THEN Genesis ELSE chain[n - 1].hash
         /\ chain[n].hash = EventHash(n, events[n], chain[n].previous)

\* The database can always be opened again: nothing ever leaves a chained row
\* that backfilling would refuse, and append-only triggers would keep for ever.
NeverRefused == ChainAgrees

\* Recorded events and chained rows are never changed, moved or removed.
AppendOnly ==
  [][/\ \A n \in DOMAIN events : n \in DOMAIN events' /\ events'[n] = events[n]
     /\ \A n \in DOMAIN chain : n \in DOMAIN chain' /\ chain'[n] = chain[n]]_vars

-----------------------------------------------------------------------------
(* What the documents say and the code does not keep *)

\* "Every mutation appends a hashed event": the flag does not change without one.
EveryMutationJournalled ==
  [][active' # active => Len(events') > Len(events)]_vars
=============================================================================
