------------------------------- MODULE Outbox -------------------------------
(***************************************************************************)
(* The transactional outbox: rows written with the operational             *)
(* transaction (outbox/writer.ts), drained in batches to MongoDB           *)
(* (outbox/projector.ts) and replayed by hand (scripts/outboxReplay.ts).   *)
(*                                                                         *)
(* A payload is a version number.  Mongo's replaceOne by event id is one   *)
(* step; the update of the row is part of the drain's transaction and is   *)
(* lost when that does not commit.                                         *)
(***************************************************************************)
EXTENDS Integers, FiniteSets, FiniteSetsExt

CONSTANTS
  Events,            \* event ids, in the order their aggregate writes them
  AggregateOf,       \* the aggregate of each event
  Snapshots,         \* the ids written again and again (enqueueOutboxSnapshot)
  MaxVersions,       \* bound: writes of one snapshot
  BatchSize,
  MaxPublishAttempts,
  MaxMongoFaults,    \* bound: refused Mongo writes
  MaxDrainFaults     \* bound: drains that do not commit, and replays by hand

ASSUME OutboxAssumption ==
  /\ Events \subseteq Nat /\ Snapshots \subseteq Events
  /\ BatchSize \in Nat \ {0} /\ MaxPublishAttempts \in Nat \ {0}

VARIABLES
  outbox,        \* the table mongo_outbox
  sequence,      \* mongo_outbox_sequence_seq
  replica,       \* the documents in Mongo: event id -> version, 0 if absent
  claimed,       \* rows the running drain has locked and not tried yet
  touched,       \* the drain's uncommitted updates
  draining,
  mongoFaults, drainFaults

outboxVars == <<outbox, sequence, replica, claimed, touched, draining, mongoFaults, drainFaults>>

Absent == [version |-> 0, sequence |-> 0, published |-> FALSE, dead |-> FALSE,
           attempts |-> 0, due |-> FALSE]

Present(e) == outbox[e].version > 0

\* FOR UPDATE: the rows of the batch stay locked until the drain ends.
Locked(e) == draining /\ (e \in claimed \/ e \in DOMAIN touched)

OutboxInit ==
  /\ outbox = [e \in Events |-> Absent]
  /\ sequence = 0
  /\ replica = [e \in Events |-> 0]
  /\ claimed = {} /\ touched = <<>> /\ draining = FALSE
  /\ mongoFaults = 0 /\ drainFaults = 0

-----------------------------------------------------------------------------
(* The writer *)

Fresh(version) == [Absent EXCEPT !.version = version, !.sequence = sequence + 1, !.due = TRUE]

\* An event of a transition: a second write of its id changes nothing.
enqueueOutbox(e) ==
  /\ e \notin Snapshots /\ ~Present(e)
  /\ \A d \in Events : d < e /\ AggregateOf[d] = AggregateOf[e] => Present(d)
  /\ outbox' = [outbox EXCEPT ![e] = Fresh(1)]
  /\ sequence' = sequence + 1
  /\ UNCHANGED <<replica, claimed, touched, draining, mongoFaults, drainFaults>>

\* A bug: the conflicting row keeps its published mark.
SnapshotKeepsPublished(e) ==
  /\ e \in Snapshots /\ ~Locked(e) /\ outbox[e].version < MaxVersions
  /\ outbox' = [outbox EXCEPT ![e] =
                  [Fresh(outbox[e].version + 1) EXCEPT !.published = outbox[e].published]]
  /\ sequence' = sequence + 1
  /\ UNCHANGED <<replica, claimed, touched, draining, mongoFaults, drainFaults>>

\* The latest state under a stable id: the row is renewed and is to be published again.
\* The update waits for a drain that holds the row.
enqueueOutboxSnapshot(e) ==
  /\ e \in Snapshots /\ ~Locked(e) /\ outbox[e].version < MaxVersions
  /\ outbox' = [outbox EXCEPT ![e] = Fresh(outbox[e].version + 1)]
  /\ sequence' = sequence + 1
  /\ UNCHANGED <<replica, claimed, touched, draining, mongoFaults, drainFaults>>

-----------------------------------------------------------------------------
(* The projector *)

Claimable == {e \in Events : Present(e) /\ ~outbox[e].published /\ ~outbox[e].dead /\ outbox[e].due}

\* The batch: due rows in the order of their sequence numbers.
claim ==
  /\ ~draining /\ Claimable # {}
  /\ draining' = TRUE
  /\ claimed' = {e \in Claimable :
       Cardinality({d \in Claimable : outbox[d].sequence < outbox[e].sequence}) < BatchSize}
  /\ UNCHANGED <<outbox, sequence, replica, touched, mongoFaults, drainFaults>>

groupByAggregate(e) == {d \in claimed : AggregateOf[d] = AggregateOf[e]}

\* The first row of its aggregate's group: groups go one after the other.
NextRow(e) ==
  /\ e \in claimed
  /\ \A d \in groupByAggregate(e) : outbox[d].sequence >= outbox[e].sequence

Touch(e, row) == [x \in DOMAIN touched \cup {e} |-> IF x = e THEN row ELSE touched[x]]

\* A bug: the document is addressed by its aggregate.
ReplaceByAggregate(e) ==
  [d \in Events |-> IF AggregateOf[d] = AggregateOf[e] THEN outbox[e].version ELSE replica[d]]

replaceOne(e) == [replica EXCEPT ![e] = outbox[e].version]

publishRow(e) ==
  /\ draining /\ NextRow(e)
  /\ replica' = replaceOne(e)
  /\ touched' = Touch(e, [outbox[e] EXCEPT !.published = TRUE])
  /\ claimed' = claimed \ {e}
  /\ UNCHANGED <<outbox, sequence, draining, mongoFaults, drainFaults>>

\* Mongo refuses: a retry later or a dead letter, and the rest of the group is left.
publishFails(e) ==
  /\ draining /\ NextRow(e) /\ mongoFaults < MaxMongoFaults
  /\ mongoFaults' = mongoFaults + 1
  /\ touched' = Touch(e, [outbox[e] EXCEPT !.attempts = @ + 1, !.due = FALSE,
                            !.dead = outbox[e].attempts + 1 >= MaxPublishAttempts])
  /\ claimed' = claimed \ groupByAggregate(e)
  /\ UNCHANGED <<outbox, sequence, replica, draining, drainFaults>>

drainBatch ==
  /\ draining /\ claimed = {}
  /\ outbox' = [e \in Events |-> IF e \in DOMAIN touched THEN touched[e] ELSE outbox[e]]
  /\ touched' = <<>> /\ draining' = FALSE
  /\ UNCHANGED <<sequence, replica, claimed, mongoFaults, drainFaults>>

\* The process dies, or a statement of the transaction fails: what Mongo got, it keeps.
drainLost ==
  /\ draining /\ drainFaults < MaxDrainFaults
  /\ drainFaults' = drainFaults + 1
  /\ claimed' = {} /\ touched' = <<>> /\ draining' = FALSE
  /\ UNCHANGED <<outbox, sequence, replica, mongoFaults>>

\* The retry time of a row comes.
backoffMs(e) ==
  /\ Present(e) /\ ~outbox[e].due /\ ~outbox[e].dead /\ ~Locked(e)
  /\ outbox' = [outbox EXCEPT ![e].due = TRUE]
  /\ UNCHANGED <<sequence, replica, claimed, touched, draining, mongoFaults, drainFaults>>

\* The operator's replay of unpublished rows, with or without a new attempt budget.
outboxReplay(e) ==
  /\ Present(e) /\ ~outbox[e].published /\ outbox[e].dead /\ ~Locked(e)
  /\ drainFaults < MaxDrainFaults
  /\ drainFaults' = drainFaults + 1
  /\ \E attempts \in {0, outbox[e].attempts} :
       outbox' = [outbox EXCEPT ![e] =
                    [@ EXCEPT !.dead = FALSE, !.due = TRUE, !.attempts = attempts]]
  /\ UNCHANGED <<sequence, replica, claimed, touched, draining, mongoFaults>>

ProjectorStep ==
  \/ claim
  \/ \E e \in Events : publishRow(e) \/ backoffMs(e)
  \/ drainBatch

OutboxNext ==
  \/ \E e \in Events : enqueueOutbox(e) \/ enqueueOutboxSnapshot(e)
  \/ ProjectorStep
  \/ \E e \in Events : publishFails(e) \/ outboxReplay(e)
  \/ drainLost

\* The projector's timer runs for ever; Mongo is reachable again after finitely many faults.
OutboxSpec == OutboxInit /\ [][OutboxNext]_outboxVars /\ WF_outboxVars(ProjectorStep)

-----------------------------------------------------------------------------
(* Properties *)

\* The outbox implements the lagging replica: whatever batches are lost between Mongo and
\* PostgreSQL, a document never goes back to an older payload and never precedes its fact.
AbstractReplica == INSTANCE Replica WITH
  Facts <- Events, source <- [e \in Events |-> outbox[e].version], copy <- replica

ImplementsReplica == AbstractReplica!ReplicaSpec

\* Every committed fact reaches Mongo in its last version, or is kept as a dead letter:
\* a crash between the Mongo write and the commit, and a renewed row, lose nothing.
FactsAreReplicated ==
  \A e \in Events : [](Present(e) => <>(outbox[e].dead \/ replica[e] = outbox[e].version))

\* projector.ts: "a trade's CLOSED projection can never land before its OPENED projection".
AggregateOrderKept ==
  \A d, e \in Events \ Snapshots :
    (AggregateOf[d] = AggregateOf[e] /\ d < e /\ replica[e] > 0) => replica[d] > 0
=============================================================================
