---------------------------- MODULE PostgresStore ----------------------------
(***************************************************************************)
(* Postgres.ApplyCanonicalUpdate statement by statement, for concurrent    *)
(* writers.                                                                *)
(*                                                                         *)
(* The transaction runs at READ COMMITTED, PostgreSQL's default: every     *)
(* statement sees what is committed when it starts and the changes of its  *)
(* own transaction.  The changes become visible to others at the commit.   *)
(* A transaction-scoped advisory lock, taken first, is released when the   *)
(* transaction ends, a broken connection or a killed process included.     *)
(***************************************************************************)
EXTENDS IndexStore

CONSTANTS
    Writer,     \* the concurrent callers
    NoWriter,   \* nobody holds the lock
    Updates     \* the updates they may pass

ASSUME PostgresStoreAssumption ==
    /\ NoWriter \notin Writer
    /\ Updates \subseteq Update

VARIABLES
    blocks,     \* the committed rows of table blocks
    syncState,  \* the committed rows of table sync_state
    update,     \* the update each writer passed last
    outcome,    \* pending, or how its last call ended
    pc,         \* the next statement of each writer
    holder,     \* the writer that holds the advisory lock
    deleted,    \* the rows of blocks its transaction has deleted
    inserted,   \* how many of its blocks it has inserted
    tip         \* the tip it has read back

storeVars == <<blocks, syncState, update, outcome>>
vars == <<blocks, syncState, update, outcome, pc, holder, deleted, inserted,
          tip>>

-----------------------------------------------------------------------------
\* The rows of blocks a statement of w's transaction sees.
Visible(w) ==
    (blocks \ deleted[w]) \cup {update[w].blocks[k] : k \in 1..inserted[w]}

Init ==
    /\ blocks = {}
    /\ syncState = {}
    /\ update \in [Writer -> Updates]
    /\ outcome = [w \in Writer |-> "none"]
    /\ pc = [w \in Writer |-> "idle"]
    /\ holder = NoWriter
    /\ deleted = [w \in Writer |-> {}]
    /\ inserted = [w \in Writer |-> 0]
    /\ tip = [w \in Writer |-> NoBlock]

\* A mistake: a session lock, which the end of the transaction does not free.
lockKept(w, o) ==
    /\ outcome' = [outcome EXCEPT ![w] = o]
    /\ pc' = [pc EXCEPT ![w] = "idle"]
    /\ deleted' = [deleted EXCEPT ![w] = {}]
    /\ inserted' = [inserted EXCEPT ![w] = 0]
    /\ tip' = [tip EXCEPT ![w] = NoBlock]
    /\ UNCHANGED <<update, holder>>

\* The call returns; the deferred Rollback, or the commit before it, has
\* ended the transaction.
Return(w, o) ==
    /\ outcome' = [outcome EXCEPT ![w] = o]
    /\ pc' = [pc EXCEPT ![w] = "idle"]
    /\ holder' = IF holder = w THEN NoWriter ELSE holder
    /\ deleted' = [deleted EXCEPT ![w] = {}]
    /\ inserted' = [inserted EXCEPT ![w] = 0]
    /\ tip' = [tip EXCEPT ![w] = NoBlock]
    /\ UNCHANGED update

Goto(w, next) == pc' = [pc EXCEPT ![w] = next] /\ UNCHANGED storeVars

call(w) ==
    /\ pc[w] = "idle"
    /\ \E u \in Updates : update' = [update EXCEPT ![w] = u]
    /\ outcome' = [outcome EXCEPT ![w] = "pending"]
    /\ pc' = [pc EXCEPT ![w] = "begin"]
    /\ UNCHANGED <<blocks, syncState, holder, deleted, inserted, tip>>

begin(w) ==
    /\ pc[w] = "begin"
    /\ \/ /\ validatePostgresUpdate(update[w])
          /\ Goto(w, "lock")
          /\ UNCHANGED <<holder, deleted, inserted, tip>>
       \/ /\ ~ validatePostgresUpdate(update[w])
          /\ Return(w, "rejected")
          /\ UNCHANGED <<blocks, syncState>>

\* pg_advisory_xact_lock waits until the lock is free.
lock(w) ==
    /\ pc[w] = "lock"
    /\ holder = NoWriter
    /\ holder' = w
    /\ Goto(w, "chain")
    /\ UNCHANGED <<deleted, inserted, tip>>

checkChain(w) ==
    /\ pc[w] = "chain"
    /\ \/ /\ ~ rejectDifferentChain(syncState, update[w])
          /\ Goto(w, "delete")
          /\ UNCHANGED <<holder, deleted, inserted, tip>>
       \/ /\ rejectDifferentChain(syncState, update[w])
          /\ Return(w, "rejected")
          /\ UNCHANGED <<blocks, syncState>>

deleteRange(w) ==
    /\ pc[w] = "delete"
    /\ deleted' = [deleted EXCEPT
          ![w] = Visible(w) \ deleteCanonicalRange(Visible(w), update[w])]
    /\ Goto(w, "parent")
    /\ UNCHANGED <<holder, inserted, tip>>

checkParent(w) ==
    /\ pc[w] = "parent"
    /\ \/ /\ validateRetainedParent(Visible(w), update[w])
          /\ Goto(w, "insert")
          /\ UNCHANGED <<holder, deleted, inserted, tip>>
       \/ /\ ~ validateRetainedParent(Visible(w), update[w])
          /\ Return(w, "rejected")
          /\ UNCHANGED <<blocks, syncState>>

\* A batch is sent once it is full, so the rows arrive a few at a time.
insertBatch(w) ==
    /\ pc[w] = "insert"
    /\ inserted[w] < Len(update[w].blocks)
    /\ inserted' = [inserted EXCEPT ![w] = @ + 1]
    /\ UNCHANGED <<storeVars, pc, holder, deleted, tip>>

\* A mistake: the tip is read on another connection of the pool.
tipOutsideTransaction(w) ==
    /\ pc[w] = "insert"
    /\ inserted[w] = Len(update[w].blocks)
    /\ tip' = [tip EXCEPT ![w] = CanonicalTip(blocks)]
    /\ Goto(w, "commit")
    /\ UNCHANGED <<holder, deleted, inserted>>

\* canonicalTipInTransaction, after the last batch.
readTip(w) ==
    /\ pc[w] = "insert"
    /\ inserted[w] = Len(update[w].blocks)
    /\ tip' = [tip EXCEPT ![w] = CanonicalTip(Visible(w))]
    /\ Goto(w, "commit")
    /\ UNCHANGED <<holder, deleted, inserted>>

\* writeSyncState and the commit, whose acknowledgement may be lost.
commit(w) ==
    /\ pc[w] = "commit"
    /\ blocks' = Visible(w)
    /\ syncState' = writeSyncState(syncState, update[w], tip[w])
    /\ \E o \in {"applied", "failed"} : Return(w, o)

\* A mistake: statements outside a transaction; those that ran stay.
noRollback(w) ==
    /\ pc[w] # "idle"
    /\ Return(w, "failed")
    /\ blocks' = Visible(w)
    /\ UNCHANGED syncState

\* A statement fails, the context ends, or the process dies: rollback.
fail(w) ==
    /\ pc[w] # "idle"
    /\ Return(w, "failed")
    /\ UNCHANGED <<blocks, syncState>>

TxStep(w) ==
    \/ begin(w)
    \/ lock(w)
    \/ checkChain(w)
    \/ deleteRange(w)
    \/ checkParent(w)
    \/ insertBatch(w)
    \/ readTip(w)
    \/ commit(w)

Next == \E w \in Writer : call(w) \/ TxStep(w) \/ fail(w)

Spec == Init /\ [][Next]_vars

\* Each statement returns, and PostgreSQL grants a lock to its waiters in
\* the order they came.
FairSpec ==
    /\ Spec
    /\ \A w \in Writer : WF_vars(TxStep(w)) /\ SF_vars(lock(w))

-----------------------------------------------------------------------------
TypeOK ==
    /\ blocks \subseteq Block
    /\ syncState \subseteq SyncStateRow
    /\ update \in [Writer -> Updates]
    /\ outcome \in [Writer -> {"none", "pending", "applied", "rejected",
                               "failed"}]
    /\ pc \in [Writer -> {"idle", "begin", "lock", "chain", "delete",
                          "parent", "insert", "commit"}]
    /\ holder \in Writer \cup {NoWriter}
    /\ deleted \in [Writer -> SUBSET Block]
    /\ inserted \in [Writer -> Nat]
    /\ tip \in [Writer -> Block \cup {NoBlock}]

\* What is known about a transaction at each of its statements.  It holds
\* because nobody else can commit while the writer holds the lock.
TxOK(w) ==
    LET u == update[w] IN
    /\ pc[w] # "idle" <=> outcome[w] = "pending"
    /\ pc[w] \notin {"idle", "begin"} => validatePostgresUpdate(u)
    /\ pc[w] \notin {"idle", "begin", "lock"} => holder = w
    /\ pc[w] \notin {"idle", "begin", "lock", "chain"} =>
          ~ rejectDifferentChain(syncState, u)
    /\ pc[w] \in {"idle", "begin", "lock", "chain", "delete"} =>
          deleted[w] = {}
    /\ pc[w] \in {"parent", "insert", "commit"} =>
          deleted[w] = blocks \ deleteCanonicalRange(blocks, u)
    /\ pc[w] \in {"insert", "commit"} =>
          validateRetainedParent(deleteCanonicalRange(blocks, u), u)
    /\ pc[w] \notin {"insert", "commit"} => inserted[w] = 0
    /\ pc[w] = "insert" => inserted[w] <= Len(u.blocks)
    /\ pc[w] = "commit" =>
          /\ inserted[w] = Len(u.blocks)
          /\ tip[w] = CanonicalTip(Visible(w))

TxConsistent == \A w \in Writer : TxOK(w)

Store == INSTANCE AtomicStore WITH
    blocks <- blocks, syncState <- syncState, update <- update,
    outcome <- outcome

\* Concurrent calls behave as if each happened at one instant: no reader ever
\* sees a part of an update, none is lost or mixed with another, and a call is
\* rejected only for what the tables held at that instant.
Atomic == Store!Spec

\* INSERT never runs into the primary key on blocks.number: a conflict would
\* turn a valid update into a database error that every retry meets again.
NoKeyConflict ==
    \A w \in Writer : \A k \in 1..Len(update[w].blocks) :
        pc[w] = "insert" /\ k > inserted[w] =>
            \A b \in Visible(w) : Number[b] # Number[update[w].blocks[k]]

\* Every call returns: waiting for the advisory lock cannot last for ever,
\* however often the other writers come back.
EveryCallReturns == \A w \in Writer : pc[w] # "idle" ~> pc[w] = "idle"
=============================================================================
