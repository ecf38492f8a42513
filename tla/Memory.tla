-------------------------------- MODULE Memory --------------------------------
(***************************************************************************)
(* MemoryService over InMemoryMemoryStore.  The store locks each of its    *)
(* calls, the service locks nothing: a write is a look for an equal record,*)
(* a put and an audit event, a deletion a look, a tombstone and an event,  *)
(* and threads interleave between these.                                   *)
(*                                                                         *)
(* A memory is its fingerprint: redacted content, and where it belongs.    *)
(***************************************************************************)
EXTENDS Naturals, FiniteSets

CONSTANTS Fingerprints, Place,  \* the scope and scope_id that each belongs to
          Callers, Granted,     \* the places that the access of each caller covers
          MaxRecords,           \* bound: records
          MaxSinkFaults         \* bound: events that the sink refuses

ASSUME MemoryAssumption == MaxRecords \in Nat /\ MaxSinkFaults \in Nat

VARIABLES records,   \* of each id in use: fingerprint, and whether it is a tombstone
          caller,    \* the operation that each caller is in
          audit,     \* the events that the sink has taken
          refused    \* the events that it has not

memoryVars == <<records, caller, audit, refused>>

MemoryIds == 1 .. MaxRecords
Live == {m \in DOMAIN records : ~records[m].deleted}
Resting == [at |-> "rest"]

\* can_read, and can_delete, which is the same.
MayTouch(c, f) == Place[f] \in Granted[c]

Event(type, m) == [type |-> type, memory |-> m]

MemoryInit ==
    /\ records = [m \in {} |-> 0]
    /\ caller = [c \in Callers |-> Resting]
    /\ audit = {} /\ refused = {}

\* write: within the caller's scope, and not if a live record is equal.
BeginWrite(c, f) ==
    /\ caller[c] = Resting
    /\ MayTouch(c, f)
    /\ \A m \in Live : records[m].fingerprint # f
    /\ caller' = [caller EXCEPT ![c] = [at |-> "put", fingerprint |-> f]]
    /\ UNCHANGED <<records, audit, refused>>

\* Mutant: a tombstone with the same fingerprint is used again.
IdOrTombstone(f) ==
    LET old == {m \in DOMAIN records : records[m].fingerprint = f /\ records[m].deleted}
    IN IF old # {} THEN old ELSE {Cardinality(DOMAIN records) + 1}

IdFor(f) == {Cardinality(DOMAIN records) + 1}

PutRecord(c) ==
    /\ caller[c].at = "put"
    /\ \E m \in IdFor(caller[c].fingerprint) \cap MemoryIds :
          /\ records' = [i \in DOMAIN records \cup {m} |->
                           IF i = m THEN [fingerprint |-> caller[c].fingerprint, deleted |-> FALSE]
                           ELSE records[i]]
          /\ caller' = [caller EXCEPT ![c] = [at |-> "emit", event |-> Event("written", m)]]
    /\ UNCHANGED <<audit, refused>>

\* delete: of a live record that the caller may read.
BeginForget(c, m) ==
    /\ caller[c] = Resting
    /\ m \in Live /\ MayTouch(c, records[m].fingerprint)
    /\ caller' = [caller EXCEPT ![c] = [at |-> "tombstone", memory |-> m]]
    /\ UNCHANGED <<records, audit, refused>>

\* The store accepts a record that somebody else has deleted meanwhile.
Forget(c) ==
    /\ caller[c].at = "tombstone"
    /\ records' = [records EXCEPT ![caller[c].memory].deleted = TRUE]
    /\ caller' = [caller EXCEPT ![c] =
                    [at |-> "emit", event |-> Event("deleted", caller[c].memory)]]
    /\ UNCHANGED <<audit, refused>>

Emit(c) ==
    /\ caller[c].at = "emit"
    /\ audit' = audit \cup {caller[c].event}
    /\ caller' = [caller EXCEPT ![c] = Resting]
    /\ UNCHANGED <<records, refused>>

\* The sink raises, and the operation fails with its effect in the store.
RefuseEvent(c) ==
    /\ caller[c].at = "emit" /\ Cardinality(refused) < MaxSinkFaults
    /\ refused' = refused \cup {caller[c].event}
    /\ caller' = [caller EXCEPT ![c] = Resting]
    /\ UNCHANGED <<records, audit>>

MemoryNext ==
    \E c \in Callers :
       \/ \E f \in Fingerprints : BeginWrite(c, f)
       \/ \E m \in MemoryIds : BeginForget(c, m)
       \/ PutRecord(c) \/ Forget(c) \/ Emit(c) \/ RefuseEvent(c)

MemorySpec == MemoryInit /\ [][MemoryNext]_memoryVars

-----------------------------------------------------------------------------

\* The audit events account for the store: each memory has a written event and is
\* live until it has a deleted event, or the caller that changed it is about to
\* emit what is missing, or the sink refused it.
AuditAccountsForMemory ==
    LET known == audit \cup refused
                 \cup {caller[c].event : c \in {d \in Callers : caller[d].at = "emit"}}
    IN \A m \in DOMAIN records :
          /\ Event("written", m) \in known
          /\ records[m].deleted <=> Event("deleted", m) \in known
=============================================================================
