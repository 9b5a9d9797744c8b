------------------------- MODULE StorageProtection -------------------------
(* One SQLite workflow database shared by several processes of one tenant:  *)
(* the schema migrations each runs when it opens the database, the marker   *)
(* that the database is protected, the encryption of its documents, the     *)
(* migration of plaintext rows and the rotation and retirement of keys      *)
(* (storage/protection.go, storage/sqlite). A document is what its bytes    *)
(* are: the keys of the envelopes around it, outermost first, <<>> for      *)
(* plaintext. A process has one connection and SQLite admits one writer, so *)
(* a transaction is one step, but for the encoding of a document, which     *)
(* another process's or the key provider's step may separate from its       *)
(* commit.                                                                  *)
EXTENDS Integers, Sequences, FiniteSets

CONSTANTS Processes, Keys, Documents

ASSUME StorageAssumption == Keys # {}

CurrentSchemaVersion == 5
Repeatable == {1, 2}        \* migrations of CREATE ... IF NOT EXISTS alone

VARIABLES
    db,         \* [version, applied, marked]: user_version, schema, storage_settings
    docs,       \* document |-> the wraps of its row, a set of at most one
    proc,       \* process |-> its open store, if any
    keyring,    \* process |-> [keys, current]: StaticKeyProvider
    gone,       \* keys the operator has retired
    migrated    \* ProtectExistingDocuments succeeded with every store protected
storageVars == <<db, docs, proc, keyring, gone, migrated>>

Down == [at |-> "down", protector |-> FALSE, allow |-> FALSE, seen |-> 0, pending |-> {}]
FirstKey(k) == [keys |-> {k}, current |-> k]

StorageInit ==
    /\ db = [version |-> 0, applied |-> {}, marked |-> FALSE]
    /\ docs = [d \in Documents |-> {}] /\ proc = [p \in Processes |-> Down]
    /\ \E k \in Keys : keyring = [p \in Processes |-> FirstKey(k)]
    /\ gone = {} /\ migrated = FALSE

Up(p) == proc[p].at = "up"
HasProtector(p) == Up(p) /\ proc[p].protector

-----------------------------------------------------------------------------
(* Opening the database *)

(* OpenWithOptions: the schema version is read once, before the first       *)
(* migration's transaction.                                                 *)
Open(p, protector, allow) ==
    /\ proc[p].at = "down"
    /\ proc' = [proc EXCEPT ![p] = [Down EXCEPT !.at = "opening", !.protector = protector,
                                               !.allow = allow, !.seen = db.version]]
    /\ UNCHANGED <<db, docs, keyring, gone, migrated>>

Migrate(p) ==
    LET n == proc[p].seen + 1
    IN /\ proc[p].at = "opening" /\ n <= CurrentSchemaVersion
       /\ n \notin db.applied \ Repeatable
       /\ db' = [db EXCEPT !.version = n, !.applied = @ \cup {n}]
       /\ proc' = [proc EXCEPT ![p].seen = n]
       /\ UNCHANGED <<docs, keyring, gone, migrated>>

(* ALTER TABLE finds its column there: the transaction and Open fail.       *)
MigrationFails(p) ==
    /\ proc[p].at = "opening" /\ proc[p].seen + 1 \in db.applied \ Repeatable
    /\ proc' = [proc EXCEPT ![p] = Down]
    /\ UNCHANGED <<db, docs, keyring, gone, migrated>>

RefusesMarked(p) == db.marked /\ ~proc[p].protector

ConfigureProtection(p) ==
    /\ proc[p].at = "opening" /\ proc[p].seen = CurrentSchemaVersion
    /\ proc' = IF RefusesMarked(p) THEN [proc EXCEPT ![p] = Down]
                                   ELSE [proc EXCEPT ![p].at = "up"]
    /\ db' = [db EXCEPT !.marked = @ \/ proc[p].protector]
    /\ UNCHANGED <<docs, keyring, gone, migrated>>

(* Close, or a crash: a document that was not written yet is lost.          *)
Stop(p) ==
    /\ proc[p].at # "down"
    /\ proc' = [proc EXCEPT ![p] = Down]
    /\ UNCHANGED <<db, docs, keyring, gone, migrated>>

-----------------------------------------------------------------------------
(* Documents *)

Marshal(p) == IF proc[p].protector THEN <<keyring[p].current>> ELSE <<>>

(* Unmarshal gives the document. An envelope parses without a protector, as *)
(* a document of no tenant, which no update accepts.                        *)
Unmarshals(p, wraps) ==
    IF wraps = <<>> THEN ~proc[p].protector \/ proc[p].allow
    ELSE proc[p].protector /\ Head(wraps) \in keyring[p].keys

(* A document is encoded: for an insert, before its statement; for an       *)
(* update, between the statement that reads the row and the one that writes *)
(* it. workflowStore.Publish encodes when its transaction has written       *)
(* already and holds the write lock: it is the case of a Commit that finds  *)
(* the row as it was read.                                                  *)
EncodeInsert(p, d) ==
    /\ Up(p) /\ proc[p].pending = {} /\ docs[d] = {}
    /\ proc' = [proc EXCEPT ![p].pending = {[doc |-> d, read |-> {}, wraps |-> Marshal(p)]}]
    /\ UNCHANGED <<db, docs, keyring, gone, migrated>>

EncodeUpdate(p, d) ==
    /\ Up(p) /\ proc[p].pending = {}
    /\ \E wraps \in docs[d] :
          /\ Unmarshals(p, wraps)
          /\ proc' = [proc EXCEPT ![p].pending =
                         {[doc |-> d, read |-> {wraps}, wraps |-> Marshal(p)]}]
    /\ UNCHANGED <<db, docs, keyring, gone, migrated>>

(* The primary key, or the lock of the reading transaction, lets it in only *)
(* if nobody wrote the row meanwhile.                                       *)
Commit(p) ==
    \E row \in proc[p].pending :
       /\ docs' = IF docs[row.doc] = row.read THEN [docs EXCEPT ![row.doc] = {row.wraps}]
                                              ELSE docs
       /\ proc' = [proc EXCEPT ![p].pending = {}]
       /\ UNCHANGED <<db, keyring, gone, migrated>>

(* Mutant: an envelope counts as a document to protect.                     *)
ProtectedFormAgain(p, wraps) == <<keyring[p].current>> \o wraps

ProtectedForm(p, wraps) == IF wraps = <<>> THEN <<keyring[p].current>> ELSE wraps

(* migrated: no store without a protector was open.                         *)
ProtectExistingDocuments(p) ==
    /\ HasProtector(p) /\ proc[p].pending = {}
    /\ docs' = [d \in Documents |-> {ProtectedForm(p, wraps) : wraps \in docs[d]}]
    /\ migrated' = (migrated \/ \A q \in Processes : Up(q) => HasProtector(q))
    /\ UNCHANGED <<db, proc, keyring, gone>>

(* One row that is plaintext or under an unknown key fails them all.        *)
RotateProtectedDocuments(p) ==
    /\ HasProtector(p) /\ proc[p].pending = {}
    /\ \A d \in Documents : \A wraps \in docs[d] :
          wraps # <<>> /\ Unmarshals(p, wraps)
    /\ docs' = [d \in Documents |->
                  {<<keyring[p].current>> \o Tail(wraps) : wraps \in docs[d]}]
    /\ UNCHANGED <<db, proc, keyring, gone, migrated>>

-----------------------------------------------------------------------------
(* Keys *)

Rotate(p, k) ==
    /\ k \notin gone
    /\ keyring' = [keyring EXCEPT ![p].keys = @ \cup {k}, ![p].current = k]
    /\ UNCHANGED <<db, docs, proc, gone, migrated>>

Locked(k) == {d \in Documents : \E wraps \in docs[d] : wraps # <<>> /\ Head(wraps) = k}

(* The operator retires a key that is current nowhere, once every document  *)
(* has been re-protected, on every process.                                 *)
Retire(k) ==
    /\ k \notin gone /\ \A p \in Processes : keyring[p].current # k
    /\ Locked(k) = {}
    /\ gone' = gone \cup {k}
    /\ keyring' = [p \in Processes |-> [keyring[p] EXCEPT !.keys = @ \ {k}]]
    /\ UNCHANGED <<db, docs, proc, migrated>>

StorageNext ==
    \/ \E p \in Processes :
          \/ \E protector, allow \in BOOLEAN : Open(p, protector, allow)
          \/ Migrate(p) \/ MigrationFails(p) \/ ConfigureProtection(p) \/ Stop(p)
          \/ \E d \in Documents : EncodeInsert(p, d) \/ EncodeUpdate(p, d)
          \/ Commit(p)
          \/ ProtectExistingDocuments(p) \/ RotateProtectedDocuments(p)
          \/ \E k \in Keys : Rotate(p, k)
    \/ \E k \in Keys : Retire(k)

StorageSpec == StorageInit /\ [][StorageNext]_storageVars

-----------------------------------------------------------------------------
(* No document is ever inside two envelopes, whatever mixture of            *)
(* migrations, rotations and writers with other keys has handled it         *)
(* (docs/WORKFLOWS.md: envelopes never get double-encrypted).               *)
SingleEnvelope == \A d \in Documents : \A wraps \in docs[d] : Len(wraps) <= 1

(* Once the rows have been migrated while every open store had its          *)
(* protector, no plaintext appears again: a process that opens without a    *)
(* protector fails, however the openings interleave (configureProtection).  *)
NoPlaintextLeft == migrated => \A d \in Documents : <<>> \notin docs[d]

(* Both: a document is in one envelope, or in none only before migration.   *)
EnvelopesWhole == SingleEnvelope /\ NoPlaintextLeft

(* The procedure of docs/WORKFLOWS.md (rotate the key, re-protect every     *)
(* document, verify the reads, retire the old key) locks no document away.  *)
NothingLocked == \A k \in gone : Locked(k) = {}

(* When nobody is opening the database, the recorded version is the version *)
(* of its schema (docs/WORKFLOWS.md: ordered, transactional migrations, the *)
(* current version in user_version).                                        *)
RecordedVersionIsSchema ==
    (\A p \in Processes : proc[p].at # "opening") => db.applied = 1 .. db.version
=============================================================================
