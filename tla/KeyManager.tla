----------------------------- MODULE KeyManager -----------------------------
(***************************************************************************)
(* The key pair of one domain: the key managers (registry/keymanager.go)   *)
(* and the DNS resolvers (cmd/node/dns.go, registry/dns.go) of the nodes,  *)
(* which share one directory of key files (docker-compose.yml mounts it    *)
(* into every container), and the commands that use them: keygen, set dns  *)
(* and publish, beside the validation of incoming pointers.                *)
(*                                                                         *)
(* A key pair is a number, in the order of generation.  Only the processes *)
(* of one node share a mutex.  os.WriteFile truncates the file and writes  *)
(* it later: in between it cannot be parsed, and when two nodes write at   *)
(* once, the longer text may show behind the shorter one for good.         *)
(***************************************************************************)
EXTENDS Integers, Sequences, SequencesExt

CONSTANTS
    Nodes,
    None,           \* no key, and no file
    Empty,          \* a file that has been truncated
    Garbled,        \* a file that two nodes have written over each other
    MaxKeys,        \* bound: the number of calls of keygen
    DNSKeys         \* the keys that the system's DNS may answer with

ASSUME KeyManagerAssumption ==
    /\ {None, Empty, Garbled} \cap Int = {}
    /\ Empty # Garbled
    /\ MaxKeys \in Nat
    /\ DNSKeys \subseteq Int

VARIABLES
    file,           \* the key file: None, Empty, Garbled or a key
    memory,         \* KeyManager.keys of each node
    records,        \* MockDNSResolver.records of each node
    cli,            \* the command that each node runs, with its locals
    handler,        \* the validation that each node runs
    generated,      \* the number of keys generated
    written,        \* history: the keys in the order they were written
    view,           \* history: the last key each key manager has given
    manual          \* history: the nodes whose record was set by set dns

vars == <<file, memory, records, cli, handler, generated, written, view, manual>>

Keys == 1..MaxKeys

Idle == [pc |-> "idle", key |-> None, owner |-> None, since |-> 0]

Init ==
    /\ file = None
    /\ memory = [n \in Nodes |-> None]
    /\ records = [n \in Nodes |-> None]
    /\ cli = [n \in Nodes |-> Idle]
    /\ handler = [n \in Nodes |-> Idle]
    /\ generated = 0
    /\ written = <<>>
    /\ view = [n \in Nodes |-> None]
    /\ manual = {}

-----------------------------------------------------------------------------
(* keygen.                                                                 *)

Keygen(n) ==
    /\ cli[n].pc = "idle"
    /\ generated < MaxKeys
    /\ generated' = generated + 1
    /\ cli' = [cli EXCEPT ![n] = [Idle EXCEPT !.pc = "save", !.key = generated + 1]]
    /\ UNCHANGED <<file, memory, records, handler, written, view, manual>>

\* Save takes the mutex, and os.WriteFile truncates the file.
SaveTruncate(n) ==
    /\ cli[n].pc = "save"
    /\ file' = Empty
    /\ cli' = [cli EXCEPT ![n].pc = "write"]
    /\ UNCHANGED <<memory, records, handler, generated, written, view, manual>>

\* Another node may have written since the file was truncated.
SaveWrite(n) ==
    /\ cli[n].pc = "write"
    /\ \/ file' = cli[n].key
       \/ file # Empty /\ file' = Garbled
    /\ written' = Append(written, cli[n].key)
    /\ cli' = [cli EXCEPT ![n].pc = "keep"]
    /\ UNCHANGED <<memory, records, handler, generated, view, manual>>

\* The file cannot be opened, or not be written: Save leaves it as it is.
SaveFails(n) ==
    /\ cli[n].pc \in {"save", "write"}
    /\ cli' = [cli EXCEPT ![n] = Idle]
    /\ UNCHANGED <<file, memory, records, handler, generated, written, view, manual>>

\* The key enters the map, and Save releases the mutex.
SaveKeep(n) ==
    /\ cli[n].pc = "keep"
    /\ memory' = [memory EXCEPT ![n] = cli[n].key]
    /\ view' = [view EXCEPT ![n] = cli[n].key]
    /\ cli' = [cli EXCEPT ![n].pc = "set"]
    /\ UNCHANGED <<file, records, handler, generated, written, manual>>

KeygenSetKey(n) ==
    /\ cli[n].pc = "set"
    /\ records' = [records EXCEPT ![n] = cli[n].key]
    /\ manual' = manual \ {n}
    /\ cli' = [cli EXCEPT ![n] = Idle]
    /\ UNCHANGED <<file, memory, handler, generated, written, view>>

HandleSet(n, k) ==
    /\ cli[n].pc = "idle"
    /\ records' = [records EXCEPT ![n] = k]
    /\ manual' = manual \cup {n}
    /\ UNCHANGED <<file, memory, cli, handler, generated, written, view>>

-----------------------------------------------------------------------------
(* Load and LookupOwnerKey.                                                *)

Locked(n) == cli[n].pc \in {"write", "keep"}

\* The key of the file, if there is one and it can be parsed.
LoadDomainKeyPair == IF file \in Keys THEN file ELSE None

\* Mutant: a file that cannot be parsed is an error.
LoadFileOnly(n) == LoadDomainKeyPair

\* What Load returns: the file's key, else the one in memory.
Load(n) == IF LoadDomainKeyPair # None THEN LoadDomainKeyPair ELSE memory[n]

\* Mutant: Load does not keep what it has read.
LoadUncached(n) ==
    /\ ~Locked(n)
    /\ view' = [view EXCEPT ![n] = Load(n)]
    /\ UNCHANGED memory

Loads(n) ==
    /\ ~Locked(n)
    /\ memory' = [memory EXCEPT ![n] = Load(n)]
    /\ view' = [view EXCEPT ![n] = Load(n)]

\* Mutant: the records of the local resolver come first.
OwnerRecordFirst(n, owner) ==
    IF records[n] # None THEN {records[n]} ELSE {owner} \ {None}

\* The keys that LookupOwnerKey may return, once Load has given owner; none
\* if the domain is not found.
Owner(n, owner) ==
    IF owner # None THEN {owner}
    ELSE IF records[n] # None THEN {records[n]}
    ELSE DNSKeys

\* The key that Load gave is kept in the local resolver as well.
Record(n, owner) ==
    IF owner = None THEN UNCHANGED <<records, manual>>
    ELSE records' = [records EXCEPT ![n] = owner] /\ manual' = manual \ {n}

\* The validation of a pointer that another node has sent.
ValidateLoad(n) ==
    /\ handler[n].pc = "idle"
    /\ Loads(n)
    /\ handler' = [handler EXCEPT ![n] = [Idle EXCEPT !.pc = "validating", !.owner = Load(n)]]
    /\ UNCHANGED <<file, records, cli, generated, written, manual>>

ValidateAnswer(n) ==
    /\ handler[n].pc = "validating"
    /\ Record(n, handler[n].owner)
    /\ handler' = [handler EXCEPT ![n] = Idle]
    /\ UNCHANGED <<file, memory, cli, generated, written, view>>

-----------------------------------------------------------------------------
(* publish.  With --force, and when there is no key, it ends after Load as *)
(* far as keys are concerned.                                              *)

PublishLoad(n, force) ==
    /\ cli[n].pc = "idle"
    /\ Loads(n)
    /\ cli' = IF force \/ Load(n) = None THEN cli
              ELSE [cli EXCEPT ![n] =
                     [pc |-> "check", key |-> Load(n), owner |-> None, since |-> Len(written)]]
    /\ UNCHANGED <<file, records, handler, generated, written, manual>>

\* The key is compared with the owner's, and the validation of the pointer
\* by the node's own store compares it once more.
PublishOwner(n, pc, next) ==
    /\ cli[n].pc = pc
    /\ Loads(n)
    /\ cli' = [cli EXCEPT ![n].pc = next, ![n].owner = Load(n)]
    /\ UNCHANGED <<file, records, handler, generated, written, manual>>

PublishCheck(n) == PublishOwner(n, "check", "checking")

PublishMatches(n) ==
    /\ cli[n].pc = "checking"
    /\ cli[n].key \in Owner(n, cli[n].owner)
    /\ Record(n, cli[n].owner)
    /\ cli' = [cli EXCEPT ![n].pc = "store"]
    /\ UNCHANGED <<file, memory, handler, generated, written, view>>

\* Domain not found, or ownership mismatch.
PublishRefused(n) ==
    /\ cli[n].pc = "checking"
    /\ Owner(n, cli[n].owner) # {cli[n].key}
    /\ Record(n, cli[n].owner)
    /\ cli' = [cli EXCEPT ![n] = Idle]
    /\ UNCHANGED <<file, memory, handler, generated, written, view>>

PublishStore(n) == PublishOwner(n, "store", "storing")

\* The pointer is stored or refused: publish returns.
PublishStored(n) ==
    /\ cli[n].pc = "storing"
    /\ Record(n, cli[n].owner)
    /\ cli' = [cli EXCEPT ![n] = Idle]
    /\ UNCHANGED <<file, memory, handler, generated, written, view>>

\* The process ends at any point.  createNode loads the key file, if it can.
Restart(n) ==
    /\ memory' = [memory EXCEPT ![n] = LoadDomainKeyPair]
    /\ records' = [records EXCEPT ![n] = LoadDomainKeyPair]
    /\ manual' = manual \ {n}
    /\ view' = [view EXCEPT ![n] = LoadDomainKeyPair]
    /\ cli' = [cli EXCEPT ![n] = Idle]
    /\ handler' = [handler EXCEPT ![n] = Idle]
    /\ UNCHANGED <<file, generated, written>>

Next ==
    \E n \in Nodes :
        \/ Keygen(n) \/ SaveTruncate(n) \/ SaveWrite(n) \/ SaveFails(n)
        \/ SaveKeep(n) \/ KeygenSetKey(n)
        \/ \E k \in DNSKeys \cup 1..generated : HandleSet(n, k)
        \/ ValidateLoad(n) \/ ValidateAnswer(n)
        \/ \E force \in BOOLEAN : PublishLoad(n, force)
        \/ PublishCheck(n) \/ PublishMatches(n) \/ PublishRefused(n)
        \/ PublishStore(n) \/ PublishStored(n)
        \/ Restart(n)

Spec == Init /\ [][Next]_vars

-----------------------------------------------------------------------------
(* Properties *)

(***************************************************************************)
(* A node that has had the key of the domain goes on resolving the domain  *)
(* for as long as it runs, though another node truncates the shared file,  *)
(* crashes while it writes it, or garbles it: Load falls back on memory.   *)
(***************************************************************************)
KeyKept == \A n \in Nodes : view[n] # None => Load(n) # None

\* The place of a key among those written, and 0 for no key.
Position(keys, k) == SelectInSeq(keys, LAMBDA w : w = k)

(***************************************************************************)
(* No node goes back to a key that has been replaced: the keys that Load   *)
(* gives on a node come in the order in which they were written, whatever  *)
(* the node has cached, and also while the file cannot be read because the *)
(* next key is being written.  A restart alone may lose the key.           *)
(***************************************************************************)
NeverStale ==
    [][\A n \in Nodes : view'[n] # None =>
         Position(written', view'[n]) >= Position(written, view[n])]_vars

(***************************************************************************)
(* publish reads the key twice, for signing and as the owner's key.  It is *)
(* refused for a mismatch between the two only if keygen has written a key *)
(* in the meantime or the owner's key was set by hand: never for what an   *)
(* earlier lookup or a file in the making has left in a cache.  Which of a *)
(* key file and a record set by hand should count is left open here.       *)
(***************************************************************************)
MismatchMeansRotation ==
    [][\A n \in Nodes : PublishRefused(n) /\ n \notin manual =>
         Len(written) > cli[n].since]_vars

=============================================================================
